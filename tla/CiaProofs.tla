------------------------------ MODULE CiaProofs ------------------------------
(***************************************************************************)
(* A program cannot tell the CIA's timer that skips cycles and leaves       *)
(* alarms out from one that runs through every cycle: for every width of    *)
(* the counter and of CLOCK, every latch and every sequence of stores,      *)
(* reads, alarms, resets and moves of the clock.                            *)
(*                                                                         *)
(* The inductive invariant (Tracked, below) says two things.  The timer,    *)
(* were it run through as many cycles as have passed since it was brought   *)
(* up to date, would be like the exact one (Lags); and what an alarm that   *)
(* is due will do to flags and line is what the exact chip has done         *)
(* already (Foretells).  It rests on what the operators do: ciat_update is  *)
(* as many single cycles as have passed (UpdateIsAfter), ciat_set_alarm     *)
(* finds the first underflow (NextUnderflowWhen), and where the alarm was   *)
(* left out there is no underflow that anybody would notice (Alarmed).      *)
(***************************************************************************)
EXTENDS CiaTimerA, WellFoundedInduction, TLAPS

-----------------------------------------------------------------------------
(* Induction and recursion.                                                 *)

(* Every set of natural numbers has a least element.                        *)
LEMMA LeastNatural ==
    ASSUME NEW S \in SUBSET Nat, S # {}
    PROVE  \E x \in S : \A y \in S : x <= y
<1>1. PICK x \in S : \A y \in S : <<y, x>> \notin OpToRel(<, Nat)
  BY WFMin, NatLessThanWellFounded, Zenon
<1>2. ASSUME NEW y \in S  PROVE  ~(y < x)
  BY <1>1 DEF OpToRel
<1> QED BY <1>2

LEMMA Induction ==
    ASSUME NEW G \in SUBSET Nat, 0 \in G, \A k \in G : k + 1 \in G
    PROVE  \A k \in Nat : k \in G
<1> SUFFICES ASSUME NEW k \in Nat, k \notin G  PROVE FALSE
  OBVIOUS
<1> DEFINE Bad == {i \in Nat : i \notin G}
<1>1. PICK i \in Bad : \A j \in Bad : i <= j
  <2>1. Bad \in SUBSET Nat /\ Bad # {}
    OBVIOUS
  <2> HIDE DEF Bad
  <2> QED BY <2>1, LeastNatural
<1>2. i \in Nat /\ i # 0 /\ i - 1 \in Nat
  OBVIOUS
<1>3. i - 1 \in G
  BY <1>1, <1>2
<1>4. (i - 1) + 1 \in G /\ (i - 1) + 1 = i
  BY <1>2, <1>3
<1> QED BY <1>4

(* A loop that goes on with next until it is done defines a function.       *)
LoopOf(f, S, done, value, next) ==
    f = [x \in S |-> IF x \in done THEN value[x] ELSE f[next[x]]]

LEMMA Loop ==
    ASSUME NEW S, NEW done \in SUBSET S, NEW value, NEW next \in [S -> S]
    PROVE  \E f : LoopOf(f, S, done, value, next)
<1> DEFINE Path(p, n, x, y) ==
               /\ p[0] = x /\ p[n] = y
               /\ \A i \in 0 .. n - 1 : p[i] \notin done /\ p[i + 1] = next[p[i]]
           Ends(x) == {y \in done : \E n \in Nat : \E p : Path(p, n, x, y)}
           Pick(T) == CHOOSE y : y \in T
           f == [x \in S |-> value[Pick(Ends(x))]]
<1>1. ASSUME NEW x \in done  PROVE Ends(x) = {x}
  <2>1. x \in Ends(x)
    <3> DEFINE p == [i \in {0} |-> x]
    <3>1. Path(p, 0, x, x)
      OBVIOUS
    <3> HIDE DEF p, Path
    <3> QED BY <3>1
  <2>2. ASSUME NEW y \in Ends(x)  PROVE y = x
    <3>1. PICK n \in Nat : \E p : Path(p, n, x, y)
      OBVIOUS
    <3>2. PICK p : Path(p, n, x, y)
      BY <3>1
    <3>3. n = 0
      <4>1. n # 0 => 0 \in 0 .. n - 1
        OBVIOUS
      <4> QED BY <3>2, <4>1
    <3> QED BY <3>2, <3>3
  <2> HIDE DEF Ends
  <2> QED BY <2>1, <2>2
<1>2. ASSUME NEW x \in S, x \notin done  PROVE Ends(x) = Ends(next[x])
  <2>1. ASSUME NEW y \in Ends(x)  PROVE y \in Ends(next[x])
    <3>1. PICK n \in Nat : \E p : Path(p, n, x, y)
      OBVIOUS
    <3>2. PICK p : Path(p, n, x, y)
      BY <3>1
    <3>3. n # 0
      BY <1>2, <3>2
    <3> DEFINE q == [i \in 0 .. n - 1 |-> p[i + 1]]
    <3>4. q[0] = next[x]
      <4>1. 0 \in 0 .. n - 1 /\ 0 + 1 = 1
        BY <3>3
      <4> QED BY <3>2, <4>1
    <3>5. q[n - 1] = y
      <4>1. n - 1 \in 0 .. n - 1 /\ (n - 1) + 1 = n
        BY <3>3
      <4> QED BY <3>2, <4>1
    <3>6. ASSUME NEW i \in 0 .. (n - 1) - 1
          PROVE  q[i] \notin done /\ q[i + 1] = next[q[i]]
      <4>1. i \in 0 .. n - 1 /\ i + 1 \in 0 .. n - 1
        BY <3>3
      <4>2. q[i] = p[i + 1] /\ q[i + 1] = p[(i + 1) + 1]
        BY <4>1
      <4> QED BY <3>2, <4>1, <4>2
    <3>7. n - 1 \in Nat /\ Path(q, n - 1, next[x], y)
      <4> HIDE DEF q
      <4> QED BY <3>3, <3>4, <3>5, <3>6
    <3> HIDE DEF q, Path
    <3> QED BY <3>7
  <2>2. ASSUME NEW y \in Ends(next[x])  PROVE y \in Ends(x)
    <3>1. PICK n \in Nat : \E p : Path(p, n, next[x], y)
      OBVIOUS
    <3>2. PICK p : Path(p, n, next[x], y)
      BY <3>1
    <3> DEFINE q == [i \in 0 .. n + 1 |-> IF i = 0 THEN x ELSE p[i - 1]]
    <3>3. q[0] = x
      OBVIOUS
    <3>4. q[n + 1] = y
      <4>1. n + 1 \in 0 .. n + 1 /\ n + 1 # 0 /\ (n + 1) - 1 = n
        OBVIOUS
      <4> QED BY <3>2, <4>1
    <3>5. ASSUME NEW i \in 0 .. (n + 1) - 1
          PROVE  q[i] \notin done /\ q[i + 1] = next[q[i]]
      <4>1. i \in 0 .. n + 1 /\ i + 1 \in 0 .. n + 1 /\ i + 1 # 0 /\ (i + 1) - 1 = i
        OBVIOUS
      <4>2. q[i + 1] = p[i]
        BY <4>1
      <4>3. CASE i = 0
        BY <1>2, <3>2, <4>2, <4>3
      <4>4. CASE i # 0
        <5>1. i - 1 \in 0 .. n - 1 /\ (i - 1) + 1 = i
          BY <4>4
        <5>2. q[i] = p[i - 1]
          BY <4>1, <4>4
        <5> QED BY <3>2, <4>2, <5>1, <5>2
      <4> QED BY <4>3, <4>4
    <3>6. n + 1 \in Nat /\ Path(q, n + 1, x, y)
      <4> HIDE DEF q
      <4> QED BY <3>3, <3>4, <3>5
    <3> HIDE DEF q, Path
    <3> QED BY <3>6
  <2> HIDE DEF Ends
  <2> QED BY <2>1, <2>2
<1>3. ASSUME NEW x \in S
      PROVE  f[x] = IF x \in done THEN value[x] ELSE f[next[x]]
  <2>1. CASE x \in done
    <3>1. Pick(Ends(x)) = x
      <4> HIDE DEF Ends
      <4> QED BY <1>1, <2>1
    <3> HIDE DEF Ends, Pick
    <3> QED BY <2>1, <3>1
  <2>2. CASE x \notin done
    <3>1. Ends(x) = Ends(next[x]) /\ next[x] \in S
      <4> HIDE DEF Ends
      <4> QED BY <1>2, <2>2
    <3> HIDE DEF Ends, Pick
    <3> QED BY <2>2, <3>1
  <2> QED BY <2>1, <2>2
<1>4. f = [x \in S |-> f[x]]
  <2> HIDE DEF Ends, Pick
  <2> QED OBVIOUS
<1>5. f = [x \in S |-> IF x \in done THEN value[x] ELSE f[next[x]]]
  <2> HIDE DEF f
  <2> QED BY <1>3, <1>4
<1> HIDE DEF f
<1>6. LoopOf(f, S, done, value, next)
  BY <1>5, Zenon DEF LoopOf
<1> QED BY <1>6

-----------------------------------------------------------------------------
(* Constants, flags and timers.                                             *)

LEMMA Constants ==
    /\ Base \in Nat /\ Word \in Nat /\ 4 <= Word
    /\ SubMin \in Nat /\ ClockMax \in Nat /\ Word + 6 <= SubMin /\ 2 * SubMin < ClockMax
    /\ GuardMax = ClockMax - SubMin /\ GuardSub = ClockMax - 2 * SubMin
    /\ GuardMax \in Nat /\ GuardSub \in Nat /\ GuardSub >= 1
    /\ Never = ClockMax /\ Clock = 0 .. ClockMax
<1>1. Word \in Nat /\ 4 <= Word
  <2>1. PICK b \in Nat : b = Base /\ b >= 2
    BY CiaAssumption
  <2>2. b * b \in Nat /\ b * b >= 2 * b
    <3>1. PICK c \in Nat : c = b - 2
      BY <2>1
    <3>2. c * b \in Nat /\ b * b = c * b + 2 * b
      BY <3>1
    <3> QED BY <3>2
  <2> QED BY <2>1, <2>2 DEF Word
<1>2. Base \in Nat /\ SubMin \in Nat /\ ClockMax \in Nat
  BY CiaAssumption, ClockMaxAssumption
<1>3. Word + 6 <= SubMin /\ 2 * SubMin < ClockMax
  BY CiaAssumption
<1>4. GuardMax = ClockMax - SubMin /\ GuardSub = GuardMax - SubMin
  BY DEF GuardMax, GuardSub
<1> QED BY <1>1, <1>2, <1>3, <1>4 DEF Never, Clock

LEMMA ClockSums ==
    ASSUME NEW t \in Clock, NEW d \in Nat
    PROVE  ClockAdd(t, d) \in Clock /\ (t + d <= ClockMax => ClockAdd(t, d) = t + d)
<1>1. PICK m \in Nat \ {0} : m = ClockMax + 1
  BY Constants
<1>2. PICK s \in Nat : s = t + d
  BY Constants
<1>3. s % m \in 0 .. m - 1 /\ (s < m => s % m = s)
  OBVIOUS
<1> QED BY <1>1, <1>2, <1>3, Constants DEF ClockAdd

LEMMA SameFlags ==
    ASSUME NEW t \in SUBSET Flags, NEW u \in SUBSET Flags,
           "START" \in t <=> "START" \in u, "PHI2IN" \in t <=> "PHI2IN" \in u,
           "ONESHOT_CR" \in t <=> "ONESHOT_CR" \in u, "FLOAD" \in t <=> "FLOAD" \in u,
           "STEP" \in t <=> "STEP" \in u, "COUNT2" \in t <=> "COUNT2" \in u,
           "COUNT3" \in t <=> "COUNT3" \in u, "COUNT" \in t <=> "COUNT" \in u,
           "LOAD1" \in t <=> "LOAD1" \in u, "LOAD" \in t <=> "LOAD" \in u,
           "ONESHOT0" \in t <=> "ONESHOT0" \in u, "ONESHOT" \in t <=> "ONESHOT" \in u,
           "OUT" \in t <=> "OUT" \in u
    PROVE  t = u
<1>1. ASSUME NEW f \in Flags  PROVE f \in t <=> f \in u
  <2>1. \/ f = "START" \/ f = "PHI2IN" \/ f = "ONESHOT_CR" \/ f = "FLOAD" \/ f = "STEP"
        \/ f = "COUNT2" \/ f = "COUNT3" \/ f = "COUNT" \/ f = "LOAD1" \/ f = "LOAD"
        \/ f = "ONESHOT0" \/ f = "ONESHOT" \/ f = "OUT"
    BY DEF Flags, CrBits
  <2> QED BY <2>1
<1>2. ASSUME NEW f  PROVE f \in t <=> f \in u
  BY <1>1
<1> QED BY <1>2

LEMMA SameTimer ==
    ASSUME NEW r \in Timers, NEW s \in Timers, r.flags = s.flags, r.cnt = s.cnt,
           r.latch = s.latch, r.clk = s.clk, r.alarmclk = s.alarmclk, r.n = s.n
    PROVE  r = s
BY DEF Timers

LEMMA TimerFields ==
    ASSUME NEW r \in Timers
    PROVE  /\ r.flags \in SUBSET Flags /\ r.cnt \in 0 .. Word - 1 /\ r.latch \in 0 .. Word - 1
           /\ r.clk \in Clock /\ r.alarmclk \in Clock /\ r.n \in Nat
BY DEF Timers

LEMMA ClockNumbers ==
    ASSUME NEW t \in Clock
    PROVE  t \in Nat /\ t <= ClockMax /\ ClockMax \in Nat
BY ClockMaxAssumption DEF Clock

LEMMA TimerNumbers ==
    ASSUME NEW r \in Timers
    PROVE  /\ r.clk \in Nat /\ r.clk <= ClockMax /\ r.alarmclk \in Nat /\ r.n \in Nat
           /\ r.cnt \in Nat /\ r.cnt < Word /\ r.latch \in Nat /\ r.latch < Word
           /\ Word \in Nat \ {0}
<1>1. Word \in Nat \ {0}
  BY Constants
<1>2. r.clk \in Nat /\ r.clk <= ClockMax /\ r.alarmclk \in Nat /\ r.n \in Nat
  BY TimerFields, ClockNumbers
<1>3. r.cnt \in 0 .. Word - 1 /\ r.latch \in 0 .. Word - 1
  BY TimerFields
<1> QED BY <1>1, <1>2, <1>3

LEMMA ShiftedFlags ==
    ASSUME NEW t \in SUBSET Flags
    PROVE  /\ Shifted(t) \in SUBSET Flags
           /\ "START" \in Shifted(t) <=> "START" \in t
           /\ "PHI2IN" \in Shifted(t) <=> "PHI2IN" \in t
           /\ "ONESHOT_CR" \in Shifted(t) <=> "ONESHOT_CR" \in t
           /\ "FLOAD" \notin Shifted(t) /\ "STEP" \notin Shifted(t) /\ "OUT" \notin Shifted(t)
           /\ "COUNT2" \in Shifted(t) <=> "START" \in t /\ "PHI2IN" \in t
           /\ "COUNT3" \in Shifted(t) <=> "COUNT2" \in t \/ ("STEP" \in t /\ "START" \in t)
           /\ "COUNT" \in Shifted(t) <=> "COUNT3" \in t
           /\ "LOAD1" \in Shifted(t) <=> "FLOAD" \in t
           /\ "LOAD" \in Shifted(t) <=> "LOAD1" \in t
           /\ "ONESHOT0" \in Shifted(t) <=> "ONESHOT_CR" \in t
           /\ "ONESHOT" \in Shifted(t) <=> "ONESHOT0" \in t
<1>1. Shifted(t) \in SUBSET Flags
  BY DEF Shifted, Only, Flags, CrBits
<1>2. "START" \in Shifted(t) <=> "START" \in t
  BY DEF Shifted, Only, Flags, CrBits
<1>3. "PHI2IN" \in Shifted(t) <=> "PHI2IN" \in t
  BY DEF Shifted, Only, Flags, CrBits
<1>4. "ONESHOT_CR" \in Shifted(t) <=> "ONESHOT_CR" \in t
  BY DEF Shifted, Only, Flags, CrBits
<1>5. "FLOAD" \notin Shifted(t) /\ "STEP" \notin Shifted(t) /\ "OUT" \notin Shifted(t)
  BY DEF Shifted, Only, Flags, CrBits
<1>6. "COUNT2" \in Shifted(t) <=> "START" \in t /\ "PHI2IN" \in t
  BY DEF Shifted, Only, Flags, CrBits
<1>7. "COUNT3" \in Shifted(t) <=> "COUNT2" \in t \/ ("STEP" \in t /\ "START" \in t)
  BY DEF Shifted, Only, Flags, CrBits
<1>8. "COUNT" \in Shifted(t) <=> "COUNT3" \in t
  BY DEF Shifted, Only, Flags, CrBits
<1>9. "LOAD1" \in Shifted(t) <=> "FLOAD" \in t
  BY DEF Shifted, Only, Flags, CrBits
<1>10. "LOAD" \in Shifted(t) <=> "LOAD1" \in t
  BY DEF Shifted, Only, Flags, CrBits
<1>11. "ONESHOT0" \in Shifted(t) <=> "ONESHOT_CR" \in t
  BY DEF Shifted, Only, Flags, CrBits
<1>12. "ONESHOT" \in Shifted(t) <=> "ONESHOT0" \in t
  BY DEF Shifted, Only, Flags, CrBits
<1> QED BY <1>1, <1>2, <1>3, <1>4, <1>5, <1>6, <1>7, <1>8, <1>9, <1>10, <1>11, <1>12

-----------------------------------------------------------------------------
(* What a cycle does to a timer.                                            *)

Step(r) == Settle(Cycle(r))

Counted(r) == IF r.cnt # 0 /\ "COUNT3" \in r.flags THEN r.cnt - 1 ELSE r.cnt

\* The timer underflows in the next cycle.
Out(r) == Counted(r) = 0 /\ "COUNT3" \in Shifted(r.flags)

Loads(r) == Out(r) \/ "LOAD1" \in r.flags

\* A timer in one-shot mode stops.
Stops(r) == Out(r) /\ ("ONESHOT_CR" \in r.flags \/ "ONESHOT0" \in r.flags)

(* The value of a timer r after the flags w.flags and the counter w.cnt     *)
(* have been settled.                                                       *)
LEMMA SettleFields ==
    ASSUME NEW w \in Timers
    PROVE  LET u == Settle(w)
           IN  /\ u \in Timers
               /\ u.clk = w.clk /\ u.latch = w.latch /\ u.alarmclk = w.alarmclk
               /\ Underflows(w) => u.n = w.n + 1
               /\ ~Underflows(w) => u.n = w.n
               /\ Underflows(w) \/ "LOAD" \in w.flags => u.cnt = w.latch
               /\ ~Underflows(w) /\ "LOAD" \notin w.flags => u.cnt = w.cnt
               /\ LET stops == /\ Underflows(w) \/ "OUT" \in w.flags
                               /\ "ONESHOT" \in w.flags \/ "ONESHOT0" \in w.flags
                  IN  /\ "START" \in u.flags <=> "START" \in w.flags /\ ~stops
                      /\ "COUNT2" \in u.flags <=> "COUNT2" \in w.flags /\ ~stops
               /\ "COUNT3" \in u.flags <=>
                      "COUNT3" \in w.flags /\ ~Underflows(w) /\ "LOAD" \notin w.flags
               /\ "LOAD" \in u.flags <=> "LOAD" \in w.flags \/ Underflows(w)
               /\ "OUT" \in u.flags <=> "OUT" \in w.flags \/ Underflows(w)
               /\ \A f \in Flags \ {"START", "COUNT2", "COUNT3", "LOAD", "OUT"} :
                      f \in u.flags <=> f \in w.flags
<1> DEFINE out == w.flags \cup (IF Underflows(w) THEN {"LOAD", "OUT"} ELSE {})
           loads == "LOAD" \in out
           loaded == IF loads THEN out \ {"COUNT3"} ELSE out
           stops == "OUT" \in out /\ out \cap {"ONESHOT", "ONESHOT0"} # {}
           flags == IF stops THEN loaded \ {"START", "COUNT2"} ELSE loaded
<1>1. /\ w.flags \in SUBSET Flags /\ w.cnt \in 0 .. Word - 1 /\ w.latch \in 0 .. Word - 1
      /\ w.n \in Nat
  BY TimerFields
<1>2. flags \in SUBSET Flags
  BY <1>1 DEF Flags
<1>3. PICK u : u = [w EXCEPT !.flags = flags,
                             !.cnt = IF loads THEN w.latch ELSE w.cnt,
                             !.n = IF Underflows(w) THEN w.n + 1 ELSE w.n]
  OBVIOUS
<1>4. u = Settle(w)
  BY <1>3, Zenon DEF Settle
<1>5. loads <=> Underflows(w) \/ "LOAD" \in w.flags
  OBVIOUS
<1>6. stops <=> /\ Underflows(w) \/ "OUT" \in w.flags
                /\ "ONESHOT" \in w.flags \/ "ONESHOT0" \in w.flags
  OBVIOUS
<1>7. /\ "START" \in flags <=> "START" \in w.flags /\ ~stops
      /\ "COUNT2" \in flags <=> "COUNT2" \in w.flags /\ ~stops
      /\ "COUNT3" \in flags <=> "COUNT3" \in w.flags /\ ~loads
      /\ "LOAD" \in flags <=> "LOAD" \in w.flags \/ Underflows(w)
      /\ "OUT" \in flags <=> "OUT" \in w.flags \/ Underflows(w)
  <2>1. loaded \in SUBSET Flags
    BY <1>1 DEF Flags
  <2>2. /\ "START" \in loaded <=> "START" \in w.flags
        /\ "COUNT2" \in loaded <=> "COUNT2" \in w.flags
        /\ "COUNT3" \in loaded <=> "COUNT3" \in w.flags /\ ~loads
        /\ "LOAD" \in loaded <=> "LOAD" \in w.flags \/ Underflows(w)
        /\ "OUT" \in loaded <=> "OUT" \in w.flags \/ Underflows(w)
    OBVIOUS
  <2> HIDE DEF loaded, stops, loads
  <2> QED BY <2>1, <2>2
<1>8. ASSUME NEW f \in Flags \ {"START", "COUNT2", "COUNT3", "LOAD", "OUT"}
      PROVE  f \in flags <=> f \in w.flags
  OBVIOUS
<1> HIDE DEF flags, stops, loads
<1>9. u \in Timers
  <2>1. PICK c \in 0 .. Word - 1 : c = IF loads THEN w.latch ELSE w.cnt
    BY <1>1
  <2>2. PICK n \in Nat : n = IF Underflows(w) THEN w.n + 1 ELSE w.n
    BY <1>1
  <2>3. u = [w EXCEPT !.flags = flags, !.cnt = c, !.n = n]
    BY <1>3, <2>1, <2>2, Zenon
  <2> QED BY ONLY w \in Timers, <1>2, <2>3 DEF Timers
<1>10. /\ u.flags = flags /\ u.clk = w.clk /\ u.latch = w.latch /\ u.alarmclk = w.alarmclk
       /\ u.cnt = IF loads THEN w.latch ELSE w.cnt
       /\ u.n = IF Underflows(w) THEN w.n + 1 ELSE w.n
  BY <1>3 DEF Timers
<1> QED BY <1>4, <1>5, <1>6, <1>7, <1>8, <1>9, <1>10

LEMMA CycleFields ==
    ASSUME NEW r \in Timers
    PROVE  LET w == Cycle(r)
           IN  /\ w \in Timers /\ w.flags = Shifted(r.flags) /\ w.cnt = Counted(r)
               /\ w.clk = ClockAdd(r.clk, 1) /\ w.latch = r.latch
               /\ w.alarmclk = r.alarmclk /\ w.n = r.n
               /\ Underflows(w) <=> Out(r)
<1>1. PICK c \in 0 .. Word - 1 : c = Counted(r)
  BY TimerFields, Constants DEF Counted
<1>2. PICK t \in SUBSET Flags : t = Shifted(r.flags)
  BY TimerFields, ShiftedFlags
<1>3. PICK k \in Clock : k = ClockAdd(r.clk, 1)
  BY TimerFields, ClockSums
<1>4. PICK w : w = [r EXCEPT !.cnt = c, !.flags = t, !.clk = k]
  OBVIOUS
<1>5. w = Cycle(r)
  BY <1>1, <1>2, <1>3, <1>4, Zenon DEF Cycle, Counted
<1>6. /\ w \in Timers /\ w.flags = t /\ w.cnt = c /\ w.clk = k /\ w.latch = r.latch
      /\ w.alarmclk = r.alarmclk /\ w.n = r.n
  BY ONLY r \in Timers, <1>4 DEF Timers
<1>7. Underflows(w) <=> Out(r)
  BY <1>1, <1>2, <1>6 DEF Underflows, Out
<1> QED BY <1>1, <1>2, <1>3, <1>5, <1>6, <1>7

LEMMA StepFields ==
    ASSUME NEW r \in Timers
    PROVE  LET u == Step(r)
           IN  /\ u \in Timers
               /\ u.clk = ClockAdd(r.clk, 1) /\ u.latch = r.latch /\ u.alarmclk = r.alarmclk
               /\ Out(r) => u.n = r.n + 1
               /\ ~Out(r) => u.n = r.n
               /\ Loads(r) => u.cnt = r.latch
               /\ ~Loads(r) => u.cnt = Counted(r)
               /\ "START" \in u.flags <=> "START" \in r.flags /\ ~Stops(r)
               /\ "PHI2IN" \in u.flags <=> "PHI2IN" \in r.flags
               /\ "ONESHOT_CR" \in u.flags <=> "ONESHOT_CR" \in r.flags
               /\ "FLOAD" \notin u.flags /\ "STEP" \notin u.flags
               /\ "COUNT2" \in u.flags <=>
                      "START" \in r.flags /\ "PHI2IN" \in r.flags /\ ~Stops(r)
               /\ "COUNT3" \in u.flags <=>
                      /\ "COUNT2" \in r.flags \/ ("STEP" \in r.flags /\ "START" \in r.flags)
                      /\ ~Loads(r)
               /\ "COUNT" \in u.flags <=> "COUNT3" \in r.flags
               /\ "LOAD1" \in u.flags <=> "FLOAD" \in r.flags
               /\ "LOAD" \in u.flags <=> Loads(r)
               /\ "OUT" \in u.flags <=> Out(r)
               /\ "ONESHOT0" \in u.flags <=> "ONESHOT_CR" \in r.flags
               /\ "ONESHOT" \in u.flags <=> "ONESHOT0" \in r.flags
<1>1. PICK w \in Timers : /\ w = Cycle(r) /\ w.flags = Shifted(r.flags) /\ w.cnt = Counted(r)
                          /\ w.clk = ClockAdd(r.clk, 1) /\ w.latch = r.latch
                          /\ w.alarmclk = r.alarmclk /\ w.n = r.n
                          /\ Underflows(w) <=> Out(r)
  BY CycleFields
<1>2. PICK u : u = Settle(w)
  OBVIOUS
<1>3. u = Step(r)
  BY <1>1, <1>2, Zenon DEF Step
<1>4. /\ u \in Timers
      /\ u.clk = ClockAdd(r.clk, 1) /\ u.latch = r.latch /\ u.alarmclk = r.alarmclk
      /\ Out(r) => u.n = r.n + 1
      /\ ~Out(r) => u.n = r.n
  BY <1>1, <1>2, SettleFields
<1>5. "LOAD" \in w.flags <=> "LOAD1" \in r.flags
  BY <1>1, ShiftedFlags, TimerFields
<1>6. /\ Loads(r) => u.cnt = r.latch
      /\ ~Loads(r) => u.cnt = Counted(r)
  BY <1>1, <1>2, <1>5, SettleFields DEF Loads
<1>7. Stops(r) <=> /\ Underflows(w) \/ "OUT" \in w.flags
                   /\ "ONESHOT" \in w.flags \/ "ONESHOT0" \in w.flags
  BY <1>1, ShiftedFlags, TimerFields DEF Stops
<1>8. /\ "START" \in u.flags <=> "START" \in w.flags /\ ~Stops(r)
      /\ "COUNT2" \in u.flags <=> "COUNT2" \in w.flags /\ ~Stops(r)
      /\ "COUNT3" \in u.flags <=> "COUNT3" \in w.flags /\ ~Loads(r)
      /\ "LOAD" \in u.flags <=> Loads(r)
      /\ "OUT" \in u.flags <=> Out(r) \/ "OUT" \in w.flags
  BY <1>1, <1>2, <1>5, <1>7, SettleFields DEF Loads
<1>9. \A f \in {"PHI2IN", "ONESHOT_CR", "FLOAD", "STEP", "COUNT", "LOAD1", "ONESHOT0", "ONESHOT"} :
          f \in u.flags <=> f \in w.flags
  <2>1. ASSUME NEW f \in {"PHI2IN", "ONESHOT_CR", "FLOAD", "STEP", "COUNT", "LOAD1",
                          "ONESHOT0", "ONESHOT"}
        PROVE  f \in Flags \ {"START", "COUNT2", "COUNT3", "LOAD", "OUT"}
    BY DEF Flags, CrBits
  <2> QED BY <1>2, <2>1, SettleFields
<1>10. PICK t \in SUBSET Flags : t = r.flags /\ w.flags = Shifted(t)
  BY <1>1, TimerFields
<1>11. /\ "START" \in u.flags <=> "START" \in t /\ ~Stops(r)
       /\ "COUNT2" \in u.flags <=> "START" \in t /\ "PHI2IN" \in t /\ ~Stops(r)
       /\ "COUNT3" \in u.flags <=>
              ("COUNT2" \in t \/ ("STEP" \in t /\ "START" \in t)) /\ ~Loads(r)
       /\ "OUT" \in u.flags <=> Out(r)
  BY <1>8, <1>10, ShiftedFlags
<1>12. /\ "PHI2IN" \in u.flags <=> "PHI2IN" \in t
       /\ "ONESHOT_CR" \in u.flags <=> "ONESHOT_CR" \in t
       /\ "FLOAD" \notin u.flags /\ "STEP" \notin u.flags
       /\ "COUNT" \in u.flags <=> "COUNT3" \in t
       /\ "LOAD1" \in u.flags <=> "FLOAD" \in t
       /\ "ONESHOT0" \in u.flags <=> "ONESHOT_CR" \in t
       /\ "ONESHOT" \in u.flags <=> "ONESHOT0" \in t
  BY <1>9, <1>10, ShiftedFlags
<1> QED BY <1>3, <1>4, <1>6, <1>8, <1>10, <1>11, <1>12

(* When a timer underflows.                                                 *)
LEMMA OutMeans ==
    ASSUME NEW r \in Timers
    PROVE  Out(r) <=> /\ "COUNT2" \in r.flags \/ ("STEP" \in r.flags /\ "START" \in r.flags)
                      /\ r.cnt = 0 \/ (r.cnt = 1 /\ "COUNT3" \in r.flags)
BY TimerFields, ShiftedFlags, Constants DEF Out, Counted

LEMMA SteadyMeans ==
    ASSUME NEW t \in SUBSET Flags
    PROVE  Steady(t) <=> /\ "ONESHOT_CR" \in t <=> "ONESHOT0" \in t
                         /\ "ONESHOT0" \in t <=> "ONESHOT" \in t
BY DEF Steady

LEMMA CountingMeans ==
    ASSUME NEW t \in SUBSET Flags
    PROVE  Counting(t) <=>
               /\ "START" \in t /\ "PHI2IN" \in t
               /\ "COUNT2" \in t /\ "COUNT3" \in t /\ "COUNT" \in t
               /\ "FLOAD" \notin t /\ "LOAD1" \notin t /\ "LOAD" \notin t
               /\ Steady(t)
<1> DEFINE all == {"START", "FLOAD", "LOAD1", "PHI2IN", "COUNT2", "COUNT3", "COUNT", "LOAD"}
           some == {"START", "PHI2IN", "COUNT2", "COUNT3", "COUNT"}
<1>1. ASSUME t \cap all = some
      PROVE  /\ "START" \in t /\ "PHI2IN" \in t
             /\ "COUNT2" \in t /\ "COUNT3" \in t /\ "COUNT" \in t
             /\ "FLOAD" \notin t /\ "LOAD1" \notin t /\ "LOAD" \notin t
  <2>1. ASSUME NEW f \in some  PROVE f \in t
    <3> HIDE DEF all, some
    <3> QED BY <1>1, <2>1
  <2>2. ASSUME NEW f \in all, f \notin some  PROVE f \notin t
    <3> HIDE DEF all, some
    <3> QED BY <1>1, <2>2
  <2> QED BY <2>1, <2>2
<1>2. ASSUME /\ "START" \in t /\ "PHI2IN" \in t
             /\ "COUNT2" \in t /\ "COUNT3" \in t /\ "COUNT" \in t
             /\ "FLOAD" \notin t /\ "LOAD1" \notin t /\ "LOAD" \notin t
      PROVE  t \cap all = some
  BY <1>2
<1> QED BY <1>1, <1>2 DEF Counting

LEMMA StandingMeans ==
    ASSUME NEW t \in SUBSET Flags
    PROVE  /\ Standing(t) <=>
                  /\ "COUNT2" \notin t /\ "COUNT3" \notin t /\ "COUNT" \notin t
                  /\ "START" \notin t \/ ("PHI2IN" \notin t /\ "STEP" \notin t)
                  /\ Steady(t)
           /\ Stopped(t) <=>
                  /\ Standing(t)
                  /\ "FLOAD" \notin t /\ "LOAD1" \notin t /\ "LOAD" \notin t
BY DEF Standing, Stopped

(* A timer as programs, underflows and alarms leave it.                     *)
Sound(r) ==
    /\ "STEP" \notin r.flags
    /\ "LOAD" \in r.flags => "COUNT3" \notin r.flags
    /\ "OUT" \in r.flags => "LOAD" \in r.flags
    /\ r.cnt = 0 /\ "COUNT3" \in r.flags => "START" \notin r.flags

Settled(r) == r.cnt = 0 => "COUNT3" \notin r.flags

LEMMA StepSound ==
    ASSUME NEW r \in Timers
    PROVE  /\ Settled(Step(r))
           /\ "STEP" \notin Step(r).flags
           /\ "LOAD" \in Step(r).flags => "COUNT3" \notin Step(r).flags
           /\ "OUT" \in Step(r).flags => "LOAD" \in Step(r).flags
           /\ Sound(Step(r))
<1>1. Settled(Step(r))
  <2>1. CASE Loads(r)
    BY <2>1, StepFields DEF Settled
  <2>2. CASE ~Loads(r)
    BY <2>2, StepFields, OutMeans, TimerFields, ShiftedFlags DEF Settled, Loads, Out
  <2> QED BY <2>1, <2>2
<1>2. /\ "STEP" \notin Step(r).flags
      /\ "LOAD" \in Step(r).flags => "COUNT3" \notin Step(r).flags
      /\ "OUT" \in Step(r).flags => "LOAD" \in Step(r).flags
  BY StepFields DEF Loads
<1> QED BY <1>1, <1>2 DEF Sound, Settled

-----------------------------------------------------------------------------
(* Many cycles.                                                             *)

Steps[x \in Nat \X Timers] == IF x[1] = 0 THEN x[2] ELSE Steps[<<x[1] - 1, Step(x[2])>>]

After(r, k) == Steps[<<k, r>>]

LEMMA AfterDefined ==
    ASSUME NEW r \in Timers
    PROVE  /\ After(r, 0) = r
           /\ \A k \in Nat : After(r, k + 1) = After(Step(r), k)
<1> DEFINE S == Nat \X Timers
           done == {x \in S : x[1] = 0}
           value == [x \in S |-> x[2]]
           next == [x \in S |-> IF x[1] = 0 THEN x ELSE <<x[1] - 1, Step(x[2])>>]
<1>1. next \in [S -> S]
  <2>1. ASSUME NEW x \in S  PROVE next[x] \in S
    <3>1. PICK i \in Nat, s \in Timers : x = <<i, s>>
      OBVIOUS
    <3>2. Step(s) \in Timers
      BY StepFields
    <3>3. CASE i = 0
      BY <3>1, <3>3
    <3>4. CASE i # 0
      <4>1. i - 1 \in Nat
        BY <3>4
      <4> QED BY <3>1, <3>2, <3>4, <4>1
    <3> QED BY <3>3, <3>4
  <2> QED BY <2>1
<1>2. PICK f : f = [x \in S |-> IF x \in done THEN value[x] ELSE f[next[x]]]
  <2>1. done \in SUBSET S
    OBVIOUS
  <2> HIDE DEF S, done, value, next
  <2>2. PICK f : LoopOf(f, S, done, value, next)
    BY <1>1, <2>1, Loop
  <2>3. f = [x \in S |-> IF x \in done THEN value[x] ELSE f[next[x]]]
    BY <2>2, Zenon DEF LoopOf
  <2> QED BY <2>3, Zenon
<1>3. ASSUME NEW x \in S
      PROVE  (IF x \in done THEN value[x] ELSE f[next[x]])
             = (IF x[1] = 0 THEN x[2] ELSE f[<<x[1] - 1, Step(x[2])>>])
  OBVIOUS
<1>4. f = [x \in S |-> IF x[1] = 0 THEN x[2] ELSE f[<<x[1] - 1, Step(x[2])>>]]
  <2> HIDE DEF S, done, value, next
  <2> QED BY <1>2, <1>3
<1>5. Steps = [x \in S |-> IF x[1] = 0 THEN x[2] ELSE Steps[<<x[1] - 1, Step(x[2])>>]]
  BY <1>4, Zenon DEF Steps
<1>6. After(r, 0) = r
  <2>1. <<0, r>> \in S /\ <<0, r>>[1] = 0 /\ <<0, r>>[2] = r
    OBVIOUS
  <2> HIDE DEF S
  <2> QED BY <1>5, <2>1 DEF After
<1>7. ASSUME NEW k \in Nat  PROVE After(r, k + 1) = After(Step(r), k)
  <2>1. <<k + 1, r>> \in S /\ <<k + 1, r>>[1] = k + 1 /\ <<k + 1, r>>[2] = r /\ k + 1 # 0
        /\ (k + 1) - 1 = k
    OBVIOUS
  <2> HIDE DEF S
  <2> QED BY <1>5, <2>1 DEF After
<1> QED BY <1>6, <1>7

LEMMA AfterStep ==
    ASSUME NEW r \in Timers, NEW k \in Nat
    PROVE  After(r, k) \in Timers /\ After(r, k + 1) = Step(After(r, k))
<1> DEFINE Good(i, s) == After(s, i) \in Timers /\ After(s, i + 1) = Step(After(s, i))
           G == {i \in Nat : \A s \in Timers : Good(i, s)}
<1>1. 0 \in G
  <2>1. ASSUME NEW s \in Timers  PROVE Good(0, s)
    <3>1. After(s, 0) = s /\ After(s, 0 + 1) = After(Step(s), 0) /\ Step(s) \in Timers
      BY AfterDefined, StepFields
    <3>2. After(Step(s), 0) = Step(s)
      BY <3>1, AfterDefined
    <3> QED BY <3>1, <3>2, Zenon
  <2> HIDE DEF Good
  <2> QED BY <2>1
<1>2. ASSUME NEW i \in G  PROVE i + 1 \in G
  <2>1. ASSUME NEW s \in Timers  PROVE Good(i + 1, s)
    <3>1. PICK u \in Timers : u = Step(s)
      BY StepFields
    <3>2. After(s, i + 1) = After(u, i) /\ After(s, (i + 1) + 1) = After(u, i + 1)
      BY <3>1, AfterDefined
    <3>3. Good(i, u)
      <4> HIDE DEF Good
      <4> QED OBVIOUS
    <3> QED BY <3>2, <3>3, Zenon
  <2> HIDE DEF Good
  <2> QED BY <2>1
<1>3. k \in G
  <2>1. G \in SUBSET Nat
    OBVIOUS
  <2> HIDE DEF G
  <2> QED BY <1>1, <1>2, <2>1, Induction
<1>4. Good(k, r)
  <2> HIDE DEF Good
  <2> QED BY <1>3
<1> QED BY <1>4

(* Induction over the cycles of one timer.                                  *)
LEMMA Cycles ==
    ASSUME NEW r \in Timers, NEW Holds \in SUBSET Timers, r \in Holds,
           \A s \in Holds : Step(s) \in Holds
    PROVE  \A k \in Nat : After(r, k) \in Holds
<1> DEFINE G == {i \in Nat : After(r, i) \in Holds}
<1>1. 0 \in G
  BY AfterDefined
<1>2. ASSUME NEW i \in G  PROVE i + 1 \in G
  <2>1. After(r, i + 1) = Step(After(r, i))
    BY AfterStep
  <2> QED BY <2>1
<1>3. G \in SUBSET Nat
  OBVIOUS
<1>4. \A k \in Nat : k \in G
  <2> HIDE DEF G
  <2> QED BY <1>1, <1>2, <1>3, Induction
<1> QED BY <1>4

LEMMA AfterSum ==
    ASSUME NEW r \in Timers, NEW j \in Nat, NEW k \in Nat
    PROVE  After(r, j + k) = After(After(r, j), k)
<1>1. PICK s \in Timers : s = After(r, j)
  BY AfterStep
<1> DEFINE G == {i \in Nat : After(r, j + i) = After(s, i)}
<1>2. 0 \in G
  <2>1. j + 0 = j /\ After(s, 0) = s
    BY AfterDefined
  <2> QED BY <1>1, <2>1
<1>3. ASSUME NEW i \in G  PROVE i + 1 \in G
  <2>1. j + i \in Nat /\ j + (i + 1) = (j + i) + 1
    OBVIOUS
  <2>2. After(r, (j + i) + 1) = Step(After(r, j + i)) /\ After(s, i + 1) = Step(After(s, i))
    BY <2>1, AfterStep
  <2>3. After(r, j + i) = After(s, i)
    OBVIOUS
  <2>4. After(r, j + (i + 1)) = After(s, i + 1)
    BY <2>1, <2>2, <2>3
  <2> QED BY <2>4
<1>4. k \in G
  <2>1. G \in SUBSET Nat
    OBVIOUS
  <2> HIDE DEF G
  <2> QED BY <1>2, <1>3, <2>1, Induction
<1> QED BY <1>1, <1>4

LEMMA AfterFields ==
    ASSUME NEW r \in Timers, NEW k \in Nat
    PROVE  /\ After(r, k).latch = r.latch /\ After(r, k).alarmclk = r.alarmclk
           /\ r.clk + k <= ClockMax => After(r, k).clk = r.clk + k
           /\ After(r, k).n >= r.n
<1> DEFINE Good(i) == /\ After(r, i).latch = r.latch /\ After(r, i).alarmclk = r.alarmclk
                      /\ r.clk + i <= ClockMax => After(r, i).clk = r.clk + i
                      /\ After(r, i).n >= r.n
           G == {i \in Nat : Good(i)}
<1>0. r.clk \in Nat /\ r.n \in Nat
  BY TimerFields, Constants
<1>1. 0 \in G
  BY <1>0, AfterDefined
<1>2. ASSUME NEW i \in G  PROVE i + 1 \in G
  <2>1. PICK s \in Timers : s = After(r, i) /\ After(r, i + 1) = Step(s)
    BY AfterStep
  <2>2. /\ s.latch = r.latch /\ s.alarmclk = r.alarmclk /\ s.n >= r.n
        /\ r.clk + i <= ClockMax => s.clk = r.clk + i
    BY <2>1
  <2>3. /\ Step(s).latch = s.latch /\ Step(s).alarmclk = s.alarmclk
        /\ Step(s).n = s.n \/ Step(s).n = s.n + 1
        /\ Step(s).clk = ClockAdd(s.clk, 1)
    BY StepFields
  <2>4. s.clk \in Clock /\ s.n \in Nat
    BY TimerFields
  <2>5. s.clk + 1 <= ClockMax => Step(s).clk = s.clk + 1
    BY <2>3, <2>4, ClockSums
  <2>6. Good(i + 1)
    BY <1>0, <2>1, <2>2, <2>3, <2>4, <2>5, Constants
  <2> QED BY <2>6
<1>3. k \in G
  <2>1. G \in SUBSET Nat
    OBVIOUS
  <2> HIDE DEF G
  <2> QED BY <1>1, <1>2, <2>1, Induction
<1> QED BY <1>3

LEMMA AfterSound ==
    ASSUME NEW r \in Timers, Sound(r), NEW k \in Nat
    PROVE  Sound(After(r, k)) /\ (k # 0 \/ Settled(r) => Settled(After(r, k)))
<1> DEFINE Holds == {s \in Timers : Sound(s)}
<1>1. \A s \in Holds : Step(s) \in Holds
  BY StepSound, StepFields
<1>2. After(r, k) \in Holds
  <2>1. r \in Holds /\ Holds \in SUBSET Timers
    OBVIOUS
  <2> HIDE DEF Holds
  <2> QED BY <1>1, <2>1, Cycles
<1>3. CASE k = 0
  BY <1>2, <1>3, AfterDefined
<1>4. CASE k # 0
  <2>1. k - 1 \in Nat /\ (k - 1) + 1 = k
    BY <1>4
  <2>2. After(r, k) = Step(After(r, k - 1)) /\ After(r, k - 1) \in Timers
    BY <2>1, AfterStep
  <2> QED BY <1>2, <2>2, StepSound
<1> QED BY <1>3, <1>4

(* Timers with the same flags, counter and latch go the same way.           *)
Like(r, s) == r.flags = s.flags /\ r.cnt = s.cnt /\ r.latch = s.latch

LEMMA StepLike ==
    ASSUME NEW r \in Timers, NEW s \in Timers, Like(r, s)
    PROVE  /\ Like(Step(r), Step(s))
           /\ Out(r) <=> Out(s)
           /\ Step(r).n + s.n = Step(s).n + r.n
<1>1. Counted(r) = Counted(s)
  BY DEF Counted, Like
<1>2. Out(r) <=> Out(s)
  BY <1>1 DEF Out, Like
<1>3. (Loads(r) <=> Loads(s)) /\ (Stops(r) <=> Stops(s))
  BY <1>2 DEF Loads, Stops, Like
<1>4. PICK u \in Timers, v \in Timers : u = Step(r) /\ v = Step(s)
  BY StepFields
<1>5. u.flags \in SUBSET Flags /\ v.flags \in SUBSET Flags /\ r.flags = s.flags
  BY TimerFields DEF Like
<1>6. /\ "START" \in u.flags <=> "START" \in v.flags
      /\ "PHI2IN" \in u.flags <=> "PHI2IN" \in v.flags
      /\ "ONESHOT_CR" \in u.flags <=> "ONESHOT_CR" \in v.flags
      /\ "FLOAD" \in u.flags <=> "FLOAD" \in v.flags
      /\ "STEP" \in u.flags <=> "STEP" \in v.flags
      /\ "COUNT2" \in u.flags <=> "COUNT2" \in v.flags
  BY <1>3, <1>4, <1>5, StepFields
<1>7. /\ "COUNT3" \in u.flags <=> "COUNT3" \in v.flags
      /\ "COUNT" \in u.flags <=> "COUNT" \in v.flags
      /\ "LOAD1" \in u.flags <=> "LOAD1" \in v.flags
      /\ "LOAD" \in u.flags <=> "LOAD" \in v.flags
      /\ "ONESHOT0" \in u.flags <=> "ONESHOT0" \in v.flags
      /\ "ONESHOT" \in u.flags <=> "ONESHOT" \in v.flags
      /\ "OUT" \in u.flags <=> "OUT" \in v.flags
  BY <1>2, <1>3, <1>4, <1>5, StepFields
<1>8. u.flags = v.flags
  BY <1>5, <1>6, <1>7, SameFlags
<1>9. u.cnt = v.cnt /\ u.latch = v.latch
  BY <1>1, <1>3, <1>4, StepFields DEF Like
<1>10. u.n + s.n = v.n + r.n
  BY <1>2, <1>4, StepFields, TimerFields
<1> QED BY <1>2, <1>4, <1>8, <1>9, <1>10 DEF Like

LEMMA AfterLike ==
    ASSUME NEW r \in Timers, NEW s \in Timers, Like(r, s), NEW k \in Nat
    PROVE  /\ Like(After(r, k), After(s, k))
           /\ Out(After(r, k)) <=> Out(After(s, k))
           /\ After(r, k).n + s.n = After(s, k).n + r.n
<1> DEFINE G == {i \in Nat : /\ Like(After(r, i), After(s, i))
                            /\ After(r, i).n + s.n = After(s, i).n + r.n}
<1>1. 0 \in G
  BY AfterDefined, TimerFields
<1>2. ASSUME NEW i \in G  PROVE i + 1 \in G
  <2>1. PICK u \in Timers, v \in Timers : /\ u = After(r, i) /\ After(r, i + 1) = Step(u)
                                          /\ v = After(s, i) /\ After(s, i + 1) = Step(v)
    BY AfterStep
  <2>2. Like(u, v) /\ u.n + s.n = v.n + r.n
    BY <2>1
  <2>3. Like(Step(u), Step(v)) /\ Step(u).n + v.n = Step(v).n + u.n
    BY <2>2, StepLike
  <2>4. u.n \in Nat /\ v.n \in Nat /\ Step(u).n \in Nat /\ Step(v).n \in Nat
        /\ r.n \in Nat /\ s.n \in Nat
    BY TimerFields, StepFields
  <2>5. Step(u).n + s.n = Step(v).n + r.n
    BY <2>2, <2>3, <2>4
  <2> QED BY <2>1, <2>3, <2>5
<1>3. k \in G
  <2>1. G \in SUBSET Nat
    OBVIOUS
  <2> HIDE DEF G
  <2> QED BY <1>1, <1>2, <2>1, Induction
<1>4. Out(After(r, k)) <=> Out(After(s, k))
  BY <1>3, StepLike, AfterStep
<1> QED BY <1>3, <1>4

-----------------------------------------------------------------------------
(* A timer that counts, stands still or underflows again and again.         *)

LEMMA CountingStep ==
    ASSUME NEW s \in Timers, Sound(s), Counting(s.flags)
    PROVE  /\ s.cnt >= 1 /\ "OUT" \notin s.flags
           /\ s.cnt = 1 <=> Out(s)
           /\ s.cnt >= 2 => /\ Step(s).flags = s.flags /\ Step(s).cnt = s.cnt - 1
                            /\ Step(s).n = s.n
<1>1. PICK t \in SUBSET Flags : t = s.flags
  BY TimerFields
<1>2. /\ "START" \in t /\ "PHI2IN" \in t
      /\ "COUNT2" \in t /\ "COUNT3" \in t /\ "COUNT" \in t
      /\ "FLOAD" \notin t /\ "LOAD1" \notin t /\ "LOAD" \notin t
      /\ "ONESHOT_CR" \in t <=> "ONESHOT0" \in t
      /\ "ONESHOT0" \in t <=> "ONESHOT" \in t
  BY <1>1, CountingMeans, SteadyMeans
<1>3. "STEP" \notin t /\ "OUT" \notin t /\ s.cnt # 0
  BY <1>1, <1>2 DEF Sound
<1>4. s.cnt \in Nat /\ (s.cnt = 1 <=> Out(s))
  BY <1>1, <1>2, <1>3, OutMeans, TimerFields, Constants
<1>5. ASSUME s.cnt >= 2
      PROVE  /\ Step(s).flags = s.flags /\ Step(s).cnt = s.cnt - 1
             /\ Step(s).n = s.n
  <2>1. ~Out(s) /\ ~Loads(s) /\ ~Stops(s)
    BY <1>1, <1>2, <1>4, <1>5 DEF Loads, Stops
  <2>2. PICK u \in Timers : u = Step(s)
    BY StepFields
  <2>3. u.flags \in SUBSET Flags
    BY TimerFields
  <2>4. /\ "START" \in u.flags <=> "START" \in t
        /\ "PHI2IN" \in u.flags <=> "PHI2IN" \in t
        /\ "ONESHOT_CR" \in u.flags <=> "ONESHOT_CR" \in t
        /\ "FLOAD" \in u.flags <=> "FLOAD" \in t
        /\ "STEP" \in u.flags <=> "STEP" \in t
        /\ "COUNT2" \in u.flags <=> "COUNT2" \in t
    BY <1>1, <1>2, <1>3, <2>1, <2>2, StepFields
  <2>5. /\ "COUNT3" \in u.flags <=> "COUNT3" \in t
        /\ "COUNT" \in u.flags <=> "COUNT" \in t
        /\ "LOAD1" \in u.flags <=> "LOAD1" \in t
        /\ "LOAD" \in u.flags <=> "LOAD" \in t
        /\ "ONESHOT0" \in u.flags <=> "ONESHOT0" \in t
        /\ "ONESHOT" \in u.flags <=> "ONESHOT" \in t
        /\ "OUT" \in u.flags <=> "OUT" \in t
    BY <1>1, <1>2, <1>3, <2>1, <2>2, StepFields
  <2>6. u.flags = t
    BY <1>1, <2>3, <2>4, <2>5, SameFlags
  <2>7. u.cnt = s.cnt - 1 /\ u.n = s.n
    BY <1>1, <1>2, <1>3, <2>1, <2>2, StepFields DEF Counted
  <2> QED BY <1>1, <2>2, <2>6, <2>7
<1> QED BY <1>1, <1>3, <1>4, <1>5

LEMMA CountDown ==
    ASSUME NEW r \in Timers, Sound(r), Counting(r.flags)
    PROVE  /\ \A k \in 0 .. r.cnt - 1 : /\ After(r, k).flags = r.flags
                                        /\ After(r, k).cnt = r.cnt - k
                                        /\ After(r, k).n = r.n
           /\ \A k \in 0 .. r.cnt - 1 : Out(After(r, k)) <=> k = r.cnt - 1
<1>1. r.cnt \in Nat /\ r.cnt >= 1
  BY TimerFields, CountingStep, Constants
<1> DEFINE Good(i) == /\ After(r, i).flags = r.flags
                      /\ After(r, i).cnt = r.cnt - i
                      /\ After(r, i).n = r.n
           G == {i \in Nat : i < r.cnt => Good(i)}
<1>2. 0 \in G
  BY <1>1, AfterDefined
<1>3. ASSUME NEW i \in G  PROVE i + 1 \in G
  <2>1. SUFFICES ASSUME i + 1 < r.cnt  PROVE Good(i + 1)
    OBVIOUS
  <2>2. PICK s \in Timers : s = After(r, i) /\ After(r, i + 1) = Step(s) /\ Sound(s)
    BY AfterStep, AfterSound
  <2>3. i \in Nat /\ i < r.cnt /\ s.flags = r.flags /\ s.cnt = r.cnt - i /\ s.n = r.n
    BY <1>1, <2>1, <2>2
  <2>4. Counting(s.flags) /\ s.cnt >= 2
    BY <1>1, <2>1, <2>3
  <2>5. Step(s).flags = s.flags /\ Step(s).cnt = s.cnt - 1 /\ Step(s).n = s.n
    BY <2>2, <2>4, CountingStep
  <2> QED BY <1>1, <2>2, <2>3, <2>5
<1>4. \A k \in Nat : k \in G
  <2>1. G \in SUBSET Nat
    OBVIOUS
  <2> HIDE DEF G
  <2> QED BY <1>2, <1>3, <2>1, Induction
<1>5. ASSUME NEW k \in 0 .. r.cnt - 1
      PROVE  /\ After(r, k).flags = r.flags /\ After(r, k).cnt = r.cnt - k
             /\ After(r, k).n = r.n
             /\ Out(After(r, k)) <=> k = r.cnt - 1
  <2>1. k \in Nat /\ k < r.cnt
    BY <1>1
  <2>2. Good(k)
    BY <1>4, <2>1
  <2>3. PICK s \in Timers : s = After(r, k) /\ Sound(s)
    BY <2>1, AfterStep, AfterSound
  <2>4. Counting(s.flags) /\ s.cnt = r.cnt - k
    BY <2>2, <2>3
  <2>5. Out(s) <=> s.cnt = 1
    BY <2>3, <2>4, CountingStep
  <2> QED BY <1>1, <2>1, <2>2, <2>3, <2>4, <2>5
<1> QED BY <1>5

LEMMA StandingStep ==
    ASSUME NEW s \in Timers, Standing(s.flags)
    PROVE  Standing(Step(s).flags) /\ ~Out(s) /\ Step(s).n = s.n
<1>1. PICK t \in SUBSET Flags : t = s.flags
  BY TimerFields
<1>2. /\ "COUNT2" \notin t /\ "COUNT3" \notin t /\ "COUNT" \notin t
      /\ "START" \notin t \/ ("PHI2IN" \notin t /\ "STEP" \notin t)
      /\ "ONESHOT_CR" \in t <=> "ONESHOT0" \in t
      /\ "ONESHOT0" \in t <=> "ONESHOT" \in t
  BY <1>1, StandingMeans, SteadyMeans
<1>3. ~Out(s) /\ ~Stops(s)
  BY <1>1, <1>2, OutMeans DEF Stops
<1>4. PICK u \in Timers : u = Step(s)
  BY StepFields
<1>5. /\ "COUNT2" \notin u.flags /\ "COUNT3" \notin u.flags /\ "COUNT" \notin u.flags
      /\ "START" \notin u.flags \/ ("PHI2IN" \notin u.flags /\ "STEP" \notin u.flags)
      /\ "ONESHOT_CR" \in u.flags <=> "ONESHOT0" \in u.flags
      /\ "ONESHOT0" \in u.flags <=> "ONESHOT" \in u.flags
  BY <1>1, <1>2, <1>3, <1>4, StepFields
<1>6. Standing(u.flags)
  BY <1>5, StandingMeans, SteadyMeans, TimerFields
<1> QED BY <1>3, <1>4, <1>6, StepFields

LEMMA StandStill ==
    ASSUME NEW r \in Timers, Standing(r.flags), NEW k \in Nat
    PROVE  Standing(After(r, k).flags) /\ ~Out(After(r, k))
<1> DEFINE Holds == {s \in Timers : Standing(s.flags)}
<1>1. \A s \in Holds : Step(s) \in Holds
  BY StandingStep, StepFields
<1>2. After(r, k) \in Holds
  <2>1. r \in Holds /\ Holds \in SUBSET Timers
    OBVIOUS
  <2> HIDE DEF Holds
  <2> QED BY <1>1, <2>1, Cycles
<1> QED BY <1>2, StandingStep

LEMMA StoppedStep ==
    ASSUME NEW s \in Timers, Sound(s), Stopped(s.flags)
    PROVE  /\ "OUT" \notin s.flags /\ "LOAD" \notin s.flags /\ ~Underflows(s)
           /\ Step(s).flags = s.flags /\ Step(s).cnt = s.cnt /\ Step(s).n = s.n
<1>1. PICK t \in SUBSET Flags : t = s.flags
  BY TimerFields
<1>2. /\ "COUNT2" \notin t /\ "COUNT3" \notin t /\ "COUNT" \notin t
      /\ "START" \notin t \/ "PHI2IN" \notin t
      /\ "FLOAD" \notin t /\ "LOAD1" \notin t /\ "LOAD" \notin t
      /\ "ONESHOT_CR" \in t <=> "ONESHOT0" \in t
      /\ "ONESHOT0" \in t <=> "ONESHOT" \in t
  BY <1>1, StandingMeans, SteadyMeans
<1>3. "STEP" \notin t /\ "OUT" \notin t
  BY <1>1, <1>2 DEF Sound
<1>4. ~Out(s) /\ ~Stops(s) /\ ~Loads(s)
  BY <1>1, <1>2, <1>3, OutMeans DEF Stops, Loads
<1>5. PICK u \in Timers : u = Step(s)
  BY StepFields
<1>6. u.flags \in SUBSET Flags
  BY TimerFields
<1>7. /\ "START" \in u.flags <=> "START" \in t
      /\ "PHI2IN" \in u.flags <=> "PHI2IN" \in t
      /\ "ONESHOT_CR" \in u.flags <=> "ONESHOT_CR" \in t
      /\ "FLOAD" \in u.flags <=> "FLOAD" \in t
      /\ "STEP" \in u.flags <=> "STEP" \in t
      /\ "COUNT2" \in u.flags <=> "COUNT2" \in t
  BY <1>1, <1>2, <1>3, <1>4, <1>5, StepFields
<1>8. /\ "COUNT3" \in u.flags <=> "COUNT3" \in t
      /\ "COUNT" \in u.flags <=> "COUNT" \in t
      /\ "LOAD1" \in u.flags <=> "LOAD1" \in t
      /\ "LOAD" \in u.flags <=> "LOAD" \in t
      /\ "ONESHOT0" \in u.flags <=> "ONESHOT0" \in t
      /\ "ONESHOT" \in u.flags <=> "ONESHOT" \in t
      /\ "OUT" \in u.flags <=> "OUT" \in t
  BY <1>1, <1>2, <1>3, <1>4, <1>5, StepFields
<1>9. u.flags = t
  BY <1>1, <1>6, <1>7, <1>8, SameFlags
<1>10. u.cnt = s.cnt /\ u.n = s.n
  BY <1>1, <1>2, <1>4, <1>5, StepFields DEF Counted
<1>11. ~Underflows(s)
  BY <1>1, <1>2 DEF Underflows
<1> QED BY <1>1, <1>2, <1>3, <1>5, <1>9, <1>10, <1>11

LEMMA StoppedStays ==
    ASSUME NEW r \in Timers, Sound(r), Stopped(r.flags), NEW k \in Nat
    PROVE  /\ After(r, k).flags = r.flags /\ After(r, k).cnt = r.cnt
           /\ After(r, k).n = r.n
<1> DEFINE Holds == {s \in Timers : /\ Sound(s) /\ s.flags = r.flags /\ s.cnt = r.cnt
                                    /\ s.n = r.n}
<1>1. ASSUME NEW s \in Holds  PROVE Step(s) \in Holds
  <2>1. s \in Timers /\ Sound(s) /\ Stopped(s.flags)
    OBVIOUS
  <2> QED BY <2>1, StoppedStep, StepSound, StepFields
<1>2. After(r, k) \in Holds
  <2>1. r \in Holds /\ Holds \in SUBSET Timers
    OBVIOUS
  <2> HIDE DEF Holds
  <2> QED BY <1>1, <2>1, Cycles
<1> QED BY <1>2

\* A timer that has just underflowed and goes on.
Rearmed == {"START", "PHI2IN", "COUNT2", "COUNT", "LOAD", "OUT"}

LEMMA Rearm ==
    ASSUME NEW s \in Timers, s.cnt = 1,
           s.flags \subseteq {"START", "PHI2IN", "COUNT2", "COUNT3", "COUNT", "OUT", "LOAD"},
           {"START", "PHI2IN", "COUNT2", "COUNT3"} \subseteq s.flags
    PROVE  Out(s) /\ Step(s).flags = Rearmed /\ Step(s).cnt = s.latch /\ Step(s).n = s.n + 1
<1>1. Out(s) /\ Loads(s) /\ ~Stops(s)
  BY OutMeans, Constants DEF Loads, Stops
<1>2. PICK u \in Timers : u = Step(s)
  BY StepFields
<1>3. u.flags \in SUBSET Flags /\ Rearmed \in SUBSET Flags
  BY TimerFields DEF Rearmed, Flags, CrBits
<1>4. /\ "START" \in u.flags <=> "START" \in Rearmed
      /\ "PHI2IN" \in u.flags <=> "PHI2IN" \in Rearmed
      /\ "ONESHOT_CR" \in u.flags <=> "ONESHOT_CR" \in Rearmed
      /\ "FLOAD" \in u.flags <=> "FLOAD" \in Rearmed
      /\ "STEP" \in u.flags <=> "STEP" \in Rearmed
      /\ "COUNT2" \in u.flags <=> "COUNT2" \in Rearmed
  BY <1>1, <1>2, StepFields DEF Rearmed
<1>5. /\ "COUNT3" \in u.flags <=> "COUNT3" \in Rearmed
      /\ "COUNT" \in u.flags <=> "COUNT" \in Rearmed
      /\ "LOAD1" \in u.flags <=> "LOAD1" \in Rearmed
      /\ "LOAD" \in u.flags <=> "LOAD" \in Rearmed
      /\ "ONESHOT0" \in u.flags <=> "ONESHOT0" \in Rearmed
      /\ "ONESHOT" \in u.flags <=> "ONESHOT" \in Rearmed
      /\ "OUT" \in u.flags <=> "OUT" \in Rearmed
  BY <1>1, <1>2, StepFields DEF Rearmed
<1>6. u.flags = Rearmed
  BY <1>3, <1>4, <1>5, SameFlags
<1> QED BY <1>1, <1>2, <1>6, StepFields

LEMMA Period ==
    ASSUME NEW r \in Timers, r.flags = Rearmed, r.cnt = r.latch, r.latch >= 1
    PROVE  LET u == After(r, r.latch + 1)
           IN  u.flags = Rearmed /\ u.cnt = r.latch /\ u.n = r.n + 1
<1> DEFINE L == r.latch
<1>0. L \in Nat /\ L >= 1 /\ r.cnt = L
  BY TimerFields, Constants
<1>1. ~Out(r) /\ ~Loads(r) /\ ~Stops(r)
  BY <1>0, OutMeans DEF Rearmed, Loads, Stops
<1>2. PICK v \in Timers : v = Step(r)
  BY StepFields
<1>3. v.flags \in SUBSET Flags /\ {"START", "PHI2IN", "COUNT2", "COUNT3"} \in SUBSET Flags
  BY TimerFields DEF Flags, CrBits
<1>4. v.flags = {"START", "PHI2IN", "COUNT2", "COUNT3"}
  <2>1. PICK g \in SUBSET Flags : g = {"START", "PHI2IN", "COUNT2", "COUNT3"}
    BY <1>3
  <2>2. /\ "START" \in v.flags <=> "START" \in g
        /\ "PHI2IN" \in v.flags <=> "PHI2IN" \in g
        /\ "ONESHOT_CR" \in v.flags <=> "ONESHOT_CR" \in g
        /\ "FLOAD" \in v.flags <=> "FLOAD" \in g
        /\ "STEP" \in v.flags <=> "STEP" \in g
        /\ "COUNT2" \in v.flags <=> "COUNT2" \in g
    BY <1>1, <1>2, <2>1, StepFields DEF Rearmed
  <2>3. /\ "COUNT3" \in v.flags <=> "COUNT3" \in g
        /\ "COUNT" \in v.flags <=> "COUNT" \in g
        /\ "LOAD1" \in v.flags <=> "LOAD1" \in g
        /\ "LOAD" \in v.flags <=> "LOAD" \in g
        /\ "ONESHOT0" \in v.flags <=> "ONESHOT0" \in g
        /\ "ONESHOT" \in v.flags <=> "ONESHOT" \in g
        /\ "OUT" \in v.flags <=> "OUT" \in g
    BY <1>1, <1>2, <2>1, StepFields DEF Rearmed
  <2>4. v.flags = g
    BY <1>3, <2>1, <2>2, <2>3, SameFlags
  <2> QED BY <2>1, <2>4
<1>5. v.cnt = L /\ v.latch = L /\ v.n = r.n
  BY <1>0, <1>1, <1>2, StepFields DEF Counted, Rearmed
<1>6. After(r, L + 1) = After(v, L)
  BY <1>0, <1>2, AfterDefined
<1>7. CASE L = 1
  <2>1. After(v, 1) = Step(v)
    <3>1. After(v, 0) = v /\ After(v, 0 + 1) = Step(After(v, 0))
      BY AfterStep, AfterDefined
    <3> QED BY <3>1
  <2>2. Step(v).flags = Rearmed /\ Step(v).cnt = L /\ Step(v).n = r.n + 1
    BY <1>4, <1>5, <1>7, Rearm
  <2> QED BY <1>6, <1>7, <2>1, <2>2
<1>8. CASE L # 1
  <2>1. ~Out(v) /\ ~Loads(v) /\ ~Stops(v)
    BY <1>0, <1>4, <1>5, <1>8, OutMeans DEF Loads, Stops
  <2>2. PICK w \in Timers : w = Step(v)
    BY StepFields
  <2>3. w.flags \in SUBSET Flags
    BY TimerFields
  <2>4. Counting(w.flags) /\ Sound(w)
        /\ w.flags \subseteq {"START", "PHI2IN", "COUNT2", "COUNT3", "COUNT", "OUT", "LOAD"}
    <3>1. /\ "START" \in w.flags /\ "PHI2IN" \in w.flags
          /\ "COUNT2" \in w.flags /\ "COUNT3" \in w.flags /\ "COUNT" \in w.flags
          /\ "FLOAD" \notin w.flags /\ "LOAD1" \notin w.flags /\ "LOAD" \notin w.flags
          /\ "ONESHOT_CR" \notin w.flags /\ "ONESHOT0" \notin w.flags
          /\ "ONESHOT" \notin w.flags
      BY <1>4, <2>1, <2>2, StepFields
    <3>2. "STEP" \notin w.flags
      BY <2>2, StepFields
    <3>3. Counting(w.flags)
      BY <2>3, <3>1, CountingMeans, SteadyMeans
    <3>4. w.flags \subseteq {"START", "PHI2IN", "COUNT2", "COUNT3", "COUNT", "OUT", "LOAD"}
      BY <2>3, <3>1, <3>2 DEF Flags, CrBits
    <3> QED BY <2>2, <3>3, <3>4, StepSound
  <2>5. w.cnt = L - 1 /\ w.latch = L /\ w.n = r.n
    BY <1>0, <1>4, <1>5, <2>1, <2>2, StepFields DEF Counted
  <2>6. L - 2 \in 0 .. w.cnt - 1 /\ L - 2 \in Nat
    BY <1>0, <1>8, <2>5
  <2>7. PICK x \in Timers : x = After(w, L - 2) /\ x.latch = L
    <3>1. After(w, L - 2) \in Timers
      BY <2>6, AfterStep
    <3>2. After(w, L - 2).latch = L
      BY <2>5, <2>6, AfterFields
    <3> QED BY <3>1, <3>2
  <2>8. x.flags = w.flags /\ x.cnt = w.cnt - (L - 2) /\ x.n = w.n
    BY <2>4, <2>6, <2>7, CountDown
  <2>9. x.cnt = 1
    BY <1>0, <2>5, <2>8
  <2>10. {"START", "PHI2IN", "COUNT2", "COUNT3"} \subseteq x.flags
    BY <2>3, <2>4, <2>8, CountingMeans
  <2>11. Step(x).flags = Rearmed /\ Step(x).cnt = L /\ Step(x).n = r.n + 1
    BY <2>4, <2>5, <2>7, <2>8, <2>9, <2>10, Rearm
  <2>12. After(v, L) = Step(x)
    <3>1. After(v, (L - 2) + 1) = After(w, L - 2)
      BY <2>2, <2>6, AfterDefined
    <3>2. (L - 2) + 1 = L - 1 /\ (L - 1) + 1 = L /\ L - 1 \in Nat
      BY <1>0
    <3>3. After(v, (L - 1) + 1) = Step(After(v, L - 1))
      BY <3>2, AfterStep
    <3> QED BY <2>7, <3>1, <3>2, <3>3
  <2> QED BY <1>6, <2>11, <2>12
<1> QED BY <1>7, <1>8

LEMMA Periods ==
    ASSUME NEW r \in Timers, r.flags = Rearmed, r.cnt = r.latch, r.latch >= 1, NEW m \in Nat
    PROVE  LET u == After(r, m * (r.latch + 1))
           IN  u.flags = Rearmed /\ u.cnt = r.latch /\ u.n = r.n + m
<1>1. PICK p \in Nat : p = r.latch + 1
  BY TimerFields, Constants
<1> DEFINE Good(i) == LET u == After(r, i * p)
                      IN  u.flags = Rearmed /\ u.cnt = r.latch /\ u.n = r.n + i
           G == {i \in Nat : Good(i)}
<1>2. 0 \in G
  <2>1. 0 * p = 0 /\ r.n + 0 = r.n
    BY TimerFields
  <2> QED BY <2>1, AfterDefined
<1>3. ASSUME NEW i \in G  PROVE i + 1 \in G
  <2>1. PICK j \in Nat : j = i * p /\ (i + 1) * p = j + p
    OBVIOUS
  <2>2. PICK s \in Timers : s = After(r, j) /\ s.latch = r.latch
    BY AfterStep, AfterFields
  <2>3. s.flags = Rearmed /\ s.cnt = r.latch /\ s.n = r.n + i
    BY <2>1, <2>2
  <2>4. After(r, j + p) = After(s, p)
    BY <2>2, AfterSum
  <2>5. After(s, p).flags = Rearmed /\ After(s, p).cnt = r.latch /\ After(s, p).n = s.n + 1
    BY <1>1, <2>2, <2>3, Period
  <2>6. (r.n + i) + 1 = r.n + (i + 1)
    BY TimerFields
  <2>7. i \in Nat
    OBVIOUS
  <2>8. Good(i + 1)
    <3> HIDE DEF G
    <3> QED BY <2>1, <2>3, <2>4, <2>5, <2>6
  <2> QED BY <2>7, <2>8
<1>4. m \in G
  <2>1. G \in SUBSET Nat
    OBVIOUS
  <2> HIDE DEF G
  <2> QED BY <1>2, <1>3, <2>1, Induction
<1> QED BY <1>1, <1>4

-----------------------------------------------------------------------------
(* A round of ciat_update is some cycles.                                   *)

(* What can be skipped over leaves nothing to settle.                       *)
LEMMA SettleIdle ==
    ASSUME NEW w \in Timers, ~Underflows(w),
           "LOAD" \in w.flags => "COUNT3" \notin w.flags /\ w.cnt = w.latch,
           "OUT" \in w.flags => "ONESHOT" \notin w.flags /\ "ONESHOT0" \notin w.flags
    PROVE  Settle(w) = w
<1>1. PICK u \in Timers : u = Settle(w)
  BY SettleFields
<1>2. u.flags \in SUBSET Flags /\ w.flags \in SUBSET Flags
  BY TimerFields
<1>3. \A f \in {"PHI2IN", "ONESHOT_CR", "FLOAD", "STEP", "COUNT", "LOAD1", "ONESHOT0", "ONESHOT"} :
          f \in u.flags <=> f \in w.flags
  <2>1. ASSUME NEW f \in {"PHI2IN", "ONESHOT_CR", "FLOAD", "STEP", "COUNT", "LOAD1",
                          "ONESHOT0", "ONESHOT"}
        PROVE  f \in Flags \ {"START", "COUNT2", "COUNT3", "LOAD", "OUT"}
    BY DEF Flags, CrBits
  <2> QED BY <1>1, <2>1, SettleFields
<1>4. /\ "START" \in u.flags <=> "START" \in w.flags
      /\ "COUNT2" \in u.flags <=> "COUNT2" \in w.flags
      /\ "COUNT3" \in u.flags <=> "COUNT3" \in w.flags
      /\ "LOAD" \in u.flags <=> "LOAD" \in w.flags
      /\ "OUT" \in u.flags <=> "OUT" \in w.flags
      /\ u.cnt = w.cnt /\ u.n = w.n
  BY <1>1, SettleFields
<1>5. u.flags = w.flags
  BY <1>2, <1>3, <1>4, SameFlags
<1>6. u.clk = w.clk /\ u.latch = w.latch /\ u.alarmclk = w.alarmclk
  BY <1>1, SettleFields
<1> QED BY <1>1, <1>4, <1>5, <1>6, SameTimer

LEMMA CountOut ==
    ASSUME NEW r \in Timers, Sound(r), Counting(r.flags),
           NEW w \in Timers, w.flags = r.flags, w.cnt = 0, w.latch = r.latch
    PROVE  LET x == After(r, r.cnt)
           IN  /\ Like(Settle(w), x) /\ Settle(w).n = w.n + 1
               /\ x.cnt = r.latch /\ x.n = r.n + 1
               /\ "ONESHOT_CR" \notin r.flags => x.flags = Rearmed
<1>1. PICK t \in SUBSET Flags : t = r.flags
  BY TimerFields
<1>2. /\ "START" \in t /\ "PHI2IN" \in t
      /\ "COUNT2" \in t /\ "COUNT3" \in t /\ "COUNT" \in t
      /\ "FLOAD" \notin t /\ "LOAD1" \notin t /\ "LOAD" \notin t
      /\ "ONESHOT_CR" \in t <=> "ONESHOT0" \in t
      /\ "ONESHOT0" \in t <=> "ONESHOT" \in t
  BY <1>1, CountingMeans, SteadyMeans
<1>3. "STEP" \notin t /\ "OUT" \notin t
  BY <1>1, <1>2 DEF Sound
<1>4. r.cnt \in Nat /\ r.cnt >= 1 /\ r.cnt - 1 \in 0 .. r.cnt - 1 /\ r.cnt - 1 \in Nat
      /\ (r.cnt - 1) + 1 = r.cnt
  BY TimerFields, CountingStep, Constants
<1>5. PICK y \in Timers : y = After(r, r.cnt - 1) /\ y.latch = r.latch
  BY <1>4, AfterStep, AfterFields
<1>6. y.flags = r.flags /\ y.cnt = 1 /\ y.n = r.n /\ Out(y)
  <2>1. y.flags = r.flags /\ y.cnt = r.cnt - (r.cnt - 1) /\ y.n = r.n
    BY <1>4, <1>5, CountDown
  <2>2. Out(y)
    BY <1>4, <1>5, CountDown
  <2> QED BY <1>4, <2>1, <2>2
<1>7. PICK x \in Timers : x = Step(y) /\ x = After(r, r.cnt)
  <2>1. PICK k \in Nat : k = r.cnt - 1 /\ k + 1 = r.cnt
    BY <1>4
  <2>2. After(r, k + 1) = Step(After(r, k))
    BY AfterStep
  <2>3. Step(y) \in Timers
    BY StepFields
  <2> QED BY <1>5, <2>1, <2>2, <2>3
<1>8. Loads(y) /\ (Stops(y) <=> "ONESHOT0" \in t)
  BY <1>1, <1>2, <1>6 DEF Loads, Stops
<1>9. x.cnt = r.latch /\ x.n = r.n + 1 /\ x.latch = r.latch
  BY <1>5, <1>6, <1>7, <1>8, StepFields
<1>10. PICK u \in Timers : u = Settle(w)
  BY SettleFields
<1>11. Underflows(w)
  BY <1>1, <1>2 DEF Underflows
<1>12. u.cnt = r.latch /\ u.n = w.n + 1 /\ u.latch = r.latch
  BY <1>10, <1>11, SettleFields
<1>13. u.flags \in SUBSET Flags /\ x.flags \in SUBSET Flags
  BY TimerFields
<1>14. \A f \in {"PHI2IN", "ONESHOT_CR", "FLOAD", "STEP", "COUNT", "LOAD1", "ONESHOT0", "ONESHOT"} :
           f \in u.flags <=> f \in t
  <2>1. ASSUME NEW f \in {"PHI2IN", "ONESHOT_CR", "FLOAD", "STEP", "COUNT", "LOAD1",
                          "ONESHOT0", "ONESHOT"}
        PROVE  f \in Flags \ {"START", "COUNT2", "COUNT3", "LOAD", "OUT"}
    BY DEF Flags, CrBits
  <2> QED BY <1>1, <1>10, <2>1, SettleFields
<1>15. /\ "START" \in u.flags <=> "ONESHOT0" \notin t
       /\ "COUNT2" \in u.flags <=> "ONESHOT0" \notin t
       /\ "COUNT3" \notin u.flags /\ "LOAD" \in u.flags /\ "OUT" \in u.flags
  BY <1>1, <1>2, <1>10, <1>11, SettleFields
<1>16. /\ "START" \in x.flags <=> "ONESHOT0" \notin t
       /\ "COUNT2" \in x.flags <=> "ONESHOT0" \notin t
       /\ "COUNT3" \notin x.flags /\ "LOAD" \in x.flags /\ "OUT" \in x.flags
  BY <1>1, <1>2, <1>6, <1>7, <1>8, StepFields
<1>17. /\ "PHI2IN" \in x.flags <=> "PHI2IN" \in t
       /\ "ONESHOT_CR" \in x.flags <=> "ONESHOT_CR" \in t
       /\ "FLOAD" \in x.flags <=> "FLOAD" \in t
       /\ "STEP" \in x.flags <=> "STEP" \in t
       /\ "COUNT" \in x.flags <=> "COUNT" \in t
       /\ "LOAD1" \in x.flags <=> "LOAD1" \in t
       /\ "ONESHOT0" \in x.flags <=> "ONESHOT0" \in t
       /\ "ONESHOT" \in x.flags <=> "ONESHOT" \in t
  BY <1>1, <1>2, <1>3, <1>6, <1>7, <1>8, StepFields
<1>18. u.flags = x.flags
  BY <1>13, <1>14, <1>15, <1>16, <1>17, SameFlags
<1>19. ASSUME "ONESHOT_CR" \notin t  PROVE x.flags = Rearmed
  <2>1. y.flags \subseteq {"START", "PHI2IN", "COUNT2", "COUNT3", "COUNT", "OUT", "LOAD"}
        /\ {"START", "PHI2IN", "COUNT2", "COUNT3"} \subseteq y.flags
    BY <1>1, <1>2, <1>3, <1>6, <1>19 DEF Flags, CrBits
  <2> QED BY <1>6, <1>7, <2>1, Rearm
<1> QED BY <1>1, <1>7, <1>9, <1>10, <1>12, <1>18, <1>19 DEF Like

(* A timer that is reloaded with 0 underflows in every cycle.  The cycles   *)
(* after its first underflow are not skipped.                               *)
Fine(r, to) ==
    r.latch # 0 \/ r.cnt = 0 \/ \A k \in Nat : r.clk + k + 1 < to => ~Out(After(r, k))

LEMMA Quotient ==
    ASSUME NEW d \in Nat, NEW p \in Nat \ {0}
    PROVE  d \div p \in Nat /\ (d \div p) * p \in 0 .. d /\ d % p \in Nat /\ (d < p => d % p = d)
OBVIOUS

LEMMA SkipsUpTo ==
    ASSUME NEW r \in Timers, Sound(r), Counting(r.flags), NEW to \in Clock, r.clk + r.cnt > to,
           r.clk < to
    PROVE  to - r.clk \in Nat \ {0} /\ Settle(SkipCount(r, to)) = After(r, to - r.clk)
<1>1. r.clk \in Nat /\ to \in Nat /\ to <= ClockMax /\ r.cnt \in Nat /\ r.cnt < Word
  BY TimerFields, Constants
<1>2. PICK d \in Nat : d = to - r.clk /\ d >= 1 /\ d < r.cnt /\ r.clk + d = to
  BY <1>1
<1>3. d % Word = d
  <2>1. PICK p \in Nat \ {0} : p = Word
    BY Constants
  <2> QED BY <1>1, <1>2, <2>1, Quotient
<1>4. PICK c \in 0 .. Word - 1 : c = r.cnt - d /\ c = r.cnt - ((to - r.clk) % Word) /\ c >= 1
  <2>1. r.cnt - d \in 0 .. Word - 1 /\ r.cnt - d >= 1
    <3>1. PICK n \in Nat : n = r.cnt - d /\ n >= 1 /\ n <= r.cnt
      BY <1>1, <1>2
    <3>2. PICK p \in Nat : p = Word
      BY Constants
    <3> QED BY <1>1, <3>1, <3>2
  <2>2. r.cnt - d = r.cnt - ((to - r.clk) % Word)
    BY <1>2, <1>3
  <2> QED BY <2>1, <2>2
<1>5. PICK w : w = [r EXCEPT !.cnt = c, !.clk = to]
  OBVIOUS
<1>6. w = SkipCount(r, to)
  BY <1>4, <1>5, Zenon DEF SkipCount
<1>7. w \in Timers /\ w.flags = r.flags /\ w.cnt = c /\ w.clk = to /\ w.latch = r.latch
      /\ w.alarmclk = r.alarmclk /\ w.n = r.n
  BY ONLY r \in Timers, to \in Clock, <1>5 DEF Timers
<1>8. "OUT" \notin w.flags /\ "LOAD" \notin w.flags
  BY <1>7, CountingMeans, CountingStep, TimerFields
<1>9. Settle(w) = w
  <2>1. ~Underflows(w)
    BY <1>4, <1>7 DEF Underflows
  <2> QED BY <1>7, <1>8, <2>1, SettleIdle
<1>10. PICK u \in Timers : u = After(r, d) /\ u.latch = r.latch /\ u.alarmclk = r.alarmclk
                           /\ u.clk = to
  <2>1. r.clk + d <= ClockMax /\ r.clk + d = to
    BY <1>1, <1>2
  <2>2. After(r, d) \in Timers
    BY <1>2, AfterStep
  <2>3. /\ After(r, d).latch = r.latch /\ After(r, d).alarmclk = r.alarmclk
        /\ After(r, d).clk = to
    BY <1>2, <2>1, AfterFields
  <2> QED BY <2>2, <2>3
<1>11. u.flags = r.flags /\ u.cnt = r.cnt - d /\ u.n = r.n
  <2>1. d \in 0 .. r.cnt - 1
    BY <1>1, <1>2
  <2> QED BY <1>10, <2>1, CountDown
<1>12. u = w
  BY <1>4, <1>7, <1>10, <1>11, SameTimer
<1> QED BY <1>2, <1>6, <1>9, <1>10, <1>12

LEMMA SkipsOver ==
    ASSUME NEW r \in Timers, Sound(r), Counting(r.flags), NEW to \in Clock, r.clk + r.cnt <= to,
           Fine(r, to)
    PROVE  \E k \in 1 .. to - r.clk : Settle(SkipCount(r, to)) = After(r, k)
<1>1. r.clk \in Nat /\ to \in Nat /\ ClockMax \in Nat /\ to <= ClockMax
      /\ r.cnt \in Nat /\ r.cnt >= 1 /\ r.latch \in Nat
  BY TimerFields, CountingStep, Constants
<1>2. PICK e \in Clock : e = r.clk + r.cnt /\ e \in Nat /\ e <= ClockMax
  BY <1>1, Constants
<1>3. PICK d \in Nat : d = to - e
  BY <1>1, <1>2
<1>4. PICK p \in Nat \ {0} : p = r.latch + 1
  BY <1>1
<1>5. PICK zero \in 0 .. Word - 1 : zero = 0
  BY Constants
<1>6. PICK out : out = [r EXCEPT !.clk = e, !.cnt = zero]
  OBVIOUS
<1>7. out \in Timers /\ out.flags = r.flags /\ out.cnt = 0 /\ out.clk = e /\ out.latch = r.latch
      /\ out.alarmclk = r.alarmclk /\ out.n = r.n
  <2>1. /\ out \in Timers /\ out.flags = r.flags /\ out.cnt = zero /\ out.clk = e
        /\ out.latch = r.latch /\ out.alarmclk = r.alarmclk /\ out.n = r.n
    BY ONLY r \in Timers, e \in Clock, zero \in 0 .. Word - 1, <1>6 DEF Timers
  <2> QED BY <1>5, <2>1
<1>8. PICK x \in Timers : x = After(r, r.cnt) /\ x.latch = r.latch /\ x.alarmclk = r.alarmclk
                          /\ x.clk = e
  <2>1. r.clk + r.cnt <= ClockMax
    BY <1>2
  <2> QED BY <1>1, <1>2, <2>1, AfterStep, AfterFields
<1>9. SkipCount(r, to) = IF \/ r.flags \cap {"ONESHOT_CR", "ONESHOT0"} # {}
                            \/ d % Word < p
                         THEN out
                         ELSE [out EXCEPT !.clk = @ + (d \div p) * p, !.n = @ + d \div p]
  <2>1. ~(r.clk + r.cnt > to)
    BY <1>1
  <2>2. out = [r EXCEPT !.clk = @ + r.cnt, !.cnt = 0]
    BY <1>2, <1>5, <1>6, Zenon
  <2>3. to - out.clk = d /\ r.latch + 1 = p
    BY <1>3, <1>4, <1>7
  <2>4. SkipCount(r, to) =
            IF \/ r.flags \cap {"ONESHOT_CR", "ONESHOT0"} # {}
               \/ (to - out.clk) % Word < r.latch + 1
            THEN out
            ELSE [out EXCEPT !.clk = @ + ((to - out.clk) \div (r.latch + 1)) * (r.latch + 1),
                             !.n = @ + (to - out.clk) \div (r.latch + 1)]
    BY <2>1, <2>2 DEF SkipCount
  <2> QED BY <2>3, <2>4, Zenon
<1>10. CASE r.flags \cap {"ONESHOT_CR", "ONESHOT0"} # {} \/ d % Word < p
  <2>1. SkipCount(r, to) = out
    BY <1>9, <1>10
  <2>2. PICK u \in Timers : u = Settle(out) /\ u.clk = e /\ u.latch = r.latch
                            /\ u.alarmclk = r.alarmclk
    BY <1>7, SettleFields
  <2>3. Like(u, x) /\ u.n = r.n + 1 /\ x.n = r.n + 1
    BY <1>7, <1>8, <2>2, CountOut
  <2>4. u = x
    BY <1>8, <2>2, <2>3, SameTimer DEF Like
  <2>5. r.cnt \in 1 .. to - r.clk
    BY <1>1
  <2> QED BY <1>8, <2>1, <2>2, <2>4, <2>5
<1>11. CASE ~(r.flags \cap {"ONESHOT_CR", "ONESHOT0"} # {} \/ d % Word < p)
  <2>1. PICK m \in Nat, q \in Nat : m = d \div p /\ m * p = q /\ q <= d
    <3>1. PICK m \in Nat : m = d \div p /\ m * p \in 0 .. d
      BY Quotient
    <3>2. PICK q \in Nat : m * p = q /\ q <= d
      BY <3>1
    <3> QED BY <3>1, <3>2
  <2>2. PICK n \in Nat, c \in Clock : n = r.n + m /\ c = e + q /\ c <= to /\ c \in Nat
    <3>1. r.n + m \in Nat
      BY TimerFields
    <3>2. e + q \in Nat /\ e + q <= to
      BY <1>1, <1>2, <1>3, <2>1
    <3> QED BY <1>1, <3>1, <3>2, Constants
  <2>3. PICK w : w = [out EXCEPT !.clk = c, !.n = n]
    OBVIOUS
  <2>4. w = SkipCount(r, to)
    <3>1. SkipCount(r, to) = [out EXCEPT !.clk = @ + (d \div p) * p, !.n = @ + d \div p]
      BY <1>9, <1>11, Zenon
    <3> QED BY <1>7, <2>1, <2>2, <2>3, <3>1, Zenon
  <2>5. w \in Timers /\ w.flags = r.flags /\ w.cnt = 0 /\ w.clk = e + q
        /\ w.latch = r.latch /\ w.alarmclk = r.alarmclk /\ w.n = r.n + m
    <3>1. w \in Timers /\ w.flags = out.flags /\ w.cnt = out.cnt /\ w.clk = c
          /\ w.latch = out.latch /\ w.alarmclk = out.alarmclk /\ w.n = n
      BY ONLY <1>7, n \in Nat, c \in Clock, <2>3 DEF Timers
    <3> QED BY <1>7, <2>2, <3>1
  <2>6. PICK u \in Timers : u = Settle(w) /\ u.clk = e + q /\ u.latch = r.latch
                            /\ u.alarmclk = r.alarmclk
    BY <2>5, SettleFields
  <2>7. "ONESHOT_CR" \notin r.flags
    BY <1>11
  <2>8. /\ Like(u, x) /\ u.n = (r.n + m) + 1
        /\ x.cnt = r.latch /\ x.n = r.n + 1 /\ x.flags = Rearmed
    BY <1>8, <2>5, <2>6, <2>7, CountOut
  <2>9. r.latch >= 1
    <3>1. SUFFICES ASSUME r.latch = 0  PROVE FALSE
      BY <1>1
    <3>2. d >= 1
      <4>1. d = 0 => d % Word = 0
        BY Quotient, Constants
      <4> QED BY <1>4, <1>11, <4>1
    <3>3. r.cnt - 1 \in Nat /\ r.clk + (r.cnt - 1) + 1 < to
      BY <1>1, <1>2, <1>3, <3>2
    <3>4. ~Out(After(r, r.cnt - 1))
      BY <1>1, <3>1, <3>3 DEF Fine
    <3>5. r.cnt - 1 \in 0 .. r.cnt - 1
      BY <1>1
    <3> QED BY <3>4, <3>5, CountDown
  <2>10. PICK v \in Timers : v = After(x, q) /\ v.latch = r.latch /\ v.alarmclk = r.alarmclk
                             /\ v.clk = e + q
    <3>1. x.clk = e /\ x.latch = r.latch /\ x.alarmclk = r.alarmclk
      BY <1>8
    <3>2. x.clk + q <= ClockMax
      BY <1>1, <2>2, <3>1
    <3>3. PICK v \in Timers : v = After(x, q)
      BY AfterStep
    <3>4. v.latch = x.latch /\ v.alarmclk = x.alarmclk /\ v.clk = x.clk + q
      BY <3>2, <3>3, AfterFields
    <3> QED BY <3>1, <3>3, <3>4
  <2>11. v.flags = Rearmed /\ v.cnt = r.latch /\ v.n = (r.n + 1) + m
    <3>1. x.flags = Rearmed /\ x.cnt = x.latch /\ x.latch >= 1 /\ x.n = r.n + 1
          /\ x.latch = r.latch
      BY <1>8, <2>8, <2>9
    <3>2. q = m * (x.latch + 1)
      BY <1>4, <2>1, <3>1
    <3>3. After(x, q).flags = Rearmed /\ After(x, q).cnt = x.latch /\ After(x, q).n = x.n + m
      BY <3>1, <3>2, Periods
    <3> QED BY <2>10, <3>1, <3>3
  <2>12. u = v
    <3>1. u.n = v.n
      BY <2>1, <2>8, <2>11, TimerFields
    <3> QED BY <2>6, <2>8, <2>10, <2>11, <3>1, SameTimer DEF Like
  <2>13. v = After(r, r.cnt + q)
    <3>1. PICK k \in Nat : k = r.cnt
      BY <1>1
    <3>2. q \in Nat /\ After(r, k + q) = After(After(r, k), q)
      BY <1>1, AfterSum
    <3>3. After(r, r.cnt + q) = After(After(r, r.cnt), q)
      BY ONLY <3>1, <3>2, Zenon
    <3> QED BY <1>8, <2>10, <3>3, Zenon
  <2>14. r.cnt + q \in 1 .. to - r.clk
    BY <1>1, <1>2, <1>3, <2>1
  <2> QED BY <2>4, <2>6, <2>12, <2>13, <2>14
<1> QED BY <1>10, <1>11

LEMMA SkipsToggles ==
    ASSUME NEW r \in Timers, Toggling(r), NEW to \in Clock, r.clk < to
    PROVE  \E k \in 1 .. to - r.clk : Settle(SkipToggles(r, to)) = After(r, k)
<1>1. r.clk \in Nat /\ to \in Nat /\ ClockMax \in Nat /\ to <= ClockMax /\ r.n \in Nat
  BY TimerFields, Constants
<1>2. r.flags = Rearmed /\ r.cnt = 1 /\ r.latch = 1
  BY DEF Toggling, Rearmed
<1>3. PICK d \in Nat : d = to - r.clk /\ d >= 1
  BY <1>1
<1>4. PICK h \in Nat : h = d \div 2 /\ h * 2 <= d /\ (h = 0 => d = 1)
  <2>1. d \div 2 \in Nat /\ (d \div 2) * 2 <= d /\ d < (d \div 2) * 2 + 2
    OBVIOUS
  <2> QED BY <1>3, <2>1
<1>5. SkipToggles(r, to) =
          IF 2 * h = 0 THEN [r EXCEPT !.flags = Shifted(@), !.clk = @ + 1]
          ELSE [r EXCEPT !.clk = @ + 2 * h, !.n = @ + (2 * h) \div 2]
  BY <1>3, <1>4, Zenon DEF SkipToggles
<1>6. CASE h = 0
  <2>1. PICK c \in Clock : c = r.clk + 1 /\ c = ClockAdd(r.clk, 1)
    <3>1. r.clk \in Clock /\ r.clk + 1 <= ClockMax /\ 1 \in Nat
      BY <1>1, TimerFields
    <3>2. ClockAdd(r.clk, 1) \in Clock /\ ClockAdd(r.clk, 1) = r.clk + 1
      BY <3>1, ClockSums
    <3> QED BY <3>2
  <2>2. PICK t \in SUBSET Flags : t = Shifted(r.flags)
    BY TimerFields, ShiftedFlags
  <2>3. PICK w : w = [r EXCEPT !.flags = t, !.clk = c]
    OBVIOUS
  <2>4. w = SkipToggles(r, to)
    <3>1. 2 * h = 0
      BY <1>6
    <3> QED BY <1>5, <2>1, <2>2, <2>3, <3>1, Zenon
  <2>5. w \in Timers /\ w.flags = t /\ w.cnt = r.cnt /\ w.clk = c /\ w.latch = r.latch
        /\ w.alarmclk = r.alarmclk /\ w.n = r.n
    BY ONLY r \in Timers, t \in SUBSET Flags, c \in Clock, <2>3 DEF Timers
  <2>6. Counted(r) = r.cnt
    BY <1>2 DEF Counted, Rearmed
  <2>7. PICK v \in Timers : v = Cycle(r) /\ v.flags = t /\ v.cnt = r.cnt /\ v.clk = c
                            /\ v.latch = r.latch /\ v.alarmclk = r.alarmclk /\ v.n = r.n
    BY <2>1, <2>2, <2>6, CycleFields
  <2>8. w = v
    BY <2>5, <2>7, SameTimer
  <2>9. After(r, 1) = Step(r)
    <3>1. After(r, 0) = r /\ After(r, 0 + 1) = Step(After(r, 0))
      BY AfterDefined, AfterStep
    <3> QED BY <3>1
  <2>10. Settle(w) = After(r, 1)
    BY <2>7, <2>8, <2>9, Zenon DEF Step
  <2> QED BY <1>3, <2>4, <2>10
<1>7. CASE h # 0
  <2>1. PICK g \in Nat : g = 2 * h /\ g = h * 2 /\ g # 0 /\ g <= d /\ g \div 2 = h
    BY <1>4, <1>7
  <2>2. PICK n \in Nat, c \in Clock : n = r.n + h /\ c = r.clk + g /\ c <= ClockMax
    <3>1. r.n + h \in Nat /\ r.clk + g \in Nat /\ r.clk + g <= ClockMax
      BY <1>1, <1>3, <2>1
    <3> QED BY <1>1, <3>1, Constants
  <2>3. PICK w : w = [r EXCEPT !.clk = c, !.n = n]
    OBVIOUS
  <2>4. w = SkipToggles(r, to)
    BY <1>5, <2>1, <2>2, <2>3, Zenon
  <2>5. w \in Timers /\ w.flags = r.flags /\ w.cnt = r.cnt /\ w.clk = c /\ w.latch = r.latch
        /\ w.alarmclk = r.alarmclk /\ w.n = n
    BY ONLY r \in Timers, n \in Nat, c \in Clock, <2>3 DEF Timers
  <2>6. Settle(w) = w
    <3>1. ~Underflows(w) /\ w.cnt = w.latch /\ "COUNT3" \notin w.flags
          /\ "ONESHOT" \notin w.flags /\ "ONESHOT0" \notin w.flags
      BY <1>2, <2>5 DEF Underflows, Rearmed
    <3> QED BY <2>5, <3>1, SettleIdle
  <2>7. PICK v \in Timers : v = After(r, g) /\ v.latch = r.latch /\ v.alarmclk = r.alarmclk
                            /\ v.clk = c
    <3>1. PICK v \in Timers : v = After(r, g)
      BY AfterStep
    <3>2. v.latch = r.latch /\ v.alarmclk = r.alarmclk /\ v.clk = r.clk + g
      BY <2>2, <3>1, AfterFields
    <3> QED BY <2>2, <3>1, <3>2
  <2>8. v.flags = Rearmed /\ v.cnt = r.latch /\ v.n = n
    <3>1. r.cnt = r.latch /\ r.latch >= 1 /\ g = h * (r.latch + 1)
      BY <1>2, <2>1
    <3>2. After(r, g).flags = Rearmed /\ After(r, g).cnt = r.latch /\ After(r, g).n = r.n + h
      BY <1>2, <3>1, Periods
    <3> QED BY <2>2, <2>7, <3>2
  <2>9. w = v
    BY <1>2, <2>5, <2>7, <2>8, SameTimer
  <2>10. g \in 1 .. to - r.clk
    BY <1>3, <2>1
  <2> QED BY <2>4, <2>6, <2>7, <2>9, <2>10
<1> QED BY <1>6, <1>7

LEMMA SkipsStopped ==
    ASSUME NEW r \in Timers, Sound(r), Stopped(r.flags), NEW to \in Clock, r.clk < to
    PROVE  to - r.clk \in Nat \ {0} /\ Settle([r EXCEPT !.clk = to]) = After(r, to - r.clk)
<1>1. PICK d \in Nat : d = to - r.clk /\ d >= 1 /\ r.clk + d = to /\ to <= ClockMax
  <2>1. r.clk \in Nat /\ to \in Nat /\ to <= ClockMax
    BY TimerFields, Constants
  <2> QED BY <2>1
<1>2. PICK w : w = [r EXCEPT !.clk = to]
  OBVIOUS
<1>3. w \in Timers /\ w.flags = r.flags /\ w.cnt = r.cnt /\ w.clk = to /\ w.latch = r.latch
      /\ w.alarmclk = r.alarmclk /\ w.n = r.n
  BY ONLY r \in Timers, to \in Clock, <1>2 DEF Timers
<1>4. Settle(w) = w
  <2>1. ~Underflows(w) /\ "LOAD" \notin w.flags /\ "OUT" \notin w.flags
    BY <1>3, StoppedStep DEF Underflows
  <2> QED BY <1>3, <2>1, SettleIdle
<1>5. PICK v \in Timers : v = After(r, d)
  BY AfterStep
<1>6. v.latch = r.latch /\ v.alarmclk = r.alarmclk /\ v.clk = to
  BY <1>1, <1>5, AfterFields
<1>7. v.flags = r.flags /\ v.cnt = r.cnt /\ v.n = r.n
  BY <1>5, StoppedStays
<1>8. w = v
  BY <1>3, <1>6, <1>7, SameTimer
<1> QED BY <1>1, <1>2, <1>4, <1>5, <1>8

LEMMA RoundIsSteps ==
    ASSUME NEW r \in Timers, Sound(r), NEW to \in Clock, r.clk < to, Fine(r, to)
    PROVE  \E k \in 1 .. to - r.clk : Round(r, to) = After(r, k)
<1>1. to - r.clk \in Nat /\ to - r.clk >= 1 /\ r.clk \in Nat /\ r.cnt \in Nat /\ to \in Nat
  BY TimerFields, Constants
<1>2. CASE Counting(r.flags) /\ r.clk + r.cnt > to
  <2>1. Round(r, to) = Settle(SkipCount(r, to))
    BY <1>2, Zenon DEF Round
  <2>2. Round(r, to) = After(r, to - r.clk)
    BY <1>2, <2>1, SkipsUpTo
  <2> QED BY <1>1, <2>2
<1>3. CASE Counting(r.flags) /\ ~(r.clk + r.cnt > to)
  <2>1. Round(r, to) = Settle(SkipCount(r, to))
    BY <1>3, Zenon DEF Round
  <2>2. r.clk + r.cnt <= to
    BY <1>1, <1>3
  <2> QED BY <1>3, <2>1, <2>2, SkipsOver
<1>4. CASE ~Counting(r.flags) /\ Stopped(r.flags)
  <2>1. Round(r, to) = Settle([r EXCEPT !.clk = to])
    BY <1>4, Zenon DEF Round
  <2>2. Round(r, to) = After(r, to - r.clk)
    BY <1>4, <2>1, SkipsStopped
  <2> QED BY <1>1, <2>2
<1>5. CASE ~Counting(r.flags) /\ ~Stopped(r.flags) /\ Toggling(r)
  <2>1. Round(r, to) = Settle(SkipToggles(r, to))
    BY <1>5, Zenon DEF Round
  <2> QED BY <1>5, <2>1, SkipsToggles
<1>6. CASE ~Counting(r.flags) /\ ~Stopped(r.flags) /\ ~Toggling(r)
  <2>1. Round(r, to) = Step(r)
    BY <1>6, Zenon DEF Round, Step
  <2>2. After(r, 1) = Step(r)
    <3>1. After(r, 0) = r /\ After(r, 0 + 1) = Step(After(r, 0))
      BY AfterDefined, AfterStep
    <3> QED BY <3>1
  <2>3. 1 \in 1 .. to - r.clk
    BY <1>1
  <2> QED BY <2>1, <2>2, <2>3
<1> QED BY <1>2, <1>3, <1>4, <1>5, <1>6

-----------------------------------------------------------------------------
(* ciat_update is as many cycles as have passed.                            *)

Zeroed(r) == [r EXCEPT !.n = 0]

LEMMA ZeroedFields ==
    ASSUME NEW r \in Timers
    PROVE  /\ Zeroed(r) \in Timers /\ Like(Zeroed(r), r) /\ Zeroed(r).n = 0
           /\ Zeroed(r).clk = r.clk /\ Zeroed(r).alarmclk = r.alarmclk
           /\ Sound(r) => Sound(Zeroed(r))
           /\ Settled(r) => Settled(Zeroed(r))
<1>1. PICK u : u = [r EXCEPT !.n = 0]
  OBVIOUS
<1>2. u \in Timers /\ u.flags = r.flags /\ u.cnt = r.cnt /\ u.latch = r.latch /\ u.n = 0
      /\ u.clk = r.clk /\ u.alarmclk = r.alarmclk
  BY ONLY r \in Timers, <1>1 DEF Timers
<1>3. u = Zeroed(r)
  BY <1>1, Zenon DEF Zeroed
<1> QED BY <1>2, <1>3 DEF Like, Sound, Settled

RoundsOf(f, to) == f = [s \in Timers |-> IF s.clk < to THEN f[Round(s, to)] ELSE s]

LEMMA SkipCountType ==
    ASSUME NEW r \in Timers, NEW to \in Clock, r.clk < to
    PROVE  LET w == SkipCount(r, to)
           IN  /\ w \in Timers /\ w.flags = r.flags /\ w.latch = r.latch
               /\ w.alarmclk = r.alarmclk /\ r.clk <= w.clk /\ w.clk <= to
               /\ w.clk = r.clk => w.cnt = 0
<1>1. /\ r.clk \in Nat /\ to \in Nat /\ ClockMax \in Nat /\ to <= ClockMax /\ r.cnt \in Nat
      /\ Word \in Nat \ {0} /\ r.cnt < Word /\ r.latch \in Nat /\ r.n \in Nat
  BY TimerNumbers, ClockNumbers
<1>2. CASE r.clk + r.cnt > to
  <2>1. PICK d \in Nat : d = to - r.clk /\ d < r.cnt
    BY <1>1, <1>2
  <2>2. d % Word = d
    <3>1. PICK p \in Nat \ {0} : p = Word
      BY <1>1
    <3> QED BY <1>1, <2>1, <3>1, Quotient
  <2>3. PICK c \in 0 .. Word - 1 : c = r.cnt - ((to - r.clk) % Word)
    <3>1. PICK p \in Nat : p = Word
      BY <1>1
    <3>2. PICK c \in Nat : c = r.cnt - d /\ c <= r.cnt
      BY <1>1, <2>1
    <3>3. c \in 0 .. p - 1
      BY <1>1, <3>1, <3>2
    <3> QED BY <2>1, <2>2, <3>1, <3>2, <3>3
  <2>4. PICK w : w = [r EXCEPT !.cnt = c, !.clk = to]
    OBVIOUS
  <2>5. w = SkipCount(r, to)
    BY <1>2, <2>3, <2>4, Zenon DEF SkipCount
  <2>6. w \in Timers /\ w.flags = r.flags /\ w.cnt = c /\ w.clk = to /\ w.latch = r.latch
        /\ w.alarmclk = r.alarmclk /\ w.n = r.n
    BY ONLY r \in Timers, to \in Clock, <2>4 DEF Timers
  <2> QED BY <1>1, <2>5, <2>6
<1>3. CASE ~(r.clk + r.cnt > to)
  <2>1. PICK e \in Clock : e = r.clk + r.cnt /\ e \in Nat /\ e <= to
    BY <1>1, <1>3, Constants
  <2>2. PICK d \in Nat : d = to - e
    BY <1>1, <2>1
  <2>3. PICK p \in Nat \ {0} : p = r.latch + 1
    BY <1>1
  <2>4. PICK zero \in 0 .. Word - 1 : zero = 0
    BY Constants
  <2>5. PICK out : out = [r EXCEPT !.clk = e, !.cnt = zero]
    OBVIOUS
  <2>6. /\ out \in Timers /\ out.flags = r.flags /\ out.cnt = zero /\ out.clk = e
        /\ out.latch = r.latch /\ out.alarmclk = r.alarmclk /\ out.n = r.n
    BY ONLY r \in Timers, e \in Clock, zero \in 0 .. Word - 1, <2>5 DEF Timers
  <2>7. SkipCount(r, to) =
            IF \/ r.flags \cap {"ONESHOT_CR", "ONESHOT0"} # {}
               \/ (to - out.clk) % Word < r.latch + 1
            THEN out
            ELSE [out EXCEPT !.clk = @ + ((to - out.clk) \div (r.latch + 1)) * (r.latch + 1),
                             !.n = @ + (to - out.clk) \div (r.latch + 1)]
    <3>1. out = [r EXCEPT !.clk = @ + r.cnt, !.cnt = 0]
      BY <2>1, <2>4, <2>5, Zenon
    <3> QED BY <1>3, <3>1 DEF SkipCount
  <2>8. PICK m \in Nat, q \in Nat : m = d \div p /\ m * p = q /\ q <= d
    <3>1. PICK m \in Nat : m = d \div p /\ m * p \in 0 .. d
      BY Quotient
    <3>2. PICK q \in Nat : m * p = q /\ q <= d
      BY <3>1
    <3> QED BY <3>1, <3>2
  <2>9. PICK n \in Nat, c \in Clock : n = r.n + m /\ c = e + q /\ c <= to /\ c \in Nat /\ e <= c
    <3>1. r.n + m \in Nat
      BY <1>1
    <3>2. e + q \in Nat /\ e + q <= to /\ e <= e + q
      BY <1>1, <2>1, <2>2, <2>8
    <3> QED BY <1>1, <3>1, <3>2, Constants
  <2>10. PICK w : w = [out EXCEPT !.clk = c, !.n = n]
    OBVIOUS
  <2>11. w \in Timers /\ w.flags = out.flags /\ w.cnt = out.cnt /\ w.clk = c
         /\ w.latch = out.latch /\ w.alarmclk = out.alarmclk /\ w.n = n
    BY ONLY <2>6, n \in Nat, c \in Clock, <2>10 DEF Timers
  <2>12. SkipCount(r, to) = out \/ SkipCount(r, to) = w
    <3>1. to - out.clk = d /\ r.latch + 1 = p
      BY <2>2, <2>3, <2>6
    <3>2. w = [out EXCEPT !.clk = @ + (d \div p) * p, !.n = @ + d \div p]
      BY <2>6, <2>8, <2>9, <2>10, Zenon
    <3> QED BY <2>7, <3>1, <3>2, Zenon
  <2>13. CASE SkipCount(r, to) = out
    <3>1. r.clk <= e
      BY <1>1, <2>1
    <3> QED BY <2>1, <2>4, <2>6, <2>13, <3>1
  <2>14. CASE SkipCount(r, to) = w
    <3>1. r.clk <= e
      BY <1>1, <2>1
    <3>2. w.cnt = 0 /\ r.clk <= w.clk /\ w.clk <= to
      BY <1>1, <2>1, <2>4, <2>6, <2>9, <2>11, <3>1
    <3> QED BY <2>6, <2>11, <2>14, <3>2
  <2> QED BY <2>12, <2>13, <2>14
<1> QED BY <1>2, <1>3

LEMMA SkipTogglesType ==
    ASSUME NEW r \in Timers, Toggling(r), NEW to \in Clock, r.clk < to
    PROVE  LET u == Settle(SkipToggles(r, to))
           IN  u \in Timers /\ r.clk < u.clk /\ u.clk <= to /\ u.alarmclk = r.alarmclk
<1>1. PICK k \in 1 .. to - r.clk : Settle(SkipToggles(r, to)) = After(r, k)
  BY SkipsToggles
<1>2. k \in Nat /\ r.clk \in Nat /\ r.clk + k <= ClockMax /\ r.clk < r.clk + k /\ r.clk + k <= to
  <2>1. r.clk \in Nat /\ to \in Nat /\ to <= ClockMax
    BY TimerFields, Constants
  <2> QED BY <2>1, Constants
<1> QED BY <1>1, <1>2, AfterStep, AfterFields

(* A round does not go too far, and two rounds get somewhere.               *)
LEMMA RoundType ==
    ASSUME NEW r \in Timers, NEW to \in Clock, r.clk < to
    PROVE  LET u == Round(r, to)
           IN  /\ u \in Timers /\ r.clk <= u.clk /\ u.clk <= to /\ u.alarmclk = r.alarmclk
               /\ u.clk = r.clk => Counting(r.flags) /\ ~Counting(u.flags)
<1>1. r.clk \in Nat /\ to \in Nat /\ ClockMax \in Nat /\ to <= ClockMax
  BY TimerFields, Constants
<1>2. CASE Counting(r.flags)
  <2>1. Round(r, to) = Settle(SkipCount(r, to))
    BY <1>2, Zenon DEF Round
  <2>2. PICK w \in Timers : /\ w = SkipCount(r, to) /\ w.flags = r.flags
                            /\ w.alarmclk = r.alarmclk /\ r.clk <= w.clk /\ w.clk <= to
                            /\ w.clk = r.clk => w.cnt = 0
    BY SkipCountType
  <2>3. PICK u \in Timers : /\ u = Settle(w) /\ u.clk = w.clk /\ u.alarmclk = w.alarmclk
                            /\ Underflows(w) => "COUNT3" \notin u.flags
    BY SettleFields
  <2>4. "COUNT3" \in w.flags
    BY <1>2, <2>2, CountingMeans, TimerFields
  <2>5. w.clk = r.clk => ~Counting(u.flags)
    BY <2>2, <2>3, <2>4, CountingMeans, TimerFields DEF Underflows
  <2>6. u = Round(r, to)
    BY <2>1, <2>2, <2>3, Zenon
  <2> QED BY <1>2, <2>2, <2>3, <2>5, <2>6
<1>3. CASE ~Counting(r.flags) /\ Stopped(r.flags)
  <2>1. PICK w : w = [r EXCEPT !.clk = to]
    OBVIOUS
  <2>2. w \in Timers /\ w.clk = to /\ w.alarmclk = r.alarmclk
    BY ONLY r \in Timers, to \in Clock, <2>1 DEF Timers
  <2>3. Round(r, to) = Settle(w)
    BY <1>3, <2>1, Zenon DEF Round
  <2> QED BY <1>1, <2>2, <2>3, SettleFields
<1>4. CASE ~Counting(r.flags) /\ ~Stopped(r.flags) /\ Toggling(r)
  <2>1. Round(r, to) = Settle(SkipToggles(r, to))
    BY <1>4, Zenon DEF Round
  <2>2. PICK u \in Timers : u = Settle(SkipToggles(r, to)) /\ r.clk < u.clk /\ u.clk <= to
                            /\ u.alarmclk = r.alarmclk
    BY <1>4, SkipTogglesType
  <2>3. u.clk \in Nat
    BY TimerFields, Constants
  <2> QED BY <1>1, <2>1, <2>2, <2>3
<1>5. CASE ~Counting(r.flags) /\ ~Stopped(r.flags) /\ ~Toggling(r)
  <2>1. Round(r, to) = Step(r)
    BY <1>5, Zenon DEF Round, Step
  <2>2. PICK u \in Timers : u = Step(r) /\ u.clk = ClockAdd(r.clk, 1) /\ u.alarmclk = r.alarmclk
    BY StepFields
  <2>3. u.clk = r.clk + 1
    <3>1. r.clk \in Clock /\ r.clk + 1 <= ClockMax /\ 1 \in Nat
      BY <1>1, TimerFields
    <3> QED BY <2>2, <3>1, ClockSums
  <2> QED BY <1>1, <2>1, <2>2, <2>3
<1> QED BY <1>2, <1>3, <1>4, <1>5

LEMMA UpdateDefined ==
    ASSUME NEW r \in Timers, NEW to \in Clock
    PROVE  \E f : /\ Update(r, to) = f[Zeroed(r)]
                  /\ \A s \in Timers : f[s] = IF s.clk < to THEN f[Round(s, to)] ELSE s
<1> DEFINE S == Timers
           done == {s \in S : ~(s.clk < to)}
           value == [s \in S |-> s]
           next == [s \in S |-> IF s.clk < to THEN Round(s, to) ELSE s]
<1>1. next \in [S -> S]
  <2>1. ASSUME NEW s \in S  PROVE next[s] \in S
    BY RoundType
  <2> QED BY <2>1
<1>2. PICK f : f = [s \in S |-> IF s \in done THEN value[s] ELSE f[next[s]]]
  <2>1. done \in SUBSET S
    OBVIOUS
  <2> HIDE DEF S, done, value, next
  <2>2. PICK f : LoopOf(f, S, done, value, next)
    BY <1>1, <2>1, Loop
  <2>3. f = [x \in S |-> IF x \in done THEN value[x] ELSE f[next[x]]]
    BY <2>2, Zenon DEF LoopOf
  <2> QED BY <2>3, Zenon
<1>3. ASSUME NEW s \in S
      PROVE  (IF s \in done THEN value[s] ELSE f[next[s]])
             = (IF s.clk < to THEN f[Round(s, to)] ELSE s)
  OBVIOUS
<1>4. f = [s \in S |-> IF s.clk < to THEN f[Round(s, to)] ELSE s]
  <2> HIDE DEF S, done, value, next
  <2> QED BY <1>2, <1>3
<1>5. RoundsOf(f, to)
  BY <1>4, Zenon DEF RoundsOf
<1> DEFINE g == CHOOSE h : RoundsOf(h, to)
<1>6. RoundsOf(g, to)
  BY <1>5, Zenon
<1>7. Update(r, to) = g[Zeroed(r)]
  BY Zenon DEF Update, RoundsOf, Zeroed
<1>8. ASSUME NEW s \in Timers
      PROVE  g[s] = IF s.clk < to THEN g[Round(s, to)] ELSE s
  <2> HIDE DEF g
  <2> QED BY <1>6 DEF RoundsOf
<1> HIDE DEF g
<1> QED BY <1>7, <1>8

LEMMA UpdateType ==
    ASSUME NEW r \in Timers, NEW to \in Clock
    PROVE  /\ Update(r, to) \in Timers /\ Update(r, to).alarmclk = r.alarmclk
           /\ r.clk <= to => Update(r, to).clk = to
<1>1. PICK f : /\ Update(r, to) = f[Zeroed(r)]
               /\ \A s \in Timers : f[s] = IF s.clk < to THEN f[Round(s, to)] ELSE s
  BY UpdateDefined
<1>2. to \in Nat
  BY Constants
<1> DEFINE More(s) == IF Counting(s.flags) THEN 1 ELSE 0
           Left(s) == 2 * (to - s.clk) + More(s)
           Good(s) == f[s] \in Timers /\ f[s].clk = to /\ f[s].alarmclk = s.alarmclk
           G == {k \in Nat : \A s \in Timers : s.clk <= to /\ Left(s) <= k => Good(s)}
<1>3. ASSUME NEW s \in Timers, s.clk = to  PROVE Good(s)
  BY <1>1, <1>2, <1>3
<1>4. 0 \in G
  <2>1. ASSUME NEW s \in Timers, s.clk <= to, Left(s) <= 0  PROVE Good(s)
    <3>1. s.clk \in Nat /\ More(s) \in {0, 1}
      BY TimerFields, Constants
    <3>2. s.clk = to
      <4> HIDE DEF More
      <4> QED BY <1>2, <2>1, <3>1
    <3> QED BY <1>3, <3>2
  <2> HIDE DEF Good, Left
  <2> QED BY <2>1
<1>5. ASSUME NEW k \in G  PROVE k + 1 \in G
  <2>1. ASSUME NEW s \in Timers, s.clk <= to, Left(s) <= k + 1  PROVE Good(s)
    <3>1. s.clk \in Nat /\ More(s) \in {0, 1} /\ k \in Nat
      BY TimerFields, Constants
    <3>2. CASE s.clk = to
      BY <1>3, <3>2
    <3>3. CASE s.clk < to
      <4>1. PICK u \in Timers : /\ u = Round(s, to) /\ s.clk <= u.clk /\ u.clk <= to
                                /\ u.alarmclk = s.alarmclk
                                /\ u.clk = s.clk => Counting(s.flags) /\ ~Counting(u.flags)
        BY <3>3, RoundType
      <4>2. u.clk \in Nat /\ More(u) \in {0, 1}
        BY TimerFields, Constants
      <4>3. u.clk = s.clk => More(s) = 1 /\ More(u) = 0
        BY <4>1
      <4>4. Left(u) <= k
        <5>1. PICK x \in Nat, y \in Nat : x = s.clk /\ y = u.clk /\ x <= y /\ y <= to
          BY <3>1, <4>1, <4>2
        <5>2. PICK a \in 0 .. 1, b \in 0 .. 1 : a = More(s) /\ b = More(u)
          BY <3>1, <4>2
        <5>3. 2 * (to - x) + a <= k + 1
          BY <2>1, <5>1, <5>2
        <5>4. x = y => a = 1 /\ b = 0
          BY <4>3, <5>1, <5>2
        <5>5. 2 * (to - y) + b <= k
          <6>1. k \in Nat
            OBVIOUS
          <6>2. CASE x = y
            BY <1>2, <5>3, <5>4, <6>1, <6>2
          <6>3. CASE x # y
            <7>1. x + 1 <= y
              BY <5>1, <6>3
            <7> QED BY <1>2, <5>3, <6>1, <7>1
          <6> QED BY <6>2, <6>3
        <5> QED BY <5>1, <5>2, <5>5
      <4>5. Good(u)
        <5> HIDE DEF Good, Left
        <5> QED BY <4>1, <4>4
      <4>6. f[s] = f[u]
        BY <1>1, <3>3, <4>1
      <4> QED BY <4>1, <4>5, <4>6
    <3> QED BY <1>2, <2>1, <3>1, <3>2, <3>3
  <2> HIDE DEF Good, Left
  <2> QED BY <2>1
<1>6. \A k \in Nat : k \in G
  <2>1. G \in SUBSET Nat
    OBVIOUS
  <2> HIDE DEF G
  <2> QED BY <1>4, <1>5, <2>1, Induction
<1>7. PICK z \in Timers : z = Zeroed(r) /\ z.clk = r.clk /\ z.alarmclk = r.alarmclk
  BY ZeroedFields
<1>8. CASE r.clk <= to
  <2>1. Left(z) \in Nat
    <3>1. More(z) \in {0, 1} /\ z.clk \in Nat
      BY TimerFields, Constants
    <3> HIDE DEF More
    <3> QED BY <1>2, <1>7, <1>8, <3>1
  <2>2. Good(z)
    <3>1. Left(z) \in G
      BY <1>6, <2>1
    <3>2. Left(z) <= Left(z)
      <4> HIDE DEF Left
      <4> QED BY <2>1
    <3> HIDE DEF Good, Left
    <3> QED BY <1>7, <1>8, <3>1, <3>2
  <2> QED BY <1>1, <1>7, <2>2
<1>9. CASE ~(r.clk <= to)
  <2>1. ~(z.clk < to)
    BY <1>2, <1>7, <1>9, TimerFields, Constants
  <2>2. f[z] = z
    BY <1>1, <2>1
  <2> QED BY <1>1, <1>7, <1>9, <2>2
<1> QED BY <1>8, <1>9

LEMMA FineAfter ==
    ASSUME NEW r \in Timers, NEW to \in Clock, Fine(r, to), NEW k \in Nat, r.clk + k <= ClockMax
    PROVE  Fine(After(r, k), to)
<1>1. PICK s \in Timers : s = After(r, k) /\ s.latch = r.latch
  BY AfterStep, AfterFields
<1>2. s.clk = r.clk + k /\ r.clk \in Nat
  BY <1>1, AfterFields, TimerFields, Constants
<1>3. CASE r.latch # 0
  BY <1>1, <1>3 DEF Fine
<1>4. CASE r.latch = 0 /\ r.cnt = 0
  <2> DEFINE Holds == {u \in Timers : u.latch = 0 /\ u.cnt = 0}
  <2>1. ASSUME NEW u \in Holds  PROVE Step(u) \in Holds
    <3>1. Counted(u) = 0
      BY DEF Counted
    <3> QED BY <3>1, StepFields
  <2>2. After(r, k) \in Holds
    <3>1. r \in Holds /\ Holds \in SUBSET Timers
      BY <1>4
    <3> HIDE DEF Holds
    <3> QED BY <2>1, <3>1, Cycles
  <2> QED BY <2>2 DEF Fine
<1>5. CASE \A i \in Nat : r.clk + i + 1 < to => ~Out(After(r, i))
  <2>1. ASSUME NEW i \in Nat, s.clk + i + 1 < to  PROVE ~Out(After(s, i))
    <3>1. After(s, i) = After(r, k + i)
      BY <1>1, AfterSum
    <3>2. k + i \in Nat /\ r.clk + (k + i) + 1 < to
      BY <1>2, <2>1, Constants
    <3>3. ~Out(After(r, k + i))
      BY <1>5, <3>2
    <3> QED BY <3>1, <3>3
  <2> QED BY <1>1, <2>1 DEF Fine
<1> QED BY <1>3, <1>4, <1>5 DEF Fine

LEMMA UpdateIsAfter ==
    ASSUME NEW r \in Timers, Sound(r), NEW to \in Clock, r.clk <= to, Fine(r, to)
    PROVE  to - r.clk \in Nat /\ Update(r, to) = After(Zeroed(r), to - r.clk)
<1>1. PICK f : /\ Update(r, to) = f[Zeroed(r)]
               /\ \A s \in Timers : f[s] = IF s.clk < to THEN f[Round(s, to)] ELSE s
  BY UpdateDefined
<1>2. to \in Nat /\ to <= ClockMax /\ ClockMax \in Nat
  BY Constants
<1> DEFINE Fits(s) == Sound(s) /\ s.clk <= to /\ Fine(s, to)
           Good(s) == f[s] = After(s, to - s.clk)
           G == {k \in Nat : \A s \in Timers : Fits(s) /\ to - s.clk <= k => Good(s)}
<1>3. ASSUME NEW s \in Timers, s.clk = to  PROVE Good(s)
  <2>1. to - s.clk = 0
    BY <1>2, <1>3
  <2>2. f[s] = s
    BY <1>1, <1>2, <1>3
  <2>3. After(s, 0) = s
    BY AfterDefined
  <2> QED BY <2>1, <2>2, <2>3
<1>4. 0 \in G
  <2>1. ASSUME NEW s \in Timers, Fits(s), to - s.clk <= 0  PROVE Good(s)
    <3>1. s.clk \in Nat
      BY TimerFields, Constants
    <3>2. s.clk = to
      BY <1>2, <2>1, <3>1
    <3> QED BY <1>3, <3>2
  <2> HIDE DEF Good, Fits
  <2> QED BY <2>1
<1>5. ASSUME NEW k \in G  PROVE k + 1 \in G
  <2>1. ASSUME NEW s \in Timers, Fits(s), to - s.clk <= k + 1  PROVE Good(s)
    <3>1. s.clk \in Nat /\ k \in Nat
      BY TimerFields, Constants
    <3>2. CASE s.clk = to
      BY <1>3, <3>2
    <3>3. CASE s.clk < to
      <4>1. PICK i \in 1 .. to - s.clk : Round(s, to) = After(s, i)
        BY <2>1, <3>3, RoundIsSteps
      <4>2. i \in Nat /\ s.clk + i <= ClockMax /\ s.clk + i <= to /\ i >= 1
        BY <1>2, <3>1
      <4>3. PICK u \in Timers : u = After(s, i)
        BY <4>2, AfterStep
      <4>4. u.clk = s.clk + i
        BY <4>2, <4>3, AfterFields
      <4>5. Sound(u)
        BY <2>1, <4>2, <4>3, AfterSound
      <4>6. Fine(u, to)
        BY <2>1, <4>2, <4>3, FineAfter
      <4>7. to - u.clk <= k /\ u.clk <= to /\ to - u.clk \in Nat
            /\ i + (to - u.clk) = to - s.clk
        BY <1>2, <2>1, <3>1, <4>2, <4>4
      <4>8. Good(u)
        <5>1. Fits(u)
          BY <4>5, <4>6, <4>7
        <5> HIDE DEF Good, Fits
        <5> QED BY <4>7, <5>1
      <4>9. f[s] = f[u]
        BY <1>1, <3>3, <4>1, <4>3
      <4>10. After(s, i + (to - u.clk)) = After(u, to - u.clk)
        BY <4>2, <4>3, <4>7, AfterSum
      <4> QED BY <4>7, <4>8, <4>9, <4>10
    <3> QED BY <1>2, <2>1, <3>1, <3>2, <3>3
  <2> HIDE DEF Good, Fits
  <2> QED BY <2>1
<1>6. \A k \in Nat : k \in G
  <2>1. G \in SUBSET Nat
    OBVIOUS
  <2> HIDE DEF G
  <2> QED BY <1>4, <1>5, <2>1, Induction
<1>7. PICK z \in Timers : /\ z = Zeroed(r) /\ z.clk = r.clk /\ Like(z, r) /\ Sound(z)
  BY ZeroedFields
<1>8. Fine(z, to)
  <2>1. \A i \in Nat : Out(After(z, i)) <=> Out(After(r, i))
    BY <1>7, AfterLike
  <2> QED BY <1>7, <2>1 DEF Fine, Like
<1>9. to - r.clk \in Nat
  BY <1>2, TimerFields, Constants
<1>10. Good(z)
  <2>1. Fits(z) /\ to - z.clk \in Nat /\ to - z.clk <= to - z.clk
    BY <1>2, <1>7, <1>8, <1>9
  <2>2. to - z.clk \in G
    BY <1>6, <2>1
  <2> HIDE DEF Good, Fits
  <2> QED BY <2>1, <2>2
<1> QED BY <1>1, <1>7, <1>9, <1>10

-----------------------------------------------------------------------------
(* ciat_set_alarm finds the first underflow.                                *)

Asleep(r) == [r EXCEPT !.alarmclk = Never, !.n = 0]

LEMMA AsleepFields ==
    ASSUME NEW r \in Timers
    PROVE  /\ Asleep(r) \in Timers /\ Like(Asleep(r), r) /\ Asleep(r).clk = r.clk
           /\ Asleep(r).alarmclk = Never /\ Asleep(r).n = 0
<1>1. PICK c \in Clock : c = Never
  BY Constants
<1>2. PICK u : u = [r EXCEPT !.alarmclk = c, !.n = 0]
  OBVIOUS
<1>3. u \in Timers /\ u.flags = r.flags /\ u.cnt = r.cnt /\ u.latch = r.latch /\ u.clk = r.clk
      /\ u.alarmclk = c /\ u.n = 0
  BY ONLY r \in Timers, c \in Clock, <1>2 DEF Timers
<1>4. u = Asleep(r)
  BY <1>1, <1>2, Zenon DEF Asleep
<1> QED BY <1>1, <1>3, <1>4 DEF Like

FirstOf(f) ==
    f = [s \in Timers |->
            IF Counting(s.flags) THEN ClockAdd(s.clk, s.cnt)
            ELSE IF Standing(s.flags) THEN Never
            ELSE LET c == Cycle(s)
                 IN  IF Underflows(c) THEN c.clk ELSE f[Settle(c)]]

LEMMA NextUnderflowDefined ==
    ASSUME NEW r \in Timers
    PROVE  \E f : /\ NextUnderflow(r) = f[Asleep(r)]
                  /\ \A s \in Timers :
                         f[s] = IF Counting(s.flags) THEN ClockAdd(s.clk, s.cnt)
                                ELSE IF Standing(s.flags) THEN Never
                                ELSE IF Out(s) THEN ClockAdd(s.clk, 1)
                                ELSE f[Step(s)]
<1> DEFINE S == Timers
           done == {s \in S : Counting(s.flags) \/ Standing(s.flags) \/ Underflows(Cycle(s))}
           value == [s \in S |-> IF Counting(s.flags) THEN ClockAdd(s.clk, s.cnt)
                                 ELSE IF Standing(s.flags) THEN Never
                                 ELSE Cycle(s).clk]
           next == [s \in S |-> Settle(Cycle(s))]
<1>1. next \in [S -> S]
  <2>1. ASSUME NEW s \in S  PROVE Settle(Cycle(s)) \in S
    BY StepFields DEF Step
  <2> QED BY <2>1
<1>2. PICK f : f = [s \in S |-> IF s \in done THEN value[s] ELSE f[next[s]]]
  <2>1. done \in SUBSET S
    OBVIOUS
  <2> HIDE DEF S, done, value, next
  <2>2. PICK f : LoopOf(f, S, done, value, next)
    BY <1>1, <2>1, Loop
  <2>3. f = [x \in S |-> IF x \in done THEN value[x] ELSE f[next[x]]]
    BY <2>2, Zenon DEF LoopOf
  <2> QED BY <2>3, Zenon
<1>3. ASSUME NEW s \in S
      PROVE  (IF s \in done THEN value[s] ELSE f[next[s]])
             = IF Counting(s.flags) THEN ClockAdd(s.clk, s.cnt)
               ELSE IF Standing(s.flags) THEN Never
               ELSE LET c == Cycle(s)
                    IN  IF Underflows(c) THEN c.clk ELSE f[Settle(c)]
  OBVIOUS
<1>4. f = [s \in S |-> IF Counting(s.flags) THEN ClockAdd(s.clk, s.cnt)
                       ELSE IF Standing(s.flags) THEN Never
                       ELSE LET c == Cycle(s)
                            IN  IF Underflows(c) THEN c.clk ELSE f[Settle(c)]]
  <2> HIDE DEF S, done, value, next
  <2> QED BY <1>2, <1>3
<1>5. FirstOf(f)
  BY <1>4, Zenon DEF FirstOf
<1> DEFINE g == CHOOSE h : FirstOf(h)
<1>6. FirstOf(g)
  BY <1>5, Zenon
<1>7. NextUnderflow(r) = g[Asleep(r)]
  BY Zenon DEF NextUnderflow, FirstOf, Asleep
<1>8. ASSUME NEW s \in Timers
      PROVE  g[s] = IF Counting(s.flags) THEN ClockAdd(s.clk, s.cnt)
                    ELSE IF Standing(s.flags) THEN Never
                    ELSE IF Out(s) THEN ClockAdd(s.clk, 1)
                    ELSE g[Step(s)]
  <2> HIDE DEF g
  <2>1. g[s] = IF Counting(s.flags) THEN ClockAdd(s.clk, s.cnt)
               ELSE IF Standing(s.flags) THEN Never
               ELSE IF Underflows(Cycle(s)) THEN Cycle(s).clk ELSE g[Settle(Cycle(s))]
    BY <1>6 DEF FirstOf
  <2>2. (Underflows(Cycle(s)) <=> Out(s)) /\ Cycle(s).clk = ClockAdd(s.clk, 1)
    BY CycleFields
  <2> QED BY <2>1, <2>2, Zenon DEF Step
<1> HIDE DEF g
<1> QED BY <1>7, <1>8

Resolved(s) == Counting(s.flags) \/ Standing(s.flags) \/ Out(s)

(* The pipeline is empty after four cycles.                                 *)
LEMMA SoonResolved ==
    ASSUME NEW r \in Timers
    PROVE  \E i \in 0 .. 4 : Resolved(After(r, i))
<1> SUFFICES ASSUME \A i \in 0 .. 4 : ~Resolved(After(r, i))  PROVE FALSE
  OBVIOUS
<1>0. After(r, 0) = r /\ 0 + 1 = 1 /\ 1 + 1 = 2 /\ 2 + 1 = 3 /\ 3 + 1 = 4
  BY AfterDefined
<1>1. PICK a \in Timers : a = After(r, 1) /\ a = Step(r)
  BY <1>0, AfterStep
<1>2. PICK b \in Timers : b = After(r, 2) /\ b = Step(a)
  BY <1>0, <1>1, AfterStep
<1>3. PICK c \in Timers : c = After(r, 3) /\ c = Step(b)
  BY <1>0, <1>2, AfterStep
<1>4. PICK d \in Timers : d = After(r, 4) /\ d = Step(c)
  BY <1>0, <1>3, AfterStep
<1>5. ~Out(r) /\ ~Out(a) /\ ~Out(b) /\ ~Out(c) /\ ~Stops(r) /\ ~Stops(a) /\ ~Stops(b) /\ ~Stops(c)
  <2>1. ~Resolved(After(r, 0)) /\ ~Resolved(After(r, 1)) /\ ~Resolved(After(r, 2))
        /\ ~Resolved(After(r, 3))
    OBVIOUS
  <2> QED BY <1>0, <1>1, <1>2, <1>3, <2>1 DEF Resolved, Stops
<1>6. ~Counting(d.flags) /\ ~Standing(d.flags)
  <2>1. ~Resolved(After(r, 4))
    OBVIOUS
  <2> QED BY <1>4, <2>1 DEF Resolved
<1>7. /\ "FLOAD" \notin a.flags /\ "STEP" \notin a.flags
      /\ "COUNT2" \in a.flags <=> "START" \in a.flags /\ "PHI2IN" \in a.flags
      /\ "ONESHOT0" \in a.flags <=> "ONESHOT_CR" \in a.flags
  BY <1>1, <1>5, StepFields
<1>8. /\ "FLOAD" \notin b.flags /\ "STEP" \notin b.flags /\ "LOAD1" \notin b.flags
      /\ "COUNT2" \in b.flags <=> "START" \in b.flags /\ "PHI2IN" \in b.flags
      /\ "ONESHOT0" \in b.flags <=> "ONESHOT_CR" \in b.flags
      /\ "ONESHOT" \in b.flags <=> "ONESHOT_CR" \in b.flags
  BY <1>2, <1>5, <1>7, StepFields
<1>9. ~Loads(b)
  BY <1>5, <1>8 DEF Loads
<1>10. /\ "FLOAD" \notin c.flags /\ "STEP" \notin c.flags /\ "LOAD1" \notin c.flags
       /\ "LOAD" \notin c.flags
       /\ "COUNT2" \in c.flags <=> "START" \in c.flags /\ "PHI2IN" \in c.flags
       /\ "COUNT3" \in c.flags <=> "START" \in c.flags /\ "PHI2IN" \in c.flags
       /\ "ONESHOT0" \in c.flags <=> "ONESHOT_CR" \in c.flags
       /\ "ONESHOT" \in c.flags <=> "ONESHOT_CR" \in c.flags
  BY <1>3, <1>5, <1>8, <1>9, StepFields
<1>11. ~Loads(c)
  BY <1>5, <1>10 DEF Loads
<1>12. /\ "FLOAD" \notin d.flags /\ "STEP" \notin d.flags /\ "LOAD1" \notin d.flags
       /\ "LOAD" \notin d.flags
       /\ "COUNT2" \in d.flags <=> "START" \in d.flags /\ "PHI2IN" \in d.flags
       /\ "COUNT3" \in d.flags <=> "START" \in d.flags /\ "PHI2IN" \in d.flags
       /\ "COUNT" \in d.flags <=> "START" \in d.flags /\ "PHI2IN" \in d.flags
       /\ "ONESHOT0" \in d.flags <=> "ONESHOT_CR" \in d.flags
       /\ "ONESHOT" \in d.flags <=> "ONESHOT_CR" \in d.flags
  BY <1>4, <1>5, <1>10, <1>11, StepFields
<1>13. d.flags \in SUBSET Flags
  BY TimerFields
<1>14. Counting(d.flags) \/ Standing(d.flags)
  BY <1>12, <1>13, CountingMeans, StandingMeans, SteadyMeans
<1> QED BY <1>6, <1>14

(* N is when timer r underflows first.                                      *)
When(r, N) ==
    \/ N = Never /\ \A k \in Nat : ~Out(After(r, k))
    \/ \E k \in Nat : /\ N = r.clk + k + 1 /\ N < Never /\ Out(After(r, k))
                      /\ \A j \in Nat : j < k => ~Out(After(r, j))

LEMMA WhenUnique ==
    ASSUME NEW r \in Timers, NEW s \in Timers, Like(r, s), NEW N, NEW M,
           When(r, N), When(s, M)
    PROVE  \/ N = Never /\ M = Never
           \/ N < Never /\ M < Never /\ N \in Nat /\ M \in Nat /\ N - r.clk = M - s.clk
<1>0. r.clk \in Nat /\ s.clk \in Nat
  BY TimerFields, Constants
<1>1. \A k \in Nat : Out(After(r, k)) <=> Out(After(s, k))
  BY AfterLike
<1>2. CASE \A k \in Nat : ~Out(After(r, k))
  <2>1. N = Never
    BY <1>2 DEF When
  <2>2. M = Never
    BY <1>1, <1>2 DEF When
  <2> QED BY <2>1, <2>2
<1>3. CASE \E k \in Nat : Out(After(r, k))
  <2>1. PICK k \in Nat : /\ N = r.clk + k + 1 /\ N < Never /\ Out(After(r, k))
                         /\ \A j \in Nat : j < k => ~Out(After(r, j))
    BY <1>3 DEF When
  <2>2. PICK i \in Nat : /\ M = s.clk + i + 1 /\ M < Never /\ Out(After(s, i))
                         /\ \A j \in Nat : j < i => ~Out(After(s, j))
    BY <1>1, <1>3 DEF When
  <2>3. k = i
    <3>1. ~(k < i)
      BY <1>1, <2>1, <2>2
    <3>2. ~(i < k)
      BY <1>1, <2>1, <2>2
    <3> QED BY <3>1, <3>2
  <2> QED BY <1>0, <2>1, <2>2, <2>3
<1> QED BY <1>2, <1>3

(* Some cycles later it is still the first underflow.                       *)
LEMMA WhenLater ==
    ASSUME NEW r \in Timers, NEW k \in Nat, r.clk + k <= ClockMax,
           \A j \in Nat : j < k => ~Out(After(r, j)),
           NEW N
    PROVE  When(r, N) <=> When(After(r, k), N)
<1>1. PICK s \in Timers : s = After(r, k) /\ s.clk = r.clk + k /\ s.clk \in Nat /\ r.clk \in Nat
  <2>1. PICK s \in Timers : s = After(r, k)
    BY AfterStep
  <2>2. s.clk = r.clk + k
    BY <2>1, AfterFields
  <2>3. s.clk \in Nat /\ r.clk \in Nat
    BY TimerFields, Constants
  <2> QED BY <2>1, <2>2, <2>3
<1>2. ASSUME NEW i \in Nat  PROVE After(s, i) = After(r, k + i)
  BY <1>1, AfterSum
<1>3. ASSUME \A i \in Nat : ~Out(After(r, i))  PROVE \A i \in Nat : ~Out(After(s, i))
  BY <1>2, <1>3
<1>4. ASSUME \A i \in Nat : ~Out(After(s, i))  PROVE \A i \in Nat : ~Out(After(r, i))
  <2>1. ASSUME NEW i \in Nat, i >= k  PROVE ~Out(After(r, i))
    <3>1. i - k \in Nat /\ k + (i - k) = i
      BY <2>1
    <3> QED BY <1>2, <1>4, <3>1
  <2> QED BY <2>1
<1>5. ASSUME NEW i \in Nat, N = r.clk + i + 1, Out(After(r, i)),
             \A j \in Nat : j < i => ~Out(After(r, j))
      PROVE  /\ i - k \in Nat /\ N = s.clk + (i - k) + 1 /\ Out(After(s, i - k))
             /\ \A j \in Nat : j < i - k => ~Out(After(s, j))
  <2>1. ~(i < k)
    BY <1>5
  <2>2. i - k \in Nat /\ k + (i - k) = i
    BY <2>1
  <2>3. N = s.clk + (i - k) + 1
    BY <1>1, <1>5, <2>2
  <2>4. Out(After(s, i - k))
    BY <1>2, <1>5, <2>2
  <2>5. ASSUME NEW j \in Nat, j < i - k  PROVE ~Out(After(s, j))
    <3>1. k + j \in Nat /\ k + j < i
      BY <2>2, <2>5
    <3> QED BY <1>2, <1>5, <3>1
  <2> QED BY <2>2, <2>3, <2>4, <2>5
<1>6. ASSUME NEW i \in Nat, N = s.clk + i + 1, Out(After(s, i)),
             \A j \in Nat : j < i => ~Out(After(s, j))
      PROVE  /\ k + i \in Nat /\ N = r.clk + (k + i) + 1 /\ Out(After(r, k + i))
             /\ \A j \in Nat : j < k + i => ~Out(After(r, j))
  <2>1. k + i \in Nat /\ N = r.clk + (k + i) + 1
    BY <1>1, <1>6
  <2>2. Out(After(r, k + i))
    BY <1>2, <1>6
  <2>3. ASSUME NEW j \in Nat, j < k + i, ~(j < k)  PROVE ~Out(After(r, j))
    <3>1. j - k \in Nat /\ k + (j - k) = j /\ j - k < i
      BY <2>3
    <3> QED BY <1>2, <1>6, <3>1
  <2> QED BY <2>1, <2>2, <2>3
<1>7. ASSUME When(r, N)  PROVE When(s, N)
  BY <1>3, <1>5, <1>7 DEF When
<1>8. ASSUME When(s, N)  PROVE When(r, N)
  BY <1>4, <1>6, <1>8 DEF When
<1> QED BY <1>1, <1>7, <1>8

(* When a timer is found counting, standing or about to underflow.          *)
LEMMA WhenResolved ==
    ASSUME NEW s \in Timers, Sound(s), s.clk + Word < ClockMax
    PROVE  /\ Counting(s.flags) => When(s, ClockAdd(s.clk, s.cnt))
           /\ Standing(s.flags) => When(s, Never)
           /\ Out(s) => When(s, ClockAdd(s.clk, 1))
<1>0. /\ s.clk \in Clock /\ s.clk \in Nat /\ s.cnt \in Nat /\ s.cnt < Word /\ Word \in Nat
      /\ 4 <= Word /\ ClockMax \in Nat
  BY TimerFields, Constants
<1>1. ASSUME Counting(s.flags)  PROVE When(s, ClockAdd(s.clk, s.cnt))
  <2>1. s.cnt >= 1
    BY <1>1, CountingStep
  <2>2. s.clk + s.cnt <= ClockMax /\ s.clk + s.cnt < ClockMax
    BY <1>0
  <2>3. ClockAdd(s.clk, s.cnt) = s.clk + s.cnt
    BY <1>0, <2>2, ClockSums
  <2>4. s.cnt - 1 \in Nat /\ s.cnt - 1 \in 0 .. s.cnt - 1 /\ s.clk + s.cnt = s.clk + (s.cnt - 1) + 1
    BY <1>0, <2>1
  <2>5. Out(After(s, s.cnt - 1))
    BY <1>1, <2>4, CountDown
  <2>6. ASSUME NEW j \in Nat, j < s.cnt - 1  PROVE ~Out(After(s, j))
    <3>1. j \in 0 .. s.cnt - 1 /\ j # s.cnt - 1
      BY <1>0, <2>6
    <3> QED BY <1>1, <3>1, CountDown
  <2> QED BY <2>2, <2>3, <2>4, <2>5, <2>6 DEF When, Never
<1>2. ASSUME Standing(s.flags)  PROVE When(s, Never)
  BY <1>2, StandStill DEF When
<1>3. ASSUME Out(s)  PROVE When(s, ClockAdd(s.clk, 1))
  <2>1. ClockAdd(s.clk, 1) = s.clk + 1
    <3>1. s.clk + 1 <= ClockMax /\ 1 \in Nat
      BY <1>0
    <3> QED BY <1>0, <3>1, ClockSums
  <2>2. s.clk + 1 = s.clk + 0 + 1 /\ s.clk + 1 < ClockMax
    BY <1>0
  <2>3. Out(After(s, 0)) /\ \A j \in Nat : j < 0 => ~Out(After(s, j))
    BY <1>3, AfterDefined
  <2> QED BY <2>1, <2>2, <2>3 DEF When, Never
<1> QED BY <1>1, <1>2, <1>3

LEMMA NextUnderflowChain ==
    ASSUME NEW r \in Timers
    PROVE  \E z \in Timers, i \in 0 .. 4 :
               /\ Like(z, r) /\ z.clk = r.clk
               /\ \A j \in Nat : j < i => ~Out(After(z, j))
               /\ LET s == After(z, i)
                  IN  \/ Counting(s.flags) /\ NextUnderflow(r) = ClockAdd(s.clk, s.cnt)
                      \/ Standing(s.flags) /\ NextUnderflow(r) = Never
                      \/ Out(s) /\ NextUnderflow(r) = ClockAdd(s.clk, 1)
<1>1. PICK f : /\ NextUnderflow(r) = f[Asleep(r)]
               /\ \A s \in Timers :
                      f[s] = IF Counting(s.flags) THEN ClockAdd(s.clk, s.cnt)
                             ELSE IF Standing(s.flags) THEN Never
                             ELSE IF Out(s) THEN ClockAdd(s.clk, 1)
                             ELSE f[Step(s)]
  BY NextUnderflowDefined
<1>2. PICK z \in Timers : z = Asleep(r) /\ Like(z, r) /\ z.clk = r.clk
  BY AsleepFields
<1>3. PICK i \in 0 .. 4 : Resolved(After(z, i)) /\ \A j \in Nat : j < i => ~Resolved(After(z, j))
  <2> DEFINE T == {i \in 0 .. 4 : Resolved(After(z, i))}
  <2>1. T \in SUBSET Nat /\ T # {}
    BY SoonResolved
  <2>2. PICK i \in T : \A j \in T : i <= j
    <3> HIDE DEF T
    <3> QED BY <2>1, LeastNatural
  <2>3. ASSUME NEW j \in Nat, j < i  PROVE j \notin T /\ j \in 0 .. 4
    BY <2>2, <2>3
  <2> QED BY <2>2, <2>3
<1>4. i \in Nat
  OBVIOUS
<1> DEFINE G == {j \in Nat : j <= i => f[After(z, j)] = f[z]}
<1>5. 0 \in G
  BY AfterDefined
<1>6. ASSUME NEW j \in G  PROVE j + 1 \in G
  <2>1. j \in Nat
    OBVIOUS
  <2>2. ASSUME j + 1 <= i  PROVE f[After(z, j + 1)] = f[z]
    <3>1. j < i /\ j <= i
      BY <1>4, <2>1, <2>2
    <3>2. PICK s \in Timers : s = After(z, j) /\ After(z, j + 1) = Step(s)
      BY <2>1, AfterStep
    <3>3. ~Resolved(s)
      BY <1>3, <2>1, <3>1, <3>2
    <3>4. f[s] = f[Step(s)]
      BY <1>1, <3>3 DEF Resolved
    <3> QED BY <3>1, <3>2, <3>4
  <2> QED BY <2>1, <2>2
<1>7. f[After(z, i)] = f[z]
  <2>1. G \in SUBSET Nat
    OBVIOUS
  <2>2. i \in G
    <3> HIDE DEF G
    <3> QED BY <1>4, <1>5, <1>6, <2>1, Induction
  <2> QED BY <1>4, <2>2
<1>8. \A j \in Nat : j < i => ~Out(After(z, j))
  BY <1>3 DEF Resolved
<1>9. PICK s \in Timers : s = After(z, i)
  BY <1>4, AfterStep
<1>10. NextUnderflow(r) = f[s]
  BY <1>1, <1>2, <1>7, <1>9, Zenon
<1>11. \/ Counting(s.flags) /\ NextUnderflow(r) = ClockAdd(s.clk, s.cnt)
       \/ Standing(s.flags) /\ NextUnderflow(r) = Never
       \/ Out(s) /\ NextUnderflow(r) = ClockAdd(s.clk, 1)
  BY <1>1, <1>3, <1>9, <1>10 DEF Resolved
<1> QED BY <1>2, <1>8, <1>9, <1>11, Zenon

LEMMA NextUnderflowType ==
    ASSUME NEW r \in Timers
    PROVE  NextUnderflow(r) \in Clock
<1>1. PICK z \in Timers, i \in 0 .. 4 :
          /\ Like(z, r) /\ z.clk = r.clk
          /\ \A j \in Nat : j < i => ~Out(After(z, j))
          /\ LET s == After(z, i)
             IN  \/ Counting(s.flags) /\ NextUnderflow(r) = ClockAdd(s.clk, s.cnt)
                 \/ Standing(s.flags) /\ NextUnderflow(r) = Never
                 \/ Out(s) /\ NextUnderflow(r) = ClockAdd(s.clk, 1)
  BY NextUnderflowChain
<1>2. PICK s \in Timers : s = After(z, i)
  BY AfterStep
<1>3. s.clk \in Clock /\ s.cnt \in Nat /\ 1 \in Nat
  BY TimerFields, Constants
<1>4. ClockAdd(s.clk, s.cnt) \in Clock /\ ClockAdd(s.clk, 1) \in Clock /\ Never \in Clock
  <2>1. ClockAdd(s.clk, s.cnt) \in Clock /\ ClockAdd(s.clk, 1) \in Clock
    BY <1>3, ClockSums
  <2>2. Never \in Clock
    BY Constants
  <2> QED BY <2>1, <2>2
<1> QED BY <1>1, <1>2, <1>4

(* ciat_set_alarm.                                                          *)
LEMMA NextUnderflowWhen ==
    ASSUME NEW r \in Timers, Sound(r), r.clk <= GuardMax + 1
    PROVE  When(r, NextUnderflow(r))
<1>1. PICK z \in Timers, i \in 0 .. 4 :
          /\ Like(z, r) /\ z.clk = r.clk
          /\ \A j \in Nat : j < i => ~Out(After(z, j))
          /\ LET s == After(z, i)
             IN  \/ Counting(s.flags) /\ NextUnderflow(r) = ClockAdd(s.clk, s.cnt)
                 \/ Standing(s.flags) /\ NextUnderflow(r) = Never
                 \/ Out(s) /\ NextUnderflow(r) = ClockAdd(s.clk, 1)
  BY NextUnderflowChain
<1>2. PICK N : N = NextUnderflow(r)
  OBVIOUS
<1>3. i \in Nat /\ z.clk + i <= ClockMax /\ z.clk + i + Word < ClockMax
  BY <1>1, TimerFields, Constants
<1>4. Sound(z)
  BY <1>1 DEF Sound, Like
<1>5. PICK s \in Timers : s = After(z, i) /\ s.clk = z.clk + i /\ Sound(s)
  BY <1>3, <1>4, AfterStep, AfterFields, AfterSound
<1>6. \/ Counting(s.flags) /\ N = ClockAdd(s.clk, s.cnt)
      \/ Standing(s.flags) /\ N = Never
      \/ Out(s) /\ N = ClockAdd(s.clk, 1)
  BY <1>1, <1>2, <1>5
<1>7. s.clk + Word < ClockMax
  BY <1>3, <1>5
<1>8. When(s, N)
  BY <1>6, <1>7, <1>5, WhenResolved
<1>9. When(z, N)
  BY <1>1, <1>3, <1>5, <1>8, WhenLater
<1>10. \A k \in Nat : Out(After(z, k)) <=> Out(After(r, k))
  BY <1>1, AfterLike
<1>11. When(r, N)
  BY <1>1, <1>9, <1>10 DEF When
<1> QED BY <1>2, <1>11

-----------------------------------------------------------------------------
(* What the functions of ciacore.c do to a chip.                            *)

LEMMA ChipFields ==
    ASSUME NEW c \in Chips
    PROVE  /\ c.new \in BOOLEAN /\ c.timer \in Timers /\ c.due \in Clock
           /\ c.cra \in SUBSET CraBits /\ c.icr \in SUBSET Sources
           /\ c.irqflags \in SUBSET (Sources \cup {"IR"}) /\ c.rdi \in Clock
           /\ c.irq \in [on : BOOLEAN, clk : Clock]
BY DEF Chips

\* What a chip keeps beside its timer and its interrupt
SameRest(c, d) ==
    /\ c.new = d.new /\ c.cra = d.cra /\ c.icr = d.icr /\ c.rdi = d.rdi

AlarmAt(c, t) == [c EXCEPT !.timer.alarmclk = t, !.due = t]

LEMMA WithAlarm ==
    ASSUME NEW c \in Chips, NEW t \in Clock
    PROVE  LET d == AlarmAt(c, t)
           IN  /\ d \in Chips /\ Like(d.timer, c.timer) /\ d.timer.clk = c.timer.clk
               /\ d.timer.n = c.timer.n /\ d.timer.alarmclk = t /\ d.due = t
               /\ d.irqflags = c.irqflags /\ d.irq = c.irq
               /\ SameRest(c, d)
<1>1. PICK r \in Timers : r = c.timer
  BY ChipFields
<1>2. PICK u : u = [r EXCEPT !.alarmclk = t]
  OBVIOUS
<1>3. /\ u \in Timers /\ u.flags = r.flags /\ u.cnt = r.cnt /\ u.latch = r.latch
      /\ u.clk = r.clk /\ u.n = r.n /\ u.alarmclk = t
  BY ONLY r \in Timers, t \in Clock, <1>2 DEF Timers
<1>4. PICK d : d = [c EXCEPT !.timer = u, !.due = t]
  OBVIOUS
<1>5. d = AlarmAt(c, t)
  BY <1>1, <1>2, <1>4, Zenon DEF AlarmAt
<1>6. /\ d \in Chips /\ d.timer = u /\ d.due = t /\ d.irqflags = c.irqflags /\ d.irq = c.irq
      /\ d.new = c.new /\ d.cra = c.cra /\ d.icr = c.icr /\ d.rdi = c.rdi
  <2>1. u \in Timers
    BY <1>3
  <2> QED BY ONLY c \in Chips, t \in Clock, <1>4, <2>1 DEF Chips
<1> QED BY <1>1, <1>3, <1>5, <1>6 DEF Like, SameRest

LEMMA SetAlarmFields ==
    ASSUME NEW c \in Chips
    PROVE  LET d == SetAlarm(c)
           IN  /\ d \in Chips /\ Like(d.timer, c.timer) /\ d.timer.clk = c.timer.clk
               /\ d.timer.n = c.timer.n /\ d.timer.alarmclk = NextUnderflow(c.timer)
               /\ d.due = d.timer.alarmclk
               /\ d.irqflags = c.irqflags /\ d.irq = c.irq
               /\ SameRest(c, d)
<1>1. PICK t \in Clock : t = NextUnderflow(c.timer)
  BY ChipFields, NextUnderflowType
<1>2. PICK d : d = AlarmAt(c, t)
  OBVIOUS
<1>3. d = SetAlarm(c)
  BY <1>1, <1>2, Zenon DEF SetAlarm, AlarmAt
<1>4. /\ d \in Chips /\ Like(d.timer, c.timer) /\ d.timer.clk = c.timer.clk
      /\ d.timer.n = c.timer.n /\ d.timer.alarmclk = t /\ d.due = t
      /\ d.irqflags = c.irqflags /\ d.irq = c.irq
      /\ SameRest(c, d)
  BY <1>2, WithAlarm
<1> QED BY <1>1, <1>3, <1>4

LEMMA AckAlarmFields ==
    ASSUME NEW c \in Chips
    PROVE  LET d == AckAlarm(c)
           IN  /\ d \in Chips /\ Like(d.timer, c.timer) /\ d.timer.clk = c.timer.clk
               /\ d.timer.n = c.timer.n /\ d.timer.alarmclk = Never /\ d.due = Never
               /\ d.irqflags = c.irqflags /\ d.irq = c.irq
               /\ SameRest(c, d)
<1>1. PICK t \in Clock : t = Never
  BY Constants
<1>2. PICK d : d = AlarmAt(c, t)
  OBVIOUS
<1>3. d = AckAlarm(c)
  BY <1>1, <1>2, Zenon DEF AckAlarm, AlarmAt
<1>4. /\ d \in Chips /\ Like(d.timer, c.timer) /\ d.timer.clk = c.timer.clk
      /\ d.timer.n = c.timer.n /\ d.timer.alarmclk = t /\ d.due = t
      /\ d.irqflags = c.irqflags /\ d.irq = c.irq
      /\ SameRest(c, d)
  BY <1>2, WithAlarm
<1> QED BY <1>1, <1>3, <1>4

\* When the line is pulled for an underflow
At(c, t) == IF ~c.new \/ c.rdi = t - 1 THEN ClockAdd(t, 1) ELSE t

LEMMA PullType ==
    ASSUME NEW irq \in [on : BOOLEAN, clk : Clock], NEW t \in Clock
    PROVE  Pull(irq, t) \in [on : BOOLEAN, clk : Clock] /\ Pull(irq, t).on
BY DEF Pull

LEMMA DoSetIntFields ==
    ASSUME NEW c \in Chips, NEW t \in Clock
    PROVE  LET d == DoSetInt(c, t)
           IN  /\ d \in Chips /\ d.timer = c.timer /\ d.due = c.due /\ SameRest(c, d)
               /\ c.irqflags \cap c.icr = {} \/ (~c.new /\ c.rdi = t) =>
                      d.irqflags = c.irqflags /\ d.irq = c.irq
               /\ ~(c.irqflags \cap c.icr = {} \/ (~c.new /\ c.rdi = t)) =>
                      d.irqflags = c.irqflags \cup {"IR"} /\ d.irq = Pull(c.irq, At(c, t))
<1>1. PICK at \in Clock : at = At(c, t)
  <2>1. ClockAdd(t, 1) \in Clock
    BY ClockSums
  <2> QED BY <2>1 DEF At
<1>2. PICK irq \in [on : BOOLEAN, clk : Clock] : irq = Pull(c.irq, at)
  BY ChipFields, PullType
<1>3. PICK flags \in SUBSET (Sources \cup {"IR"}) : flags = c.irqflags \cup {"IR"}
  BY ChipFields
<1>4. CASE c.irqflags \cap c.icr = {} \/ (~c.new /\ c.rdi = t)
  <2>1. DoSetInt(c, t) = c
    BY <1>4, Zenon DEF DoSetInt
  <2> QED BY <1>4, <2>1 DEF SameRest
<1>5. CASE ~(c.irqflags \cap c.icr = {} \/ (~c.new /\ c.rdi = t))
  <2>1. PICK d : d = [c EXCEPT !.irq = irq, !.irqflags = flags]
    OBVIOUS
  <2>2. d = DoSetInt(c, t)
    BY <1>1, <1>2, <1>3, <1>5, <2>1, Zenon DEF DoSetInt, At
  <2>3. /\ d \in Chips /\ d.timer = c.timer /\ d.due = c.due /\ d.irqflags = flags /\ d.irq = irq
        /\ d.new = c.new /\ d.cra = c.cra /\ d.icr = c.icr /\ d.rdi = c.rdi
    BY ONLY c \in Chips, irq \in [on : BOOLEAN, clk : Clock],
            flags \in SUBSET (Sources \cup {"IR"}), <2>1 DEF Chips
  <2> QED BY <1>1, <1>2, <1>3, <1>5, <2>2, <2>3 DEF SameRest
<1> QED BY <1>4, <1>5

LEMMA CountFields ==
    ASSUME NEW c \in Chips
    PROVE  LET d == Count(c)
           IN  /\ d \in Chips /\ Like(d.timer, c.timer) /\ d.timer.clk = c.timer.clk
               /\ d.timer.alarmclk = c.timer.alarmclk /\ d.timer.n = 0
               /\ d.due = c.due /\ d.irq = c.irq /\ SameRest(c, d)
               /\ c.timer.n = 0 => d.irqflags = c.irqflags
               /\ c.timer.n # 0 => d.irqflags = c.irqflags \cup {"TA"}
<1>1. CASE c.timer.n = 0
  <2>1. Count(c) = c
    BY <1>1, Zenon DEF Count
  <2> QED BY <1>1, <2>1 DEF SameRest, Like
<1>2. CASE c.timer.n # 0
  <2>1. PICK flags \in SUBSET (Sources \cup {"IR"}) : flags = c.irqflags \cup {"TA"}
    BY ChipFields, CiaAssumption
  <2>2. PICK r \in Timers : r = c.timer
    BY ChipFields
  <2>3. PICK u : u = Zeroed(r)
    OBVIOUS
  <2>4. u \in Timers /\ Like(u, r) /\ u.n = 0 /\ u.clk = r.clk /\ u.alarmclk = r.alarmclk
    BY <2>3, ZeroedFields
  <2>5. PICK d : d = [c EXCEPT !.irqflags = flags, !.timer = u]
    OBVIOUS
  <2>6. d = Count(c)
    BY <1>2, <2>1, <2>2, <2>3, <2>5 DEF Count, Zeroed
  <2>7. /\ d \in Chips /\ d.timer = u /\ d.due = c.due /\ d.irqflags = flags /\ d.irq = c.irq
        /\ d.new = c.new /\ d.cra = c.cra /\ d.icr = c.icr /\ d.rdi = c.rdi
    <3>1. u \in Timers
      BY <2>4
    <3> QED BY ONLY c \in Chips, <3>1, flags \in SUBSET (Sources \cup {"IR"}), <2>5 DEF Chips
  <2> QED BY <1>2, <2>1, <2>2, <2>4, <2>6, <2>7 DEF SameRest
<1> QED BY <1>1, <1>2

LEMMA WithTimer ==
    ASSUME NEW c \in Chips, NEW u \in Timers, NEW d, d = [c EXCEPT !.timer = u]
    PROVE  /\ d \in Chips /\ d.timer = u /\ d.due = c.due /\ d.irqflags = c.irqflags
           /\ d.irq = c.irq /\ SameRest(c, d)
<1>1. /\ d \in Chips /\ d.timer = u /\ d.due = c.due /\ d.irqflags = c.irqflags /\ d.irq = c.irq
      /\ d.new = c.new /\ d.cra = c.cra /\ d.icr = c.icr /\ d.rdi = c.rdi
  BY DEF Chips
<1> QED BY <1>1 DEF SameRest

LEMMA DoUpdateTaFields ==
    ASSUME NEW c \in Chips, NEW t \in Clock
    PROVE  LET d == DoUpdateTa(c, t)
               u == Update(c.timer, t)
           IN  /\ d \in Chips /\ Like(d.timer, u) /\ d.timer.clk = u.clk
               /\ d.timer.alarmclk = c.timer.alarmclk /\ d.timer.n = 0
               /\ d.due = c.due /\ d.irq = c.irq /\ SameRest(c, d)
               /\ u.n = 0 => d.irqflags = c.irqflags
               /\ u.n # 0 => d.irqflags = c.irqflags \cup {"TA"}
<1>1. PICK u \in Timers : u = Update(c.timer, t) /\ u.alarmclk = c.timer.alarmclk
  BY ChipFields, UpdateType
<1>2. PICK e : e = [c EXCEPT !.timer = u]
  OBVIOUS
<1>3. /\ e \in Chips /\ e.timer = u /\ e.due = c.due /\ e.irqflags = c.irqflags
      /\ e.irq = c.irq /\ SameRest(c, e)
  BY <1>2, WithTimer
<1>4. PICK d : d = Count(e)
  OBVIOUS
<1>5. d = DoUpdateTa(c, t)
  BY <1>1, <1>2, <1>4, Zenon DEF DoUpdateTa
<1>6. /\ d \in Chips /\ Like(d.timer, e.timer) /\ d.timer.clk = e.timer.clk
      /\ d.timer.alarmclk = e.timer.alarmclk /\ d.timer.n = 0
      /\ d.due = e.due /\ d.irq = e.irq /\ SameRest(e, d)
      /\ e.timer.n = 0 => d.irqflags = e.irqflags
      /\ e.timer.n # 0 => d.irqflags = e.irqflags \cup {"TA"}
  BY <1>3, <1>4, CountFields
<1> QED BY <1>1, <1>3, <1>5, <1>6 DEF SameRest

(* An alarm depends on what the timer does.                                 *)
LEMMA SameNextUnderflow ==
    ASSUME NEW r \in Timers, NEW s \in Timers, Like(r, s), r.clk = s.clk
    PROVE  NextUnderflow(r) = NextUnderflow(s)
<1>1. PICK u \in Timers, v \in Timers :
          /\ u = Asleep(r) /\ Like(u, r) /\ u.clk = r.clk /\ u.alarmclk = Never /\ u.n = 0
          /\ v = Asleep(s) /\ Like(v, s) /\ v.clk = s.clk /\ v.alarmclk = Never /\ v.n = 0
  BY AsleepFields
<1>2. u = v
  BY <1>1, SameTimer DEF Like
<1>3. Asleep(r) = Asleep(s)
  BY <1>1, <1>2
<1> QED BY <1>3, Zenon DEF NextUnderflow, Asleep

\* No underflow would be noticed, or none comes.
Unneeded(c) ==
    \/ c.cra \cap {"START", "ONESHOT_CR", "CNT"} # {"START"}
    \/ "TA" \notin c.icr \/ "IR" \in c.irqflags

LEMMA IntTaFields ==
    ASSUME NEW c \in Chips, NEW t \in Clock
    PROVE  LET d == IntTa(c, t)
               u == Update(c.timer, t)
               flags == IF u.n = 0 THEN c.irqflags ELSE c.irqflags \cup {"TA"}
           IN  /\ d \in Chips /\ Like(d.timer, u) /\ d.timer.clk = u.clk /\ d.timer.n = 0
               /\ d.due = d.timer.alarmclk /\ SameRest(c, d)
               /\ \/ d.timer.alarmclk = NextUnderflow(d.timer)
                  \/ d.timer.alarmclk = Never /\ Unneeded(c)
               /\ flags \cap c.icr = {} \/ (~c.new /\ c.rdi = t) =>
                      d.irqflags = flags /\ d.irq = c.irq
               /\ ~(flags \cap c.icr = {} \/ (~c.new /\ c.rdi = t)) =>
                      d.irqflags = flags \cup {"IR"} /\ d.irq = Pull(c.irq, At(c, t))
<1>1. PICK u \in Timers : u = Update(c.timer, t)
  BY ChipFields, UpdateType
<1> DEFINE flags == IF u.n = 0 THEN c.irqflags ELSE c.irqflags \cup {"TA"}
<1>2. PICK a \in Chips :
          /\ a = DoUpdateTa(c, t)
          /\ Like(a.timer, u) /\ a.timer.clk = u.clk /\ a.timer.n = 0
          /\ a.irq = c.irq /\ SameRest(c, a) /\ a.irqflags = flags
  BY <1>1, DoUpdateTaFields
<1>3. PICK b \in Chips :
          /\ b = AckAlarm(a)
          /\ Like(b.timer, a.timer) /\ b.timer.clk = a.timer.clk /\ b.timer.n = a.timer.n
          /\ b.timer.alarmclk = Never /\ b.due = Never
          /\ b.irqflags = a.irqflags /\ b.irq = a.irq /\ SameRest(a, b)
  BY AckAlarmFields
<1>4. ~NeedsAlarm(b) => Unneeded(c)
  <2>1. "IR" \in b.irqflags => "IR" \in c.irqflags
    BY <1>2, <1>3
  <2> QED BY <1>2, <1>3, <2>1 DEF NeedsAlarm, Unneeded, SameRest
<1>5. PICK e \in Chips :
          /\ e = IF NeedsAlarm(b) THEN SetAlarm(b) ELSE b
          /\ Like(e.timer, b.timer) /\ e.timer.clk = b.timer.clk /\ e.timer.n = b.timer.n
          /\ e.due = e.timer.alarmclk
          /\ \/ e.timer.alarmclk = NextUnderflow(b.timer)
             \/ e.timer.alarmclk = Never /\ Unneeded(c)
          /\ e.irqflags = b.irqflags /\ e.irq = b.irq /\ SameRest(b, e)
  <2>1. CASE NeedsAlarm(b)
    BY <2>1, SetAlarmFields
  <2>2. CASE ~NeedsAlarm(b)
    <3>1. b = IF NeedsAlarm(b) THEN SetAlarm(b) ELSE b
      BY <2>2
    <3> QED BY <1>3, <1>4, <2>2, <3>1 DEF Like, SameRest
  <2> QED BY <2>1, <2>2
<1>6. PICK d : d = DoSetInt(e, t)
  OBVIOUS
<1>7. d = IntTa(c, t)
  BY <1>2, <1>3, <1>5, <1>6, Zenon DEF IntTa
<1>8. /\ d \in Chips /\ d.timer = e.timer /\ d.due = e.due /\ SameRest(e, d)
      /\ e.irqflags \cap e.icr = {} \/ (~e.new /\ e.rdi = t) =>
             d.irqflags = e.irqflags /\ d.irq = e.irq
      /\ ~(e.irqflags \cap e.icr = {} \/ (~e.new /\ e.rdi = t)) =>
             d.irqflags = e.irqflags \cup {"IR"} /\ d.irq = Pull(e.irq, At(e, t))
  BY <1>6, DoSetIntFields
<1>9. e.irqflags = flags /\ e.irq = c.irq /\ SameRest(c, e) /\ At(e, t) = At(c, t)
  BY <1>2, <1>3, <1>5 DEF SameRest, At
<1>10. Like(e.timer, u) /\ e.timer.clk = u.clk /\ e.timer.n = 0
  BY <1>2, <1>3, <1>5 DEF Like
<1>11. NextUnderflow(b.timer) = NextUnderflow(e.timer)
  BY <1>5, ChipFields, SameNextUnderflow
<1>12. SameRest(c, d)
  BY <1>8, <1>9 DEF SameRest
<1>13. \/ d.timer.alarmclk = NextUnderflow(d.timer)
       \/ d.timer.alarmclk = Never /\ Unneeded(c)
  BY <1>5, <1>8, <1>11
<1>14. /\ flags \cap c.icr = {} \/ (~c.new /\ c.rdi = t) =>
              d.irqflags = flags /\ d.irq = c.irq
       /\ ~(flags \cap c.icr = {} \/ (~c.new /\ c.rdi = t)) =>
              d.irqflags = flags \cup {"IR"} /\ d.irq = Pull(c.irq, At(c, t))
  BY <1>8, <1>9 DEF SameRest
<1> HIDE DEF flags
<1>15. /\ d \in Chips /\ Like(d.timer, u) /\ d.timer.clk = u.clk /\ d.timer.n = 0
       /\ d.due = d.timer.alarmclk
  BY <1>5, <1>8, <1>10
<1> QED BY <1>1, <1>7, <1>12, <1>13, <1>14, <1>15 DEF flags

RunOf(f, t) ==
    f = [d \in Chips |-> IF d.timer.alarmclk > t THEN DoUpdateTa(d, t)
                         ELSE f[IntTa(d, d.timer.alarmclk)]]

LEMMA CatchUpDefined ==
    ASSUME NEW c \in Chips, NEW t \in Clock
    PROVE  \E f : /\ CatchUp(c, t) = f[c]
                  /\ \A d \in Chips :
                         f[d] = IF d.timer.alarmclk > t THEN DoUpdateTa(d, t)
                                ELSE f[IntTa(d, d.timer.alarmclk)]
<1> DEFINE S == Chips
           done == {d \in S : d.timer.alarmclk > t}
           value == [d \in S |-> DoUpdateTa(d, t)]
           next == [d \in S |-> IntTa(d, d.timer.alarmclk)]
<1>1. next \in [S -> S]
  <2>1. ASSUME NEW d \in S  PROVE IntTa(d, d.timer.alarmclk) \in S
    <3>1. d.timer.alarmclk \in Clock
      BY ChipFields, TimerFields
    <3> QED BY <3>1, IntTaFields
  <2> QED BY <2>1
<1>2. PICK f : f = [d \in S |-> IF d \in done THEN value[d] ELSE f[next[d]]]
  <2>1. done \in SUBSET S
    OBVIOUS
  <2> HIDE DEF S, done, value, next
  <2>2. PICK f : LoopOf(f, S, done, value, next)
    BY <1>1, <2>1, Loop
  <2>3. f = [x \in S |-> IF x \in done THEN value[x] ELSE f[next[x]]]
    BY <2>2, Zenon DEF LoopOf
  <2> QED BY <2>3, Zenon
<1>3. ASSUME NEW d \in S
      PROVE  (IF d \in done THEN value[d] ELSE f[next[d]])
             = IF d.timer.alarmclk > t THEN DoUpdateTa(d, t)
               ELSE f[IntTa(d, d.timer.alarmclk)]
  OBVIOUS
<1>4. f = [d \in S |-> IF d.timer.alarmclk > t THEN DoUpdateTa(d, t)
                       ELSE f[IntTa(d, d.timer.alarmclk)]]
  <2> HIDE DEF S, done, value, next
  <2> QED BY <1>2, <1>3
<1>5. RunOf(f, t)
  BY <1>4, Zenon DEF RunOf
<1> DEFINE g == CHOOSE h : RunOf(h, t)
<1>6. RunOf(g, t)
  BY <1>5, Zenon
<1>7. CatchUp(c, t) = g[c]
  BY Zenon DEF CatchUp, RunOf
<1>8. ASSUME NEW d \in Chips
      PROVE  g[d] = IF d.timer.alarmclk > t THEN DoUpdateTa(d, t)
                    ELSE g[IntTa(d, d.timer.alarmclk)]
  <2> HIDE DEF g
  <2> QED BY <1>6 DEF RunOf
<1> HIDE DEF g
<1> QED BY <1>7, <1>8

-----------------------------------------------------------------------------
(* Underflows to come.                                                      *)

\* Nothing counts, and nothing will.
Quiet(t) ==
    "COUNT2" \notin t /\ "COUNT3" \notin t /\ ("START" \notin t \/ "PHI2IN" \notin t)

LEMMA QuietStays ==
    ASSUME NEW r \in Timers, Sound(r), Quiet(r.flags), NEW k \in Nat
    PROVE  Quiet(After(r, k).flags) /\ ~Out(After(r, k))
<1> DEFINE Holds == {s \in Timers : "STEP" \notin s.flags /\ Quiet(s.flags)}
<1>1. r \in Holds
  BY DEF Sound
<1>2. ASSUME NEW s \in Holds  PROVE Step(s) \in Holds
  <2>1. "COUNT2" \notin Step(s).flags /\ "COUNT3" \notin Step(s).flags
    BY StepFields DEF Quiet
  <2>2. "START" \in Step(s).flags => "START" \in s.flags
    BY StepFields
  <2>3. "PHI2IN" \in Step(s).flags => "PHI2IN" \in s.flags
    BY StepFields
  <2>4. Step(s) \in Timers /\ "STEP" \notin Step(s).flags
    BY StepFields
  <2> QED BY <2>1, <2>2, <2>3, <2>4 DEF Quiet
<1>3. After(r, k) \in Holds
  <2> HIDE DEF Holds
  <2>1. Holds \in SUBSET Timers
    BY DEF Holds
  <2> QED BY <1>1, <1>2, <2>1, Cycles
<1> QED BY <1>3, OutMeans DEF Quiet

(* Without an underflow nothing is counted.                                 *)
LEMMA NoOuts ==
    ASSUME NEW r \in Timers, NEW k \in Nat, \A j \in Nat : j < k => ~Out(After(r, j))
    PROVE  After(r, k).n = r.n
<1> DEFINE G == {i \in Nat : i <= k => After(r, i).n = r.n}
<1>1. 0 \in G
  BY AfterDefined
<1>2. ASSUME NEW i \in G  PROVE i + 1 \in G
  <2>1. CASE i + 1 <= k
    <3>1. i \in Nat /\ i < k
      BY <2>1
    <3>2. After(r, i).n = r.n
      BY <2>1
    <3>3. After(r, i) \in Timers /\ After(r, i + 1) = Step(After(r, i)) /\ ~Out(After(r, i))
      BY <3>1, AfterStep
    <3>4. Step(After(r, i)).n = After(r, i).n
      BY <3>3, StepFields
    <3> QED BY <3>1, <3>2, <3>3, <3>4
  <2> QED BY <2>1
<1>3. k \in G
  <2> HIDE DEF G
  <2>1. G \in SUBSET Nat
    BY DEF G
  <2> QED BY <1>1, <1>2, <2>1, Induction
<1> QED BY <1>3

(* Control bits stay, except that a one-shot timer stops.                   *)
LEMMA AfterBits ==
    ASSUME NEW r \in Timers, NEW k \in Nat
    PROVE  /\ "START" \in After(r, k).flags => "START" \in r.flags
           /\ "PHI2IN" \in After(r, k).flags <=> "PHI2IN" \in r.flags
           /\ "ONESHOT_CR" \in After(r, k).flags <=> "ONESHOT_CR" \in r.flags
<1> DEFINE Holds == {s \in Timers :
                        /\ "START" \in s.flags => "START" \in r.flags
                        /\ "PHI2IN" \in s.flags <=> "PHI2IN" \in r.flags
                        /\ "ONESHOT_CR" \in s.flags <=> "ONESHOT_CR" \in r.flags}
<1>1. r \in Holds
  OBVIOUS
<1>2. ASSUME NEW s \in Holds  PROVE Step(s) \in Holds
  BY StepFields
<1>3. After(r, k) \in Holds
  <2> HIDE DEF Holds
  <2>1. Holds \in SUBSET Timers
    BY DEF Holds
  <2> QED BY <1>1, <1>2, <2>1, Cycles
<1> QED BY <1>3

(* What the first underflow leaves.                                         *)
LEMMA FirstUnderflow ==
    ASSUME NEW r \in Timers, NEW k \in Nat, Out(After(r, k)),
           \A j \in Nat : j < k => ~Out(After(r, j))
    PROVE  LET u == After(r, k + 1)
           IN  /\ u \in Timers /\ u.n = r.n + 1 /\ u.cnt = r.latch /\ u.latch = r.latch
               /\ "COUNT3" \notin u.flags
               /\ "START" \in u.flags \/ "COUNT2" \in u.flags =>
                      "START" \in r.flags /\ "ONESHOT_CR" \notin r.flags
               /\ "PHI2IN" \in u.flags \/ "COUNT2" \in u.flags => "PHI2IN" \in r.flags
               /\ "START" \in u.flags => "START" \in r.flags
               /\ "PHI2IN" \in u.flags <=> "PHI2IN" \in r.flags
               /\ "ONESHOT_CR" \in u.flags <=> "ONESHOT_CR" \in r.flags
<1>1. PICK s \in Timers : s = After(r, k) /\ Step(s) = After(r, k + 1)
  BY AfterStep
<1>2. Out(s) /\ s.n = r.n /\ s.latch = r.latch
  BY <1>1, NoOuts, AfterFields
<1>3. /\ "START" \in s.flags => "START" \in r.flags
      /\ "PHI2IN" \in s.flags <=> "PHI2IN" \in r.flags
      /\ "ONESHOT_CR" \in s.flags <=> "ONESHOT_CR" \in r.flags
  BY <1>1, AfterBits
<1>4. PICK u \in Timers : u = Step(s)
  BY StepFields
<1>5. /\ u.n = s.n + 1 /\ u.cnt = s.latch /\ u.latch = s.latch /\ "COUNT3" \notin u.flags
      /\ "START" \in u.flags => "START" \in s.flags /\ ~Stops(s)
      /\ "COUNT2" \in u.flags => "START" \in s.flags /\ "PHI2IN" \in s.flags /\ ~Stops(s)
      /\ "PHI2IN" \in u.flags <=> "PHI2IN" \in s.flags
      /\ "ONESHOT_CR" \in u.flags <=> "ONESHOT_CR" \in s.flags
  BY <1>2, <1>4, StepFields DEF Loads
<1>6. "ONESHOT_CR" \in s.flags => Stops(s)
  BY <1>2 DEF Stops
<1> QED BY <1>1, <1>2, <1>3, <1>4, <1>5, <1>6

-----------------------------------------------------------------------------
(* What relates the chip that lags behind to the exact one.                 *)

\* When no alarm is set no underflow will be noticed.
Alarmed(c) ==
    \/ c.timer.alarmclk = NextUnderflow(c.timer)
    \/ /\ c.timer.alarmclk = Never
       /\ c.timer.latch = 0 => c.timer.cnt = 0
       /\ Quiet(c.timer.flags) \/ "IR" \in c.irqflags \/ "TA" \notin c.icr

\* CRA and the control bits of the timer
Bits(c) ==
    /\ "START" \in c.timer.flags => "START" \in c.cra
    /\ "ONESHOT_CR" \in c.cra => "ONESHOT_CR" \in c.timer.flags
    /\ "CNT" \in c.cra => "PHI2IN" \notin c.timer.flags

(* The timer of e is at t where that of c will be.                          *)
Lags(c, e, t) ==
    /\ c \in Chips /\ e \in Chips /\ t \in Clock /\ t <= GuardMax + 1
    /\ Sound(c.timer) /\ c.timer.n = 0 /\ e.timer.n = 0
    /\ c.timer.clk <= t /\ e.timer.clk = t
    /\ Like(After(c.timer, t - c.timer.clk), e.timer)
    /\ c.new = e.new /\ c.cra = e.cra /\ c.icr = e.icr
    /\ c.due = c.timer.alarmclk /\ c.timer.alarmclk > c.timer.clk
    /\ Bits(c) /\ Alarmed(c)

\* An enabled interrupt is pending if and only if the line is pulled.
Flagged(c) ==
    /\ c.irqflags \cap c.icr # {} => "IR" \in c.irqflags
    /\ "IR" \in c.irqflags <=> c.irq.on
    /\ ~c.irq.on => c.irq = Released

(* The interrupt of e is the one the next alarm of c will make, if it is    *)
(* due, or that of c.                                                       *)
Forecast(c, e, t) ==
    IF c.timer.alarmclk > t
    THEN /\ e.irqflags = c.irqflags \cup Only("TA", After(c.timer, t - c.timer.clk).n # 0)
         /\ e.irq = c.irq
    ELSE LET flags == c.irqflags \cup {"TA"}
         IN  IF flags \cap c.icr = {} THEN e.irqflags = flags /\ e.irq = c.irq
             ELSE /\ e.irqflags = flags \cup {"IR"}
                  /\ e.irq = Pull(c.irq, At(c, c.timer.alarmclk))

Foretells(c, e, t) ==
    /\ Flagged(c) /\ Flagged(e)
    /\ c.rdi <= c.timer.clk /\ e.rdi <= t /\ (c.rdi = t <=> e.rdi = t)
    /\ Forecast(c, e, t)

LEMMA LagsFields ==
    ASSUME NEW c, NEW e, NEW t, Lags(c, e, t)
    PROVE  /\ c \in Chips /\ e \in Chips /\ t \in Clock /\ t <= GuardMax + 1
           /\ c.timer \in Timers /\ e.timer \in Timers
           /\ c.timer.clk \in Nat /\ t - c.timer.clk \in Nat /\ c.timer.alarmclk \in Clock
           /\ c.timer.clk <= GuardMax + 1 /\ GuardMax + 1 < Never
<1>1. c.timer.clk \in Clock /\ c.timer.alarmclk \in Clock
  BY ChipFields, TimerFields DEF Lags
<1>2. c.timer.clk <= t /\ t \in Clock /\ t <= GuardMax + 1
  BY DEF Lags
<1>3. GuardMax + 1 < Never /\ GuardMax \in Nat
  BY Constants
<1>4. c.timer.clk \in Nat /\ t - c.timer.clk \in Nat /\ c.timer.clk <= GuardMax + 1
  BY <1>1, <1>2, <1>3, Constants
<1> QED BY <1>1, <1>2, <1>3, <1>4, ChipFields DEF Lags

(* The next alarm is in time: none is overslept, and an alarm that is due   *)
(* is that of the first underflow.                                          *)
LEMMA AlarmInTime ==
    ASSUME NEW c, NEW e, NEW t, Lags(c, e, t)
    PROVE  /\ c.timer.alarmclk # Never => When(c.timer, c.timer.alarmclk)
           /\ c.timer.alarmclk > t => Fine(c.timer, t)
           /\ c.timer.alarmclk <= t =>
                  \E k \in Nat : /\ c.timer.alarmclk = c.timer.clk + k + 1
                                 /\ Out(After(c.timer, k))
                                 /\ \A j \in Nat : j < k => ~Out(After(c.timer, j))
<1> DEFINE r == c.timer
           A == c.timer.alarmclk
<1>1. /\ r \in Timers /\ r.clk \in Nat /\ t - r.clk \in Nat /\ A \in Clock /\ t \in Clock
      /\ r.clk <= GuardMax + 1 /\ t < Never /\ Sound(r) /\ t <= GuardMax + 1
  <2>1. GuardMax + 1 < Never /\ t <= GuardMax + 1 /\ t \in Clock /\ GuardMax \in Nat
    BY LagsFields, Constants
  <2>2. t < Never
    BY <2>1, Constants
  <2> QED BY <2>1, <2>2, LagsFields DEF Lags
<1>2. A = NextUnderflow(r) => When(r, A)
  BY <1>1, NextUnderflowWhen
<1>3. Alarmed(c)
  BY DEF Lags
<1>4. A # Never => When(r, A)
  BY <1>2, <1>3 DEF Alarmed
<1>5. ASSUME When(r, A), A > t  PROVE Fine(r, t)
  <2>1. ASSUME NEW k \in Nat, r.clk + k + 1 < t  PROVE ~Out(After(r, k))
    <3>1. CASE A = Never /\ \A i \in Nat : ~Out(After(r, i))
      BY <3>1
    <3>2. CASE \E i \in Nat : /\ A = r.clk + i + 1 /\ A < Never /\ Out(After(r, i))
                              /\ \A j \in Nat : j < i => ~Out(After(r, j))
      <4>1. PICK i \in Nat : A = r.clk + i + 1 /\ \A j \in Nat : j < i => ~Out(After(r, j))
        BY <3>2
      <4>2. k < i
        <5> HIDE DEF r, A
        <5> QED BY <1>1, <1>5, <2>1, <4>1, Constants
      <4> QED BY <4>1, <4>2
    <3> QED BY <1>5, <3>1, <3>2 DEF When
  <2> QED BY <2>1 DEF Fine
<1>6. A > t => Fine(r, t)
  <2>1. CASE A = NextUnderflow(r)
    BY <1>2, <1>5, <2>1
  <2>2. CASE r.latch = 0 => r.cnt = 0
    BY <2>2 DEF Fine
  <2> QED BY <1>3, <2>1, <2>2 DEF Alarmed
<1>7. ASSUME A <= t
      PROVE  \E k \in Nat : /\ A = r.clk + k + 1 /\ Out(After(r, k))
                            /\ \A j \in Nat : j < k => ~Out(After(r, j))
  <2>1. A # Never
    <3> HIDE DEF A
    <3> QED BY <1>1, <1>7, Constants
  <2>2. When(r, A)
    BY <1>4, <2>1
  <2> QED BY <2>1, <2>2 DEF When
<1> QED BY <1>4, <1>6, <1>7

(* The alarm brings the chip up to the underflow.                           *)
LEMMA DispatchLags ==
    ASSUME NEW c, NEW e, NEW t, Lags(c, e, t), c.timer.alarmclk <= t
    PROVE  LET A == c.timer.alarmclk
               d == IntTa(c, A)
               flags == c.irqflags \cup {"TA"}
           IN  /\ Lags(d, e, t) /\ SameRest(c, d)
               /\ d.timer.clk = A /\ A > c.timer.clk /\ A \in Clock
               /\ flags \cap c.icr = {} \/ (~c.new /\ c.rdi = A) =>
                      d.irqflags = flags /\ d.irq = c.irq
               /\ ~(flags \cap c.icr = {} \/ (~c.new /\ c.rdi = A)) =>
                      d.irqflags = flags \cup {"IR"} /\ d.irq = Pull(c.irq, At(c, A))
<1>1. PICK r \in Timers : r = c.timer
  BY LagsFields
<1>2. PICK A \in Clock : A = c.timer.alarmclk
  BY LagsFields
<1>3. PICK k \in Nat : /\ A = r.clk + k + 1 /\ Out(After(r, k))
                       /\ \A j \in Nat : j < k => ~Out(After(r, j))
  BY <1>1, <1>2, AlarmInTime
<1>4. /\ c \in Chips /\ e \in Chips /\ t \in Clock /\ t <= GuardMax + 1 /\ r.clk \in Nat
      /\ A <= t /\ Sound(r) /\ r.n = 0 /\ t < Never
  <2>1. t \in Clock /\ t <= GuardMax + 1 /\ GuardMax + 1 < Never /\ GuardMax \in Nat
    BY LagsFields, Constants
  <2>2. t < Never
    BY <2>1, Constants
  <2> QED BY <1>1, <1>2, <2>1, <2>2, LagsFields DEF Lags
<1>5. A > r.clk /\ r.clk <= A /\ A - r.clk = k + 1 /\ t - A \in Nat
      /\ t - r.clk = (k + 1) + (t - A) /\ A <= GuardMax + 1
  <2>1. A \in Nat /\ t \in Nat /\ GuardMax \in Nat
    BY <1>4, Constants
  <2> QED BY <1>3, <1>4, <2>1
<1>6. PICK z \in Timers : z = Zeroed(r) /\ Like(z, r) /\ z.n = 0
  BY ZeroedFields
<1>7. z = r
  BY <1>4, <1>6, ZeroedFields, SameTimer DEF Like
<1>8. Fine(r, A)
  <2>1. ASSUME NEW i \in Nat, r.clk + i + 1 < A  PROVE ~Out(After(r, i))
    <3>1. i < k
      BY <1>3, <1>4, <2>1
    <3> QED BY <1>3, <3>1
  <2> QED BY <2>1 DEF Fine
<1>9. PICK u \in Timers : u = After(r, k + 1)
  BY AfterStep
<1>10. Update(r, A) = u
  <2>1. Update(r, A) = After(Zeroed(r), A - r.clk)
    BY <1>4, <1>5, <1>8, UpdateIsAfter
  <2> QED BY <1>5, <1>6, <1>7, <1>9, <2>1
<1>11. /\ u.n = 1 /\ u.cnt = r.latch /\ u.latch = r.latch
       /\ "COUNT3" \notin u.flags
       /\ "START" \in u.flags \/ "COUNT2" \in u.flags =>
              "START" \in r.flags /\ "ONESHOT_CR" \notin r.flags
       /\ "PHI2IN" \in u.flags \/ "COUNT2" \in u.flags => "PHI2IN" \in r.flags
       /\ "START" \in u.flags => "START" \in r.flags
       /\ "PHI2IN" \in u.flags <=> "PHI2IN" \in r.flags
       /\ "ONESHOT_CR" \in u.flags <=> "ONESHOT_CR" \in r.flags
  BY <1>3, <1>4, <1>9, FirstUnderflow
<1>12. Sound(u) /\ u.clk = A
  <2>1. u.clk = r.clk + (k + 1)
    <3>1. r.clk + (k + 1) <= ClockMax
      BY <1>3, <1>4, Constants
    <3> QED BY <1>9, <3>1, AfterFields
  <2>2. Sound(u)
    BY <1>4, <1>9, AfterSound
  <2> QED BY <1>3, <1>4, <2>1, <2>2
<1> DEFINE flags == c.irqflags \cup {"TA"}
<1>13. PICK d \in Chips :
           /\ d = IntTa(c, A)
           /\ Like(d.timer, u) /\ d.timer.clk = u.clk /\ d.timer.n = 0
           /\ d.due = d.timer.alarmclk /\ SameRest(c, d)
           /\ \/ d.timer.alarmclk = NextUnderflow(d.timer)
              \/ d.timer.alarmclk = Never /\ Unneeded(c)
           /\ flags \cap c.icr = {} \/ (~c.new /\ c.rdi = A) =>
                  d.irqflags = flags /\ d.irq = c.irq
           /\ ~(flags \cap c.icr = {} \/ (~c.new /\ c.rdi = A)) =>
                  d.irqflags = flags \cup {"IR"} /\ d.irq = Pull(c.irq, At(c, A))
  <2>1. u.n # 0 /\ Update(c.timer, A) = u
    BY <1>1, <1>10, <1>11
  <2> QED BY <1>4, <2>1, IntTaFields
<1>14. PICK s \in Timers : s = d.timer
  BY ChipFields
<1>15. Like(s, u) /\ s.clk = A /\ s.n = 0 /\ Sound(s)
  BY <1>12, <1>13, <1>14 DEF Like, Sound
<1>16. s.alarmclk > s.clk
  <2>1. CASE s.alarmclk = NextUnderflow(s)
    <3>1. When(s, s.alarmclk)
      BY <1>5, <1>15, <2>1, NextUnderflowWhen
    <3>2. \/ s.alarmclk = Never
          \/ \E i \in Nat : s.alarmclk = s.clk + i + 1
      BY <3>1 DEF When
    <3>3. s.clk \in Nat /\ s.clk < Never
      <4>1. s.clk = A /\ A \in Nat /\ t \in Nat
        BY <1>4, <1>15, TimerNumbers, ClockNumbers
      <4>2. A <= t
        BY <1>5, <4>1
      <4>3. t < Never /\ Never \in Nat
        BY <1>4, Constants
      <4> QED BY <4>1, <4>2, <4>3
    <3> QED BY <3>2, <3>3
  <2>2. CASE s.alarmclk = Never
    BY <1>4, <1>15, <2>2, Constants
  <2> QED BY <1>13, <1>14, <2>1, <2>2
<1>17. Like(After(s, t - A), e.timer)
  <2>1. PICK v \in Timers : v = After(u, t - A)
    BY <1>5, AfterStep
  <2>2. v = After(r, t - r.clk)
    <3>1. After(r, (k + 1) + (t - A)) = After(After(r, k + 1), t - A)
      BY <1>5, AfterSum
    <3> QED BY <1>5, <1>9, <2>1, <3>1
  <2>3. Like(After(s, t - A), v)
    BY <1>5, <1>15, <2>1, AfterLike
  <2>4. Like(v, e.timer)
    BY <1>1, <2>2 DEF Lags
  <2> QED BY <2>3, <2>4 DEF Like
<1>18. Bits(d)
  <2>1. Bits(c)
    BY DEF Lags
  <2> QED BY <1>1, <1>11, <1>13, <1>14, <1>15, <2>1 DEF Bits, SameRest, Like
<1>19. Alarmed(d)
  <2>1. CASE s.alarmclk = NextUnderflow(s)
    BY <1>14, <2>1 DEF Alarmed
  <2>2. CASE s.alarmclk = Never /\ Unneeded(c)
    <3>1. s.latch = 0 => s.cnt = 0
      BY <1>11, <1>15 DEF Like
    <3>2. CASE c.cra \cap {"START", "ONESHOT_CR", "CNT"} # {"START"}
      <4>1. Bits(c)
        BY DEF Lags
      <4>2. "START" \notin c.cra \/ "ONESHOT_CR" \in c.cra \/ "CNT" \in c.cra
        BY <3>2
      <4>3. Quiet(u.flags)
        BY <1>1, <1>11, <4>1, <4>2 DEF Bits, Quiet
      <4>4. Quiet(s.flags)
        BY <1>15, <4>3 DEF Like
      <4> QED BY <1>14, <2>2, <3>1, <4>4 DEF Alarmed
    <3>3. CASE "TA" \notin c.icr
      BY <1>13, <1>14, <2>2, <3>1, <3>3 DEF Alarmed, SameRest
    <3>4. CASE "IR" \in c.irqflags
      <4>1. "IR" \in d.irqflags
        BY <1>13, <3>4
      <4> QED BY <1>14, <2>2, <3>1, <4>1 DEF Alarmed
    <3> QED BY <2>2, <3>2, <3>3, <3>4 DEF Unneeded
  <2> QED BY <1>13, <1>14, <2>1, <2>2
<1>20. Lags(d, e, t)
  <2>1. e.timer.n = 0 /\ e.timer.clk = t /\ c.new = e.new /\ c.cra = e.cra /\ c.icr = e.icr
    BY DEF Lags
  <2>2. d.new = e.new /\ d.cra = e.cra /\ d.icr = e.icr
    BY <1>13, <2>1 DEF SameRest
  <2> QED BY <1>4, <1>5, <1>13, <1>14, <1>15, <1>16, <1>17, <1>18, <1>19, <2>1, <2>2 DEF Lags
<1>21. d.timer.clk = A
  BY <1>14, <1>15
<1> QED BY <1>1, <1>2, <1>5, <1>13, <1>20, <1>21

LEMMA DispatchForetells ==
    ASSUME NEW c, NEW e, NEW t, Lags(c, e, t), Foretells(c, e, t), c.timer.alarmclk <= t
    PROVE  Foretells(IntTa(c, c.timer.alarmclk), e, t)
<1>1. PICK A \in Clock : A = c.timer.alarmclk
  BY LagsFields
<1> DEFINE flags == c.irqflags \cup {"TA"}
<1>2. PICK d : /\ d = IntTa(c, A) /\ Lags(d, e, t) /\ SameRest(c, d)
               /\ d.timer.clk = A /\ A > c.timer.clk
               /\ flags \cap c.icr = {} \/ (~c.new /\ c.rdi = A) =>
                      d.irqflags = flags /\ d.irq = c.irq
               /\ ~(flags \cap c.icr = {} \/ (~c.new /\ c.rdi = A)) =>
                      d.irqflags = flags \cup {"IR"} /\ d.irq = Pull(c.irq, At(c, A))
  BY <1>1, DispatchLags
<1>3. c.rdi # A /\ c.rdi <= A
  <2>1. c.rdi <= c.timer.clk /\ c.timer.clk \in Nat /\ c.rdi \in Clock
    BY LagsFields, ChipFields DEF Foretells
  <2> QED BY <1>1, <1>2, <2>1, Constants
<1>4. IF flags \cap c.icr = {} THEN e.irqflags = flags /\ e.irq = c.irq
      ELSE /\ e.irqflags = flags \cup {"IR"}
           /\ e.irq = Pull(c.irq, At(c, A))
  <2>1. ~(A > t)
    <3>1. t \in Clock /\ A <= t
      BY <1>1, LagsFields
    <3> QED BY <3>1, Constants
  <2> QED BY <1>1, <2>1 DEF Foretells, Forecast
<1>5. d.irqflags = e.irqflags /\ d.irq = e.irq
  <2> HIDE DEF flags
  <2> QED BY <1>2, <1>3, <1>4
<1>6. d.icr = e.icr
  BY <1>2 DEF Lags
<1>7. Flagged(e) /\ Flagged(d)
  BY <1>5, <1>6 DEF Foretells, Flagged
<1>8. d.rdi <= d.timer.clk /\ e.rdi <= t /\ (d.rdi = t <=> e.rdi = t)
  BY <1>2, <1>3 DEF Foretells, SameRest
<1>9. "TA" \in d.irqflags
  BY <1>2
<1>10. Forecast(d, e, t)
  <2>1. \/ Only("TA", After(d.timer, t - d.timer.clk).n # 0) = {}
        \/ Only("TA", After(d.timer, t - d.timer.clk).n # 0) = {"TA"}
    BY DEF Only
  <2>2. d.irqflags \cup Only("TA", After(d.timer, t - d.timer.clk).n # 0) = d.irqflags
    BY <1>9, <2>1
  <2>3. d.irqflags \cup {"TA"} = d.irqflags
    BY <1>9
  <2>4. CASE d.irqflags \cap d.icr = {}
    BY <1>5, <2>2, <2>3, <2>4 DEF Forecast
  <2>5. CASE d.irqflags \cap d.icr # {}
    <3>1. "IR" \in d.irqflags /\ d.irq.on
      BY <1>7, <2>5 DEF Flagged
    <3>2. d.irqflags \cup {"IR"} = d.irqflags
      BY <3>1
    <3>3. Pull(d.irq, At(d, d.timer.alarmclk)) = d.irq
      BY <3>1 DEF Pull
    <3> QED BY <1>5, <2>2, <2>3, <2>5, <3>2, <3>3 DEF Forecast
  <2> QED BY <2>4, <2>5
<1> QED BY <1>1, <1>2, <1>7, <1>8, <1>10 DEF Foretells

(* A chip that has been brought up to date.                                 *)
LEMMA UpdateLags ==
    ASSUME NEW c, NEW e, NEW t, Lags(c, e, t), c.timer.alarmclk > t
    PROVE  LET d == DoUpdateTa(c, t)
           IN  /\ Lags(d, e, t) /\ d.timer.clk = t /\ d.rdi = c.rdi
               /\ Foretells(c, e, t) => Foretells(d, e, t)
<1>1. PICK r \in Timers : r = c.timer
  BY LagsFields
<1>2. PICK k \in Nat : k = t - r.clk
  BY <1>1, LagsFields
<1>3. /\ c \in Chips /\ e \in Chips /\ t \in Clock /\ t <= GuardMax + 1 /\ r.clk \in Nat
      /\ r.clk <= t /\ Sound(r) /\ r.n = 0 /\ t < Never /\ r.alarmclk \in Clock
      /\ r.alarmclk > t /\ Fine(r, t) /\ r.clk <= GuardMax + 1
  <2>1. t \in Clock /\ t <= GuardMax + 1 /\ GuardMax + 1 < Never /\ GuardMax \in Nat
    BY LagsFields, Constants
  <2>2. t < Never
    BY <2>1, Constants
  <2> QED BY <1>1, <2>1, <2>2, LagsFields, AlarmInTime DEF Lags
<1>4. PICK u \in Timers : u = After(r, k)
  BY AfterStep
<1>5. PICK z \in Timers : z = Zeroed(r) /\ Like(z, r) /\ z.n = 0
  BY ZeroedFields
<1>6. z = r
  BY <1>3, <1>5, ZeroedFields, SameTimer DEF Like
<1>7. Update(c.timer, t) = u
  <2>1. Update(r, t) = After(Zeroed(r), t - r.clk)
    BY <1>3, UpdateIsAfter
  <2> QED BY <1>1, <1>2, <1>4, <1>5, <1>6, <2>1
<1>8. r.clk + k = t /\ r.clk + k <= ClockMax
  BY <1>2, <1>3, Constants
<1>9. Sound(u) /\ u.clk = t /\ u.alarmclk = r.alarmclk /\ u.latch = r.latch
  BY <1>3, <1>4, <1>8, AfterSound, AfterFields
<1>10. PICK d \in Chips :
           /\ d = DoUpdateTa(c, t)
           /\ Like(d.timer, u) /\ d.timer.clk = u.clk
           /\ d.timer.alarmclk = c.timer.alarmclk /\ d.timer.n = 0
           /\ d.due = c.due /\ d.irq = c.irq /\ SameRest(c, d)
           /\ u.n = 0 => d.irqflags = c.irqflags
           /\ u.n # 0 => d.irqflags = c.irqflags \cup {"TA"}
  BY <1>3, <1>7, DoUpdateTaFields
<1>11. PICK s \in Timers : s = d.timer
  BY ChipFields
<1>12. /\ Like(s, u) /\ s.clk = t /\ s.alarmclk = r.alarmclk /\ s.n = 0 /\ Sound(s)
  BY <1>1, <1>9, <1>10, <1>11 DEF Like, Sound
<1>13. PICK v \in Timers : v = After(s, t - t) /\ v = s
  BY <1>3, AfterDefined, Constants
<1>14. Like(v, e.timer)
  <2>1. Like(u, e.timer)
    BY <1>1, <1>2, <1>4 DEF Lags
  <2> QED BY <1>12, <1>13, <2>1 DEF Like
<1>15. Bits(d)
  <2>1. Bits(c)
    BY DEF Lags
  <2>2. /\ "START" \in u.flags => "START" \in r.flags
        /\ "PHI2IN" \in u.flags <=> "PHI2IN" \in r.flags
        /\ "ONESHOT_CR" \in u.flags <=> "ONESHOT_CR" \in r.flags
    BY <1>4, AfterBits
  <2> QED BY <1>1, <1>10, <1>11, <1>12, <2>1, <2>2 DEF Bits, SameRest, Like
<1>16. Alarmed(d)
  <2>1. CASE r.alarmclk = NextUnderflow(r)
    <3>1. When(r, r.alarmclk)
      BY <1>3, <2>1, NextUnderflowWhen
    <3>2. \A j \in Nat : j < k => ~Out(After(r, j))
      <4>1. ASSUME NEW j \in Nat, j < k  PROVE ~Out(After(r, j))
        <5>1. CASE r.alarmclk = Never /\ \A i \in Nat : ~Out(After(r, i))
          BY <5>1
        <5>2. CASE \E i \in Nat : /\ r.alarmclk = r.clk + i + 1
                                  /\ \A l \in Nat : l < i => ~Out(After(r, l))
          <6>1. PICK i \in Nat : /\ r.alarmclk = r.clk + i + 1
                                 /\ \A l \in Nat : l < i => ~Out(After(r, l))
            BY <5>2
          <6>2. j < i
            BY <1>3, <1>8, <4>1, <6>1, Constants
          <6> QED BY <6>1, <6>2
        <5> QED BY <3>1, <5>1, <5>2 DEF When
      <4> QED BY <4>1
    <3>3. When(u, r.alarmclk)
      BY <1>4, <1>8, <3>1, <3>2, WhenLater
    <3>4. When(s, NextUnderflow(s))
      BY <1>3, <1>12, NextUnderflowWhen
    <3>5. NextUnderflow(s) \in Clock
      BY NextUnderflowType
    <3>6. NextUnderflow(s) = r.alarmclk
      <4>1. \/ r.alarmclk = Never /\ NextUnderflow(s) = Never
            \/ r.alarmclk - u.clk = NextUnderflow(s) - s.clk
        BY <1>12, <3>3, <3>4, WhenUnique DEF Like
      <4> QED BY <1>3, <1>9, <1>12, <3>5, <4>1, Constants
    <3> QED BY <1>11, <1>12, <3>6 DEF Alarmed
  <2>2. CASE /\ r.alarmclk = Never
             /\ r.latch = 0 => r.cnt = 0
             /\ Quiet(r.flags) \/ "IR" \in c.irqflags \/ "TA" \notin c.icr
    <3>1. s.latch = 0 => s.cnt = 0
      <4>1. ASSUME r.latch = 0  PROVE u.cnt = 0
        <5>1. r.cnt = 0
          BY <2>2, <4>1
        <5> DEFINE Holds == {w \in Timers : w.cnt = 0 /\ w.latch = 0}
        <5>2. r \in Holds
          BY <4>1, <5>1
        <5>3. ASSUME NEW w \in Holds  PROVE Step(w) \in Holds
          <6>1. Counted(w) = 0
            BY DEF Counted
          <6> QED BY <6>1, StepFields
        <5>4. u \in Holds
          <6> HIDE DEF Holds
          <6>1. Holds \in SUBSET Timers
            BY DEF Holds
          <6> QED BY <1>4, <5>2, <5>3, <6>1, Cycles
        <5> QED BY <5>4
      <4> QED BY <1>9, <1>12, <4>1 DEF Like
    <3>2. Quiet(r.flags) => Quiet(s.flags)
      <4>1. Quiet(r.flags) => Quiet(u.flags)
        BY <1>3, <1>4, QuietStays
      <4> QED BY <1>12, <4>1 DEF Like
    <3>3. "IR" \in c.irqflags => "IR" \in d.irqflags
      BY <1>10
    <3>4. d.icr = c.icr
      BY <1>10 DEF SameRest
    <3> QED BY <1>11, <1>12, <2>2, <3>1, <3>2, <3>3, <3>4 DEF Alarmed
  <2>3. Alarmed(c)
    BY DEF Lags
  <2> QED BY <1>1, <2>1, <2>2, <2>3 DEF Alarmed
<1>17. Lags(d, e, t)
  <2>1. e.timer.n = 0 /\ e.timer.clk = t /\ c.new = e.new /\ c.cra = e.cra /\ c.icr = e.icr
        /\ c.due = c.timer.alarmclk
    BY DEF Lags
  <2>2. d.new = e.new /\ d.cra = e.cra /\ d.icr = e.icr /\ d.due = s.alarmclk
    BY <1>10, <1>11, <2>1 DEF SameRest
  <2> QED BY <1>3, <1>10, <1>11, <1>12, <1>13, <1>14, <1>15, <1>16, <2>1, <2>2, Constants DEF Lags
<1>18. ASSUME Foretells(c, e, t)  PROVE Foretells(d, e, t)
  <2>1. e.irqflags = c.irqflags \cup Only("TA", u.n # 0) /\ e.irq = c.irq
    BY <1>1, <1>2, <1>3, <1>4, <1>18 DEF Foretells, Forecast
  <2>2. d.irqflags = e.irqflags /\ d.irq = e.irq
    BY <1>10, <2>1 DEF Only
  <2>3. d.icr = e.icr
    BY <1>17 DEF Lags
  <2>4. Flagged(e) /\ Flagged(d)
    BY <1>18, <2>2, <2>3 DEF Foretells, Flagged
  <2>5. d.rdi <= d.timer.clk /\ e.rdi <= t /\ (d.rdi = t <=> e.rdi = t)
    <3>1. c.rdi <= r.clk /\ e.rdi <= t /\ (c.rdi = t <=> e.rdi = t) /\ d.rdi = c.rdi
      BY <1>1, <1>10, <1>18 DEF Foretells, SameRest
    <3>2. c.rdi <= t
      <4>1. c.rdi \in Clock
        BY <1>3, ChipFields
      <4> QED BY <1>3, <3>1, <4>1, Constants
    <3> QED BY <1>11, <1>12, <3>1, <3>2
  <2>6. Forecast(d, e, t)
    <3>1. After(d.timer, t - d.timer.clk).n = 0
      BY <1>11, <1>12, <1>13
    <3>2. Only("TA", After(d.timer, t - d.timer.clk).n # 0) = {}
      BY <3>1 DEF Only
    <3>3. d.timer.alarmclk > t
      BY <1>3, <1>11, <1>12
    <3> QED BY <2>2, <3>2, <3>3 DEF Forecast
  <2> QED BY <2>4, <2>5, <2>6 DEF Foretells
<1>19. d.timer.clk = t /\ d.rdi = c.rdi
  BY <1>10, <1>11, <1>12 DEF SameRest
<1> QED BY <1>10, <1>17, <1>18, <1>19

(* cia_update_ta: alarm after alarm, and then the rest.                     *)
LEMMA CatchUpLags ==
    ASSUME NEW c, NEW e, NEW t, Lags(c, e, t)
    PROVE  LET d == CatchUp(c, t)
           IN  /\ Lags(d, e, t) /\ d.timer.clk = t /\ d.rdi = c.rdi
               /\ Foretells(c, e, t) => Foretells(d, e, t)
<1>1. c \in Chips /\ t \in Clock
  BY LagsFields
<1>2. PICK f : /\ CatchUp(c, t) = f[c]
               /\ \A d \in Chips :
                      f[d] = IF d.timer.alarmclk > t THEN DoUpdateTa(d, t)
                             ELSE f[IntTa(d, d.timer.alarmclk)]
  BY <1>1, CatchUpDefined
<1> DEFINE Good(d) == /\ Lags(f[d], e, t) /\ f[d].timer.clk = t /\ f[d].rdi = d.rdi
                      /\ Foretells(d, e, t) => Foretells(f[d], e, t)
           G == {k \in Nat : \A d \in Chips : Lags(d, e, t) /\ t - d.timer.clk <= k => Good(d)}
<1>3. ASSUME NEW d \in Chips, Lags(d, e, t), d.timer.alarmclk > t  PROVE Good(d)
  <2>1. f[d] = DoUpdateTa(d, t)
    BY <1>2, <1>3
  <2> QED BY <1>3, <2>1, UpdateLags
<1>4. ASSUME NEW d \in Chips, Lags(d, e, t), ~(d.timer.alarmclk > t),
             NEW b, b = IntTa(d, d.timer.alarmclk), Good(b)
      PROVE  Good(d)
  <2>1. d.timer.alarmclk \in Clock /\ d.timer.alarmclk <= t
    <3>1. d.timer.alarmclk \in Clock /\ t \in Clock
      BY <1>4, LagsFields
    <3> QED BY <1>4, <3>1, Constants
  <2>2. f[d] = f[b]
    BY <1>2, <1>4
  <2>3. SameRest(d, b)
    BY <1>4, <2>1, DispatchLags
  <2>4. Foretells(d, e, t) => Foretells(b, e, t)
    BY <1>4, <2>1, DispatchForetells
  <2> QED BY <1>4, <2>2, <2>3, <2>4 DEF SameRest
<1>5. 0 \in G
  <2>1. ASSUME NEW d \in Chips, Lags(d, e, t), t - d.timer.clk <= 0  PROVE Good(d)
    <3>1. d.timer.clk \in Nat /\ d.timer.alarmclk \in Clock /\ t \in Clock
          /\ d.timer.alarmclk > d.timer.clk
      BY <2>1, LagsFields DEF Lags
    <3>2. d.timer.alarmclk > t
      BY <2>1, <3>1, Constants
    <3> QED BY <1>3, <2>1, <3>2
  <2> QED BY <2>1
<1>6. ASSUME NEW k \in G  PROVE k + 1 \in G
  <2>1. ASSUME NEW d \in Chips, Lags(d, e, t), t - d.timer.clk <= k + 1  PROVE Good(d)
    <3>1. CASE d.timer.alarmclk > t
      BY <1>3, <2>1, <3>1
    <3>2. CASE ~(d.timer.alarmclk > t)
      <4>1. PICK A \in Clock : A = d.timer.alarmclk
        BY <2>1, LagsFields
      <4>2. d.timer.clk \in Nat /\ t \in Clock /\ A <= t
        <5>1. d.timer.clk \in Nat /\ t \in Clock
          BY <2>1, LagsFields
        <5> QED BY <3>2, <4>1, <5>1, Constants
      <4>3. PICK b : b = IntTa(d, A)
        OBVIOUS
      <4>4. Lags(b, e, t) /\ b.timer.clk = A /\ A > d.timer.clk /\ b \in Chips
        <5>1. Lags(b, e, t) /\ b.timer.clk = A /\ A > d.timer.clk
          BY <2>1, <4>1, <4>2, <4>3, DispatchLags
        <5> QED BY <5>1, LagsFields
      <4>5. t - b.timer.clk <= k
        BY <2>1, <4>2, <4>4, Constants
      <4>6. Good(b)
        <5> HIDE DEF Good
        <5> QED BY <1>6, <4>4, <4>5
      <4> HIDE DEF Good
      <4> QED BY <1>4, <2>1, <3>2, <4>1, <4>3, <4>6
    <3> HIDE DEF Good
    <3> QED BY <3>1, <3>2
  <2> HIDE DEF Good
  <2> QED BY <2>1
<1>7. \A k \in Nat : k \in G
  <2> HIDE DEF G
  <2>1. G \in SUBSET Nat
    BY DEF G
  <2> QED BY <1>5, <1>6, <2>1, Induction
<1>8. PICK k \in Nat : k = t - c.timer.clk
  BY LagsFields
<1>9. Good(c)
  <2> HIDE DEF Good
  <2>1. k \in G /\ t - c.timer.clk <= k
    BY <1>7, <1>8
  <2> QED BY <1>1, <2>1
<1> QED BY <1>2, <1>9

(* A chip that is up to date shows what the exact one shows.                *)
LEMMA UpToDate ==
    ASSUME NEW c, NEW e, NEW t, Lags(c, e, t), c.timer.clk = t
    PROVE  /\ Like(c.timer, e.timer) /\ c.timer.alarmclk > t
           /\ Foretells(c, e, t) =>
                  c.irqflags = e.irqflags /\ c.irq = e.irq /\ c.rdi <= t
<1>1. c.timer \in Timers /\ t \in Nat
  BY LagsFields
<1>2. After(c.timer, t - c.timer.clk) = c.timer
  <2>1. t - t = 0
    BY <1>1
  <2> QED BY <1>1, <2>1, AfterDefined
<1>3. c.timer.alarmclk > t /\ c.timer.n = 0 /\ Like(c.timer, e.timer)
  BY <1>2 DEF Lags
<1>4. Only("TA", After(c.timer, t - c.timer.clk).n # 0) = {}
  BY <1>2, <1>3 DEF Only
<1> QED BY <1>3, <1>4 DEF Foretells, Forecast

LEMMA IsUpToDate ==
    ASSUME NEW c \in Chips, NEW e \in Chips, NEW t \in Clock, t <= GuardMax + 1,
           c.timer.clk = t, e.timer.clk = t, c.timer.n = 0, e.timer.n = 0,
           Like(c.timer, e.timer), Sound(c.timer),
           c.new = e.new, c.cra = e.cra, c.icr = e.icr,
           c.due = c.timer.alarmclk, Bits(c), Alarmed(c)
    PROVE  /\ Lags(c, e, t)
           /\ /\ c.irqflags = e.irqflags /\ c.irq = e.irq /\ Flagged(c)
              /\ c.rdi <= t /\ e.rdi <= t /\ (c.rdi = t <=> e.rdi = t)
              => Foretells(c, e, t)
<1>1. PICK r \in Timers : r = c.timer
  BY ChipFields
<1>2. t \in Nat /\ GuardMax + 1 < Never /\ t < Never /\ r.alarmclk \in Clock
  <2>1. t \in Nat /\ GuardMax + 1 < Never /\ GuardMax \in Nat
    BY Constants
  <2> QED BY <2>1, TimerFields, Constants
<1>3. After(r, t - r.clk) = r
  <2>1. t - t = 0
    BY <1>2
  <2> QED BY <1>1, <2>1, AfterDefined
<1>4. r.alarmclk > r.clk
  <2>1. CASE r.alarmclk = NextUnderflow(r)
    <3>1. When(r, r.alarmclk)
      BY <1>1, <2>1, NextUnderflowWhen
    <3>2. \/ r.alarmclk = Never
          \/ \E i \in Nat : r.alarmclk = r.clk + i + 1
      BY <3>1 DEF When
    <3> QED BY <1>1, <1>2, <3>2
  <2>2. CASE r.alarmclk = Never
    BY <1>1, <1>2, <2>2
  <2> QED BY <1>1, <2>1, <2>2 DEF Alarmed
<1>5. Lags(c, e, t)
  BY <1>1, <1>2, <1>3, <1>4 DEF Lags
<1>6. ASSUME c.irqflags = e.irqflags, c.irq = e.irq, Flagged(c),
             c.rdi <= t, e.rdi <= t, c.rdi = t <=> e.rdi = t
      PROVE  Foretells(c, e, t)
  <2>1. Flagged(e)
    BY <1>6 DEF Flagged
  <2>2. Only("TA", After(c.timer, t - c.timer.clk).n # 0) = {}
    BY <1>1, <1>3 DEF Only
  <2> QED BY <1>1, <1>4, <1>6, <2>1, <2>2 DEF Foretells, Forecast
<1> QED BY <1>5, <1>6

-----------------------------------------------------------------------------
(* A cycle of the exact chip.                                               *)

LEMMA EagerFields ==
    ASSUME NEW c \in Chips, NEW t \in Clock
    PROVE  LET d == Eager(c, t)
               u == Step(c.timer)
               flags == c.irqflags \cup {"TA"}
           IN  /\ d \in Chips /\ Like(d.timer, u) /\ d.timer.clk = u.clk /\ d.timer.n = 0
               /\ d.timer.alarmclk = c.timer.alarmclk /\ d.due = c.due /\ SameRest(c, d)
               /\ ~Out(c.timer) => d.irqflags = c.irqflags /\ d.irq = c.irq
               /\ Out(c.timer) /\ (flags \cap c.icr = {} \/ (~c.new /\ c.rdi = t)) =>
                      d.irqflags = flags /\ d.irq = c.irq
               /\ Out(c.timer) /\ ~(flags \cap c.icr = {} \/ (~c.new /\ c.rdi = t)) =>
                      d.irqflags = flags \cup {"IR"} /\ d.irq = Pull(c.irq, At(c, t))
<1>1. PICK r \in Timers : r = c.timer
  BY ChipFields
<1>2. PICK z \in Timers : z = Zeroed(r) /\ Like(z, r) /\ z.n = 0 /\ z.clk = r.clk
                          /\ z.alarmclk = r.alarmclk
  BY ZeroedFields
<1>3. PICK x \in Timers : x = Step(z)
  BY StepFields
<1>4. Exact(r) = x
  BY <1>2, <1>3, Zenon DEF Exact, Zeroed, Step
<1>5. PICK u \in Timers : u = Step(r)
  BY StepFields
<1>6. /\ Like(x, u) /\ x.clk = u.clk /\ x.alarmclk = r.alarmclk
      /\ Out(r) => x.n = 1
      /\ ~Out(r) => x.n = 0
  <2>1. Like(x, u) /\ (Out(z) <=> Out(r))
    BY <1>2, <1>3, <1>5, StepLike
  <2>2. x.clk = ClockAdd(z.clk, 1) /\ x.alarmclk = z.alarmclk
    BY <1>3, StepFields
  <2>3. u.clk = ClockAdd(r.clk, 1)
    BY <1>5, StepFields
  <2>4. (Out(z) => x.n = z.n + 1) /\ (~Out(z) => x.n = z.n)
    BY <1>3, StepFields
  <2> QED BY <1>2, <2>1, <2>2, <2>3, <2>4
<1>7. PICK b : b = [c EXCEPT !.timer = x]
  OBVIOUS
<1>8. b \in Chips /\ b.timer = x /\ b.due = c.due /\ b.irqflags = c.irqflags
      /\ b.irq = c.irq /\ SameRest(c, b)
  BY <1>7, WithTimer
<1>9. Eager(c, t) = IF b.timer.n = 0 THEN b ELSE DoSetInt(Count(b), t)
  BY <1>1, <1>4, <1>7, Zenon DEF Eager
<1>10. CASE ~Out(r)
  <2>1. Eager(c, t) = b
    BY <1>6, <1>8, <1>9, <1>10
  <2> QED BY <1>1, <1>5, <1>6, <1>8, <1>10, <2>1
<1>11. CASE Out(r)
  <2>1. b.timer.n # 0
    BY <1>6, <1>8, <1>11
  <2>2. PICK a \in Chips :
            /\ a = Count(b) /\ Like(a.timer, b.timer) /\ a.timer.clk = b.timer.clk
            /\ a.timer.alarmclk = b.timer.alarmclk /\ a.timer.n = 0
            /\ a.due = b.due /\ a.irq = b.irq /\ SameRest(b, a)
            /\ a.irqflags = b.irqflags \cup {"TA"}
    BY <1>8, <2>1, CountFields
  <2>3. PICK d : d = DoSetInt(a, t)
    OBVIOUS
  <2>4. d = Eager(c, t)
    BY <1>9, <2>1, <2>2, <2>3
  <2>5. /\ d \in Chips /\ d.timer = a.timer /\ d.due = a.due /\ SameRest(a, d)
        /\ a.irqflags \cap a.icr = {} \/ (~a.new /\ a.rdi = t) =>
               d.irqflags = a.irqflags /\ d.irq = a.irq
        /\ ~(a.irqflags \cap a.icr = {} \/ (~a.new /\ a.rdi = t)) =>
               d.irqflags = a.irqflags \cup {"IR"} /\ d.irq = Pull(a.irq, At(a, t))
    BY <2>3, DoSetIntFields
  <2>6. a.irqflags = c.irqflags \cup {"TA"} /\ a.irq = c.irq /\ SameRest(c, a)
        /\ At(a, t) = At(c, t)
    BY <1>8, <2>2 DEF SameRest, At
  <2>7. /\ (c.irqflags \cup {"TA"}) \cap c.icr = {} \/ (~c.new /\ c.rdi = t) =>
               d.irqflags = c.irqflags \cup {"TA"} /\ d.irq = c.irq
        /\ ~((c.irqflags \cup {"TA"}) \cap c.icr = {} \/ (~c.new /\ c.rdi = t)) =>
               d.irqflags = c.irqflags \cup {"TA"} \cup {"IR"} /\ d.irq = Pull(c.irq, At(c, t))
    BY <2>5, <2>6 DEF SameRest
  <2>8. Like(d.timer, u) /\ d.timer.clk = u.clk /\ d.timer.n = 0
        /\ d.timer.alarmclk = r.alarmclk /\ d.due = c.due
    BY <1>6, <1>8, <2>2, <2>5 DEF Like
  <2>9. SameRest(c, d)
    BY <2>5, <2>6 DEF SameRest
  <2> QED BY <1>1, <1>5, <1>11, <2>4, <2>5, <2>7, <2>8, <2>9
<1> QED BY <1>1, <1>10, <1>11

LEMMA SameAt ==
    ASSUME NEW c, NEW e, NEW t, c.new = e.new, c.rdi = t - 1 <=> e.rdi = t - 1
    PROVE  At(c, t) = At(e, t)
BY DEF At

LEMMA ForecastLater ==
    ASSUME NEW c, NEW e, NEW t, c.timer.alarmclk > t, e.irq = c.irq,
           e.irqflags = c.irqflags \cup Only("TA", After(c.timer, t - c.timer.clk).n # 0)
    PROVE  Forecast(c, e, t)
BY DEF Forecast

(* While a cycle passes the chip need not be touched.                       *)
LEMMA CyclePasses ==
    ASSUME NEW c, NEW e, NEW t \in Nat, NEW p \in Nat, p = t + 1,
           Lags(c, e, t), Foretells(c, e, t), t <= GuardMax
    PROVE  /\ Lags(c, Eager(e, p), p) /\ Foretells(c, Eager(e, p), p)
           /\ Settled(Eager(e, p).timer)
           /\ Eager(e, p).timer.alarmclk = e.timer.alarmclk
           /\ Eager(e, p).due = e.due
<1>1. PICK r \in Timers : r = c.timer
  BY LagsFields
<1>2. PICK k \in Nat : k = t - r.clk
  BY <1>1, LagsFields
<1>3. /\ c \in Chips /\ e \in Chips /\ t \in Nat /\ r.clk \in Nat /\ r.alarmclk \in Nat
      /\ r.clk <= t /\ Sound(r) /\ r.n = 0 /\ GuardMax \in Nat /\ p \in Clock
      /\ r.clk <= GuardMax + 1 /\ p < Never /\ e.timer.clk = t /\ e.timer.n = 0
      /\ r.alarmclk <= Never /\ Never \in Nat
  <2>1. t \in Clock /\ t <= GuardMax /\ GuardMax + 1 < Never /\ GuardMax \in Nat
    BY LagsFields, Constants
  <2>2. t \in Nat /\ p < Never /\ p \in Clock
    BY <2>1, Constants
  <2>3. r.alarmclk \in Nat /\ r.alarmclk <= Never /\ Never \in Nat
    BY <1>1, TimerFields, Constants
  <2> QED BY <1>1, <2>1, <2>2, <2>3, LagsFields DEF Lags
<1>4. PICK v \in Timers, w \in Timers : v = After(r, k) /\ w = After(r, k + 1) /\ w = Step(v)
  BY AfterStep
<1>5. PICK x \in Timers : x = e.timer /\ Like(v, x)
  BY <1>1, <1>2, <1>3, <1>4, ChipFields DEF Lags
<1>6. PICK y \in Timers : y = Step(x) /\ Like(w, y) /\ (Out(v) <=> Out(x)) /\ Settled(y)
  BY <1>4, <1>5, StepFields, StepLike, StepSound
<1>7. p - r.clk = k + 1 /\ r.clk <= p /\ p <= GuardMax + 1
  BY <1>2, <1>3
<1>8. (Out(v) => w.n = v.n + 1) /\ (~Out(v) => w.n = v.n) /\ v.n \in Nat
  BY <1>4, StepFields, TimerFields
<1>9. y.clk = p
  <2>1. y.clk = ClockAdd(t, 1)
    BY <1>3, <1>5, <1>6, StepFields
  <2>2. t \in Clock /\ p <= ClockMax
    BY <1>3, Constants
  <2> QED BY <2>1, <2>2, ClockSums
<1> DEFINE fe == e.irqflags \cup {"TA"}
<1>10. PICK d \in Chips :
           /\ d = Eager(e, p)
           /\ Like(d.timer, y) /\ d.timer.clk = y.clk /\ d.timer.n = 0
           /\ d.timer.alarmclk = e.timer.alarmclk /\ d.due = e.due /\ SameRest(e, d)
           /\ ~Out(x) => d.irqflags = e.irqflags /\ d.irq = e.irq
           /\ Out(x) /\ (fe \cap e.icr = {} \/ (~e.new /\ e.rdi = p)) =>
                  d.irqflags = fe /\ d.irq = e.irq
           /\ Out(x) /\ ~(fe \cap e.icr = {} \/ (~e.new /\ e.rdi = p)) =>
                  d.irqflags = fe \cup {"IR"} /\ d.irq = Pull(e.irq, At(e, p))
  BY <1>3, <1>5, <1>6, EagerFields
<1>11. e.rdi # p /\ c.rdi # p /\ c.rdi <= r.clk /\ e.rdi <= p
       /\ (c.rdi = t <=> e.rdi = t)
  <2>1. e.rdi \in Nat /\ c.rdi \in Nat
    BY <1>3, ChipFields, ClockNumbers
  <2>2. c.rdi <= r.clk /\ e.rdi <= t /\ (c.rdi = t <=> e.rdi = t)
    BY <1>1 DEF Foretells
  <2> QED BY <1>3, <2>1, <2>2
<1>12. /\ Out(v) /\ fe \cap e.icr = {} => d.irqflags = fe /\ d.irq = e.irq
       /\ Out(v) /\ fe \cap e.icr # {} =>
              d.irqflags = fe \cup {"IR"} /\ d.irq = Pull(e.irq, At(e, p))
       /\ ~Out(v) => d.irqflags = e.irqflags /\ d.irq = e.irq
  <2> HIDE DEF fe
  <2> QED BY <1>6, <1>10, <1>11
<1>13. c.new = e.new /\ c.cra = e.cra /\ c.icr = e.icr /\ d.new = e.new /\ d.cra = e.cra
       /\ d.icr = e.icr /\ d.rdi = e.rdi
  BY <1>10 DEF Lags, SameRest
<1>14. Lags(c, d, p)
  <2>1. Like(w, d.timer)
    BY <1>6, <1>10 DEF Like
  <2>2. c.due = c.timer.alarmclk /\ c.timer.alarmclk > c.timer.clk /\ Bits(c) /\ Alarmed(c)
    BY DEF Lags
  <2> QED BY <1>1, <1>3, <1>4, <1>7, <1>9, <1>10, <1>13, <2>1, <2>2 DEF Lags
<1>15. Flagged(c) /\ Flagged(e)
  BY DEF Foretells
<1>16. Flagged(d)
  <2>1. CASE ~Out(v)
    BY <1>12, <1>13, <1>15, <2>1 DEF Flagged
  <2>2. CASE Out(v) /\ fe \cap e.icr = {}
    <3>1. d.irqflags = fe /\ d.irq = e.irq
      BY <1>12, <2>2
    <3> QED BY <1>13, <1>15, <2>2, <3>1 DEF Flagged
  <2>3. CASE Out(v) /\ fe \cap e.icr # {}
    <3>1. d.irqflags = fe \cup {"IR"} /\ d.irq = Pull(e.irq, At(e, p))
      BY <1>12, <2>3
    <3>2. d.irq.on
      BY <3>1 DEF Pull
    <3> QED BY <3>1, <3>2 DEF Flagged
  <2> QED BY <2>1, <2>2, <2>3
\* Once the line is pulled underflows change nothing more.
<1>17. ASSUME "TA" \in e.irqflags  PROVE d.irqflags = e.irqflags /\ d.irq = e.irq
  <2>1. fe = e.irqflags
    BY <1>17
  <2>2. CASE fe \cap e.icr # {}
    <3>1. "IR" \in e.irqflags /\ e.irq.on
      BY <1>15, <2>1, <2>2 DEF Flagged
    <3>2. Pull(e.irq, At(e, p)) = e.irq /\ fe \cup {"IR"} = e.irqflags
      BY <2>1, <3>1 DEF Pull
    <3> QED BY <1>12, <2>2, <3>2
  <2>3. CASE fe \cap e.icr = {}
    BY <1>12, <2>1, <2>3
  <2> QED BY <2>2, <2>3
<1>18. Forecast(c, d, p)
  <2>1. CASE r.alarmclk <= t
    <3>1. ~(c.timer.alarmclk > t) /\ ~(c.timer.alarmclk > p)
      BY <1>1, <1>3, <2>1
    <3>2. Forecast(c, e, t)
      BY DEF Foretells
    <3>3. "TA" \in e.irqflags
      BY <3>1, <3>2 DEF Forecast
    <3> QED BY <1>17, <3>1, <3>2, <3>3 DEF Forecast
  <2>2. CASE r.alarmclk > t
    <3>1. e.irqflags = c.irqflags \cup Only("TA", v.n # 0) /\ e.irq = c.irq
      BY <1>1, <1>2, <1>4, <2>2 DEF Foretells, Forecast
    <3>2. CASE r.alarmclk = p
      <4>1. PICK i \in Nat : /\ r.alarmclk = r.clk + i + 1
                             /\ Out(After(r, i))
                             /\ \A j \in Nat : j < i => ~Out(After(r, j))
        <5>1. When(r, r.alarmclk)
          BY <1>1, <1>3, <3>2, AlarmInTime
        <5> QED BY <1>3, <3>2, <5>1 DEF When
      <4>2. i = k
        BY <1>2, <1>3, <3>2, <4>1
      <4>3. Out(v) /\ v.n = 0
        BY <1>3, <1>4, <4>1, <4>2, NoOuts
      <4>4. e.irqflags = c.irqflags
        BY <3>1, <4>3 DEF Only
      <4>5. At(e, p) = At(c, p)
        <5>1. p - 1 = t
          OBVIOUS
        <5>2. e.rdi = p - 1 <=> c.rdi = p - 1
          BY <1>11, <5>1
        <5> QED BY <1>13, <5>2, SameAt
      <4>6. /\ c.timer.alarmclk = p
            /\ ~(c.timer.alarmclk > p)
        BY <1>1, <1>3, <3>2
      <4>7. IF fe \cap c.icr = {} THEN d.irqflags = fe /\ d.irq = c.irq
            ELSE d.irqflags = fe \cup {"IR"} /\ d.irq = Pull(c.irq, At(c, p))
        <5> HIDE DEF fe
        <5> QED BY <1>12, <1>13, <3>1, <4>3, <4>5
      <4> QED BY <4>4, <4>6, <4>7 DEF Forecast
    <3>3. CASE r.alarmclk > p
      <4>1. c.timer.alarmclk > p /\ After(c.timer, p - c.timer.clk) = w
        BY <1>1, <1>4, <1>7, <3>3
      <4>2. CASE ~Out(v)
        <5>1. w.n = v.n /\ d.irqflags = e.irqflags /\ d.irq = e.irq
          BY <1>8, <1>12, <4>2
        <5>2. d.irqflags = c.irqflags \cup Only("TA", w.n # 0) /\ d.irq = c.irq
          BY <3>1, <5>1
        <5>3. After(c.timer, p - c.timer.clk).n = w.n
          BY <4>1
        <5>4. d.irqflags = c.irqflags \cup Only("TA", After(c.timer, p - c.timer.clk).n # 0)
          BY <5>2, <5>3
        <5> QED BY <4>1, <5>2, <5>4, ForecastLater
      <4>3. CASE Out(v)
        <5>1. w.n # 0
          BY <1>8, <4>3
        <5>2. Only("TA", w.n # 0) = {"TA"}
          BY <5>1 DEF Only
        <5>3. r.alarmclk # NextUnderflow(r)
          <6>1. SUFFICES ASSUME r.alarmclk = NextUnderflow(r)  PROVE FALSE
            OBVIOUS
          <6>2. When(r, r.alarmclk)
            BY <1>3, <6>1, NextUnderflowWhen
          <6>3. PICK i \in Nat : /\ r.alarmclk = r.clk + i + 1
                                 /\ \A j \in Nat : j < i => ~Out(After(r, j))
            BY <1>4, <4>3, <6>2 DEF When
          <6>4. k < i
            BY <1>2, <1>3, <3>3, <6>3
          <6> QED BY <1>4, <4>3, <6>3, <6>4
        <5>4. "IR" \in c.irqflags \/ "TA" \notin c.icr
          <6>1. Alarmed(c)
            BY DEF Lags
          <6>2. ~Quiet(r.flags)
            BY <1>3, <1>4, <4>3, QuietStays
          <6> QED BY <1>1, <5>3, <6>1, <6>2 DEF Alarmed
        <5>5. d.irqflags = fe /\ d.irq = e.irq
          <6>1. CASE fe \cap e.icr = {}
            BY <1>12, <4>3, <6>1
          <6>2. CASE fe \cap e.icr # {}
            <7>1. "IR" \in e.irqflags
              <8>1. CASE "IR" \in c.irqflags
                BY <3>1, <8>1
              <8>2. CASE "TA" \notin c.icr
                <9>1. e.irqflags \cap e.icr # {}
                  BY <1>13, <6>2, <8>2
                <9> QED BY <1>15, <9>1 DEF Flagged
              <8> QED BY <5>4, <8>1, <8>2
            <7>2. e.irq.on
              BY <1>15, <7>1 DEF Flagged
            <7>3. Pull(e.irq, At(e, p)) = e.irq /\ fe \cup {"IR"} = fe
              BY <7>1, <7>2 DEF Pull
            <7> QED BY <1>12, <4>3, <6>2, <7>3
          <6> QED BY <6>1, <6>2
        <5>6. fe = c.irqflags \cup {"TA"}
          BY <3>1 DEF Only
        <5>7. d.irqflags = c.irqflags \cup Only("TA", w.n # 0) /\ d.irq = c.irq
          <6> HIDE DEF fe
          <6> QED BY <3>1, <5>2, <5>5, <5>6
        <5>8. After(c.timer, p - c.timer.clk).n = w.n
          BY <4>1
        <5>9. d.irqflags = c.irqflags \cup Only("TA", After(c.timer, p - c.timer.clk).n # 0)
          BY <5>7, <5>8
        <5> QED BY <4>1, <5>7, <5>9, ForecastLater
      <4> QED BY <4>2, <4>3
    <3> QED BY <1>3, <2>2, <3>2, <3>3
  <2> QED BY <1>3, <2>1, <2>2
<1>19. Foretells(c, d, p)
  <2>1. c.rdi <= c.timer.clk /\ d.rdi <= p /\ (c.rdi = p <=> d.rdi = p)
    BY <1>1, <1>11, <1>13
  <2> QED BY <1>15, <1>16, <1>18, <2>1 DEF Foretells
<1>20. Settled(d.timer)
  BY <1>6, <1>10 DEF Settled, Like
<1> QED BY <1>10, <1>14, <1>19, <1>20

(* Times nothing depends on any more can be forgotten.                      *)
LEMMA ForgetReadFields ==
    ASSUME NEW c \in Chips
    PROVE  LET d == ForgetRead(c)
           IN  /\ d \in Chips /\ d.timer = c.timer /\ d.due = c.due
               /\ d.new = c.new /\ d.cra = c.cra /\ d.icr = c.icr
               /\ d.irqflags = c.irqflags /\ d.irq = c.irq
               /\ d.rdi = IF c.rdi < c.timer.clk THEN 0 ELSE c.rdi
<1>1. CASE c.rdi < c.timer.clk
  <2>1. PICK d : d = [c EXCEPT !.rdi = 0]
    OBVIOUS
  <2>2. ForgetRead(c) = d
    BY <1>1, <2>1, Zenon DEF ForgetRead
  <2>3. 0 \in Clock
    BY Constants
  <2>4. /\ d \in Chips /\ d.timer = c.timer /\ d.due = c.due
        /\ d.new = c.new /\ d.cra = c.cra /\ d.icr = c.icr
        /\ d.irqflags = c.irqflags /\ d.irq = c.irq /\ d.rdi = 0
    BY ONLY c \in Chips, <2>1, <2>3 DEF Chips
  <2> QED BY <1>1, <2>2, <2>4
<1>2. CASE ~(c.rdi < c.timer.clk)
  BY <1>2 DEF ForgetRead
<1> QED BY <1>1, <1>2

Trim(irq) == [irq EXCEPT !.clk = 0]

LEMMA TrimFields ==
    ASSUME NEW irq \in [on : BOOLEAN, clk : Clock]
    PROVE  /\ Trim(irq) \in [on : BOOLEAN, clk : Clock] /\ (Trim(irq).on <=> irq.on)
           /\ irq = Released => Trim(irq) = Released
<1>1. 0 \in Clock
  BY Constants
<1>2. PICK d : d = Trim(irq)
  OBVIOUS
<1>3. d \in [on : BOOLEAN, clk : Clock] /\ d.on = irq.on /\ d.clk = 0
  BY ONLY <1>1, <1>2, irq \in [on : BOOLEAN, clk : Clock] DEF Trim
<1>4. irq = Released => d.on = Released.on /\ d.clk = Released.clk
  BY <1>3 DEF Released
<1>5. irq = Released => d = Released
  <2>1. Released \in [on : BOOLEAN, clk : Clock]
    BY <1>1 DEF Released
  <2> QED BY ONLY <1>3, <1>4, <2>1
<1> QED BY <1>2, <1>3, <1>5

LEMMA ForgetPullFields ==
    ASSUME NEW c \in Chips
    PROVE  LET d == ForgetPull(c)
           IN  /\ d \in Chips /\ d.timer = c.timer /\ d.due = c.due
               /\ d.new = c.new /\ d.cra = c.cra /\ d.icr = c.icr
               /\ d.irqflags = c.irqflags /\ d.rdi = c.rdi
               /\ d.irq = IF cia.irq = exact.irq /\ c.irq.clk <= now THEN Trim(c.irq) ELSE c.irq
<1>1. CASE cia.irq = exact.irq /\ c.irq.clk <= now
  <2>1. PICK irq \in [on : BOOLEAN, clk : Clock] : irq = Trim(c.irq)
    BY ChipFields, TrimFields
  <2>2. PICK d : d = [c EXCEPT !.irq = irq]
    OBVIOUS
  <2>3. ForgetPull(c) = d
    BY <1>1, <2>1, <2>2 DEF ForgetPull, Trim
  <2>4. /\ d \in Chips /\ d.timer = c.timer /\ d.due = c.due
        /\ d.new = c.new /\ d.cra = c.cra /\ d.icr = c.icr
        /\ d.irqflags = c.irqflags /\ d.irq = irq /\ d.rdi = c.rdi
    BY ONLY c \in Chips, irq \in [on : BOOLEAN, clk : Clock], <2>2 DEF Chips
  <2> QED BY <1>1, <2>1, <2>3, <2>4
<1>2. CASE ~(cia.irq = exact.irq /\ c.irq.clk <= now)
  BY <1>2 DEF ForgetPull
<1> QED BY <1>1, <1>2

LEMMA Forgotten ==
    ASSUME Lags(cia, exact, now), Foretells(cia, exact, now), cia.timer.clk >= SubMin
    PROVE  LET c == ForgetPull(ForgetRead(cia))
               e == ForgetPull(ForgetRead(exact))
           IN  /\ Lags(c, e, now) /\ Foretells(c, e, now)
               /\ c.timer = cia.timer /\ e.timer = exact.timer /\ e.due = exact.due
<1>1. /\ cia \in Chips /\ exact \in Chips /\ now \in Nat /\ cia.timer.clk \in Nat
      /\ cia.timer.clk <= now /\ exact.timer.clk = now /\ cia.timer.clk > 0
      /\ cia.timer.alarmclk \in Nat /\ cia.timer.alarmclk > cia.timer.clk
      /\ cia.rdi \in Nat /\ exact.rdi \in Nat
  <2>1. cia.timer.clk >= SubMin /\ SubMin \in Nat /\ SubMin > 0 /\ cia.timer.clk \in Nat
    BY LagsFields, Constants
  <2>2. now \in Nat /\ cia.timer.alarmclk \in Nat /\ cia.rdi \in Nat /\ exact.rdi \in Nat
    BY LagsFields, ChipFields, Constants
  <2>3. cia.timer.clk > 0
    BY <2>1
  <2> QED BY <2>1, <2>2, <2>3, LagsFields DEF Lags
<1>2. PICK a \in Chips, b \in Chips :
          /\ a = ForgetRead(cia) /\ b = ForgetRead(exact)
          /\ a.timer = cia.timer /\ a.due = cia.due
          /\ a.new = cia.new /\ a.cra = cia.cra /\ a.icr = cia.icr
          /\ a.irqflags = cia.irqflags /\ a.irq = cia.irq
          /\ a.rdi = IF cia.rdi < cia.timer.clk THEN 0 ELSE cia.rdi
          /\ b.timer = exact.timer /\ b.due = exact.due
          /\ b.new = exact.new /\ b.cra = exact.cra /\ b.icr = exact.icr
          /\ b.irqflags = exact.irqflags /\ b.irq = exact.irq
          /\ b.rdi = IF exact.rdi < exact.timer.clk THEN 0 ELSE exact.rdi
  BY <1>1, ForgetReadFields
<1>3. PICK c \in Chips, e \in Chips :
          /\ c = ForgetPull(a) /\ e = ForgetPull(b)
          /\ c.timer = a.timer /\ c.due = a.due
          /\ c.new = a.new /\ c.cra = a.cra /\ c.icr = a.icr
          /\ c.irqflags = a.irqflags /\ c.rdi = a.rdi
          /\ c.irq = IF cia.irq = exact.irq /\ a.irq.clk <= now THEN Trim(a.irq) ELSE a.irq
          /\ e.timer = b.timer /\ e.due = b.due
          /\ e.new = b.new /\ e.cra = b.cra /\ e.icr = b.icr
          /\ e.irqflags = b.irqflags /\ e.rdi = b.rdi
          /\ e.irq = IF cia.irq = exact.irq /\ b.irq.clk <= now THEN Trim(b.irq) ELSE b.irq
  BY ForgetPullFields
<1>4. /\ c.timer = cia.timer /\ c.due = cia.due
      /\ c.new = cia.new /\ c.cra = cia.cra /\ c.icr = cia.icr /\ c.irqflags = cia.irqflags
      /\ e.timer = exact.timer /\ e.due = exact.due
      /\ e.new = exact.new /\ e.cra = exact.cra /\ e.icr = exact.icr
      /\ e.irqflags = exact.irqflags
  BY <1>2, <1>3
<1>5. /\ c.irq = cia.irq \/ (cia.irq = exact.irq /\ c.irq = Trim(cia.irq))
      /\ e.irq = exact.irq \/ (cia.irq = exact.irq /\ e.irq = Trim(exact.irq))
      /\ cia.irq = exact.irq => c.irq = e.irq
      /\ cia.irq # exact.irq => c.irq = cia.irq /\ e.irq = exact.irq
  BY <1>2, <1>3
<1>6. /\ c.rdi <= cia.timer.clk /\ e.rdi <= now /\ (c.rdi = now <=> e.rdi = now)
      /\ c.rdi = cia.timer.alarmclk - 1 <=> cia.rdi = cia.timer.alarmclk - 1
  <2>1. cia.rdi <= cia.timer.clk /\ exact.rdi <= now /\ (cia.rdi = now <=> exact.rdi = now)
    BY DEF Foretells
  <2>2. c.rdi = (IF cia.rdi < cia.timer.clk THEN 0 ELSE cia.rdi)
        /\ e.rdi = (IF exact.rdi < now THEN 0 ELSE exact.rdi)
    BY <1>1, <1>2, <1>3
  <2> QED BY <1>1, <2>1, <2>2
<1>7. Lags(c, e, now)
  <2>1. Alarmed(c) /\ Bits(c)
    BY <1>4 DEF Lags, Alarmed, Bits
  <2> QED BY <1>4, <2>1 DEF Lags
<1>8. Flagged(c) /\ Flagged(e)
  <2>1. Flagged(cia) /\ Flagged(exact)
    BY DEF Foretells
  <2>2. cia.irq \in [on : BOOLEAN, clk : Clock] /\ exact.irq \in [on : BOOLEAN, clk : Clock]
    BY <1>1, ChipFields
  <2>3. (c.irq.on <=> cia.irq.on) /\ (cia.irq = Released => c.irq = Released)
    BY <1>5, <2>2, TrimFields
  <2>4. (e.irq.on <=> exact.irq.on) /\ (exact.irq = Released => e.irq = Released)
    BY <1>5, <2>2, TrimFields
  <2> QED BY <1>4, <2>1, <2>3, <2>4 DEF Flagged
<1>9. Forecast(c, e, now)
  <2>1. Forecast(cia, exact, now)
    BY DEF Foretells
  <2>2. CASE cia.timer.alarmclk > now
    BY <1>4, <1>5, <2>1, <2>2 DEF Forecast
  <2>3. CASE ~(cia.timer.alarmclk > now) /\ (cia.irqflags \cup {"TA"}) \cap cia.icr = {}
    BY <1>4, <1>5, <2>1, <2>3 DEF Forecast
  <2>4. CASE ~(cia.timer.alarmclk > now) /\ (cia.irqflags \cup {"TA"}) \cap cia.icr # {}
    <3>1. /\ exact.irqflags = cia.irqflags \cup {"TA"} \cup {"IR"}
          /\ exact.irq = Pull(cia.irq, At(cia, cia.timer.alarmclk))
      BY <2>1, <2>4 DEF Forecast
    <3>2. At(c, cia.timer.alarmclk) = At(cia, cia.timer.alarmclk)
      BY <1>4, <1>6, SameAt
    <3>3. e.irq = Pull(c.irq, At(c, cia.timer.alarmclk))
      <4>1. CASE cia.irq = exact.irq
        <5>1. exact.irq.on
          BY <3>1 DEF Pull
        <5>2. e.irq.on
          <6>1. exact.irq \in [on : BOOLEAN, clk : Clock]
            BY <1>1, ChipFields
          <6> QED BY <1>5, <5>1, <6>1, TrimFields
        <5> QED BY <1>5, <4>1, <5>2 DEF Pull
      <4>2. CASE cia.irq # exact.irq
        BY <1>5, <3>1, <3>2, <4>2
      <4> QED BY <4>1, <4>2
    <3> QED BY <1>4, <2>4, <3>1, <3>3 DEF Forecast
  <2> QED BY <2>2, <2>3, <2>4
<1>10. Foretells(c, e, now)
  BY <1>4, <1>6, <1>8, <1>9 DEF Foretells
<1> QED BY <1>2, <1>3, <1>4, <1>7, <1>10

-----------------------------------------------------------------------------
(* Registers are stored to and read when the chip is up to date.            *)

\* b shows what x shows.
Matched(b, x, t) ==
    /\ b \in Chips /\ x \in Chips /\ t \in Clock /\ t <= GuardMax + 1
    /\ b.timer.clk = t /\ x.timer.clk = t /\ b.timer.n = 0 /\ x.timer.n = 0
    /\ Like(b.timer, x.timer) /\ Sound(b.timer)
    /\ b.new = x.new /\ b.cra = x.cra /\ b.icr = x.icr
    /\ b.irqflags = x.irqflags /\ b.irq = x.irq
    /\ b.rdi <= t /\ x.rdi <= t /\ (b.rdi = t <=> x.rdi = t)

InForce(b) == Bits(b) /\ Flagged(b) /\ Alarmed(b) /\ b.due = b.timer.alarmclk

LEMMA LagsMatched ==
    ASSUME NEW c, NEW e, NEW t, Lags(c, e, t), Foretells(c, e, t), c.timer.clk = t
    PROVE  Matched(c, e, t) /\ InForce(c)
BY UpToDate, LagsFields DEF Lags, Foretells, Matched, InForce

(* The exact chip needs no alarm.                                           *)
LEMMA MatchedLags ==
    ASSUME NEW b, NEW x, NEW t, Matched(b, x, t), InForce(b)
    PROVE  LET e == AckAlarm(x)
           IN  /\ Lags(b, e, t) /\ Foretells(b, e, t)
               /\ e.due = Never /\ e.timer.alarmclk = Never
<1>1. b \in Chips /\ x \in Chips /\ t \in Clock /\ t <= GuardMax + 1
  BY DEF Matched
<1>2. PICK e \in Chips :
          /\ e = AckAlarm(x) /\ Like(e.timer, x.timer) /\ e.timer.clk = x.timer.clk
          /\ e.timer.n = x.timer.n /\ e.timer.alarmclk = Never /\ e.due = Never
          /\ e.irqflags = x.irqflags /\ e.irq = x.irq
          /\ x.new = e.new /\ x.cra = e.cra /\ x.icr = e.icr /\ x.rdi = e.rdi
  BY <1>1, AckAlarmFields DEF SameRest
<1>3. Like(b.timer, e.timer) /\ e.timer.clk = t /\ e.timer.n = 0
  BY <1>2 DEF Matched, Like
<1>4. Lags(b, e, t) /\ Foretells(b, e, t)
  BY <1>1, <1>2, <1>3, IsUpToDate DEF Matched, InForce
<1> QED BY <1>2, <1>4

LEMMA AlarmRenewed ==
    ASSUME NEW b, NEW x, NEW t, Matched(b, x, t)
    PROVE  LET d == SetAlarm(b)
               y == SetAlarm(x)
           IN  /\ Matched(d, y, t) /\ Like(d.timer, b.timer) /\ SameRest(b, d)
               /\ d.irqflags = b.irqflags /\ d.irq = b.irq
               /\ Bits(b) /\ Flagged(b) => InForce(d)
               /\ d.timer.alarmclk = NextUnderflow(d.timer) /\ d.due = d.timer.alarmclk
<1>1. b \in Chips /\ x \in Chips
  BY DEF Matched
<1>2. PICK d \in Chips :
          /\ d = SetAlarm(b) /\ Like(d.timer, b.timer) /\ d.timer.clk = b.timer.clk
          /\ d.timer.n = b.timer.n /\ d.timer.alarmclk = NextUnderflow(b.timer)
          /\ d.due = d.timer.alarmclk /\ d.irqflags = b.irqflags /\ d.irq = b.irq
          /\ b.new = d.new /\ b.cra = d.cra /\ b.icr = d.icr /\ b.rdi = d.rdi
  BY <1>1, SetAlarmFields DEF SameRest
<1>3. PICK y \in Chips :
          /\ y = SetAlarm(x) /\ Like(y.timer, x.timer) /\ y.timer.clk = x.timer.clk
          /\ y.timer.n = x.timer.n /\ y.irqflags = x.irqflags /\ y.irq = x.irq
          /\ x.new = y.new /\ x.cra = y.cra /\ x.icr = y.icr /\ x.rdi = y.rdi
  BY <1>1, SetAlarmFields DEF SameRest
<1>4. Matched(d, y, t)
  <2>1. Like(d.timer, y.timer) /\ Sound(d.timer)
    BY <1>2, <1>3 DEF Matched, Like, Sound
  <2> QED BY <1>2, <1>3, <2>1 DEF Matched
<1>5. NextUnderflow(b.timer) = NextUnderflow(d.timer)
  BY <1>1, <1>2, ChipFields, SameNextUnderflow
<1>6. ASSUME Bits(b), Flagged(b)  PROVE InForce(d)
  <2>1. Alarmed(d)
    BY <1>2, <1>5 DEF Alarmed
  <2>2. Bits(d) /\ Flagged(d)
    BY <1>2, <1>6 DEF Bits, Flagged, Like
  <2> QED BY <1>2, <2>1, <2>2 DEF InForce
<1> QED BY <1>2, <1>3, <1>4, <1>5, <1>6 DEF SameRest

\* The high byte of x and the low byte lo; the high byte hi and the low byte of x
WithLow(x, lo) == (x \div Base) * Base + lo
WithHigh(x, hi) == (hi * Base) + (x % Base)

LEMMA BytesOfWord ==
    ASSUME NEW x \in 0 .. Word - 1, NEW b \in Bytes
    PROVE  WithLow(x, b) \in 0 .. Word - 1 /\ WithHigh(x, b) \in 0 .. Word - 1
<1>1. PICK p \in Nat : p = Base /\ p >= 2
  BY CiaAssumption
<1>2. Word = p * p
  BY <1>1 DEF Word
<1>3. ASSUME NEW h \in 0 .. p - 1, NEW l \in 0 .. p - 1  PROVE h * p + l \in 0 .. p * p - 1
  <2>1. PICK m \in Nat : m = p - 1 - h
    BY <1>3
  <2>2. h \in Nat /\ l \in Nat /\ h * p \in Nat /\ m * p \in Nat
    BY <1>3
  <2>3. p * p = (m + 1 + h) * p
    BY <1>3, <2>1
  <2>4. (m + 1 + h) * p = m * p + p + h * p
    BY <2>2
  <2> QED BY <1>1, <1>3, <2>2, <2>3, <2>4
<1>4. x \div p \in 0 .. p - 1
  <2>1. x \in Nat /\ x < p * p
    BY <1>1, <1>2
  <2>2. x \div p \in Nat /\ (x \div p) * p <= x
    BY <1>1, <2>1
  <2>3. ~(x \div p >= p)
    <3>1. SUFFICES ASSUME x \div p >= p  PROVE FALSE
      OBVIOUS
    <3>2. PICK q \in Nat : q = x \div p /\ q >= p /\ q * p <= x
      BY <2>2, <3>1
    <3>3. q >= p /\ q * p <= x
      BY <3>2
    <3>4. PICK m \in Nat : m = q - p
      BY <3>3
    <3>5. q * p = m * p + p * p /\ m * p \in Nat
      BY <3>4
    <3> QED BY <2>1, <3>3, <3>5
  <2> QED BY <2>2, <2>3
<1>5. x % p \in 0 .. p - 1 /\ b \in 0 .. p - 1
  BY <1>1, <1>2 DEF Bytes
<1>6. WithLow(x, b) = (x \div p) * p + b /\ WithHigh(x, b) = b * p + (x % p)
  BY <1>1 DEF WithLow, WithHigh
<1>7. (x \div p) * p + b \in 0 .. p * p - 1
  BY <1>3, <1>4, <1>5
<1>8. b * p + (x % p) \in 0 .. p * p - 1
  BY <1>3, <1>5
<1> QED BY <1>2, <1>6, <1>7, <1>8

Counter(c, latch, cnt) == [c EXCEPT !.timer.latch = latch, !.timer.cnt = cnt]

LEMMA CounterFields ==
    ASSUME NEW c \in Chips, NEW latch \in 0 .. Word - 1, NEW cnt \in 0 .. Word - 1
    PROVE  LET d == Counter(c, latch, cnt)
           IN  /\ d \in Chips /\ d.timer.flags = c.timer.flags /\ d.timer.cnt = cnt
               /\ d.timer.latch = latch /\ d.timer.clk = c.timer.clk /\ d.timer.n = c.timer.n
               /\ d.irqflags = c.irqflags /\ d.irq = c.irq /\ SameRest(c, d)
<1>1. PICK r \in Timers : r = c.timer
  BY ChipFields
<1>2. PICK u : u = [r EXCEPT !.latch = latch, !.cnt = cnt]
  OBVIOUS
<1>3. /\ u \in Timers /\ u.flags = r.flags /\ u.cnt = cnt /\ u.latch = latch
      /\ u.clk = r.clk /\ u.n = r.n
  BY ONLY r \in Timers, latch \in 0 .. Word - 1, cnt \in 0 .. Word - 1, <1>2 DEF Timers
<1>4. PICK d : d = [c EXCEPT !.timer = u]
  OBVIOUS
<1>5. d = Counter(c, latch, cnt)
  <2>1. [c EXCEPT !.timer.latch = latch, !.timer.cnt = cnt]
            = [[c EXCEPT !.timer.latch = latch] EXCEPT !.timer.cnt = cnt]
    BY Zenon
  <2>2. PICK v : v = [r EXCEPT !.latch = latch]
    OBVIOUS
  <2>3. PICK b : b = [c EXCEPT !.timer = v]
    OBVIOUS
  <2>4. v \in Timers
    BY ONLY r \in Timers, latch \in 0 .. Word - 1, <2>2 DEF Timers
  <2>5. b.timer = v
    BY ONLY c \in Chips, <2>3, <2>4 DEF Chips
  <2>6. [b EXCEPT !.timer = u] = d
    BY ONLY c \in Chips, <2>3, <1>4 DEF Chips
  <2>7. [b EXCEPT !.timer.cnt = cnt] = [b EXCEPT !.timer = [v EXCEPT !.cnt = cnt]]
    BY <2>5, Zenon
  <2>8. [v EXCEPT !.cnt = cnt] = u
    BY ONLY r \in Timers, <2>2, <1>2 DEF Timers
  <2>9. [c EXCEPT !.timer.latch = latch] = b
    BY <1>1, <2>2, <2>3, Zenon
  <2> QED BY <2>1, <2>6, <2>7, <2>8, <2>9, Zenon DEF Counter
<1>6. d \in Chips /\ d.timer = u /\ d.irqflags = c.irqflags /\ d.irq = c.irq /\ SameRest(c, d)
  BY <1>3, <1>4, WithTimer
<1> QED BY <1>1, <1>3, <1>5, <1>6

(* A counter is changed when the timer reloads it or does not count.        *)
LEMMA CounterStored ==
    ASSUME NEW c, NEW e, NEW t, Matched(c, e, t), InForce(c),
           NEW latch \in 0 .. Word - 1, NEW cnt \in 0 .. Word - 1,
           cnt = c.timer.cnt \/ "LOAD" \in c.timer.flags \/ "START" \notin c.timer.flags
    PROVE  LET b == SetAlarm(Counter(c, latch, cnt))
           IN  Matched(b, SetAlarm(Counter(e, latch, cnt)), t) /\ InForce(b)
<1>1. c \in Chips /\ e \in Chips
  BY DEF Matched
<1>2. PICK b \in Chips :
          /\ b = Counter(c, latch, cnt) /\ b.timer.flags = c.timer.flags /\ b.timer.cnt = cnt
          /\ b.timer.latch = latch /\ b.timer.clk = c.timer.clk /\ b.timer.n = c.timer.n
          /\ b.irqflags = c.irqflags /\ b.irq = c.irq /\ SameRest(c, b)
  BY <1>1, CounterFields
<1>3. PICK x \in Chips :
          /\ x = Counter(e, latch, cnt) /\ x.timer.flags = e.timer.flags /\ x.timer.cnt = cnt
          /\ x.timer.latch = latch /\ x.timer.clk = e.timer.clk /\ x.timer.n = e.timer.n
          /\ x.irqflags = e.irqflags /\ x.irq = e.irq /\ SameRest(e, x)
  BY <1>1, CounterFields
<1>4. Sound(b.timer)
  BY <1>2 DEF Matched, Sound
<1>5. Like(b.timer, x.timer)
  BY <1>2, <1>3 DEF Matched, Like
<1>6. Matched(b, x, t)
  BY <1>2, <1>3, <1>4, <1>5 DEF Matched, SameRest
<1>7. Bits(b) /\ Flagged(b)
  BY <1>2 DEF InForce, Bits, Flagged, SameRest
<1> QED BY <1>2, <1>3, <1>6, <1>7, AlarmRenewed

LEMMA StoresTal ==
    ASSUME NEW c, NEW e, NEW t, Matched(c, e, t), InForce(c), NEW lo \in Bytes
    PROVE  Matched(StoreTal(c, lo), StoreTal(e, lo), t) /\ InForce(StoreTal(c, lo))
<1>1. c \in Chips /\ e \in Chips /\ Like(c.timer, e.timer)
  BY DEF Matched
<1>2. c.timer.latch \in 0 .. Word - 1 /\ c.timer.cnt \in 0 .. Word - 1
  BY <1>1, ChipFields, TimerFields
<1>3. PICK latch \in 0 .. Word - 1 : latch = WithLow(c.timer.latch, lo)
  BY <1>2, BytesOfWord
<1>4. PICK low \in 0 .. Word - 1 : low = WithLow(c.timer.cnt, lo)
  BY <1>2, BytesOfWord
<1>5. PICK cnt \in 0 .. Word - 1 :
          cnt = IF "LOAD" \in c.timer.flags THEN low ELSE c.timer.cnt
  BY <1>2
<1>6. latch = WithLow(e.timer.latch, lo)
      /\ cnt = IF "LOAD" \in e.timer.flags THEN WithLow(e.timer.cnt, lo) ELSE e.timer.cnt
  BY <1>1, <1>3, <1>4, <1>5 DEF Like
<1>7. StoreTal(c, lo) = SetAlarm(Counter(c, latch, cnt))
  BY <1>3, <1>4, <1>5, Zenon DEF StoreTal, Counter, WithLow
<1>8. StoreTal(e, lo) = SetAlarm(Counter(e, latch, cnt))
  BY <1>6, Zenon DEF StoreTal, Counter, WithLow
<1>9. cnt = c.timer.cnt \/ "LOAD" \in c.timer.flags
  BY <1>5
<1> QED BY <1>7, <1>8, <1>9, CounterStored

LEMMA StoresTah ==
    ASSUME NEW c, NEW e, NEW t, Matched(c, e, t), InForce(c), NEW hi \in Bytes
    PROVE  Matched(StoreTah(c, hi), StoreTah(e, hi), t) /\ InForce(StoreTah(c, hi))
<1>1. c \in Chips /\ e \in Chips /\ Like(c.timer, e.timer)
  BY DEF Matched
<1>2. c.timer.latch \in 0 .. Word - 1 /\ c.timer.cnt \in 0 .. Word - 1
  BY <1>1, ChipFields, TimerFields
<1>3. PICK latch \in 0 .. Word - 1 : latch = WithHigh(c.timer.latch, hi)
  BY <1>2, BytesOfWord
<1>4. PICK cnt \in 0 .. Word - 1 :
          cnt = IF "LOAD" \in c.timer.flags \/ "START" \notin c.timer.flags THEN latch
                ELSE c.timer.cnt
  BY <1>2
<1>5. latch = WithHigh(e.timer.latch, hi)
      /\ cnt = IF "LOAD" \in e.timer.flags \/ "START" \notin e.timer.flags THEN latch
               ELSE e.timer.cnt
  BY <1>1, <1>3, <1>4 DEF Like
<1>6. StoreTah(c, hi) = SetAlarm(Counter(c, latch, cnt))
  BY <1>3, <1>4, Zenon DEF StoreTah, Counter, WithHigh
<1>7. StoreTah(e, hi) = SetAlarm(Counter(e, latch, cnt))
  BY <1>5, Zenon DEF StoreTah, Counter, WithHigh
<1>8. cnt = c.timer.cnt \/ "LOAD" \in c.timer.flags \/ "START" \notin c.timer.flags
  BY <1>4
<1> QED BY <1>6, <1>7, <1>8, CounterStored

Control(c, flags) == [c EXCEPT !.timer.flags = flags]

LEMMA ControlFields ==
    ASSUME NEW c \in Chips, NEW flags \in SUBSET Flags
    PROVE  LET d == Control(c, flags)
           IN  /\ d \in Chips /\ d.timer.flags = flags /\ d.timer.cnt = c.timer.cnt
               /\ d.timer.latch = c.timer.latch /\ d.timer.clk = c.timer.clk
               /\ d.timer.n = c.timer.n
               /\ d.irqflags = c.irqflags /\ d.irq = c.irq /\ SameRest(c, d)
<1>1. PICK r \in Timers : r = c.timer
  BY ChipFields
<1>2. PICK u : u = [r EXCEPT !.flags = flags]
  OBVIOUS
<1>3. /\ u \in Timers /\ u.flags = flags /\ u.cnt = r.cnt /\ u.latch = r.latch
      /\ u.clk = r.clk /\ u.n = r.n
  BY ONLY r \in Timers, flags \in SUBSET Flags, <1>2 DEF Timers
<1>4. PICK d : d = [c EXCEPT !.timer = u]
  OBVIOUS
<1>5. d = Control(c, flags)
  BY <1>1, <1>2, <1>4, Zenon DEF Control
<1>6. d \in Chips /\ d.timer = u /\ d.irqflags = c.irqflags /\ d.irq = c.irq /\ SameRest(c, d)
  BY <1>3, <1>4, WithTimer
<1> QED BY <1>1, <1>3, <1>5, <1>6

WithCra(c, cra) == [c EXCEPT !.cra = cra]

LEMMA WithCraFields ==
    ASSUME NEW c \in Chips, NEW cra \in SUBSET CraBits
    PROVE  LET d == WithCra(c, cra)
           IN  /\ d \in Chips /\ d.timer = c.timer /\ d.due = c.due /\ d.cra = cra
               /\ d.new = c.new /\ d.icr = c.icr /\ d.rdi = c.rdi
               /\ d.irqflags = c.irqflags /\ d.irq = c.irq
BY DEF WithCra, Chips

(* The timer is settled: else a one-shot timer that has just stopped could  *)
(* be started in the cycle of its underflow.                                *)
LEMMA StoresCra ==
    ASSUME NEW c, NEW e, NEW t, Matched(c, e, t), InForce(c), Settled(e.timer),
           NEW byte \in SUBSET CraBits
    PROVE  Matched(StoreCra(c, byte), StoreCra(e, byte), t) /\ InForce(StoreCra(c, byte))
<1>1. c \in Chips /\ e \in Chips /\ Like(c.timer, e.timer) /\ c.timer.flags \in SUBSET Flags
  BY ChipFields, TimerFields DEF Matched
<1> DEFINE bits == (byte \cap CrBits) \cup (IF "CNT" \in byte THEN {} ELSE {"PHI2IN"})
<1>2. PICK flags \in SUBSET Flags : flags = (c.timer.flags \ CrBits) \cup bits
  <2>1. bits \in SUBSET Flags
    BY DEF CrBits, Flags
  <2> HIDE DEF bits
  <2> QED BY <1>1, <2>1
<1>3. PICK cra \in SUBSET CraBits : cra = byte \ {"FLOAD"}
  OBVIOUS
<1>4. /\ "STEP" \in flags => "STEP" \in c.timer.flags
      /\ "LOAD" \in flags <=> "LOAD" \in c.timer.flags
      /\ "OUT" \in flags <=> "OUT" \in c.timer.flags
      /\ "COUNT3" \in flags <=> "COUNT3" \in c.timer.flags
      /\ "START" \in flags => "START" \in cra
      /\ "ONESHOT_CR" \in cra => "ONESHOT_CR" \in flags
      /\ "CNT" \in cra => "PHI2IN" \notin flags
  <2>1. \A f : f \in flags <=> (f \in c.timer.flags /\ f \notin CrBits) \/ f \in bits
    BY <1>2
  <2>2. \A f : f \in bits <=> (f \in byte /\ f \in CrBits) \/ ("CNT" \notin byte /\ f = "PHI2IN")
    OBVIOUS
  <2>3. "PHI2IN" \notin byte
    BY DEF CraBits
  <2> HIDE DEF bits
  <2> QED BY <1>3, <2>1, <2>2, <2>3 DEF CrBits
<1>5. PICK b \in Chips :
          /\ b = Control(c, flags) /\ b.timer.flags = flags /\ b.timer.cnt = c.timer.cnt
          /\ b.timer.latch = c.timer.latch /\ b.timer.clk = c.timer.clk /\ b.timer.n = c.timer.n
          /\ b.irqflags = c.irqflags /\ b.irq = c.irq /\ SameRest(c, b)
  BY <1>1, ControlFields
<1>6. PICK x \in Chips :
          /\ x = Control(e, flags) /\ x.timer.flags = flags /\ x.timer.cnt = e.timer.cnt
          /\ x.timer.latch = e.timer.latch /\ x.timer.clk = e.timer.clk /\ x.timer.n = e.timer.n
          /\ x.irqflags = e.irqflags /\ x.irq = e.irq /\ SameRest(e, x)
  BY <1>1, ControlFields
<1>7. Sound(b.timer)
  <2>1. Settled(c.timer) /\ Sound(c.timer)
    BY DEF Settled, Matched, Like
  <2> QED BY <1>4, <1>5, <2>1 DEF Sound, Settled
<1>8. Like(b.timer, x.timer)
  BY <1>5, <1>6 DEF Matched, Like
<1>9. Matched(b, x, t)
  BY <1>5, <1>6, <1>7, <1>8 DEF Matched, SameRest
<1>10. PICK d, y :
           /\ d = SetAlarm(b) /\ y = SetAlarm(x)
           /\ Matched(d, y, t) /\ Like(d.timer, b.timer) /\ SameRest(b, d)
           /\ d.irqflags = b.irqflags /\ d.irq = b.irq
           /\ d.timer.alarmclk = NextUnderflow(d.timer) /\ d.due = d.timer.alarmclk
  BY <1>9, AlarmRenewed
<1>11. PICK g \in Chips :
           /\ g = WithCra(d, cra) /\ g.timer = d.timer /\ g.due = d.due /\ g.cra = cra
           /\ g.new = d.new /\ g.icr = d.icr /\ g.rdi = d.rdi
           /\ g.irqflags = d.irqflags /\ g.irq = d.irq
  BY <1>10, WithCraFields DEF Matched
<1>12. PICK h \in Chips :
           /\ h = WithCra(y, cra) /\ h.timer = y.timer /\ h.due = y.due /\ h.cra = cra
           /\ h.new = y.new /\ h.icr = y.icr /\ h.rdi = y.rdi
           /\ h.irqflags = y.irqflags /\ h.irq = y.irq
  BY <1>10, WithCraFields DEF Matched
<1>13. Matched(g, h, t)
  BY <1>10, <1>11, <1>12 DEF Matched
<1>14. Bits(g)
  BY <1>4, <1>5, <1>10, <1>11 DEF Bits, Like
<1>15. Flagged(g)
  BY <1>5, <1>10, <1>11 DEF InForce, Flagged, SameRest
<1>16. InForce(g)
  BY <1>10, <1>11, <1>14, <1>15 DEF InForce, Alarmed
<1>17. g = StoreCra(c, byte)
  BY <1>2, <1>3, <1>5, <1>10, <1>11, Zenon DEF StoreCra, Control, WithCra
<1>18. h = StoreCra(e, byte)
  <2>1. flags = (e.timer.flags \ CrBits) \cup bits
    BY <1>1, <1>2 DEF Like
  <2> QED BY <1>3, <1>6, <1>10, <1>12, <2>1, Zenon DEF StoreCra, Control, WithCra
<1> QED BY <1>13, <1>16, <1>17, <1>18

WithIcr(c, icr) == [c EXCEPT !.icr = icr]

LEMMA WithIcrFields ==
    ASSUME NEW c \in Chips, NEW icr \in SUBSET Sources
    PROVE  LET d == WithIcr(c, icr)
           IN  /\ d \in Chips /\ d.timer = c.timer /\ d.due = c.due /\ d.icr = icr
               /\ d.new = c.new /\ d.cra = c.cra /\ d.rdi = c.rdi
               /\ d.irqflags = c.irqflags /\ d.irq = c.irq
BY DEF WithIcr, Chips

LEMMA StoresIcr ==
    ASSUME NEW c, NEW e, NEW t \in Nat, NEW p \in Nat, p = t + 1,
           Matched(c, e, t), InForce(c), NEW mask \in SUBSET Sources, NEW on \in BOOLEAN
    PROVE  /\ Matched(StoreIcr(c, mask, on, t), StoreIcr(e, mask, on, t), t)
           /\ InForce(StoreIcr(c, mask, on, t))
<1>1. /\ c \in Chips /\ e \in Chips /\ p \in Clock /\ p - 1 = t
      /\ c.rdi # p /\ e.rdi # p /\ c.icr = e.icr /\ c.icr \in SUBSET Sources
  <2>1. c \in Chips /\ e \in Chips /\ t <= GuardMax + 1 /\ c.rdi <= t /\ e.rdi <= t /\ c.icr = e.icr
    BY DEF Matched
  <2>2. c.rdi \in Nat /\ e.rdi \in Nat /\ c.icr \in SUBSET Sources
    BY <2>1, ChipFields, ClockNumbers
  <2>3. p \in Clock
    BY <2>1, Constants
  <2> QED BY <2>1, <2>2, <2>3
<1>2. PICK icr \in SUBSET Sources : icr = IF on THEN c.icr \cup mask ELSE c.icr \ mask
  BY <1>1
<1>3. PICK b \in Chips :
          /\ b = WithIcr(c, icr) /\ b.timer = c.timer /\ b.due = c.due /\ b.icr = icr
          /\ b.new = c.new /\ b.cra = c.cra /\ b.rdi = c.rdi
          /\ b.irqflags = c.irqflags /\ b.irq = c.irq
  BY <1>1, WithIcrFields
<1>4. PICK x \in Chips :
          /\ x = WithIcr(e, icr) /\ x.timer = e.timer /\ x.due = e.due /\ x.icr = icr
          /\ x.new = e.new /\ x.cra = e.cra /\ x.rdi = e.rdi
          /\ x.irqflags = e.irqflags /\ x.irq = e.irq
  BY <1>1, WithIcrFields
<1>5. Matched(b, x, t)
  BY <1>3, <1>4 DEF Matched
<1>6. Bits(b) /\ b.due = b.timer.alarmclk
  BY <1>3 DEF InForce, Bits
<1>7. ASSUME NEW pulled \in Chips, NEW other \in Chips,
             pulled = IF b.icr \cap b.irqflags = {} THEN b ELSE DoSetInt(b, p),
             other = IF x.icr \cap x.irqflags = {} THEN x ELSE DoSetInt(x, p)
      PROVE  /\ Matched(pulled, other, t) /\ Flagged(pulled) /\ Bits(pulled)
             /\ pulled.timer = b.timer /\ pulled.due = b.due /\ pulled.icr = icr
             /\ "IR" \in c.irqflags => "IR" \in pulled.irqflags
             /\ other.icr = icr
  <2>1. b.irqflags = x.irqflags /\ b.irq = x.irq /\ b.new = x.new
        /\ (b.rdi = t <=> x.rdi = t)
    BY <1>5 DEF Matched
  <2>2. CASE b.icr \cap b.irqflags = {}
    <3>1. pulled = b /\ other = x
      BY <1>3, <1>4, <1>7, <2>1, <2>2
    <3>2. Flagged(b)
      BY <1>3, <2>2 DEF InForce, Flagged
    <3> QED BY <1>3, <1>4, <1>5, <1>6, <3>1, <3>2
  <2>3. CASE b.icr \cap b.irqflags # {}
    <3>1. pulled = DoSetInt(b, p) /\ other = DoSetInt(x, p)
      BY <1>3, <1>4, <1>7, <2>1, <2>3
    <3>2. /\ pulled.timer = b.timer /\ pulled.due = b.due /\ SameRest(b, pulled)
          /\ pulled.irqflags = b.irqflags \cup {"IR"} /\ pulled.irq = Pull(b.irq, At(b, p))
      BY <1>1, <1>3, <2>3, <3>1, DoSetIntFields
    <3>3. /\ other.timer = x.timer /\ SameRest(x, other)
          /\ other.irqflags = x.irqflags \cup {"IR"} /\ other.irq = Pull(x.irq, At(x, p))
      BY <1>1, <1>3, <1>4, <2>1, <2>3, <3>1, DoSetIntFields
    <3>4. At(b, p) = At(x, p)
      <4>1. b.rdi = p - 1 <=> x.rdi = p - 1
        BY <1>1, <2>1
      <4> QED BY <2>1, <4>1, SameAt
    <3>5. pulled.irq = other.irq /\ pulled.irqflags = other.irqflags
      BY <2>1, <3>2, <3>3, <3>4
    <3>6. pulled.irq.on /\ "IR" \in pulled.irqflags
      BY <3>2 DEF Pull
    <3>7. Flagged(pulled)
      BY <3>6 DEF Flagged
    <3>8. Matched(pulled, other, t)
      BY <1>5, <3>2, <3>3, <3>5 DEF Matched, SameRest
    <3>9. Bits(pulled)
      BY <1>6, <3>2 DEF Bits, SameRest
    <3>10. pulled.icr = icr /\ other.icr = icr
      BY <1>3, <1>4, <3>2, <3>3 DEF SameRest
    <3> QED BY <3>2, <3>6, <3>7, <3>8, <3>9, <3>10
  <2> QED BY <2>2, <2>3
<1>8. PICK pulled \in Chips, other \in Chips :
          /\ pulled = IF b.icr \cap b.irqflags = {} THEN b ELSE DoSetInt(b, p)
          /\ other = IF x.icr \cap x.irqflags = {} THEN x ELSE DoSetInt(x, p)
  <2>1. DoSetInt(b, p) \in Chips /\ DoSetInt(x, p) \in Chips
    BY <1>1, DoSetIntFields
  <2> QED BY <2>1
<1>9. /\ Matched(pulled, other, t) /\ Flagged(pulled) /\ Bits(pulled)
      /\ pulled.timer = b.timer /\ pulled.due = b.due /\ pulled.icr = icr
      /\ "IR" \in c.irqflags => "IR" \in pulled.irqflags
      /\ other.icr = icr
  BY <1>7, <1>8
<1>10. StoreIcr(c, mask, on, t) = IF "TA" \in pulled.icr THEN SetAlarm(pulled) ELSE pulled
  BY <1>2, <1>3, <1>8, Zenon DEF StoreIcr, WithIcr
<1>11. StoreIcr(e, mask, on, t) = IF "TA" \in other.icr THEN SetAlarm(other) ELSE other
  <2>1. icr = IF on THEN e.icr \cup mask ELSE e.icr \ mask
    BY <1>1, <1>2
  <2> QED BY <1>4, <1>8, <2>1, Zenon DEF StoreIcr, WithIcr
<1>12. CASE "TA" \in icr
  <2>1. StoreIcr(c, mask, on, t) = SetAlarm(pulled) /\ StoreIcr(e, mask, on, t) = SetAlarm(other)
    BY <1>9, <1>10, <1>11, <1>12
  <2>2. Matched(SetAlarm(pulled), SetAlarm(other), t) /\ InForce(SetAlarm(pulled))
    BY <1>9, AlarmRenewed
  <2> QED BY <2>1, <2>2
<1>13. CASE "TA" \notin icr
  <2>1. StoreIcr(c, mask, on, t) = pulled /\ StoreIcr(e, mask, on, t) = other
    BY <1>9, <1>10, <1>11, <1>13
  <2>2. Alarmed(pulled)
    BY <1>3, <1>9, <1>13 DEF InForce, Alarmed
  <2> QED BY <1>6, <1>9, <2>1, <2>2 DEF InForce
<1> QED BY <1>12, <1>13

LEMMA NoteFields ==
    ASSUME NEW c \in Chips, NEW t \in Clock
    PROVE  LET d == Note(c, t)
           IN  /\ d \in Chips /\ d.timer = c.timer /\ d.due = c.due /\ d.rdi = t
               /\ d.new = c.new /\ d.cra = c.cra /\ d.icr = c.icr
               /\ d.irqflags = c.irqflags /\ d.irq = c.irq
BY DEF Note, Chips

Cleared(c) == [c EXCEPT !.irqflags = {}, !.irq = Released]

LEMMA ClearedFields ==
    ASSUME NEW c \in Chips
    PROVE  LET d == Cleared(c)
           IN  /\ d \in Chips /\ d.timer = c.timer /\ d.due = c.due /\ d.rdi = c.rdi
               /\ d.new = c.new /\ d.cra = c.cra /\ d.icr = c.icr
               /\ d.irqflags = {} /\ d.irq = Released
<1>1. Released \in [on : BOOLEAN, clk : Clock] /\ ~Released.on
  BY Constants DEF Released
<1>2. PICK irq \in [on : BOOLEAN, clk : Clock] : irq = Released
  BY <1>1
<1>3. PICK d : d = [c EXCEPT !.irqflags = {}, !.irq = irq]
  OBVIOUS
<1>4. d = Cleared(c)
  BY <1>2, <1>3, Zenon DEF Cleared
<1>5. /\ d \in Chips /\ d.timer = c.timer /\ d.due = c.due /\ d.rdi = c.rdi
      /\ d.new = c.new /\ d.cra = c.cra /\ d.icr = c.icr
      /\ d.irqflags = {} /\ d.irq = irq
  BY ONLY c \in Chips, irq \in [on : BOOLEAN, clk : Clock], <1>3 DEF Chips
<1> QED BY <1>2, <1>4, <1>5

(* ICR can be read while the chip lags behind: what is still to come comes  *)
(* out before its flags are cleared.                                        *)
LEMMA IcrRead ==
    ASSUME NEW c, NEW e, NEW t, Lags(c, e, t)
    PROVE  LET b == ReadIcr(CatchUp(Note(c, t), t))
           IN  Matched(b, ReadIcr(Note(e, t)), t) /\ InForce(b)
<1>1. c \in Chips /\ e \in Chips /\ t \in Clock /\ t \in Nat
  BY LagsFields, Constants
<1>2. PICK n \in Chips :
          /\ n = Note(c, t) /\ n.timer = c.timer /\ n.due = c.due /\ n.rdi = t
          /\ n.new = c.new /\ n.cra = c.cra /\ n.icr = c.icr
          /\ n.irqflags = c.irqflags /\ n.irq = c.irq
  BY <1>1, NoteFields
<1>3. PICK m \in Chips :
          /\ m = Note(e, t) /\ m.timer = e.timer /\ m.due = e.due /\ m.rdi = t
          /\ m.new = e.new /\ m.cra = e.cra /\ m.icr = e.icr
          /\ m.irqflags = e.irqflags /\ m.irq = e.irq
  BY <1>1, NoteFields
<1>4. Lags(n, m, t)
  <2>1. Bits(n) /\ Alarmed(n)
    BY <1>2 DEF Lags, Bits, Alarmed
  <2> QED BY <1>2, <1>3, <2>1 DEF Lags
<1>5. PICK d : d = CatchUp(n, t) /\ Lags(d, m, t) /\ d.timer.clk = t /\ d.rdi = t
  BY <1>2, <1>4, CatchUpLags
<1>6. Like(d.timer, m.timer) /\ d \in Chips
  BY <1>5, UpToDate, LagsFields
<1>7. PICK b \in Chips :
          /\ b = SetAlarm(d) /\ Like(b.timer, d.timer) /\ b.timer.clk = d.timer.clk
          /\ b.timer.n = d.timer.n /\ b.timer.alarmclk = NextUnderflow(d.timer)
          /\ b.due = b.timer.alarmclk
          /\ d.new = b.new /\ d.cra = b.cra /\ d.icr = b.icr /\ d.rdi = b.rdi
  BY <1>6, SetAlarmFields DEF SameRest
<1>8. PICK x \in Chips :
          /\ x = SetAlarm(m) /\ Like(x.timer, m.timer) /\ x.timer.clk = m.timer.clk
          /\ x.timer.n = m.timer.n
          /\ m.new = x.new /\ m.cra = x.cra /\ m.icr = x.icr /\ m.rdi = x.rdi
  BY SetAlarmFields DEF SameRest
<1>9. PICK g \in Chips :
          /\ g = Cleared(b) /\ g.timer = b.timer /\ g.due = b.due /\ g.rdi = b.rdi
          /\ g.new = b.new /\ g.cra = b.cra /\ g.icr = b.icr
          /\ g.irqflags = {} /\ g.irq = Released
  BY ClearedFields
<1>10. PICK h \in Chips :
          /\ h = Cleared(x) /\ h.timer = x.timer /\ h.rdi = x.rdi
          /\ h.new = x.new /\ h.cra = x.cra /\ h.icr = x.icr
          /\ h.irqflags = {} /\ h.irq = Released
  BY ClearedFields
<1>11. Like(g.timer, h.timer) /\ Sound(g.timer)
  <2>1. Like(g.timer, d.timer)
    BY <1>7, <1>9 DEF Like
  <2>2. Like(h.timer, m.timer)
    BY <1>8, <1>10 DEF Like
  <2>3. Sound(d.timer)
    BY <1>5 DEF Lags
  <2> QED BY <1>6, <2>1, <2>2, <2>3 DEF Like, Sound
<1>12. Matched(g, h, t)
  <2>1. g.rdi = t /\ h.rdi = t
    <3>1. d.rdi = t /\ m.rdi = t
      BY <1>3, <1>5
    <3>2. g.rdi = d.rdi /\ h.rdi = m.rdi
      BY <1>7, <1>8, <1>9, <1>10
    <3> QED BY <3>1, <3>2
  <2>2. t <= t
    BY <1>1
  <2> QED BY <2>2, <1>1, <1>5, <1>7, <1>8, <1>9, <1>10, <1>11, <2>1 DEF Matched, Lags
<1>13. InForce(g)
  <2>1. NextUnderflow(b.timer) = NextUnderflow(d.timer)
    BY <1>6, <1>7, ChipFields, SameNextUnderflow
  <2>2. Alarmed(g)
    BY <1>7, <1>9, <2>1 DEF Alarmed
  <2>3. Bits(g)
    <3>1. Bits(d) /\ g.cra = d.cra
      BY <1>5, <1>7, <1>9 DEF Lags
    <3>2. g.timer.flags = d.timer.flags
      BY <1>7, <1>9 DEF Like
    <3> QED BY <3>1, <3>2 DEF Bits
  <2>4. Flagged(g)
    BY <1>9 DEF Flagged, Released
  <2> QED BY <1>7, <1>9, <2>2, <2>3, <2>4 DEF InForce
<1>14. g = ReadIcr(CatchUp(Note(c, t), t))
  BY <1>2, <1>5, <1>7, <1>9, Zenon DEF ReadIcr, Cleared
<1>15. h = ReadIcr(Note(e, t))
  BY <1>3, <1>8, <1>10, Zenon DEF ReadIcr, Cleared
<1> QED BY <1>12, <1>13, <1>14, <1>15

Interrupt(c, flags, irq) == [c EXCEPT !.irqflags = flags, !.irq = irq]

LEMMA InterruptFields ==
    ASSUME NEW c \in Chips, NEW flags \in SUBSET (Sources \cup {"IR"}),
           NEW irq \in [on : BOOLEAN, clk : Clock]
    PROVE  LET d == Interrupt(c, flags, irq)
           IN  /\ d \in Chips /\ d.timer = c.timer /\ d.due = c.due /\ d.rdi = c.rdi
               /\ d.new = c.new /\ d.cra = c.cra /\ d.icr = c.icr
               /\ d.irqflags = flags /\ d.irq = irq
BY DEF Interrupt, Chips

LEMMA SetFlagFields ==
    ASSUME NEW c \in Chips, NEW t \in Clock, "FLG" \in Sources
    PROVE  LET d == SetFlag(c, t)
           IN  /\ d \in Chips /\ d.timer = c.timer /\ d.due = c.due /\ d.rdi = c.rdi
               /\ d.new = c.new /\ d.cra = c.cra /\ d.icr = c.icr
               /\ "FLG" \in c.icr => /\ d.irqflags = c.irqflags \cup {"FLG"} \cup {"IR"}
                                     /\ d.irq = Pull(c.irq, t)
               /\ "FLG" \notin c.icr => /\ d.irqflags = c.irqflags \cup {"FLG"}
                                        /\ d.irq = c.irq
<1>1. PICK flags \in SUBSET (Sources \cup {"IR"}) : flags = c.irqflags \cup {"FLG"}
  BY ChipFields
<1>2. PICK all \in SUBSET (Sources \cup {"IR"}) : all = flags \cup {"IR"}
  OBVIOUS
<1>3. flags = c.irqflags \cup {"FLG"} /\ all = flags \cup {"IR"}
  BY <1>1, <1>2
<1>4. PICK irq \in [on : BOOLEAN, clk : Clock] : irq = Pull(c.irq, t)
  BY ChipFields, PullType
<1>5. PICK old \in [on : BOOLEAN, clk : Clock] : old = c.irq
  BY ChipFields
<1>6. PICK b : b = [c EXCEPT !.irqflags = flags]
  OBVIOUS
<1>7. /\ b \in Chips /\ b.timer = c.timer /\ b.due = c.due /\ b.rdi = c.rdi
      /\ b.new = c.new /\ b.cra = c.cra /\ b.icr = c.icr
      /\ b.irqflags = flags /\ b.irq = c.irq
  BY ONLY c \in Chips, flags \in SUBSET (Sources \cup {"IR"}), <1>6 DEF Chips
<1>8. CASE "FLG" \in c.icr
  <2>1. PICK d : d = Interrupt(b, all, irq)
    OBVIOUS
  <2>2. SetFlag(c, t) = d
    BY <1>3, <1>4, <1>6, <1>7, <1>8, <2>1, Zenon DEF SetFlag, Interrupt
  <2>3. /\ d \in Chips /\ d.timer = b.timer /\ d.due = b.due /\ d.rdi = b.rdi
        /\ d.new = b.new /\ d.cra = b.cra /\ d.icr = b.icr
        /\ d.irqflags = all /\ d.irq = irq
    BY <1>7, <2>1, InterruptFields
  <2> QED BY <1>3, <1>4, <1>7, <1>8, <2>2, <2>3
<1>9. CASE "FLG" \notin c.icr
  <2>1. SetFlag(c, t) = b
    BY <1>3, <1>6, <1>9, Zenon DEF SetFlag
  <2> QED BY <1>3, <1>7, <1>9, <2>1
<1> QED BY <1>8, <1>9

(* A pulse at the pin FLAG, before the next alarm.                          *)
LEMMA FlagSets ==
    ASSUME NEW c, NEW e, NEW t, Lags(c, e, t), Foretells(c, e, t), c.timer.alarmclk > t,
           "FLG" \in Sources
    PROVE  LET d == SetFlag(c, t)
               x == SetFlag(e, t)
           IN  /\ Lags(d, x, t) /\ Foretells(d, x, t)
               /\ d.timer = c.timer /\ x.timer = e.timer /\ x.due = e.due
<1>1. c \in Chips /\ e \in Chips /\ t \in Clock
  BY LagsFields
<1>2. PICK d \in Chips :
          /\ d = SetFlag(c, t) /\ d.timer = c.timer /\ d.due = c.due /\ d.rdi = c.rdi
          /\ d.new = c.new /\ d.cra = c.cra /\ d.icr = c.icr
          /\ "FLG" \in c.icr => /\ d.irqflags = c.irqflags \cup {"FLG"} \cup {"IR"}
                                /\ d.irq = Pull(c.irq, t)
          /\ "FLG" \notin c.icr => d.irqflags = c.irqflags \cup {"FLG"} /\ d.irq = c.irq
  BY <1>1, SetFlagFields
<1>3. PICK x \in Chips :
          /\ x = SetFlag(e, t) /\ x.timer = e.timer /\ x.due = e.due /\ x.rdi = e.rdi
          /\ x.new = e.new /\ x.cra = e.cra /\ x.icr = e.icr
          /\ "FLG" \in e.icr => /\ x.irqflags = e.irqflags \cup {"FLG"} \cup {"IR"}
                                /\ x.irq = Pull(e.irq, t)
          /\ "FLG" \notin e.icr => x.irqflags = e.irqflags \cup {"FLG"} /\ x.irq = e.irq
  BY <1>1, SetFlagFields
<1>4. c.icr = e.icr
  BY DEF Lags
<1>5. e.irqflags = c.irqflags \cup Only("TA", After(c.timer, t - c.timer.clk).n # 0)
      /\ e.irq = c.irq
  BY DEF Foretells, Forecast
<1>6. Lags(d, x, t)
  <2>1. Bits(d) /\ Alarmed(d)
    <3>1. "IR" \in c.irqflags => "IR" \in d.irqflags
      BY <1>2
    <3> QED BY <1>2, <3>1 DEF Lags, Bits, Alarmed
  <2> QED BY <1>2, <1>3, <2>1 DEF Lags
<1>7. Flagged(d) /\ Flagged(x)
  <2>1. Flagged(c) /\ Flagged(e)
    BY DEF Foretells
  <2>2. ASSUME NEW a, NEW b, Flagged(a), b.icr = a.icr,
               "FLG" \in a.icr => /\ b.irqflags = a.irqflags \cup {"FLG"} \cup {"IR"}
                                  /\ b.irq = Pull(a.irq, t),
               "FLG" \notin a.icr => b.irqflags = a.irqflags \cup {"FLG"} /\ b.irq = a.irq
        PROVE  Flagged(b)
    <3>1. CASE "FLG" \in a.icr
      <4>1. "IR" \in b.irqflags /\ b.irq.on
        BY <2>2, <3>1 DEF Pull
      <4> QED BY <4>1 DEF Flagged
    <3>2. CASE "FLG" \notin a.icr
      BY <2>2, <3>2 DEF Flagged
    <3> QED BY <3>1, <3>2
  <2> QED BY <1>2, <1>3, <2>1, <2>2
<1>8. x.irq = d.irq
      /\ x.irqflags = d.irqflags \cup Only("TA", After(c.timer, t - c.timer.clk).n # 0)
  BY <1>2, <1>3, <1>4, <1>5
<1>9. Forecast(d, x, t)
  BY <1>2, <1>8 DEF Forecast
<1>10. Foretells(d, x, t)
  BY <1>2, <1>3, <1>7, <1>9 DEF Foretells
<1> QED BY <1>2, <1>3, <1>6, <1>10

LEMMA ResetLags ==
    ASSUME NEW new \in BOOLEAN, NEW t \in Clock, t <= GuardMax + 1
    PROVE  LET c == ChipReset(new, t)
           IN  /\ Lags(c, c, t) /\ Foretells(c, c, t) /\ c.timer.clk = t
               /\ c.due = Never /\ c.timer.alarmclk = Never /\ Settled(c.timer)
<1>1. Word - 1 \in 0 .. Word - 1 /\ Word - 1 # 0 /\ t \in Nat /\ 0 \in Clock /\ Never \in Clock
  BY Constants
<1>2. PICK r : r = TimerReset(t)
  OBVIOUS
<1>3. /\ r \in Timers /\ r.flags = {} /\ r.cnt = Word - 1 /\ r.latch = Word - 1 /\ r.clk = t
      /\ r.alarmclk = Never /\ r.n = 0
  BY <1>1, <1>2 DEF TimerReset, Timers
<1>4. Released \in [on : BOOLEAN, clk : Clock] /\ ~Released.on
  BY <1>1 DEF Released
<1>5. PICK irq \in [on : BOOLEAN, clk : Clock] : irq = Released /\ ~irq.on
  BY <1>4
<1>6. PICK c : c = [new |-> new, timer |-> r, due |-> Never, cra |-> {}, icr |-> {},
                    irqflags |-> {}, rdi |-> 0, irq |-> irq]
  OBVIOUS
<1>7. ChipReset(new, t) = c
  BY <1>2, <1>5, <1>6, Zenon DEF ChipReset
<1>8. /\ c \in Chips /\ c.timer = r /\ c.due = Never /\ c.cra = {} /\ c.icr = {}
      /\ c.irqflags = {} /\ c.rdi = 0 /\ c.irq = irq
  <2>1. r \in Timers /\ Never \in Clock /\ 0 \in Clock
    BY <1>1, <1>3
  <2> QED BY ONLY <2>1, new \in BOOLEAN, irq \in [on : BOOLEAN, clk : Clock], <1>6 DEF Chips
<1>9. Sound(r) /\ Settled(r) /\ Quiet(r.flags)
  BY <1>3 DEF Sound, Settled, Quiet
<1>10. Bits(c) /\ Flagged(c) /\ Alarmed(c)
  <2>1. r.latch # 0
    BY <1>1, <1>3
  <2>2. Bits(c) /\ Flagged(c)
    BY <1>3, <1>5, <1>8 DEF Bits, Flagged
  <2>3. Alarmed(c)
    BY <1>3, <1>8, <1>9, <2>1 DEF Alarmed
  <2> QED BY <2>2, <2>3
<1>11. Like(c.timer, c.timer) /\ c.rdi <= t
  BY <1>1, <1>8 DEF Like
<1>12. Lags(c, c, t) /\ Foretells(c, c, t)
  BY <1>3, <1>8, <1>9, <1>10, <1>11, IsUpToDate
<1> QED BY <1>3, <1>7, <1>8, <1>9, <1>12

-----------------------------------------------------------------------------
(* The clock guard.                                                         *)

LEMMA BackFields ==
    ASSUME NEW t \in Clock
    PROVE  /\ Back(t, GuardSub) \in Clock
           /\ t >= GuardSub => /\ t - GuardSub \in Clock /\ Back(t, GuardSub) = t - GuardSub
                               /\ BackUnlessNever(t, GuardSub) \in Clock
BY Constants DEF Back, BackUnlessNever

LEMMA MoveIrqFields ==
    ASSUME NEW irq \in [on : BOOLEAN, clk : Clock]
    PROVE  /\ MoveIrq(irq, GuardSub) \in [on : BOOLEAN, clk : Clock]
           /\ MoveIrq(irq, GuardSub).on <=> irq.on
           /\ ~irq.on => MoveIrq(irq, GuardSub) = irq
<1>1. PICK t \in Clock : t = Back(irq.clk, GuardSub)
  BY BackFields
<1>2. PICK d : d = [irq EXCEPT !.clk = t]
  OBVIOUS
<1>3. d \in [on : BOOLEAN, clk : Clock] /\ d.on = irq.on
  BY ONLY t \in Clock, irq \in [on : BOOLEAN, clk : Clock], <1>2
<1>4. CASE irq.on
  <2>1. MoveIrq(irq, GuardSub) = d
    BY <1>1, <1>2, <1>4, Zenon DEF MoveIrq
  <2> QED BY <1>3, <1>4, <2>1
<1>5. CASE ~irq.on
  BY <1>5 DEF MoveIrq
<1> QED BY <1>4, <1>5

Moved(c) == MoveContext(MoveChip(c, GuardSub), GuardSub)

LEMMA MovedFields ==
    ASSUME NEW c \in Chips, c.timer.clk >= GuardSub, c.timer.alarmclk >= GuardSub,
           c.due >= GuardSub
    PROVE  LET d == Moved(c)
           IN  /\ d \in Chips /\ Like(d.timer, c.timer) /\ d.timer.n = c.timer.n
               /\ d.timer.clk = c.timer.clk - GuardSub
               /\ d.timer.alarmclk = BackUnlessNever(c.timer.alarmclk, GuardSub)
               /\ d.due = BackUnlessNever(c.due, GuardSub)
               /\ d.rdi = Back(c.rdi, GuardSub) /\ d.irq = MoveIrq(c.irq, GuardSub)
               /\ d.new = c.new /\ d.cra = c.cra /\ d.icr = c.icr /\ d.irqflags = c.irqflags
<1>1. PICK r \in Timers : r = c.timer
  BY ChipFields
<1>2. PICK clk \in Clock : clk = r.clk - GuardSub
  BY <1>1, TimerFields, BackFields
<1>3. PICK alarm \in Clock : alarm = BackUnlessNever(r.alarmclk, GuardSub)
  BY <1>1, TimerFields, BackFields
<1>4. PICK due \in Clock : due = BackUnlessNever(c.due, GuardSub)
  BY ChipFields, BackFields
<1>5. PICK rdi \in Clock : rdi = Back(c.rdi, GuardSub)
  BY ChipFields, BackFields
<1>6. PICK irq \in [on : BOOLEAN, clk : Clock] : irq = MoveIrq(c.irq, GuardSub)
  BY ChipFields, MoveIrqFields
<1>7. PICK w : w = [r EXCEPT !.clk = clk]
  OBVIOUS
<1>8. PICK u : u = [w EXCEPT !.alarmclk = alarm]
  OBVIOUS
<1>9. /\ w \in Timers /\ w.flags = r.flags /\ w.cnt = r.cnt /\ w.latch = r.latch
      /\ w.clk = clk /\ w.n = r.n /\ w.alarmclk = r.alarmclk
  BY ONLY r \in Timers, clk \in Clock, <1>7 DEF Timers
<1>10. /\ u \in Timers /\ u.flags = r.flags /\ u.cnt = r.cnt /\ u.latch = r.latch
       /\ u.clk = clk /\ u.n = r.n /\ u.alarmclk = alarm
  BY ONLY <1>9, alarm \in Clock, <1>8 DEF Timers
<1>11. PICK b : b = [c EXCEPT !.timer = w]
  OBVIOUS
<1>12. /\ b \in Chips /\ b.timer = w /\ b.rdi = c.rdi
  <2>1. w \in Timers
    BY <1>9
  <2> QED BY ONLY c \in Chips, <2>1, <1>11 DEF Chips
<1>13. PICK f : f = [b EXCEPT !.timer = u]
  OBVIOUS
<1>14. f = [c EXCEPT !.timer = u] /\ f \in Chips /\ f.rdi = c.rdi
  <2>1. u \in Timers
    BY <1>10
  <2> QED BY ONLY c \in Chips, <2>1, <1>11, <1>13 DEF Chips
<1>15. PICK g : g = [f EXCEPT !.rdi = rdi]
  OBVIOUS
<1>16. g = MoveChip(c, GuardSub)
  <2>1. MoveChip(c, GuardSub)
            = [[[c EXCEPT !.timer.clk = @ - GuardSub]
                   EXCEPT !.timer.alarmclk = BackUnlessNever(@, GuardSub)]
                   EXCEPT !.rdi = Back(@, GuardSub)]
    BY ZenonT(60) DEF MoveChip
  <2>2. [c EXCEPT !.timer.clk = @ - GuardSub] = b
    BY <1>1, <1>2, <1>7, <1>11, Zenon
  <2>3. BackUnlessNever(b.timer.alarmclk, GuardSub) = alarm
    BY <1>3, <1>9, <1>12
  <2>4. [b EXCEPT !.timer.alarmclk = BackUnlessNever(@, GuardSub)]
            = [b EXCEPT !.timer = [w EXCEPT !.alarmclk = alarm]]
    BY <1>12, <2>3, Zenon
  <2>5. [b EXCEPT !.timer.alarmclk = BackUnlessNever(@, GuardSub)] = f
    BY <1>8, <1>13, <2>4, Zenon
  <2>6. [f EXCEPT !.rdi = Back(@, GuardSub)] = g
    BY <1>5, <1>14, <1>15, Zenon
  <2> QED BY <2>1, <2>2, <2>5, <2>6, Zenon
<1>17. /\ g \in Chips /\ g.timer = u /\ g.due = c.due /\ g.rdi = rdi /\ g.irq = c.irq
       /\ g.new = c.new /\ g.cra = c.cra /\ g.icr = c.icr /\ g.irqflags = c.irqflags
  <2>1. u \in Timers
    BY <1>10
  <2> QED BY ONLY c \in Chips, <2>1, rdi \in Clock, <1>14, <1>15 DEF Chips
<1>18. PICK h : h = [g EXCEPT !.due = due, !.irq = irq]
  OBVIOUS
<1>19. h = Moved(c)
  <2>1. Moved(c) = MoveContext(g, GuardSub)
    BY <1>16, Zenon DEF Moved
  <2>2. MoveIrq(g.irq, GuardSub) = irq
    BY <1>6, <1>17
  <2>3. BackUnlessNever(g.due, GuardSub) = due
    BY <1>4, <1>17
  <2>4. MoveContext(g, GuardSub)
            = [[g EXCEPT !.due = BackUnlessNever(@, GuardSub)]
                   EXCEPT !.irq = MoveIrq(@, GuardSub)]
    BY Zenon DEF MoveContext
  <2>5. PICK k : k = [g EXCEPT !.due = due]
    OBVIOUS
  <2>6. k.irq = g.irq
    BY ONLY <1>17, due \in Clock, <2>5 DEF Chips
  <2>7. [g EXCEPT !.due = BackUnlessNever(@, GuardSub)] = k
    BY <2>3, <2>5, Zenon
  <2>8. [k EXCEPT !.irq = MoveIrq(@, GuardSub)]
            = [k EXCEPT !.irq = irq]
    BY <2>2, <2>6, Zenon
  <2>9. [k EXCEPT !.irq = irq] = h
    BY <1>18, <2>5, Zenon
  <2> QED BY <2>1, <2>4, <2>7, <2>8, <2>9, Zenon
<1>20. /\ h \in Chips /\ h.timer = u /\ h.due = due /\ h.rdi = rdi /\ h.irq = irq
       /\ h.new = g.new /\ h.cra = g.cra /\ h.icr = g.icr /\ h.irqflags = g.irqflags
  BY ONLY <1>17, due \in Clock, irq \in [on : BOOLEAN, clk : Clock], <1>18 DEF Chips
<1>21. Like(h.timer, c.timer) /\ h.timer.n = c.timer.n /\ h.timer.clk = c.timer.clk - GuardSub
  BY <1>1, <1>2, <1>10, <1>20 DEF Like
<1>22. h.timer.alarmclk = BackUnlessNever(c.timer.alarmclk, GuardSub)
  BY <1>1, <1>3, <1>10, <1>20
<1> QED BY <1>4, <1>5, <1>6, <1>17, <1>19, <1>20, <1>21, <1>22

(* A chip that is up to date can be moved back.                             *)
LEMMA GuardLags ==
    ASSUME NEW c, NEW e, NEW t \in Nat, NEW q \in Nat, q = t - GuardSub, t >= GuardMax,
           Matched(c, e, t), InForce(c), e.due = Never, e.timer.alarmclk = Never
    PROVE  LET d == Moved(c)
               x == Moved(e)
           IN  /\ Lags(d, x, q) /\ Foretells(d, x, q) /\ d.timer.clk = q
               /\ x.due = Never /\ x.timer.alarmclk = Never /\ Like(x.timer, e.timer)
<1>1. /\ GuardMax \in Nat /\ GuardSub \in Nat /\ SubMin \in Nat /\ Never \in Nat
      /\ GuardMax >= GuardSub /\ q > 0 /\ q <= GuardMax + 1 /\ t <= GuardMax + 1
      /\ q \in Clock /\ t \in Clock /\ t >= GuardSub /\ Never >= GuardSub /\ t < Never
      /\ GuardSub >= 1
  <2>1. t <= GuardMax + 1 /\ t \in Clock
    BY DEF Matched
  <2>2. PICK s \in Nat : s = SubMin /\ s >= 6
    BY Constants
  <2>3. GuardMax = ClockMax - s /\ GuardSub = ClockMax - 2 * s /\ ClockMax \in Nat
        /\ 2 * s < ClockMax /\ Never = ClockMax /\ Clock = 0 .. ClockMax
    BY <2>2, Constants
  <2> QED BY <2>1, <2>2, <2>3
<1>2. /\ c \in Chips /\ e \in Chips /\ c.timer.clk = t /\ e.timer.clk = t
      /\ c.due = c.timer.alarmclk
  BY DEF Matched, InForce
<1>3. PICK r \in Timers : r = c.timer
  BY <1>2, ChipFields
<1>4. r.clk = t /\ Sound(r) /\ r.n = 0 /\ r.alarmclk \in Nat /\ r.alarmclk \in Clock
  <2>1. r.alarmclk \in Clock
    BY TimerFields
  <2>2. r.alarmclk \in Nat
    BY <2>1, Constants
  <2> QED BY <1>2, <1>3, <2>1, <2>2 DEF Matched
<1>5. r.alarmclk = Never \/ (r.alarmclk > t /\ When(r, r.alarmclk))
  <2>1. CASE r.alarmclk = NextUnderflow(r)
    <3>1. When(r, r.alarmclk)
      BY <1>1, <1>4, <2>1, NextUnderflowWhen
    <3>2. \/ r.alarmclk = Never
          \/ \E i \in Nat : r.alarmclk = r.clk + i + 1
      BY <3>1 DEF When
    <3>3. r.alarmclk = Never \/ r.alarmclk > t
      BY <1>4, <3>2
    <3> QED BY <3>1, <3>3
  <2> QED BY <1>3, <2>1 DEF InForce, Alarmed
<1>6. r.alarmclk >= GuardSub
  BY <1>1, <1>4, <1>5
<1>7. PICK d \in Chips :
          /\ d = Moved(c) /\ Like(d.timer, c.timer) /\ d.timer.n = c.timer.n
          /\ d.timer.clk = c.timer.clk - GuardSub
          /\ d.timer.alarmclk = BackUnlessNever(c.timer.alarmclk, GuardSub)
          /\ d.due = BackUnlessNever(c.due, GuardSub)
          /\ d.rdi = Back(c.rdi, GuardSub) /\ d.irq = MoveIrq(c.irq, GuardSub)
          /\ d.new = c.new /\ d.cra = c.cra /\ d.icr = c.icr /\ d.irqflags = c.irqflags
  <2>1. c.timer.clk >= GuardSub /\ c.timer.alarmclk >= GuardSub /\ c.due >= GuardSub
    BY <1>1, <1>2, <1>3, <1>4, <1>6
  <2> QED BY <1>2, <2>1, MovedFields
<1>8. PICK x \in Chips :
          /\ x = Moved(e) /\ Like(x.timer, e.timer) /\ x.timer.n = e.timer.n
          /\ x.timer.clk = e.timer.clk - GuardSub
          /\ x.timer.alarmclk = BackUnlessNever(e.timer.alarmclk, GuardSub)
          /\ x.due = BackUnlessNever(e.due, GuardSub)
          /\ x.rdi = Back(e.rdi, GuardSub) /\ x.irq = MoveIrq(e.irq, GuardSub)
          /\ x.new = e.new /\ x.cra = e.cra /\ x.icr = e.icr /\ x.irqflags = e.irqflags
  <2>1. e.timer.clk >= GuardSub /\ e.timer.alarmclk >= GuardSub /\ e.due >= GuardSub
    BY <1>1, <1>2
  <2> QED BY <1>2, <2>1, MovedFields
<1>9. BackUnlessNever(Never, GuardSub) = Never
  BY <1>1 DEF BackUnlessNever
<1>10. x.due = Never /\ x.timer.alarmclk = Never
  BY <1>8, <1>9
<1>11. PICK u \in Timers : u = d.timer
  BY ChipFields
<1>12. Like(u, r) /\ u.n = 0 /\ u.clk = q /\ u.alarmclk = BackUnlessNever(r.alarmclk, GuardSub)
       /\ Sound(u)
  <2>1. Like(u, r) /\ u.n = 0 /\ u.alarmclk = BackUnlessNever(r.alarmclk, GuardSub)
    BY <1>3, <1>4, <1>7, <1>11
  <2>2. u.clk = q
    BY <1>2, <1>7, <1>11
  <2> QED BY <1>4, <2>1, <2>2 DEF Like, Sound
<1>13. Alarmed(d)
  <2>1. ASSUME When(r, r.alarmclk)  PROVE u.alarmclk = NextUnderflow(u)
    <3>1. When(u, NextUnderflow(u)) /\ NextUnderflow(u) \in Clock
      BY <1>1, <1>12, NextUnderflowWhen, NextUnderflowType
    <3>2. PICK m \in Nat : m = NextUnderflow(u)
      BY <3>1, Constants
    <3>3. \/ r.alarmclk = Never /\ m = Never
          \/ r.alarmclk < Never /\ m < Never /\ r.alarmclk - r.clk = m - u.clk
      BY <1>12, <2>1, <3>1, <3>2, WhenUnique
    <3>4. CASE r.alarmclk = Never /\ m = Never
      BY <1>9, <1>12, <3>2, <3>4
    <3>5. CASE r.alarmclk < Never /\ m < Never /\ r.alarmclk - r.clk = m - u.clk
      <4>1. u.alarmclk = r.alarmclk - GuardSub
        BY <1>12, <3>5 DEF BackUnlessNever
      <4>2. m = r.alarmclk - GuardSub
        <5>1. r.alarmclk - t = m - q
          BY <1>4, <1>12, <3>5
        <5> QED BY <1>1, <1>4, <5>1
      <4> QED BY <3>2, <4>1, <4>2
    <3> QED BY <3>3, <3>4, <3>5
  <2>2. CASE r.alarmclk = NextUnderflow(r)
    <3>1. When(r, r.alarmclk)
      BY <1>1, <1>4, <2>2, NextUnderflowWhen
    <3> QED BY <1>11, <2>1, <3>1 DEF Alarmed
  <2>3. CASE /\ r.alarmclk = Never
             /\ r.latch = 0 => r.cnt = 0
             /\ Quiet(r.flags) \/ "IR" \in c.irqflags \/ "TA" \notin c.icr
    <3>1. u.alarmclk = Never /\ u.flags = r.flags /\ u.latch = r.latch /\ u.cnt = r.cnt
      BY <1>9, <1>12, <2>3 DEF Like
    <3>2. d.irqflags = c.irqflags /\ d.icr = c.icr
      BY <1>7
    <3> QED BY <1>11, <2>3, <3>1, <3>2 DEF Alarmed
  <2> QED BY <1>3, <2>2, <2>3 DEF InForce, Alarmed
<1>14. Bits(d)
  <2>1. d.timer.flags = c.timer.flags /\ d.cra = c.cra
    BY <1>7 DEF Like
  <2> QED BY <2>1 DEF InForce, Bits
<1>15. Flagged(d)
  <2>1. (d.irq.on <=> c.irq.on) /\ (~c.irq.on => d.irq = c.irq)
    BY <1>2, <1>7, ChipFields, MoveIrqFields
  <2>2. d.irqflags = c.irqflags /\ d.icr = c.icr
    BY <1>7
  <2> QED BY <2>1, <2>2 DEF InForce, Flagged
<1>16. d.rdi <= q /\ x.rdi <= q /\ (d.rdi = q <=> x.rdi = q)
  <2>1. ASSUME NEW a \in Nat, a <= t
        PROVE  Back(a, GuardSub) <= q /\ (Back(a, GuardSub) = q <=> a = t)
    <3>1. CASE a > GuardSub
      <4>1. Back(a, GuardSub) = a - GuardSub
        BY <3>1 DEF Back
      <4> QED BY <1>1, <2>1, <4>1
    <3>2. CASE ~(a > GuardSub)
      <4>1. Back(a, GuardSub) = 0
        BY <3>2 DEF Back
      <4> QED BY <1>1, <2>1, <3>2, <4>1
    <3> QED BY <3>1, <3>2
  <2>2. c.rdi \in Nat /\ e.rdi \in Nat /\ c.rdi <= t /\ e.rdi <= t /\ (c.rdi = t <=> e.rdi = t)
    BY <1>2, ChipFields, Constants DEF Matched
  <2>3. d.rdi = Back(c.rdi, GuardSub) /\ x.rdi = Back(e.rdi, GuardSub)
    BY <1>7, <1>8
  <2> QED BY <2>1, <2>2, <2>3
<1>17. Like(d.timer, x.timer) /\ x.timer.clk = q /\ x.timer.n = 0
  <2>1. Like(c.timer, e.timer) /\ e.timer.n = 0
    BY DEF Matched
  <2>2. x.timer.clk = q
    BY <1>2, <1>8
  <2> QED BY <1>7, <1>8, <2>1, <2>2 DEF Like
<1>18. d.due = d.timer.alarmclk /\ d.irqflags = x.irqflags /\ d.irq = x.irq
       /\ d.new = x.new /\ d.cra = x.cra /\ d.icr = x.icr
  BY <1>2, <1>7, <1>8 DEF Matched
<1>19. Lags(d, x, q) /\ Foretells(d, x, q)
  BY <1>1, <1>11, <1>12, <1>13, <1>14, <1>15, <1>16, <1>17, <1>18, IsUpToDate
<1> QED BY <1>7, <1>8, <1>10, <1>11, <1>12, <1>19

-----------------------------------------------------------------------------
(* The invariant.                                                           *)

Tracked ==
    /\ now \in Nat /\ SubMin <= now /\ busy \in BOOLEAN
    /\ Lags(cia, exact, now) /\ Foretells(cia, exact, now)
    /\ SubMin <= cia.timer.clk
    /\ exact.due = Never /\ exact.timer.alarmclk = Never
    \* No underflow is left for the registers to be stored to in its cycle.
    /\ ~busy => Settled(exact.timer)

LEMMA InitTracked ==
    ASSUME Init
    PROVE  Tracked
<1>1. now = SubMin /\ exact = cia /\ busy = FALSE
  BY DEF Init
<1>2. now \in Nat /\ now \in Clock /\ now <= GuardMax + 1 /\ SubMin <= now
  <2>1. PICK s \in Nat : s = SubMin
    BY Constants
  <2>2. s \in Clock /\ s <= GuardMax + 1
    BY <2>1, Constants
  <2> QED BY <1>1, <2>1, <2>2
<1>3. PICK new \in BOOLEAN : cia = ChipReset(new, now)
  BY DEF Init
<1>4. /\ Lags(cia, exact, now) /\ Foretells(cia, exact, now) /\ cia.timer.clk = now
      /\ exact.due = Never /\ exact.timer.alarmclk = Never /\ Settled(exact.timer)
  BY <1>1, <1>2, <1>3, ResetLags
<1> QED BY <1>1, <1>2, <1>4 DEF Tracked

LEMMA TickTracked ==
    ASSUME Tracked, Tick
    PROVE  Tracked'
<1>1. /\ now \in Nat /\ now' = now + 1 /\ now' \in Nat /\ now <= GuardMax /\ SubMin <= now'
      /\ busy' = FALSE
  <2>1. now \in Nat /\ now < GuardMax + 1 /\ now' = now + 1 /\ busy' = FALSE /\ SubMin <= now
    BY DEF Tracked, Tick
  <2> QED BY <2>1, Constants
<1>2. PICK c, e :
          /\ c = ForgetPull(ForgetRead(cia)) /\ e = ForgetPull(ForgetRead(exact))
          /\ Lags(c, e, now) /\ Foretells(c, e, now)
          /\ c.timer = cia.timer /\ e.timer = exact.timer /\ e.due = exact.due
  <2>1. Lags(cia, exact, now) /\ Foretells(cia, exact, now) /\ cia.timer.clk >= SubMin
    <3>1. SubMin <= cia.timer.clk
      BY DEF Tracked
    <3> QED BY <3>1 DEF Tracked
  <2> QED BY <2>1, Forgotten
<1>3. PICK d : d = Eager(e, now')
  OBVIOUS
<1>4. cia' = c /\ exact' = d
  BY <1>2, <1>3 DEF Tick
<1>5. /\ Lags(c, d, now') /\ Foretells(c, d, now') /\ Settled(d.timer)
      /\ d.timer.alarmclk = e.timer.alarmclk /\ d.due = e.due
  BY <1>1, <1>2, <1>3, CyclePasses
<1>6. SubMin <= c.timer.clk /\ d.due = Never /\ d.timer.alarmclk = Never
  BY <1>2, <1>5 DEF Tracked
<1> QED BY <1>1, <1>4, <1>5, <1>6 DEF Tracked

LEMMA DispatchTracked ==
    ASSUME Tracked, Dispatch
    PROVE  Tracked'
<1>1. Lags(cia, exact, now) /\ Foretells(cia, exact, now)
  BY DEF Tracked
<1>2. cia.due = cia.timer.alarmclk
  BY <1>1 DEF Lags
<1>3. PICK d : d = IntTa(cia, cia.timer.alarmclk)
  OBVIOUS
<1>4. cia' = d /\ UNCHANGED <<now, exact, busy>> /\ cia.timer.alarmclk <= now
  BY <1>2, <1>3 DEF Dispatch
<1>5. Lags(d, exact, now) /\ d.timer.clk > cia.timer.clk
  BY <1>1, <1>3, <1>4, DispatchLags
<1>6. Foretells(d, exact, now)
  BY <1>1, <1>3, <1>4, DispatchForetells
<1>7. SubMin <= d.timer.clk
  <2>1. SubMin <= cia.timer.clk /\ SubMin \in Nat
    BY Constants DEF Tracked
  <2>2. cia.timer.clk \in Nat /\ d.timer.clk \in Nat
    BY <1>1, <1>5, LagsFields
  <2> QED BY <1>5, <2>1, <2>2
<1> QED BY <1>4, <1>5, <1>6, <1>7 DEF Tracked

(* What a register is stored to is up to date.                              *)
LEMMA CaughtUp ==
    ASSUME Tracked
    PROVE  /\ Matched(CatchUp(cia, now), exact, now) /\ InForce(CatchUp(cia, now))
           /\ Lags(CatchUp(cia, now), exact, now) /\ Foretells(CatchUp(cia, now), exact, now)
           /\ CatchUp(cia, now).timer.clk = now
<1>1. Lags(cia, exact, now) /\ Foretells(cia, exact, now)
  BY DEF Tracked
<1>2. PICK d : /\ d = CatchUp(cia, now)
               /\ Lags(d, exact, now) /\ Foretells(d, exact, now) /\ d.timer.clk = now
  BY <1>1, CatchUpLags
<1> QED BY <1>2, LagsMatched

LEMMA StoredTracked ==
    ASSUME Tracked, NEW b, NEW x, Matched(b, x, now), InForce(b),
           cia' = b, exact' = AckAlarm(x), busy' = TRUE, now' = now
    PROVE  Tracked'
<1>1. PICK e : /\ e = AckAlarm(x) /\ Lags(b, e, now) /\ Foretells(b, e, now)
               /\ e.due = Never /\ e.timer.alarmclk = Never
  BY MatchedLags
<1>2. SubMin <= b.timer.clk /\ now \in Nat /\ SubMin <= now
  BY DEF Matched, Tracked
<1> QED BY <1>1, <1>2 DEF Tracked

LEMMA AccessTracked ==
    ASSUME Tracked,
           \/ \E b \in Bytes : Tal(b) \/ Tah(b)
           \/ \E byte \in Controls : Cra(byte)
           \/ \E mask \in SUBSET Sources \ {{}}, on \in BOOLEAN : Icr(mask, on)
           \/ ReadsIcr \/ Reads
    PROVE  Tracked'
<1> DEFINE c == CatchUp(cia, now)
<1>1. Matched(c, exact, now) /\ InForce(c)
  BY CaughtUp
<1>2. Lags(cia, exact, now) /\ now \in Nat
  BY DEF Tracked
<1>3. ASSUME NEW b \in Bytes, Tal(b)  PROVE Tracked'
  <2>1. /\ cia' = StoreTal(c, b) /\ exact' = AckAlarm(StoreTal(exact, b))
        /\ busy' = TRUE /\ now' = now
    BY <1>3 DEF Tal, Access
  <2>2. Matched(StoreTal(c, b), StoreTal(exact, b), now) /\ InForce(StoreTal(c, b))
    BY <1>1, StoresTal
  <2> QED BY <2>1, <2>2, StoredTracked
<1>4. ASSUME NEW b \in Bytes, Tah(b)  PROVE Tracked'
  <2>1. /\ cia' = StoreTah(c, b) /\ exact' = AckAlarm(StoreTah(exact, b))
        /\ busy' = TRUE /\ now' = now
    BY <1>4 DEF Tah, Access
  <2>2. Matched(StoreTah(c, b), StoreTah(exact, b), now) /\ InForce(StoreTah(c, b))
    BY <1>1, StoresTah
  <2> QED BY <2>1, <2>2, StoredTracked
<1>5. ASSUME NEW byte \in Controls, Cra(byte)  PROVE Tracked'
  <2>1. /\ cia' = StoreCra(c, byte) /\ exact' = AckAlarm(StoreCra(exact, byte))
        /\ busy' = TRUE /\ now' = now /\ ~busy
    BY <1>5 DEF Cra, Access
  <2>2. Settled(exact.timer) /\ byte \in SUBSET CraBits
    BY <2>1, CiaAssumption DEF Tracked
  <2>3. Matched(StoreCra(c, byte), StoreCra(exact, byte), now) /\ InForce(StoreCra(c, byte))
    BY <1>1, <2>2, StoresCra
  <2> QED BY <2>1, <2>3, StoredTracked
<1>6. ASSUME NEW mask \in SUBSET Sources, NEW on \in BOOLEAN, Icr(mask, on)  PROVE Tracked'
  <2>1. /\ cia' = StoreIcr(c, mask, on, now) /\ exact' = AckAlarm(StoreIcr(exact, mask, on, now))
        /\ busy' = TRUE /\ now' = now
    BY <1>6 DEF Icr, Access
  <2>2. PICK p \in Nat : p = now + 1
    BY <1>2
  <2>3. /\ Matched(StoreIcr(c, mask, on, now), StoreIcr(exact, mask, on, now), now)
        /\ InForce(StoreIcr(c, mask, on, now))
    BY <1>1, <1>2, <2>2, StoresIcr
  <2> QED BY <2>1, <2>3, StoredTracked
<1>7. ASSUME ReadsIcr  PROVE Tracked'
  <2>1. PICK b, x : b = ReadIcr(CatchUp(Note(cia, now), now)) /\ x = ReadIcr(Note(exact, now))
    OBVIOUS
  <2>2. cia' = b /\ exact' = AckAlarm(x) /\ busy' = TRUE /\ now' = now
    BY <1>7, <2>1 DEF ReadsIcr
  <2>3. Matched(b, x, now) /\ InForce(b)
    BY <1>2, <2>1, IcrRead
  <2> QED BY <2>2, <2>3, StoredTracked
<1>8. ASSUME Reads  PROVE Tracked'
  <2>1. cia' = c /\ exact' = AckAlarm(exact) /\ busy' = TRUE /\ now' = now
    BY <1>8 DEF Reads, Access
  <2> QED BY <1>1, <2>1, StoredTracked
<1> QED BY <1>3, <1>4, <1>5, <1>6, <1>7, <1>8

LEMMA FlagTracked ==
    ASSUME Tracked, Flag
    PROVE  Tracked'
<1>1. Lags(cia, exact, now) /\ Foretells(cia, exact, now)
  BY DEF Tracked
<1>2. cia.timer.alarmclk > now /\ "FLG" \in Sources
  BY <1>1 DEF Flag, Lags
<1>3. PICK d, x :
          /\ d = SetFlag(cia, now) /\ x = SetFlag(exact, now)
          /\ Lags(d, x, now) /\ Foretells(d, x, now)
          /\ d.timer = cia.timer /\ x.timer = exact.timer /\ x.due = exact.due
  BY <1>1, <1>2, FlagSets
<1>4. cia' = d /\ exact' = x /\ UNCHANGED <<now, busy>>
  BY <1>3 DEF Flag
<1> QED BY <1>3, <1>4 DEF Tracked

LEMMA ResetTracked ==
    ASSUME Tracked, Reset
    PROVE  Tracked'
<1>1. /\ Lags(cia, exact, now) /\ now \in Nat /\ SubMin <= now
      /\ cia' = ChipReset(cia.new, now) /\ exact' = cia' /\ now' = now /\ busy' = busy
  BY DEF Tracked, Reset
<1>2. cia.new \in BOOLEAN /\ now \in Clock /\ now <= GuardMax + 1
  BY <1>1, LagsFields, ChipFields
<1>3. PICK c : /\ c = ChipReset(cia.new, now)
               /\ Lags(c, c, now) /\ Foretells(c, c, now) /\ c.timer.clk = now
               /\ c.due = Never /\ c.timer.alarmclk = Never /\ Settled(c.timer)
  BY <1>2, ResetLags
<1>4. cia' = c /\ exact' = c
  BY <1>1, <1>3
<1> QED BY <1>1, <1>3, <1>4 DEF Tracked

LEMMA GuardTracked ==
    ASSUME Tracked, Guard
    PROVE  Tracked'
<1> DEFINE c == CatchUp(cia, now)
<1>1. Matched(c, exact, now) /\ InForce(c)
  BY CaughtUp
<1>2. /\ now \in Nat /\ now >= GuardMax /\ now' = now - GuardSub /\ busy' = busy
      /\ exact.due = Never /\ exact.timer.alarmclk = Never
      /\ cia' = Moved(c) /\ exact' = Moved(exact)
  BY DEF Tracked, Guard, Guarded, Moved
<1>3. PICK q \in Nat : q = now - GuardSub /\ SubMin <= q
  <2>1. PICK s \in Nat : s = SubMin
    BY Constants
  <2>2. GuardMax = ClockMax - s /\ GuardSub = ClockMax - 2 * s /\ ClockMax \in Nat
        /\ 2 * s < ClockMax
    BY <2>1, Constants
  <2> QED BY <1>2, <2>1, <2>2
<1>4. PICK d, x :
          /\ d = Moved(c) /\ x = Moved(exact)
          /\ Lags(d, x, q) /\ Foretells(d, x, q) /\ d.timer.clk = q
          /\ x.due = Never /\ x.timer.alarmclk = Never /\ Like(x.timer, exact.timer)
  BY <1>1, <1>2, <1>3, GuardLags
<1>5. cia' = d /\ exact' = x /\ now' = q
  BY <1>2, <1>3, <1>4
<1>6. ~busy => Settled(x.timer)
  BY <1>4 DEF Tracked, Settled, Like
<1>7. busy \in BOOLEAN
  BY DEF Tracked
<1> QED BY <1>2, <1>3, <1>4, <1>5, <1>6, <1>7 DEF Tracked

LEMMA SpecTracked == Spec => []Tracked
<1>1. Init => Tracked
  BY InitTracked
<1>2. Tracked /\ [Next]_vars => Tracked'
  <2> SUFFICES ASSUME Tracked, [Next]_vars  PROVE Tracked'
    OBVIOUS
  <2>1. CASE Tick
    BY <2>1, TickTracked
  <2>2. CASE Dispatch
    BY <2>2, DispatchTracked
  <2>3. CASE \/ \E b \in Bytes : Tal(b) \/ Tah(b)
             \/ \E byte \in Controls : Cra(byte)
             \/ \E mask \in SUBSET Sources \ {{}}, on \in BOOLEAN : Icr(mask, on)
             \/ ReadsIcr \/ Reads
    BY <2>3, AccessTracked
  <2>4. CASE Flag
    BY <2>4, FlagTracked
  <2>5. CASE Reset
    BY <2>5, ResetTracked
  <2>6. CASE Guard
    BY <2>6, GuardTracked
  <2>7. CASE UNCHANGED vars
    <3>1. now' = now /\ cia' = cia /\ exact' = exact /\ busy' = busy
      BY <2>7 DEF vars
    <3> QED BY <3>1 DEF Tracked
  <2> QED BY <2>1, <2>2, <2>3, <2>4, <2>5, <2>6, <2>7 DEF Next
<1> QED BY <1>1, <1>2, PTL DEF Spec

-----------------------------------------------------------------------------
(* The variables keep their types: in particular no time ever leaves the    *)
(* width of CLOCK.                                                          *)
THEOREM CiaTypes == Spec => []TypeOK
<1>1. Tracked => TypeOK
  BY LagsFields DEF Tracked, TypeOK
<1> QED BY <1>1, SpecTracked, PTL

(* The timer and the alarm context agree when the alarm is due              *)
(* (ciat_set_alarm, ciat_ack_alarm, ciat_prevent_clock_overflow and the     *)
(* time warp of the alarm context).                                         *)
THEOREM AlarmsAgree == Spec => []AlarmAgrees
<1>1. Tracked => AlarmAgrees
  BY DEF Tracked, Lags, AlarmAgrees
<1> QED BY <1>1, SpecTracked, PTL

(* What a program reads from the registers of the chip that skips cycles    *)
(* (ciat_update) and leaves alarms out (ciacore_intta) is what it would     *)
(* read from the chip that runs through every cycle.                        *)
THEOREM CiaIsExact == Spec => []LazyIsExact
<1>1. ASSUME Tracked  PROVE LazyIsExact
  <2>1. PICK d : d = CatchUp(cia, now) /\ Matched(d, exact, now)
    BY <1>1, CaughtUp
  <2>2. /\ d.timer.flags = exact.timer.flags /\ d.timer.cnt = exact.timer.cnt
        /\ d.timer.latch = exact.timer.latch /\ d.cra = exact.cra /\ d.icr = exact.icr
        /\ d.irqflags = exact.irqflags
    BY <2>1 DEF Matched, Like
  <2>3. Visible(d) = Visible(exact)
    BY <2>2 DEF Visible
  <2> QED BY <2>1, <2>3 DEF LazyIsExact
<1> QED BY <1>1, SpecTracked, PTL

(* The interrupt line is pulled in the very cycle in which the exact chip   *)
(* pulls it, though cia_do_set_int is called by an alarm that was left out  *)
(* as long as nobody would notice.                                          *)
THEOREM CiaLineOnTime == Spec => []IrqOnTime
<1>1. ASSUME Tracked  PROVE IrqOnTime
  <2>1. cia.due = cia.timer.alarmclk /\ Forecast(cia, exact, now)
    BY <1>1 DEF Tracked, Lags, Foretells
  <2> QED BY <2>1 DEF IrqOnTime, Forecast
<1> QED BY <1>1, SpecTracked, PTL
=============================================================================
