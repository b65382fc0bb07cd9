-------------------------- MODULE DriveClockProofs --------------------------
(***************************************************************************)
(* The drives keep step with the main CPU for any number of drives, any     *)
(* width of CLOCK, any ratio of the clocks and any length of a frame that   *)
(* the clock guard allows.                                                  *)
(***************************************************************************)
EXTENDS DriveClock, WellFoundedInduction, TLAPS

-----------------------------------------------------------------------------
(* The inductive invariant.                                                 *)

(* A drive's last_clk lies behind the main clock m by its lag.              *)
LastAt(d, m) == d.enable /\ "crossed" \notin d.upset => d.last + d.lag = m

(* What the drive has executed too much is what its clock is ahead of its   *)
(* stop clock.                                                              *)
InStep(d) ==
    Steady(d) =>
        /\ d.clk = Plus(d.stop, d.ahead)
        /\ d.ahead \in 0 .. MaxStep
        /\ d.reset => d.ahead = 0
        /\ ~d.robbed

(* A drive that has a reset of the machine to serve stands at clock 0.      *)
Unstarted(d) == d.reset /\ "reset" \notin d.upset => d.clk = 0

DriveInv(d, m) == LastAt(d, m) /\ InStep(d) /\ Unstarted(d)

(* The main clock is looked at in every frame, in time before it overflows. *)
MainInv == main < GuardMax + frame

IInv == TypeOK /\ MainInv /\ \A i \in Drives : DriveInv(drive[i], main)

-----------------------------------------------------------------------------
(* Arithmetic.                                                              *)

(* What the assumptions on the constants amount to.                         *)
LEMMA Constants ==
    /\ Modulus \in Nat /\ SubMin \in Nat /\ FrameLen \in Nat /\ One \in Nat /\ Sync \in Nat
    /\ MaxStep \in Nat /\ ResetClk \in Nat /\ WakeLag \in Nat /\ WakeTicks \in Nat
    /\ NumDrives \in Nat
    /\ 1 <= FrameLen /\ FrameLen <= SubMin /\ 1 <= One
    /\ ResetClk <= MaxStep /\ MaxStep <= SubMin
    /\ 4 * SubMin + 1 <= Modulus
    /\ GuardMax \in Nat /\ 3 * SubMin <= GuardMax /\ GuardMax + SubMin = Modulus - 1
<1>1. (Sync * FrameLen) \div One \in Nat
  <2>1. Sync * FrameLen \in Nat /\ One \in Nat \ {0}
    BY DriveClockAssumption
  <2> QED BY <2>1
<1> QED BY <1>1, DriveClockAssumption DEF GuardMax

(* Sums and differences of clocks are clocks, and wrap at most once.        *)
LEMMA Wraps ==
    ASSUME NEW x \in Int
    PROVE  /\ x % Modulus \in Clock
           /\ x \in 0 .. Modulus - 1 => x % Modulus = x
           /\ x \in Modulus .. 2 * Modulus - 1 => x % Modulus = x - Modulus
           /\ x \in -Modulus .. -1 => x % Modulus = x + Modulus
<1>1. Modulus \in Nat \ {0}
  BY DriveClockAssumption
<1>2. x % Modulus \in Clock
  BY <1>1 DEF Clock
<1>3. ASSUME NEW r \in 0 .. Modulus - 1, NEW q \in {-1, 0, 1}, x = q * Modulus + r
      PROVE  x % Modulus = r
  BY <1>1, <1>3
<1>4. x \in 0 .. Modulus - 1 => x % Modulus = x
  BY <1>1
<1>5. x \in Modulus .. 2 * Modulus - 1 => x % Modulus = x - Modulus
  BY <1>1, <1>3
<1>6. x \in -Modulus .. -1 => x % Modulus = x + Modulus
  BY <1>1, <1>3
<1> QED BY <1>2, <1>4, <1>5, <1>6

LEMMA PlusWraps ==
    ASSUME NEW s \in Clock, NEW k \in 0 .. Modulus - 1
    PROVE  /\ Plus(s, k) \in Clock
           /\ Plus(s, k) = s + k \/ Plus(s, k) = s + k - Modulus
<1>1. PICK x \in Int : x = s + k
  BY Constants DEF Clock
<1>2. x \in 0 .. Modulus - 1 \/ x \in Modulus .. 2 * Modulus - 1
  BY <1>1, Constants DEF Clock
<1>3. x % Modulus \in Clock /\ (x % Modulus = x \/ x % Modulus = x - Modulus)
  BY <1>2, Wraps
<1>4. Plus(s, k) = x % Modulus
  BY <1>1, Zenon DEF Plus
<1>5. s \in Int /\ Modulus \in Int
  BY Constants DEF Clock
<1> QED BY <1>1, <1>3, <1>4, <1>5

LEMMA Division ==
    ASSUME NEW a \in Nat, NEW n \in Nat \ {0}
    PROVE  /\ a \div n \in Nat /\ (a \div n) * n \in 0 .. a
           /\ a < (a \div n) * n + n
           /\ a % n \in 0 .. n - 1
OBVIOUS

(* The main CPU's clock is moved back by nearly what the guard asks for.    *)
LEMMA FramesMoved ==
    ASSUME NEW clk \in Clock
    PROVE  /\ MainSub(clk) \in 0 .. GuardSub(clk)
           /\ MainSub(clk) > GuardSub(clk) - FrameLen
<1>1. GuardSub(clk) \in Nat /\ FrameLen \in Nat \ {0}
  BY Constants DEF GuardSub, Clock
<1>2. /\ (GuardSub(clk) \div FrameLen) * FrameLen \in 0 .. GuardSub(clk)
      /\ GuardSub(clk) < (GuardSub(clk) \div FrameLen) * FrameLen + FrameLen
  BY <1>1, Division
<1>3. MainSub(clk) \in 0 .. GuardSub(clk) /\ GuardSub(clk) < MainSub(clk) + FrameLen
  BY <1>2 DEF MainSub
<1> QED BY <1>1, <1>3

-----------------------------------------------------------------------------
(* One drive is run.                                                        *)

(* The ticks of n cycles, and what remains of them.                         *)
LEMMA TicksType ==
    ASSUME NEW accum \in 0 .. One - 1, NEW n \in Nat
    PROVE  /\ (accum + Sync * n) \div One \in Nat
           /\ (accum + Sync * n) % One \in 0 .. One - 1
           /\ n = 0 => (accum + Sync * n) \div One = 0
<1>1. Sync * n \in Nat /\ One \in Nat \ {0} /\ (n = 0 => Sync * n = 0)
  BY Constants
<1>2. accum + Sync * n \in Nat
  BY <1>1
<1>3. (accum + Sync * n) \div One \in Nat /\ (accum + Sync * n) % One \in 0 .. One - 1
  BY <1>1, <1>2, Division
<1>4. accum \div One = 0
  BY <1>1
<1> QED BY <1>1, <1>3, <1>4

(* w is drive d but for when it last ran.                                   *)
Woken(w, d, last, lag, robbed) ==
    /\ w \in DriveStates /\ w.last = last /\ w.lag = lag /\ (w.robbed <=> robbed)
    /\ w.enable = d.enable /\ w.idle = d.idle /\ w.reset = d.reset
    /\ w.clk = d.clk /\ w.stop = d.stop /\ w.accum = d.accum
    /\ w.ahead = d.ahead /\ w.upset = d.upset

LEMMA WokenFields ==
    ASSUME NEW d \in DriveStates, NEW last \in Clock, NEW lag \in Nat, NEW robbed \in BOOLEAN
    PROVE  Woken([d EXCEPT !.last = last, !.lag = lag, !.robbed = robbed], d, last, lag, robbed)
BY DEF Woken, DriveStates

(* Waking up changes when the drive ran last, and nothing else.             *)
LEMMA WakeUpFields ==
    ASSUME NEW d \in DriveStates, NEW now \in Clock
    PROVE  IF Sleepy(d, now)
           THEN Woken(WakeUp(d, now), d, now, 0, d.lag \in 1 .. WakeLag)
           ELSE Woken(WakeUp(d, now), d, d.last, d.lag, FALSE)
<1>1. CASE Sleepy(d, now)
  <2>1. PICK b \in BOOLEAN : b <=> d.lag \in 1 .. WakeLag
    OBVIOUS
  <2>2. WakeUp(d, now) = [d EXCEPT !.last = now, !.lag = 0, !.robbed = b]
    BY <1>1, <2>1, Zenon DEF WakeUp
  <2>3. Woken(WakeUp(d, now), d, now, 0, b)
    <3>1. Woken([d EXCEPT !.last = now, !.lag = 0, !.robbed = b], d, now, 0, b)
      <4>1. 0 \in Nat  OBVIOUS
      <4> QED BY <4>1, WokenFields, Zenon
    <3> QED BY <2>2, <3>1, Zenon
  <2> QED BY <1>1, <2>1, <2>3 DEF Woken
<1>2. CASE ~Sleepy(d, now)
  <2>1. WakeUp(d, now) = [d EXCEPT !.robbed = FALSE]
    BY <1>2, Zenon DEF WakeUp
  <2>2. Woken([d EXCEPT !.robbed = FALSE], d, d.last, d.lag, FALSE)
    BY DEF Woken, DriveStates
  <2>3. Woken(WakeUp(d, now), d, d.last, d.lag, FALSE)
    BY <2>1, <2>2, Zenon
  <2> QED BY <1>2, <2>3, Zenon
<1> QED BY <1>1, <1>2, Zenon

LEMMA RunToType ==
    ASSUME NEW d \in DriveStates, NEW stop \in Clock, NEW overrun \in 0 .. MaxStep
    PROVE  /\ RunTo(d, stop, overrun)[1] \in Clock
           /\ RunTo(d, stop, overrun)[2] \in BOOLEAN
           /\ RunTo(d, stop, overrun)[3] \in Nat
           /\ RunTo(d, stop, overrun)[2] => d.reset /\ RunTo(d, stop, overrun)[1] = d.clk
<1>1. Plus(stop, overrun) \in Clock /\ Minus(Plus(stop, overrun), d.clk) \in Clock
  <2>1. Plus(stop, overrun) \in Clock
    BY Constants, Wraps DEF Plus, Clock
  <2> QED BY <2>1, Constants, Wraps DEF Minus, Clock, DriveStates
<1>2. ResetClk \in Clock /\ Clock \subseteq Nat
  BY Constants DEF Clock
<1>3. d.clk \in Clock /\ d.reset \in BOOLEAN
  BY DEF DriveStates
<1> QED BY <1>1, <1>2, <1>3 DEF RunTo

(* e is drive w after it has run.                                           *)
Ran(e, w, stop, accum, clk, reset, last, ahead, upset) ==
    /\ e \in DriveStates /\ e.enable = w.enable /\ e.idle = w.idle
    /\ (e.reset <=> reset) /\ e.clk = clk /\ e.stop = stop /\ e.accum = accum
    /\ e.last = last /\ e.lag = 0 /\ e.robbed = w.robbed /\ e.upset = upset
    /\ e.ahead = ahead

(* What drivecpu_execute computes.                                          *)
Cycles(w, value) == IF value > w.last THEN value - w.last ELSE 0
Ticks(w, n) == (w.accum + Sync * n) \div One
Upset(w) == w.upset \cup (IF 2 * Ticks(w, w.lag) > Modulus THEN {"overslept"} ELSE {})

(* What drivecpu_execute does to a drive w that is awake.                   *)
LEMMA ExecuteFields ==
    ASSUME NEW d \in DriveStates, NEW now \in Clock, NEW value \in Clock,
           NEW overrun \in 0 .. MaxStep,
           NEW w, w = WakeUp(d, now), w \in DriveStates,
           NEW stop, stop = Plus(w.stop, Ticks(w, Cycles(w, value))),
           NEW ran, ran = RunTo(w, stop, overrun)
    PROVE  /\ Cycles(w, value) \in Nat /\ Ticks(w, Cycles(w, value)) \in Nat
           /\ Ticks(w, w.lag) \in Nat /\ stop \in Clock
           /\ \E accum \in 0 .. One - 1, ahead \in Int :
                 /\ Ran(Execute(d, now, value, overrun), w, stop, accum,
                        ran[1], ran[2], value, ahead, Upset(w))
                 /\ Upset(w) \subseteq {"asleep"} =>
                       ahead = w.ahead + ran[3] - Ticks(w, w.lag)
<1>2. Cycles(w, value) \in Nat /\ w.lag \in Nat
  BY Constants DEF Cycles, DriveStates, Clock
<1>3. /\ Ticks(w, Cycles(w, value)) \in Nat /\ Ticks(w, w.lag) \in Nat
      /\ (w.accum + Sync * Cycles(w, value)) % One \in 0 .. One - 1
  <2>1. w.accum \in 0 .. One - 1
    BY DEF DriveStates
  <2> QED BY <2>1, <1>2, TicksType DEF Ticks
<1>4. stop \in Clock
  <2>1. w.stop + Ticks(w, Cycles(w, value)) \in Int
    BY <1>3, Constants DEF DriveStates, Clock
  <2> QED BY <2>1, Wraps DEF Plus
<1>5. ran[1] \in Clock /\ ran[2] \in BOOLEAN /\ ran[3] \in Nat
  BY <1>4, RunToType
<1>6. Upset(w) \in SUBSET {"guard", "reset", "asleep", "crossed", "overslept"}
  BY DEF DriveStates, Upset
<1>7. PICK accum \in 0 .. One - 1, ahead \in Int :
          /\ accum = (w.accum + Sync * Cycles(w, value)) % One
          /\ ahead = IF Upset(w) \subseteq {"asleep"}
                     THEN w.ahead + ran[3] - Ticks(w, w.lag) ELSE 0
  BY <1>3, <1>5 DEF DriveStates
<1>8. Execute(d, now, value, overrun) =
        [w EXCEPT !.stop = stop, !.accum = accum, !.clk = ran[1], !.reset = ran[2],
                  !.last = value, !.lag = 0, !.ahead = ahead, !.upset = Upset(w)]
  BY <1>7, ZenonT(60) DEF Execute, Cycles, Ticks, Upset
<1>9. Ran([w EXCEPT !.stop = stop, !.accum = accum, !.clk = ran[1], !.reset = ran[2],
                    !.last = value, !.lag = 0, !.ahead = ahead, !.upset = Upset(w)],
          w, stop, accum, ran[1], ran[2], value, ahead, Upset(w))
  <2> DEFINE clk == ran[1]
             reset == ran[2]
             upset == Upset(w)
  <2>1. /\ w \in DriveStates /\ stop \in Clock /\ accum \in 0 .. One - 1
        /\ clk \in Clock /\ reset \in BOOLEAN /\ value \in Clock /\ ahead \in Int
        /\ upset \in SUBSET {"guard", "reset", "asleep", "crossed", "overslept"}
    BY <1>4, <1>5, <1>6
  <2> HIDE DEF clk, reset, upset
  <2>2. Ran([w EXCEPT !.stop = stop, !.accum = accum, !.clk = clk, !.reset = reset,
                      !.last = value, !.lag = 0, !.ahead = ahead, !.upset = upset],
            w, stop, accum, clk, reset, value, ahead, upset)
    BY ONLY <2>1 DEF Ran, DriveStates
  <2> QED BY <2>2 DEF clk, reset, upset
<1>10. Ran(Execute(d, now, value, overrun), w, stop, accum,
           ran[1], ran[2], value, ahead, Upset(w))
  BY <1>8, <1>9, Zenon
<1> QED BY <1>2, <1>3, <1>4, <1>7, <1>10

(* Whatever a drive is run for, it comes out at the clock value, and a      *)
(* reset is served before anything else.                                    *)
Served(e, d, value) ==
    /\ e \in DriveStates /\ e.enable = d.enable
    /\ d.upset \subseteq e.upset
    /\ ("reset" \in e.upset <=> "reset" \in d.upset)
    /\ ("crossed" \in e.upset <=> "crossed" \in d.upset)
    /\ e.last = value /\ e.lag = 0
    /\ Unstarted(d) => Unstarted(e)

LEMMA ExecuteRuns ==
    ASSUME NEW d \in DriveStates, NEW now \in Clock, NEW value \in Clock,
           NEW overrun \in 0 .. MaxStep
    PROVE  Served(Execute(d, now, value, overrun), d, value)
<1> DEFINE e == Execute(d, now, value, overrun)
<1> HIDE DEF e
<1>1. PICK w : w = WakeUp(d, now)
  OBVIOUS
<1>2. /\ w \in DriveStates /\ w.upset = d.upset /\ w.reset = d.reset /\ w.clk = d.clk
      /\ w.enable = d.enable
  BY <1>1, WakeUpFields DEF Woken
<1>3. PICK stop : stop = Plus(w.stop, Ticks(w, Cycles(w, value)))
  OBVIOUS
<1>4. PICK ran : ran = RunTo(w, stop, overrun)
  OBVIOUS
<1>5. PICK accum, ahead :
          /\ stop \in Clock
          /\ Ran(e, w, stop, accum, ran[1], ran[2], value, ahead, Upset(w))
  BY <1>1, <1>2, <1>3, <1>4, ExecuteFields DEF e
<1>6. ran[2] => w.reset /\ ran[1] = w.clk
  BY <1>2, <1>4, <1>5, RunToType
<1>7. e.reset => d.reset /\ e.clk = d.clk
  BY <1>2, <1>5, <1>6 DEF Ran
<1>8. e \in DriveStates /\ e.enable = d.enable /\ e.last = value /\ e.lag = 0
      /\ e.upset = Upset(w)
  BY <1>2, <1>5 DEF Ran
<1>9. Served(e, d, value)
  BY <1>2, <1>7, <1>8 DEF Upset, Unstarted, Served
<1> QED BY <1>9 DEF e

(* The comparison in two's complement says which clock is behind, as long   *)
(* as they are not half the range apart.                                    *)
LEMMA BehindOrAhead ==
    ASSUME NEW c \in Clock, NEW stop \in Clock, NEW n \in Int,
           -Modulus <= 2 * n, 2 * n < Modulus, c = Plus(stop, n)
    PROVE  /\ Before(c, stop) <=> n < 0
           /\ \A k \in 0 .. MaxStep : n <= k => Minus(Plus(stop, k), c) = k - n
<1>1. c = stop + n \/ c = stop + n - Modulus \/ c = stop + n + Modulus
  <2>1. stop + n \in Int /\ stop + n >= -Modulus /\ stop + n < 2 * Modulus
    BY Constants DEF Clock
  <2> QED BY <2>1, Constants, Wraps DEF Plus
<1>2. Minus(c, stop) = IF n < 0 THEN n + Modulus ELSE n
  BY <1>1, Constants, Wraps DEF Minus, Clock
<1>3. Before(c, stop) <=> n < 0
  BY <1>2, Constants DEF Before
<1>4. ASSUME NEW k \in 0 .. MaxStep, n <= k
      PROVE  Minus(Plus(stop, k), c) = k - n
  <2>1. k < Modulus /\ k - n \in 0 .. Modulus - 1
    BY <1>4, Constants
  <2>2. Plus(stop, k) = stop + k \/ Plus(stop, k) = stop + k - Modulus
    BY <2>1, <1>4, Constants, Wraps DEF Clock, Plus
  <2>3. PICK x \in Int : x = Plus(stop, k) - c
    BY <2>2, Constants DEF Clock
  <2>4. /\ x \in {k - n, k - n - Modulus, k - n + Modulus}
        /\ x > -Modulus /\ x < Modulus
    <3>1. x \in {k - n, k - n - Modulus, k - n + Modulus, k - n - 2 * Modulus,
                 k - n + 2 * Modulus}
      BY <1>1, <2>2, <2>3, Constants DEF Clock
    <3>2. Plus(stop, k) \in Clock
      BY <2>2, <1>4, Constants, Wraps DEF Plus, Clock
    <3>3. x > -Modulus /\ x < Modulus
      BY <3>2, <2>3, Constants DEF Clock
    <3> QED BY <3>1, <3>3, <2>1, Constants
  <2>5. x % Modulus = k - n
    <3>1. x = k - n \/ x = k - n - Modulus
      BY <2>1, <2>4, Constants
    <3>2. CASE x = k - n
      BY <2>1, <3>2, Wraps
    <3>3. CASE x = k - n - Modulus
      BY <2>1, <2>3, <2>4, <3>3, Wraps, Constants
    <3> QED BY <3>1, <3>2, <3>3
  <2> QED BY <2>3, <2>5 DEF Minus
<1> QED BY <1>3, <1>4
(* A drive that is ahead of its stop clock by no more than a step, and is   *)
(* given t ticks, comes out ahead of the new stop clock by no more than a   *)
(* step.                                                                    *)
LEMMA RunToExact ==
    ASSUME NEW d \in DriveStates, NEW overrun \in 0 .. MaxStep, NEW t \in Nat,
           2 * t <= Modulus, d.ahead \in 0 .. MaxStep, d.clk = Plus(d.stop, d.ahead),
           d.reset => d.ahead = 0 /\ d.clk = 0,
           NEW stop, stop = Plus(d.stop, t),
           NEW ran, ran = RunTo(d, stop, overrun),
           NEW a, a = d.ahead + ran[3] - t
    PROVE  /\ a \in 0 .. MaxStep /\ ran[1] = Plus(stop, a) /\ (ran[2] => a = 0)
<1> DEFINE clk == d.clk
           old == d.stop
           ahead == d.ahead
           reset == d.reset
           n == ahead - t
<1>1. /\ clk \in Clock /\ old \in Clock /\ ahead \in 0 .. MaxStep /\ clk = Plus(old, ahead)
      /\ reset => ahead = 0 /\ clk = 0
      /\ stop = Plus(old, t) /\ reset \in BOOLEAN
  BY DEF DriveStates
<1>2. ran = IF ~Before(clk, stop) THEN <<clk, reset, 0>>
            ELSE IF ~reset THEN <<Plus(stop, overrun), FALSE, Minus(Plus(stop, overrun), clk)>>
            ELSE IF Before(ResetClk, stop)
                 THEN <<Plus(stop, overrun), FALSE, Plus(stop, overrun)>>
            ELSE <<ResetClk, FALSE, ResetClk>>
  BY DEF RunTo
<1>3. a = ahead + ran[3] - t
  OBVIOUS
<1> HIDE DEF clk, old, ahead, reset
<1>4. t < Modulus /\ stop \in Clock /\ (stop = old + t \/ stop = old + t - Modulus)
  <2>1. t \in 0 .. Modulus - 1
    BY Constants
  <2> QED BY <2>1, <1>1, PlusWraps, Constants
<1>5. clk = old + ahead \/ clk = old + ahead - Modulus
  <2>1. ahead \in 0 .. Modulus - 1
    BY <1>1, Constants
  <2> QED BY <2>1, <1>1, PlusWraps
<1>6. n \in Int /\ -Modulus <= 2 * n /\ 2 * n < Modulus
  BY <1>1, Constants
<1>7. clk = Plus(stop, n)
  <2>1. PICK x \in Int : x = stop + n
    BY <1>4, <1>6, Constants DEF Clock
  <2>2. x \in {clk, clk - Modulus, clk + Modulus}
    BY <2>1, <1>1, <1>4, <1>5, Constants DEF Clock
  <2>3. clk \in 0 .. Modulus - 1
    BY <1>1 DEF Clock
  <2>4. x % Modulus = clk
    <3>1. CASE x = clk
      BY <3>1, <2>3, Wraps
    <3>2. CASE x = clk - Modulus
      BY <3>2, <2>3, Constants, Wraps
    <3>3. CASE x = clk + Modulus
      BY <3>3, <2>3, Constants, Wraps
    <3> QED BY <2>2, <3>1, <3>2, <3>3
  <2> QED BY <2>1, <2>4 DEF Plus
<1>8. /\ Before(clk, stop) <=> n < 0
      /\ \A k \in 0 .. MaxStep : n <= k => Minus(Plus(stop, k), clk) = k - n
  <2> HIDE DEF n
  <2> QED BY <1>1, <1>4, <1>6, <1>7, BehindOrAhead
<1>9. CASE ~Before(clk, stop)
  <2>1. n >= 0 /\ a = n /\ ran[1] = clk /\ (ran[2] <=> reset)
    BY <1>1, <1>2, <1>3, <1>6, <1>8, <1>9, Constants
  <2>2. n \in 0 .. MaxStep /\ (reset => n = 0)
    BY <2>1, <1>1, Constants
  <2> QED BY <2>1, <2>2, <1>7
<1>10. CASE Before(clk, stop) /\ ~reset
  <2>1. n <= overrun
    BY <1>6, <1>8, <1>10, Constants
  <2>2. ran[3] = overrun - n /\ ran[1] = Plus(stop, overrun) /\ ~ran[2]
    BY <1>2, <1>8, <1>10, <2>1
  <2>3. a = overrun
    BY <2>2, <1>1, <1>3, Constants
  <2> QED BY <2>2, <2>3
<1>11. CASE Before(clk, stop) /\ reset
  <2>1. ahead = 0 /\ old = 0 /\ n = -t
    BY <1>1, <1>5, <1>11, Constants DEF Clock
  <2>2. stop = t /\ Plus(stop, overrun) = t + overrun
    <3>1. stop = t
      BY <2>1, <1>4, Constants DEF Clock
    <3>2. t + overrun \in 0 .. Modulus - 1
      BY Constants
    <3> QED BY <3>1, <3>2, Wraps DEF Plus
  <2>3. ResetClk \in Clock /\ ResetClk = Plus(stop, ResetClk - t)
        /\ (Before(ResetClk, stop) <=> ResetClk - t < 0)
    <3>1. ResetClk \in Clock /\ stop + (ResetClk - t) = ResetClk
      BY <2>2, Constants DEF Clock
    <3>2. ResetClk = Plus(stop, ResetClk - t)
      BY <3>1, Wraps DEF Plus, Clock
    <3>3. PICK k \in Int : k = ResetClk - t
      BY Constants
    <3>4. -Modulus <= 2 * k /\ 2 * k < Modulus /\ ResetClk = Plus(stop, k)
      BY <3>2, <3>3, Constants
    <3>5. Before(ResetClk, stop) <=> k < 0
      BY <3>1, <3>4, <1>4, BehindOrAhead
    <3> QED BY <3>1, <3>2, <3>3, <3>5
  <2>4. CASE Before(ResetClk, stop)
    <3>1. ran = <<Plus(stop, overrun), FALSE, Plus(stop, overrun)>>
      BY <1>2, <1>11, <2>4
    <3>2. a = overrun
      BY <3>1, <2>1, <2>2, <1>3, Constants
    <3> QED BY <3>1, <3>2
  <2>5. CASE ~Before(ResetClk, stop)
    <3>1. ran = <<ResetClk, FALSE, ResetClk>>
      BY <1>2, <1>11, <2>5
    <3>2. a = ResetClk - t /\ a \in 0 .. MaxStep
      BY <3>1, <2>1, <2>3, <2>5, <1>3, Constants
    <3> QED BY <3>1, <3>2, <2>3
  <2> QED BY <2>4, <2>5
<1> QED BY <1>1, <1>9, <1>10, <1>11

(* A drive that is run up to the clock of the main CPU keeps the invariant. *)
LEMMA ExecuteNow ==
    ASSUME NEW d \in DriveStates, NEW m \in Clock, NEW overrun \in 0 .. MaxStep,
           d.enable, DriveInv(d, m),
           NEW e, e = Execute(d, m, m, overrun)
    PROVE  e \in DriveStates /\ e.enable = d.enable /\ DriveInv(e, m)
<1>1. /\ e \in DriveStates /\ e.enable = d.enable /\ e.last = m /\ e.lag = 0
      /\ d.upset \subseteq e.upset /\ Unstarted(e)
  <2>1. Unstarted(d)
    BY DEF DriveInv
  <2>2. Served(e, d, m)
    BY ExecuteRuns
  <2> QED BY <2>1, <2>2 DEF Served
<1>2. LastAt(e, m)
  BY <1>1 DEF LastAt, Clock
<1>3. ASSUME Steady(e)  PROVE InStep(e)
  <2>1. d.upset = {}
    BY <1>1, <1>3 DEF Steady
  <2>2. Steady(d)
    BY <2>1 DEF Steady
  <2>3. /\ d.last + d.lag = m /\ d.clk = Plus(d.stop, d.ahead) /\ d.ahead \in 0 .. MaxStep
        /\ d.reset => d.ahead = 0 /\ d.clk = 0
    BY <2>1, <2>2 DEF DriveInv, LastAt, InStep, Unstarted
  <2>4. d.lag \in Nat /\ d.last \in Clock
    BY DEF DriveStates
  <2>5. Minus(m, d.last) = d.lag
    <3>1. m - d.last = d.lag /\ d.lag \in 0 .. Modulus - 1
      BY <2>3, <2>4, Constants DEF Clock
    <3>2. d.lag % Modulus = d.lag
      BY <3>1, <2>4, Wraps
    <3> QED BY <3>1, <3>2, Zenon DEF Minus
  <2>6. PICK w : w = WakeUp(d, m)
    OBVIOUS
  <2>7. /\ w \in DriveStates /\ w.last + w.lag = m /\ w.robbed = FALSE
        /\ w.clk = d.clk /\ w.stop = d.stop /\ w.ahead = d.ahead /\ w.reset = d.reset
        /\ w.upset = {}
    <3>1. CASE Sleepy(d, m)
      <4>1. Woken(w, d, m, 0, d.lag \in 1 .. WakeLag)
        BY <2>6, <3>1, WakeUpFields
      <4>2. d.lag \notin 1 .. WakeLag
        BY <3>1, <2>4, <2>5, Constants DEF Sleepy
      <4>3. m + 0 = m
        BY DEF Clock
      <4>4. w.robbed = FALSE
        BY <4>1, <4>2 DEF Woken, DriveStates
      <4> QED BY <4>1, <4>3, <4>4, <2>1 DEF Woken
    <3>2. CASE ~Sleepy(d, m)
      <4>1. Woken(w, d, d.last, d.lag, FALSE)
        BY <2>6, <3>2, WakeUpFields
      <4>2. w.robbed = FALSE
        BY <4>1 DEF Woken, DriveStates
      <4> QED BY <4>1, <4>2, <2>1, <2>3 DEF Woken
    <3> QED BY <3>1, <3>2
  <2>8. Cycles(w, m) = w.lag
    BY <2>7 DEF Cycles, DriveStates, Clock
  <2>9. PICK t : t = Ticks(w, w.lag)
    OBVIOUS
  <2>10. PICK stop : stop = Plus(w.stop, t)
    OBVIOUS
  <2>11. PICK ran : ran = RunTo(w, stop, overrun)
    OBVIOUS
  <2>12. stop = Plus(w.stop, Ticks(w, Cycles(w, m)))
    BY <2>8, <2>9, <2>10, Zenon
  <2>13. PICK accum, ahead :
            /\ t \in Nat
            /\ Ran(e, w, stop, accum, ran[1], ran[2], m, ahead, Upset(w))
            /\ Upset(w) \subseteq {"asleep"} => ahead = w.ahead + ran[3] - t
    BY <2>6, <2>7, <2>9, <2>11, <2>12, ExecuteFields
  <2>14. Upset(w) = {}
    BY <1>3, <2>13 DEF Ran, Steady
  <2>15. ~(2 * t > Modulus)
    BY <2>9, <2>14 DEF Upset
  <2>16. 2 * t <= Modulus
    BY <2>13, <2>15, Constants
  <2>17. ahead = w.ahead + ran[3] - t
    BY <2>13, <2>14
  <2>18. /\ ahead \in 0 .. MaxStep /\ ran[1] = Plus(stop, ahead) /\ (ran[2] => ahead = 0)
    <3>1. /\ w.ahead \in 0 .. MaxStep /\ w.clk = Plus(w.stop, w.ahead)
          /\ w.reset => w.ahead = 0 /\ w.clk = 0
      BY <2>3, <2>7
    <3>2. w \in DriveStates /\ t \in Nat
      BY <2>7, <2>13
    <3>3. \A s, r, a : s = Plus(w.stop, t) /\ r = RunTo(w, s, overrun)
                          /\ a = w.ahead + r[3] - t
                       => a \in 0 .. MaxStep /\ r[1] = Plus(s, a) /\ (r[2] => a = 0)
      BY <3>1, <3>2, <2>16, RunToExact
    <3> QED BY <3>3, <2>10, <2>11, <2>17
  <2> QED BY <2>7, <2>13, <2>18 DEF InStep, Ran
<1> QED BY <1>1, <1>2, <1>3 DEF DriveInv, InStep
-----------------------------------------------------------------------------
(* The main CPU's clock is moved back.                                      *)

(* The drives up to the i-th have been told that the clock went from old to *)
(* now.                                                                     *)
Told(ds, i, now, old) ==
    /\ ds \in [Drives -> DriveStates]
    /\ \A j \in Drives : DriveInv(ds[j], IF j <= i THEN now ELSE old)

(* A drive that has run through the catching up of a sleeper.               *)
LEMMA CaughtUp ==
    ASSUME NEW ds \in [Drives -> DriveStates], NEW i \in Drives,
           NEW now \in Clock, NEW sub \in Clock, NEW old \in Clock, old = now + sub,
           NEW overrun \in Overruns, Told(ds, i - 1, now, old)
    PROVE  /\ Told(CatchUp(ds, i, now, sub, overrun), i - 1, now, old)
           /\ ds[i].enable => /\ CatchUp(ds, i, now, sub, overrun)[i].last = old
                              /\ CatchUp(ds, i, now, sub, overrun)[i].lag = 0
                              /\ CatchUp(ds, i, now, sub, overrun)[i].enable
                              /\ CatchUp(ds, i, now, sub, overrun)[i].upset # {}
           /\ ~ds[i].enable => CatchUp(ds, i, now, sub, overrun)[i] = ds[i]
<1> DEFINE ran == ExecuteAll(ds, now, Plus(now, sub), overrun)
           mark(j) == {"asleep"} \cup (IF j < i THEN {"crossed"} ELSE {})
           up(j) == IF ds[j].enable
                    THEN [ran[j] EXCEPT !.upset = @ \cup mark(j)] ELSE ds[j]
<1>1. Plus(now, sub) = old
  <2>1. sub \in 0 .. Modulus - 1 /\ old \in 0 .. Modulus - 1
    BY DEF Clock
  <2> QED BY <2>1, Wraps, Constants DEF Plus
<1>2. CatchUp(ds, i, now, sub, overrun) = [j \in Drives |-> up(j)]
  BY Zenon DEF CatchUp
<1>3. ASSUME NEW j \in Drives, ds[j].enable
      PROVE  Served(ran[j], ds[j], old)
  <2>1. ran[j] = Execute(ds[j], now, old, overrun[j])
    BY <1>1, <1>3 DEF ExecuteAll
  <2>2. ds[j] \in DriveStates /\ overrun[j] \in 0 .. MaxStep
    BY DEF Overruns
  <2> QED BY <2>1, <2>2, ExecuteRuns
<1> HIDE DEF ran
<1>4. ASSUME NEW j \in Drives, ds[j].enable
      PROVE  /\ up(j) \in DriveStates /\ up(j).enable /\ up(j).last = old /\ up(j).lag = 0
             /\ up(j).upset = ran[j].upset \cup mark(j)
             /\ up(j).reset = ran[j].reset /\ up(j).clk = ran[j].clk
  <2>1. ran[j] \in DriveStates /\ ran[j].enable = TRUE /\ ran[j].last = old /\ ran[j].lag = 0
    <3>1. ds[j].enable = TRUE
      BY <1>4 DEF DriveStates
    <3> QED BY <1>3, <1>4, <3>1 DEF Served
  <2>2. up(j) = [ran[j] EXCEPT !.upset = ran[j].upset \cup mark(j)]
    BY <1>4
  <2>3. mark(j) \subseteq {"guard", "reset", "asleep", "crossed", "overslept"}
    OBVIOUS
  <2> HIDE DEF mark, up
  <2> QED BY <2>1, <2>2, <2>3 DEF DriveStates
<1>5. ASSUME NEW j \in Drives
      PROVE  up(j) \in DriveStates /\ DriveInv(up(j), IF j <= i - 1 THEN now ELSE old)
  <2>1. DriveInv(ds[j], IF j <= i - 1 THEN now ELSE old) /\ ds[j] \in DriveStates
    BY DEF Told
  <2>2. CASE ds[j].enable
    <3>1. Unstarted(ds[j]) => Unstarted(ran[j])
      BY <2>2, <1>3 DEF Served
    <3>2. Unstarted(up(j))
      BY <3>1, <1>4, <2>1, <2>2 DEF Unstarted, DriveInv
    <3>3. InStep(up(j))
      BY <1>4, <2>2 DEF InStep, Steady
    <3>4. LastAt(up(j), IF j <= i - 1 THEN now ELSE old)
      <4>1. CASE j < i
        BY <4>1, <1>4, <2>2 DEF LastAt
      <4>2. CASE ~(j < i)
        <5>1. ~(j <= i - 1)
          BY <4>2, Constants DEF Drives
        <5>2. old + 0 = old
          BY DEF Clock
        <5> HIDE DEF up
        <5> QED BY <5>1, <5>2, <1>4, <2>2 DEF LastAt
      <4> QED BY <4>1, <4>2
    <3> HIDE DEF up
    <3> QED BY <3>2, <3>3, <3>4, <1>4, <2>2 DEF DriveInv
  <2>3. CASE ~ds[j].enable
    BY <2>1, <2>3
  <2> QED BY <2>2, <2>3
<1>6. Told([j \in Drives |-> up(j)], i - 1, now, old)
  <2> HIDE DEF up
  <2> QED BY <1>5 DEF Told
<1>7. ds[i].enable => up(i).last = old /\ up(i).lag = 0 /\ up(i).enable /\ up(i).upset # {}
  BY <1>4
<1>8. ~ds[i].enable => up(i) = ds[i]
  OBVIOUS
<1> HIDE DEF up
<1> QED BY <1>2, <1>6, <1>7, <1>8
(* The clock guard of a drive.                                              *)
Guarded(d) ==
    [d EXCEPT !.clk = Minus(d.clk, GuardSub(d.clk)),
              !.upset = IF GuardSub(d.clk) # 0 THEN d.upset \cup {"guard"} ELSE d.upset]

LEMMA GuardKeeps ==
    ASSUME NEW d \in DriveStates, NEW m \in Clock, DriveInv(d, m)
    PROVE  Guarded(d) \in DriveStates /\ DriveInv(Guarded(d), m)
<1>1. d.clk \in Clock /\ GuardSub(d.clk) \in Nat
  BY Constants DEF DriveStates, GuardSub
<1>2. d.clk - GuardSub(d.clk) \in 0 .. Modulus - 1
  BY <1>1, Constants DEF GuardSub, Clock
<1>3. Minus(d.clk, GuardSub(d.clk)) = d.clk - GuardSub(d.clk)
  BY <1>2, Wraps DEF Minus
<1>4. PICK clk \in Clock : clk = Minus(d.clk, GuardSub(d.clk))
  BY <1>2, <1>3 DEF Clock
<1>5. CASE GuardSub(d.clk) # 0
  <2>1. Guarded(d) = [d EXCEPT !.clk = clk, !.upset = d.upset \cup {"guard"}]
    BY <1>4, <1>5, Zenon DEF Guarded
  <2>2. /\ Guarded(d) \in DriveStates /\ Guarded(d).upset = d.upset \cup {"guard"}
        /\ Guarded(d).reset = d.reset /\ Guarded(d).last = d.last /\ Guarded(d).lag = d.lag
        /\ Guarded(d).enable = d.enable
    <3>1. d \in DriveStates /\ clk \in Clock
      OBVIOUS
    <3> QED BY ONLY <2>1, <3>1 DEF DriveStates
  <2>3. d.clk # 0
    BY <1>5, Constants DEF GuardSub
  <2>4. ~(d.reset /\ "reset" \notin d.upset)
    BY <2>3 DEF DriveInv, Unstarted
  <2>5. LastAt(Guarded(d), m)
    BY <2>2 DEF DriveInv, LastAt
  <2>6. InStep(Guarded(d)) /\ Unstarted(Guarded(d))
    BY <2>2, <2>4 DEF InStep, Steady, Unstarted
  <2> QED BY <2>2, <2>5, <2>6 DEF DriveInv
<1>6. CASE GuardSub(d.clk) = 0
  <2>1. clk = d.clk
    BY <1>1, <1>3, <1>4, <1>6 DEF Clock
  <2>2. Guarded(d) = [d EXCEPT !.clk = d.clk, !.upset = d.upset]
    BY <1>4, <1>6, <2>1, Zenon DEF Guarded
  <2>3. Guarded(d) = d
    BY <2>2 DEF DriveStates
  <2> QED BY <2>3
<1> QED BY <1>5, <1>6

(* The clock at which a drive ran last is moved with the main CPU's.        *)
LEMMA LastMoved ==
    ASSUME NEW d \in DriveStates, NEW last \in Clock, NEW m \in Clock, NEW old \in Clock,
           DriveInv(d, old),
           LastAt(d, old) /\ d.enable /\ "crossed" \notin d.upset => last + d.lag = m
    PROVE  [d EXCEPT !.last = last] \in DriveStates /\ DriveInv([d EXCEPT !.last = last], m)
<1> DEFINE e == [d EXCEPT !.last = last]
<1>1. /\ e \in DriveStates /\ e.last = last /\ e.lag = d.lag /\ e.enable = d.enable
      /\ e.upset = d.upset /\ e.clk = d.clk /\ e.stop = d.stop /\ e.reset = d.reset
      /\ e.ahead = d.ahead /\ e.robbed = d.robbed
  BY ONLY d \in DriveStates, last \in Clock DEF DriveStates
<1> HIDE DEF e
<1>2. LastAt(e, m)
  BY <1>1 DEF DriveInv, LastAt
<1>3. InStep(e) /\ Unstarted(e)
  BY <1>1 DEF DriveInv, InStep, Unstarted, Steady
<1>4. e \in DriveStates /\ DriveInv(e, m)
  BY <1>1, <1>2, <1>3 DEF DriveInv
<1> QED BY <1>4 DEF e

(* The i-th drive is told.                                                  *)
LEMMA PreventOverflowTells ==
    ASSUME NEW ds, NEW i \in Drives,
           NEW now \in Clock, NEW sub \in Clock, NEW old \in Clock, old = now + sub,
           NEW overrun \in Overruns, Told(ds, i - 1, now, old)
    PROVE  Told(PreventOverflow(ds, i, now, sub, overrun), i, now, old)
<1> DEFINE up == CatchUp(ds, i, now, sub, overrun)
           x == IF ds[i].last < sub THEN up ELSE ds
           synced == IF sub = 0 THEN ds
                     ELSE IF ~ds[i].enable THEN [ds EXCEPT ![i].last = now]
                     ELSE [x EXCEPT ![i].last = Minus(@, sub)]
<1>1. /\ ds \in [Drives -> DriveStates] /\ ds[i] \in DriveStates /\ DriveInv(ds[i], old)
      /\ \A j \in Drives : j # i => DriveInv(ds[j], IF j <= i THEN now ELSE old)
  <2>1. i \in Int /\ ~(i <= i - 1) /\ \A j \in Drives : j # i => (j <= i - 1 <=> j <= i)
    BY Constants DEF Drives
  <2> QED BY <2>1 DEF Told
<1>2. /\ synced \in [Drives -> DriveStates] /\ DriveInv(synced[i], now)
      /\ \A j \in Drives : j # i => DriveInv(synced[j], IF j <= i THEN now ELSE old)
  <2>1. CASE sub = 0
    <3>1. now = old
      BY <2>1 DEF Clock
    <3> QED BY <1>1, <2>1, <3>1
  <2>2. CASE sub # 0 /\ ~ds[i].enable
    <3>1. [ds[i] EXCEPT !.last = now] \in DriveStates /\ DriveInv([ds[i] EXCEPT !.last = now], now)
      BY <1>1, <2>2, LastMoved
    <3>2. synced = [ds EXCEPT ![i] = [ds[i] EXCEPT !.last = now]]
      BY <2>2
    <3> HIDE DEF synced
    <3> QED BY <1>1, <3>1, <3>2
  <2>3. CASE sub # 0 /\ ds[i].enable
    <3>1. /\ x \in [Drives -> DriveStates] /\ DriveInv(x[i], old)
          /\ \A j \in Drives : j # i => DriveInv(x[j], IF j <= i THEN now ELSE old)
          /\ x[i].last >= sub \/ x[i].last = old
      <4>1. CASE ds[i].last < sub
        <5>1. /\ Told(up, i - 1, now, old) /\ up[i].last = old
          BY <1>1, <2>3, CaughtUp
        <5>2. i \in Int /\ ~(i <= i - 1) /\ \A j \in Drives : j # i => (j <= i - 1 <=> j <= i)
          BY Constants DEF Drives
        <5>3. x = up
          BY <4>1
        <5> HIDE DEF x, up
        <5> QED BY <5>1, <5>2, <5>3 DEF Told
      <4>2. CASE ~(ds[i].last < sub)
        BY <1>1, <4>2 DEF DriveStates, Clock
      <4> QED BY <4>1, <4>2
    <3>2. synced = [x EXCEPT ![i] = [x[i] EXCEPT !.last = Minus(x[i].last, sub)]]
      BY <2>3
    <3> HIDE DEF x, synced
    <3>3. x[i] \in DriveStates /\ x[i].last \in Clock /\ x[i].lag \in Nat
      BY <3>1 DEF DriveStates
    <3>4. x[i].last >= sub
      BY <3>1, <3>3 DEF Clock
    <3>5. Minus(x[i].last, sub) = x[i].last - sub /\ x[i].last - sub \in Clock
      <4>1. x[i].last - sub \in 0 .. Modulus - 1
        BY <3>3, <3>4, Constants DEF Clock
      <4> QED BY <4>1, Wraps DEF Minus, Clock
    <3>6. x[i].last + x[i].lag = old => (x[i].last - sub) + x[i].lag = now
      BY <3>3 DEF Clock
    <3>7. PICK last \in Clock : last = Minus(x[i].last, sub) /\ last = x[i].last - sub
      BY <3>5
    <3>8. LastAt(x[i], old) /\ x[i].enable /\ "crossed" \notin x[i].upset
             => last + x[i].lag = now
      BY <3>6, <3>7 DEF LastAt
    <3>9. [x[i] EXCEPT !.last = last] \in DriveStates /\ DriveInv([x[i] EXCEPT !.last = last], now)
      BY <3>1, <3>3, <3>8, LastMoved
    <3>10. synced = [x EXCEPT ![i] = [x[i] EXCEPT !.last = last]]
      BY <3>2, <3>7
    <3> QED BY <3>1, <3>9, <3>10
  <2> QED BY <2>1, <2>2, <2>3
<1> DEFINE result == PreventOverflow(ds, i, now, sub, overrun)
           guards == GuardSub(synced[i].clk) # 0
<1>3. result = [synced EXCEPT ![i].clk = Minus(@, GuardSub(@)),
                              ![i].upset = IF guards THEN @ \cup {"guard"} ELSE @]
  BY Zenon DEF PreventOverflow
<1> HIDE DEF result, synced
<1>4. result = [synced EXCEPT ![i] = Guarded(synced[i])]
  BY <1>2, <1>3 DEF Guarded
<1>5. Guarded(synced[i]) \in DriveStates /\ DriveInv(Guarded(synced[i]), now)
  BY <1>2, GuardKeeps
<1>6. Told(result, i, now, old)
  <2>1. i <= i
    BY Constants DEF Drives
  <2> QED BY <1>2, <1>4, <1>5, <2>1 DEF Told
<1> QED BY <1>6 DEF result
(* Every set of natural numbers has a least element: what stands for        *)
(* induction here.                                                          *)
LEMMA LeastNatural ==
    ASSUME NEW S \in SUBSET Nat, S # {}
    PROVE  \E x \in S : \A y \in S : x <= y
<1>1. PICK x \in S : \A y \in S : <<y, x>> \notin OpToRel(<, Nat)
  BY WFMin, NatLessThanWellFounded, Zenon
<1>2. ASSUME NEW y \in S  PROVE  ~(y < x)
  BY <1>1 DEF OpToRel
<1> QED BY <1>2

(* One drive after the other is told.                                       *)
Tell(f, i, ds, now, sub, overrun) ==
    IF i = 0 THEN ds ELSE PreventOverflow(f[i - 1], i, now, sub, overrun)

Telling(f, ds, now, sub, overrun) ==
    f = [i \in 0 .. NumDrives |-> Tell(f, i, ds, now, sub, overrun)]

LEMMA TellingExists ==
    ASSUME NEW ds, NEW now, NEW sub, NEW overrun
    PROVE  \E f : Telling(f, ds, now, sub, overrun)
<1> DEFINE Upto(f, n) == \A i \in 0 .. n : f[i] = Tell(f, i, ds, now, sub, overrun)
           Bad == {n \in Nat : ~ \E f : Upto(f, n)}
<1>1. Bad = {}
  <2> SUFFICES ASSUME Bad # {}  PROVE FALSE
    OBVIOUS
  <2>1. PICK n \in Bad : \A k \in Bad : n <= k
    <3>1. Bad \in SUBSET Nat
      OBVIOUS
    <3> HIDE DEF Bad
    <3> QED BY <3>1, LeastNatural
  <2>2. n # 0
    <3> DEFINE f == [i \in {0} |-> ds]
    <3>1. \A i \in 0 .. 0 : f[i] = Tell(f, i, ds, now, sub, overrun)
      BY DEF Tell
    <3> HIDE DEF f
    <3> QED BY <3>1
  <2>3. n - 1 \in Nat /\ n - 1 \notin Bad
    <3>1. n \in Nat
      OBVIOUS
    <3> HIDE DEF Bad
    <3> QED BY <2>1, <2>2, <3>1
  <2>4. PICK f : Upto(f, n - 1)
    BY <2>3
  <2> DEFINE g == [i \in 0 .. n |->
                      IF i = n THEN PreventOverflow(f[n - 1], n, now, sub, overrun) ELSE f[i]]
  <2>5. ASSUME NEW i \in 0 .. n  PROVE g[i] = Tell(g, i, ds, now, sub, overrun)
    <3>1. i = 0 \/ i - 1 \in 0 .. n - 1
      OBVIOUS
    <3>2. i # 0 => g[i - 1] = f[i - 1]
      BY <2>3, <3>1
    <3>3. CASE i = n
      BY <2>2, <3>2, <3>3 DEF Tell
    <3>4. CASE i # n
      <4>1. g[i] = f[i] /\ i \in 0 .. n - 1
        BY <3>4
      <4>2. f[i] = Tell(f, i, ds, now, sub, overrun)
        BY <2>4, <4>1
      <4> HIDE DEF g
      <4> QED BY <4>1, <4>2, <3>2, Zenon DEF Tell
    <3> QED BY <3>3, <3>4
  <2>6. Upto(g, n)
    <3> HIDE DEF g
    <3> QED BY <2>5
  <2> HIDE DEF g, Upto
  <2> QED BY <2>1, <2>6
<1>2. PICK f : Upto(f, NumDrives)
  BY <1>1, Constants
<1> DEFINE h == [i \in 0 .. NumDrives |-> f[i]]
<1>3. ASSUME NEW i \in 0 .. NumDrives  PROVE h[i] = Tell(h, i, ds, now, sub, overrun)
  <2>1. i # 0 => h[i - 1] = f[i - 1]
    BY Constants
  <2>2. h[i] = f[i] /\ f[i] = Tell(f, i, ds, now, sub, overrun)
    BY <1>2
  <2> HIDE DEF h
  <2> QED BY <2>1, <2>2, Zenon DEF Tell
<1>4. h = [i \in 0 .. NumDrives |-> h[i]]
  OBVIOUS
<1>5. h = [i \in 0 .. NumDrives |-> Tell(h, i, ds, now, sub, overrun)]
  <2> HIDE DEF h
  <2> QED BY <1>3, <1>4
<1> HIDE DEF h
<1>6. Telling(h, ds, now, sub, overrun)
  BY <1>5, Zenon DEF Telling
<1> QED BY <1>6

LEMMA AllTold ==
    ASSUME NEW ds, NEW now \in Clock, NEW sub \in Clock, NEW old \in Clock, old = now + sub,
           NEW overrun \in Overruns, Told(ds, 0, now, old)
    PROVE  Told(PreventOverflowAll(ds, now, sub, overrun), NumDrives, now, old)
<1> DEFINE after == CHOOSE f : Telling(f, ds, now, sub, overrun)
<1>1. after = [i \in 0 .. NumDrives |-> Tell(after, i, ds, now, sub, overrun)]
  <2>1. Telling(after, ds, now, sub, overrun)
    BY TellingExists, Zenon
  <2> HIDE DEF after
  <2> QED BY <2>1, Zenon DEF Telling
<1>2. PreventOverflowAll(ds, now, sub, overrun) = after[NumDrives]
  BY Zenon DEF PreventOverflowAll, Telling, Tell
<1> HIDE DEF after
<1> DEFINE Bad == {i \in 0 .. NumDrives : ~Told(after[i], i, now, old)}
<1>3. Bad = {}
  <2> SUFFICES ASSUME Bad # {}  PROVE FALSE
    OBVIOUS
  <2>1. PICK i \in Bad : \A k \in Bad : i <= k
    <3>1. Bad \in SUBSET Nat
      OBVIOUS
    <3> HIDE DEF Bad
    <3> QED BY <3>1, LeastNatural
  <2>2. CASE i = 0
    <3>1. after[0] = ds
      BY <1>1, Constants DEF Tell
    <3> QED BY <2>2, <3>1
  <2>3. CASE i # 0
    <3>1. i \in Drives /\ i - 1 \in 0 .. NumDrives
      BY <2>3, Constants DEF Drives
    <3>2. i - 1 \notin Bad
      <4>1. i \in Nat
        OBVIOUS
      <4> HIDE DEF Bad
      <4> QED BY <2>1, <4>1
    <3>3. Told(after[i - 1], i - 1, now, old)
      BY <3>1, <3>2
    <3>4. after[i] = PreventOverflow(after[i - 1], i, now, sub, overrun)
      BY <1>1, <2>3 DEF Tell
    <3>5. Told(after[i], i, now, old)
      BY <3>1, <3>3, <3>4, PreventOverflowTells
    <3> QED BY <3>5
  <2> QED BY <2>2, <2>3
<1>4. Told(after[NumDrives], NumDrives, now, old)
  BY <1>3, Constants
<1> QED BY <1>2, <1>4
-----------------------------------------------------------------------------
(* Each action preserves the invariant.                                     *)

(* What the actions change of one drive.                                    *)
LEMMA LagGrows ==
    ASSUME NEW d \in DriveStates, NEW m \in Clock, NEW n \in Nat, m + n \in Clock,
           DriveInv(d, m)
    PROVE  /\ [d EXCEPT !.lag = d.lag + n] \in DriveStates
           /\ DriveInv([d EXCEPT !.lag = d.lag + n], m + n)
<1> DEFINE e == [d EXCEPT !.lag = d.lag + n]
<1>1. /\ e \in DriveStates /\ e.last = d.last /\ e.lag = d.lag + n /\ e.enable = d.enable
      /\ e.upset = d.upset /\ e.clk = d.clk /\ e.stop = d.stop /\ e.reset = d.reset
      /\ e.ahead = d.ahead /\ e.robbed = d.robbed
  BY ONLY d \in DriveStates, n \in Nat DEF DriveStates
<1> HIDE DEF e
<1>2. d.last + d.lag = m => d.last + (d.lag + n) = m + n
  BY Constants DEF DriveStates, Clock
<1>3. LastAt(e, m + n)
  BY <1>1, <1>2 DEF DriveInv, LastAt
<1>4. InStep(e) /\ Unstarted(e)
  BY <1>1 DEF DriveInv, InStep, Unstarted, Steady
<1>5. e \in DriveStates /\ DriveInv(e, m + n)
  BY <1>1, <1>3, <1>4 DEF DriveInv
<1> QED BY <1>5 DEF e

(* A drive that starts afresh.                                              *)
Fresh(d, m) ==
    /\ d.last = m /\ d.lag = 0 /\ d.ahead = 0 /\ ~d.robbed /\ d.stop = d.clk
    /\ Unstarted(d)
    /\ d.reset /\ d.clk # 0 => d.upset # {}

LEMMA FreshKeeps ==
    ASSUME NEW d \in DriveStates, NEW m \in Clock, Fresh(d, m)
    PROVE  DriveInv(d, m)
<1>1. LastAt(d, m)
  BY DEF Fresh, LastAt, Clock
<1>2. InStep(d)
  <2>1. d.clk + 0 = d.clk /\ d.clk \in 0 .. Modulus - 1
    BY DEF DriveStates, Clock
  <2>2. d.clk % Modulus = d.clk
    BY <2>1, Wraps
  <2>3. Plus(d.clk, 0) = d.clk
    BY <2>1, <2>2, Zenon DEF Plus
  <2> QED BY <2>3, Constants DEF Fresh, InStep
<1> QED BY <1>1, <1>2 DEF Fresh, DriveInv

LEMMA ResetFields ==
    ASSUME NEW d \in DriveStates, NEW m \in Clock, NEW e, e = ResetClocks(d, m)
    PROVE  /\ e \in DriveStates /\ e.last = m /\ e.lag = 0 /\ e.ahead = 0 /\ ~e.robbed
           /\ e.stop = 0 /\ e.clk = 0
<1>1. 0 \in Clock /\ 0 \in Nat /\ 0 \in Int
  BY Constants DEF Clock
<1>2. PICK none \in SUBSET {"guard", "reset", "asleep", "crossed", "overslept"} : none = {}
  OBVIOUS
<1>3. e = [d EXCEPT !.clk = 0, !.stop = 0, !.last = m, !.reset = TRUE,
                    !.lag = 0, !.ahead = 0, !.robbed = FALSE, !.upset = none]
  BY <1>2, Zenon DEF ResetClocks
<1>4. d \in DriveStates /\ m \in Clock
      /\ none \in SUBSET {"guard", "reset", "asleep", "crossed", "overslept"}
  OBVIOUS
<1> QED BY ONLY <1>1, <1>3, <1>4 DEF DriveStates

Started(d, m, upset) ==
    [d EXCEPT !.enable = TRUE, !.last = m, !.stop = d.clk, !.lag = 0,
              !.ahead = 0, !.robbed = FALSE, !.upset = upset]

LEMMA StartFields ==
    ASSUME NEW d \in DriveStates, NEW m \in Clock,
           NEW upset \in SUBSET {"guard", "reset", "asleep", "crossed", "overslept"}
    PROVE  /\ Started(d, m, upset) \in DriveStates
           /\ Started(d, m, upset).last = m /\ Started(d, m, upset).lag = 0
           /\ Started(d, m, upset).ahead = 0 /\ ~Started(d, m, upset).robbed
           /\ Started(d, m, upset).stop = d.clk /\ Started(d, m, upset).clk = d.clk
           /\ Started(d, m, upset).reset = d.reset /\ Started(d, m, upset).upset = upset
<1>1. d \in DriveStates /\ m \in Clock /\ 0 \in Nat /\ 0 \in Int
      /\ upset \in SUBSET {"guard", "reset", "asleep", "crossed", "overslept"}
  OBVIOUS
<1>2. PICK e : e = [d EXCEPT !.enable = TRUE, !.last = m, !.stop = d.clk, !.lag = 0,
                             !.ahead = 0, !.robbed = FALSE, !.upset = upset]
  OBVIOUS
<1>3. /\ e \in DriveStates /\ e.last = m /\ e.lag = 0 /\ e.ahead = 0 /\ ~e.robbed
      /\ e.stop = d.clk /\ e.clk = d.clk /\ e.reset = d.reset /\ e.upset = upset
  BY ONLY <1>1, <1>2 DEF DriveStates
<1>4. Started(d, m, upset) = e
  BY <1>2, Zenon DEF Started
<1> QED BY <1>3, <1>4, Zenon

(* All drives are run, or those that do not skip.                           *)
LEMMA SomeExecute ==
    ASSUME IInv, NEW ds, NEW S \in SUBSET Drives, NEW overrun \in Overruns,
           \A i \in S : drive[i].enable,
           ds = [i \in Drives |-> IF i \in S THEN Execute(drive[i], main, main, overrun[i])
                                  ELSE drive[i]]
    PROVE  ds \in [Drives -> DriveStates] /\ \A i \in Drives : DriveInv(ds[i], main)
<1>1. ASSUME NEW i \in Drives
      PROVE  ds[i] \in DriveStates /\ DriveInv(ds[i], main)
  <2>1. drive[i] \in DriveStates /\ main \in Clock /\ overrun[i] \in 0 .. MaxStep
        /\ DriveInv(drive[i], main)
    BY DEF IInv, TypeOK, Overruns
  <2>2. CASE i \in S
    <3>1. ds[i] = Execute(drive[i], main, main, overrun[i])
      BY <2>2
    <3> QED BY <2>1, <2>2, <3>1, ExecuteNow
  <2>3. CASE i \notin S
    BY <2>1, <2>3
  <2> QED BY <2>2, <2>3
<1>2. DOMAIN ds = Drives /\ ds = [i \in Drives |-> ds[i]]
  OBVIOUS
<1> QED BY <1>1, <1>2

LEMMA InitKeeps == Init => IInv
<1> SUFFICES ASSUME Init  PROVE IInv
  OBVIOUS
<1>1. main \in Clock /\ frame \in 0 .. FrameLen /\ MainInv
  BY Constants DEF Init, Clock, MainInv
<1>2. ASSUME NEW i \in Drives
      PROVE  drive[i] \in DriveStates /\ Fresh(drive[i], main)
  <2>1. PICK e \in BOOLEAN, m \in IdleMethods :
            drive[i] = [enable |-> e, idle |-> m, reset |-> TRUE,
                        clk |-> 0, stop |-> 0, accum |-> 0, last |-> ResetClk,
                        lag |-> 0, ahead |-> 0, robbed |-> FALSE, upset |-> {}]
    BY DEF Init
  <2>2. 0 \in Clock /\ ResetClk \in Clock /\ 0 \in 0 .. One - 1 /\ main = ResetClk
    BY Constants DEF Clock, Init
  <2> QED BY <2>1, <2>2 DEF DriveStates, Fresh, Unstarted
<1>3. drive \in [Drives -> DriveStates]
  <2>1. drive = [i \in Drives |-> drive[i]]
    BY DEF Init
  <2> QED BY <1>2, <2>1
<1> QED BY <1>1, <1>2, <1>3, FreshKeeps DEF IInv, TypeOK

LEMMA RunKeeps ==
    ASSUME IInv, NEW n \in 1 .. FrameLen, Run(n)
    PROVE  IInv'
<1>1. main \in Nat /\ frame \in Nat /\ n \in Nat /\ frame + n <= FrameLen
      /\ frame' = frame + n /\ main < GuardMax + frame
  BY Constants DEF IInv, TypeOK, Clock, Run, MainInv
<1>2. main + n < GuardMax + (frame + n) /\ main + n \in Clock
  BY <1>1, Constants DEF Clock
<1>3. main' = main + n
  <2>1. (main + n) % Modulus = main + n
    BY <1>2, Wraps DEF Clock
  <2> QED BY <2>1 DEF Run, Plus
<1>4. main' \in Clock /\ frame' \in 0 .. FrameLen /\ MainInv'
  BY <1>1, <1>2, <1>3 DEF MainInv
<1>5. ASSUME NEW i \in Drives
      PROVE  drive'[i] \in DriveStates /\ DriveInv(drive'[i], main')
  <2>1. /\ drive[i] \in DriveStates /\ DriveInv(drive[i], main) /\ main \in Clock
        /\ drive'[i] = IF drive[i].enable THEN [drive[i] EXCEPT !.lag = drive[i].lag + n]
                       ELSE drive[i]
    BY DEF IInv, TypeOK, Run
  <2>2. CASE drive[i].enable
    BY <1>1, <1>2, <1>3, <2>1, <2>2, LagGrows
  <2>3. CASE ~drive[i].enable
    BY <2>1, <2>3 DEF DriveInv, LastAt
  <2> QED BY <2>2, <2>3
<1>6. drive' \in [Drives -> DriveStates]
  <2>1. drive' = [i \in Drives |-> drive'[i]]
    BY DEF Run
  <2> QED BY <1>5, <2>1
<1> QED BY <1>4, <1>5, <1>6 DEF IInv, TypeOK

LEMMA SerialAccessKeeps ==
    ASSUME IInv, SerialAccess
    PROVE  IInv'
<1>1. PICK overrun \in Overruns : drive' = ExecuteAll(drive, main, main, overrun)
  BY DEF SerialAccess
<1> DEFINE S == {i \in Drives : drive[i].enable}
<1>2. drive' = [i \in Drives |-> IF i \in S THEN Execute(drive[i], main, main, overrun[i])
                                 ELSE drive[i]]
  BY <1>1 DEF ExecuteAll
<1>3. S \in SUBSET Drives /\ \A i \in S : drive[i].enable
  OBVIOUS
<1> HIDE DEF S
<1>4. drive' \in [Drives -> DriveStates] /\ \A i \in Drives : DriveInv(drive'[i], main)
  BY <1>2, <1>3, SomeExecute
<1> QED BY <1>4 DEF SerialAccess, IInv, TypeOK, MainInv

LEMMA VsyncKeeps ==
    ASSUME IInv, Vsync
    PROVE  IInv'
<1> DEFINE sub == MainSub(main)
           now == main - sub
<1>1. main \in Clock /\ main < GuardMax + FrameLen /\ frame' = 0
  BY DEF IInv, TypeOK, MainInv, Vsync
<1>2. sub \in 0 .. GuardSub(main) /\ sub > GuardSub(main) - FrameLen
  BY <1>1, FramesMoved
<1>3. main' = now
  BY DEF Vsync
<1>4. PICK overrun \in Overruns, again \in Overruns :
          drive' = PreventOverflowAll(VsyncHook(drive, main, overrun), now, sub, again)
  BY DEF Vsync
<1> HIDE DEF sub
<1>5. sub \in Clock /\ now \in Clock /\ main = now + sub /\ now < GuardMax
  <2>1. CASE main < GuardMax
    BY <2>1, <1>1, <1>2, Constants DEF GuardSub, Clock
  <2>2. CASE ~(main < GuardMax)
    BY <2>2, <1>1, <1>2, Constants DEF GuardSub, Clock
  <2> QED BY <2>1, <2>2
<1> HIDE DEF now
<1> DEFINE S == {i \in Drives : drive[i].enable /\ drive[i].idle # "SKIP_CYCLES"}
           ds == VsyncHook(drive, main, overrun)
<1>6. ds = [i \in Drives |-> IF i \in S THEN Execute(drive[i], main, main, overrun[i])
                             ELSE drive[i]]
  BY DEF VsyncHook
<1>7. S \in SUBSET Drives /\ \A i \in S : drive[i].enable
  OBVIOUS
<1> HIDE DEF S, ds
<1>8. ds \in [Drives -> DriveStates] /\ \A i \in Drives : DriveInv(ds[i], main)
  BY <1>6, <1>7, SomeExecute
<1>9. Told(ds, 0, now, main)
  <2>1. \A j \in Drives : ~(j <= 0)
    BY Constants DEF Drives
  <2> QED BY <1>8, <2>1 DEF Told
<1>10. Told(drive', NumDrives, now, main)
  BY <1>1, <1>4, <1>5, <1>9, AllTold DEF ds
<1>11. drive' \in [Drives -> DriveStates] /\ \A j \in Drives : DriveInv(drive'[j], now)
  <2>1. \A j \in Drives : j <= NumDrives
    BY Constants DEF Drives
  <2> QED BY <1>10, <2>1 DEF Told
<1>12. MainInv' /\ frame' \in 0 .. FrameLen
  BY <1>1, <1>3, <1>5, Constants DEF MainInv, Clock
<1> QED BY <1>3, <1>5, <1>11, <1>12 DEF IInv, TypeOK

LEMMA MachineResetKeeps ==
    ASSUME IInv, MachineReset
    PROVE  IInv'
<1>1. main' \in Clock /\ frame' \in 0 .. FrameLen /\ MainInv' /\ main' = ResetClk
  BY Constants DEF MachineReset, Clock, MainInv
<1>2. ASSUME NEW i \in Drives
      PROVE  drive'[i] \in DriveStates /\ Fresh(drive'[i], main')
  <2>1. drive'[i] = ResetClocks(drive[i], main') /\ drive[i] \in DriveStates
    BY <1>1 DEF MachineReset, IInv, TypeOK
  <2>2. 0 \in Clock
    BY Constants DEF Clock
  <2> DEFINE e == ResetClocks(drive[i], main')
  <2>3. /\ e \in DriveStates /\ e.last = main' /\ e.lag = 0 /\ e.ahead = 0 /\ ~e.robbed
        /\ e.stop = 0 /\ e.clk = 0
    <3>1. drive[i] \in DriveStates /\ main' \in Clock
      BY <1>1, <2>1
    <3> QED BY <3>1, ResetFields
  <2> HIDE DEF e
  <2>4. e \in DriveStates /\ Fresh(e, main')
    BY <2>3 DEF Fresh, Unstarted
  <2> QED BY <2>1, <2>4 DEF e
<1>3. drive' \in [Drives -> DriveStates]
  <2>1. drive' = [i \in Drives |-> drive'[i]]
    BY DEF MachineReset
  <2> QED BY <1>2, <2>1
<1> QED BY <1>1, <1>2, <1>3, FreshKeeps DEF IInv, TypeOK

LEMMA TrueDriveOffKeeps ==
    ASSUME IInv, TrueDriveOff
    PROVE  IInv'
<1>1. ASSUME NEW i \in Drives
      PROVE  drive'[i] \in DriveStates /\ DriveInv(drive'[i], main)
  <2>1. /\ drive[i] \in DriveStates /\ DriveInv(drive[i], main)
        /\ drive'[i] = [drive[i] EXCEPT !.enable = FALSE, !.lag = 0]
    BY DEF TrueDriveOff, IInv, TypeOK
  <2> DEFINE e == [drive[i] EXCEPT !.enable = FALSE, !.lag = 0]
  <2>2. /\ e \in DriveStates /\ ~e.enable /\ e.reset = drive[i].reset
        /\ e.upset = drive[i].upset /\ e.clk = drive[i].clk
    <3>1. drive[i] \in DriveStates
      BY <2>1
    <3> QED BY ONLY <3>1 DEF DriveStates
  <2> HIDE DEF e
  <2>3. e \in DriveStates /\ DriveInv(e, main)
    BY <2>1, <2>2 DEF DriveInv, LastAt, InStep, Steady, Unstarted
  <2> QED BY <2>1, <2>3 DEF e
<1>2. drive' \in [Drives -> DriveStates]
  <2>1. drive' = [i \in Drives |-> drive'[i]]
    BY DEF TrueDriveOff
  <2> QED BY <1>1, <2>1
<1> QED BY <1>1, <1>2 DEF TrueDriveOff, IInv, TypeOK, MainInv

LEMMA TrueDriveOnKeeps ==
    ASSUME IInv, TrueDriveOn
    PROVE  IInv'
<1>1. ASSUME NEW i \in Drives
      PROVE  drive'[i] \in DriveStates /\ Fresh(drive'[i], main)
  <2>1. /\ drive[i] \in DriveStates /\ Unstarted(drive[i]) /\ main \in Clock
        /\ drive'[i] = [drive[i] EXCEPT !.enable = TRUE, !.last = main,
                                        !.stop = drive[i].clk, !.lag = 0,
                                        !.ahead = 0, !.robbed = FALSE,
                                        !.upset = Unserved(drive[i])]
    BY DEF TrueDriveOn, IInv, TypeOK, DriveInv
  <2>2. Unserved(drive[i]) \in SUBSET {"guard", "reset", "asleep", "crossed", "overslept"}
    BY DEF Unserved
  <2> DEFINE upset == Unserved(drive[i])
             e == Started(drive[i], main, upset)
  <2>3. drive'[i] = e
    BY <2>1, Zenon DEF Started
  <2>4. /\ drive[i].reset /\ drive[i].clk # 0 => upset # {}
        /\ drive[i].reset /\ "reset" \notin upset => drive[i].clk = 0
    BY <2>1 DEF Unserved, Unstarted
  <2> HIDE DEF upset
  <2>5. /\ e \in DriveStates /\ e.last = main /\ e.lag = 0
        /\ e.ahead = 0 /\ ~e.robbed /\ e.stop = drive[i].clk
        /\ e.clk = drive[i].clk /\ e.reset = drive[i].reset /\ e.upset = upset
    <3>1. drive[i] \in DriveStates /\ main \in Clock
          /\ upset \in SUBSET {"guard", "reset", "asleep", "crossed", "overslept"}
      BY <2>1, <2>2 DEF upset
    <3> QED BY <3>1, StartFields
  <2> HIDE DEF e
  <2>6. e \in DriveStates /\ Fresh(e, main)
    BY <2>4, <2>5 DEF Fresh, Unstarted
  <2> QED BY <2>3, <2>6
<1>2. drive' \in [Drives -> DriveStates]
  <2>1. drive' = [i \in Drives |-> drive'[i]]
    BY DEF TrueDriveOn
  <2> QED BY <1>1, <2>1
<1>3. main \in Clock /\ \A i \in Drives : DriveInv(drive'[i], main)
  BY <1>1, FreshKeeps DEF IInv, TypeOK
<1> QED BY <1>2, <1>3 DEF TrueDriveOn, IInv, TypeOK, MainInv

LEMMA SetIdleMethodKeeps ==
    ASSUME IInv, NEW i \in Drives, NEW method \in IdleMethods, SetIdleMethod(i, method)
    PROVE  IInv'
<1>1. /\ drive[i] \in DriveStates /\ DriveInv(drive[i], main)
      /\ drive' = [drive EXCEPT ![i] = [drive[i] EXCEPT !.idle = method]]
  BY DEF SetIdleMethod, IInv, TypeOK
<1> DEFINE e == [drive[i] EXCEPT !.idle = method]
<1>2. /\ e \in DriveStates /\ e.last = drive[i].last /\ e.lag = drive[i].lag
      /\ e.enable = drive[i].enable /\ e.upset = drive[i].upset /\ e.clk = drive[i].clk
      /\ e.stop = drive[i].stop /\ e.reset = drive[i].reset /\ e.ahead = drive[i].ahead
      /\ e.robbed = drive[i].robbed
  BY ONLY <1>1, method \in IdleMethods DEF DriveStates
<1>3. drive' = [drive EXCEPT ![i] = e]
  BY <1>1
<1> HIDE DEF e
<1>4. DriveInv(e, main)
  BY <1>1, <1>2 DEF DriveInv, LastAt, InStep, Steady, Unstarted
<1> QED BY <1>2, <1>3, <1>4 DEF SetIdleMethod, IInv, TypeOK, MainInv

LEMMA ResetDriveKeeps ==
    ASSUME IInv, NEW i \in Drives, ResetDrive(i)
    PROVE  IInv'
<1> DEFINE upset == drive[i].upset \cup {"reset"}
           e == [drive[i] EXCEPT !.reset = TRUE, !.upset = upset]
<1>1. /\ drive[i] \in DriveStates /\ DriveInv(drive[i], main)
      /\ drive' = [drive EXCEPT ![i] = e]
  BY DEF ResetDrive, IInv, TypeOK
<1>2. upset \in SUBSET {"guard", "reset", "asleep", "crossed", "overslept"}
  BY <1>1 DEF DriveStates
<1>3. "crossed" \in upset <=> "crossed" \in drive[i].upset
  OBVIOUS
<1>4. "reset" \in upset /\ upset # {}
  OBVIOUS
<1> HIDE DEF upset
<1>5. /\ e \in DriveStates /\ e.last = drive[i].last /\ e.lag = drive[i].lag
      /\ e.enable = drive[i].enable /\ e.upset = upset
  BY ONLY <1>1, <1>2 DEF DriveStates
<1> HIDE DEF e
<1>6. DriveInv(e, main)
  BY <1>1, <1>3, <1>4, <1>5 DEF DriveInv, LastAt, InStep, Steady, Unstarted
<1> QED BY <1>1, <1>5, <1>6 DEF ResetDrive, IInv, TypeOK, MainInv

LEMMA NextKeeps == IInv /\ [Next]_vars => IInv'
<1> SUFFICES ASSUME IInv, [Next]_vars  PROVE IInv'
  OBVIOUS
<1>1. CASE UNCHANGED vars
  BY <1>1 DEF vars, IInv, TypeOK, MainInv
<1>2. CASE Next
  BY <1>2, RunKeeps, SerialAccessKeeps, VsyncKeeps, MachineResetKeeps, TrueDriveOffKeeps,
     TrueDriveOnKeeps, SetIdleMethodKeeps, ResetDriveKeeps DEF Next
<1> QED BY <1>1, <1>2

LEMMA InvariantHolds == Spec => []IInv
BY InitKeeps, NextKeeps, PTL DEF Spec

-----------------------------------------------------------------------------
(* The clocks and what is known of the drives stay in their ranges: no      *)
(* clock runs over, whatever drives there are and however long they sleep.  *)
THEOREM DriveTypes == Spec => []TypeOK
<1>1. IInv => TypeOK
  BY DEF IInv
<1> QED BY <1>1, InvariantHolds, PTL

(* drivecpu_prevent_clk_overflow keeps a drive's last_clk at the main CPU   *)
(* clock it was last run up to (drivecpu.c:261-275).                        *)
THEOREM LastClkAlwaysTrue == Spec => []LastClkTrue
<1>1. IInv => LastClkTrue
  <2> SUFFICES ASSUME IInv, NEW i \in Drives, drive[i].enable,
                      "crossed" \notin drive[i].upset
               PROVE  drive[i].last = Minus(main, drive[i].lag)
    BY DEF LastClkTrue
  <2>1. /\ drive[i].last + drive[i].lag = main /\ drive[i].last \in Clock
        /\ drive[i].lag \in Nat /\ main \in Clock
    BY DEF IInv, TypeOK, DriveInv, LastAt, DriveStates
  <2>2. main - drive[i].lag = drive[i].last /\ drive[i].last \in 0 .. Modulus - 1
    BY <2>1 DEF Clock
  <2>3. drive[i].last % Modulus = drive[i].last
    BY <2>2, Wraps
  <2> QED BY <2>2, <2>3, Zenon DEF Minus
<1> QED BY <1>1, InvariantHolds, PTL

(* drivecpu_execute never runs a drive for more than the main CPU cycles    *)
(* it is due, but for the end of its last step (drivecpu.c:367-368).        *)
THEOREM NeverAheadOfMain == Spec => []NeverAhead
<1>1. IInv => NeverAhead
  BY Constants DEF IInv, NeverAhead, DriveInv, InStep
<1> QED BY <1>1, InvariantHolds, PTL

(* Nor for fewer.                                                           *)
THEOREM NeverBehindMain == Spec => []NeverBehind
<1>1. IInv => NeverBehind
  BY Constants DEF IInv, NeverBehind, DriveInv, InStep
<1> QED BY <1>1, InvariantHolds, PTL

(* drivecpu_wake_up gives up cycles of a drive only that slept for longer   *)
(* than it says (drivecpu.c:236-243).                                       *)
THEOREM OnlyLongSleepsSkip == Spec => []OnlyLongSleepSkips
<1>1. IInv => OnlyLongSleepSkips
  BY DEF IInv, OnlyLongSleepSkips, DriveInv, InStep
<1> QED BY <1>1, InvariantHolds, PTL
=============================================================================
