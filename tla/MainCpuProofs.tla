--------------------------- MODULE MainCpuProofs ----------------------------
(***************************************************************************)
(* The main CPU's loop never loses an alarm to the clock guard, enters for  *)
(* an NMI only to serve it, and lets no interrupt wait for long: invariants *)
(* of module MainCpu for all values of its constants.                       *)
(*                                                                         *)
(* The first argument is about how late the program can be.  Time goes on   *)
(* only where no alarm is due, by 8 cycles at most, so no alarm is ever     *)
(* more than 7 cycles late (Timely), in particular not the one that ends    *)
(* the frame and moves the clocks back: the clock does not get past the     *)
(* guard's limit by more than a frame and 7 cycles (ClockBounded), where    *)
(* there is still room for every alarm, and what is subtracted is less than *)
(* any clock that is kept.                                                  *)
(***************************************************************************)
EXTENDS MainCpu, TLAPS

Late == 7

ClockBounded ==
    /\ clk \in ResetClk .. (GuardMax + FrameLen + Late)
    /\ due[Frame] # Never
    /\ due[Frame] < GuardMax + FrameLen /\ due[Frame] <= clk + FrameLen

Timely ==
    \A a \in Alarms :
        due[a] = Never \/ (clk <= due[a] + Late /\ due[a] <= clk + SubMin - 10)

(* An entry that was begun for an NMI finds it old enough.                  *)
NmiReady ==
    at = "entry" /\ nmiTaken =>
        "NMI" \in status.global /\ clk >= status.nmiClk + IrqDelay

Inv ==
    /\ TypeOK /\ ClockBounded /\ Timely /\ NmiReady
    /\ at = "opcode" => AlarmsDone

-----------------------------------------------------------------------------
(* Each operation on the interrupt status leaves a status, and a waiting    *)
(* NMI as it is.                                                            *)

KeepsNmi(s, r) == "NMI" \in s.global => "NMI" \in r.global /\ r.nmiClk = s.nmiClk

LEMMA StatusFields ==
    ASSUME NEW s \in Statuses
    PROVE  /\ s.pending \in [Lines -> SUBSET LineKinds]
           /\ s.nirq \in Nat /\ s.nnmi \in Nat /\ s.global \in SUBSET Kinds
           /\ s.irqClk \in Clock /\ s.nmiClk \in Clock
           /\ s.irqPendingClk \in Clock /\ s.trap \in Traps \cup {NoTrap}
BY DEF Statuses

LEMMA PendingUpdate ==
    ASSUME NEW s \in Statuses, NEW l \in Lines, NEW k \in LineKinds
    PROVE  /\ [s.pending EXCEPT ![l] = @ \cup {k}] \in [Lines -> SUBSET LineKinds]
           /\ [s.pending EXCEPT ![l] = @ \ {k}] \in [Lines -> SUBSET LineKinds]
BY DEF Statuses

LEMMA Ends0 == 0 \in Clock /\ ClockMax \in Clock
BY ClockMaxAssumption DEF Clock

LEMMA AssertIrqKeeps ==
    ASSUME NEW s \in Statuses, NEW l \in Lines, NEW t \in Clock
    PROVE  AssertIrq(s, l, t) \in Statuses /\ KeepsNmi(s, AssertIrq(s, l, t))
<1> DEFINE r == AssertIrq(s, l, t)
           p == [s.pending EXCEPT ![l] = @ \cup {"IRQ"}]
           n == s.nirq + 1
           g == s.global \cup {"IRQ", "IRQPEND"}
<1>1. CASE "IRQ" \in s.pending[l]
  BY <1>1 DEF AssertIrq, KeepsNmi
<1>2. CASE "IRQ" \notin s.pending[l]
  <2>1. r = [s EXCEPT !.pending = p, !.nirq = n, !.global = g,
                      !.irqClk = t, !.irqPendingClk = ClockMax]
    BY <1>2 DEF AssertIrq, Statuses
  <2>2. p \in [Lines -> SUBSET LineKinds] /\ n \in Nat /\ g \in SUBSET Kinds
    BY PendingUpdate, StatusFields DEF LineKinds, Kinds
  <2>3. "NMI" \in s.global => "NMI" \in g
    OBVIOUS
  <2> HIDE DEF r, p, n, g
  <2>4. r \in Statuses /\ r.global = g /\ r.nmiClk = s.nmiClk
    BY <2>1, <2>2, Ends0 DEF Statuses
  <2> QED BY <2>3, <2>4 DEF KeepsNmi, r
<1> QED BY <1>1, <1>2

LEMMA ReleaseIrqKeeps ==
    ASSUME NEW s \in Statuses, NEW l \in Lines, NEW t \in Clock
    PROVE  ReleaseIrq(s, l, t) \in Statuses /\ KeepsNmi(s, ReleaseIrq(s, l, t))
<1> DEFINE r == ReleaseIrq(s, l, t)
           p == [s.pending EXCEPT ![l] = @ \ {"IRQ"}]
           n == s.nirq - 1
           g == IF n > 0 THEN s.global ELSE s.global \ {"IRQ"}
           c == IF n > 0 THEN s.irqPendingClk ELSE ClockAdd(t, IrqWindow)
<1>1. CASE "IRQ" \notin s.pending[l] \/ s.nirq = 0
  BY <1>1 DEF ReleaseIrq, KeepsNmi
<1>2. CASE ~("IRQ" \notin s.pending[l] \/ s.nirq = 0)
  <2>1. r = [s EXCEPT !.pending = p, !.nirq = n, !.global = g, !.irqPendingClk = c]
    BY <1>2 DEF ReleaseIrq, Statuses
  <2>2. p \in [Lines -> SUBSET LineKinds] /\ n \in Nat /\ g \in SUBSET Kinds
    BY <1>2, PendingUpdate, StatusFields DEF LineKinds
  <2>3. c \in Clock
    BY StatusFields, ClockMaxAssumption DEF ClockAdd, Clock, IrqWindow
  <2>4. "NMI" \in s.global => "NMI" \in g
    OBVIOUS
  <2> HIDE DEF r, p, n, g, c
  <2>5. r \in Statuses /\ r.global = g /\ r.nmiClk = s.nmiClk
    BY <2>1, <2>2, <2>3 DEF Statuses
  <2> QED BY <2>4, <2>5 DEF KeepsNmi, r
<1> QED BY <1>1, <1>2

LEMMA AssertNmiKeeps ==
    ASSUME NEW s \in Statuses, NEW l \in Lines, NEW t \in Clock
    PROVE  AssertNmi(s, l, t) \in Statuses /\ KeepsNmi(s, AssertNmi(s, l, t))
<1> DEFINE r == AssertNmi(s, l, t)
           p == [s.pending EXCEPT ![l] = @ \cup {"NMI"}]
           n == s.nnmi + 1
           first == s.nnmi = 0 /\ "NMI" \notin s.global
           g == IF first THEN s.global \cup {"NMI"} ELSE s.global
           c == IF first THEN t ELSE s.nmiClk
<1>1. CASE "NMI" \in s.pending[l]
  BY <1>1 DEF AssertNmi, KeepsNmi
<1>2. CASE "NMI" \notin s.pending[l]
  <2>1. r = [s EXCEPT !.pending = p, !.nnmi = n, !.global = g, !.nmiClk = c]
    BY <1>2 DEF AssertNmi, Statuses
  <2>2. p \in [Lines -> SUBSET LineKinds] /\ n \in Nat /\ g \in SUBSET Kinds /\ c \in Clock
    BY PendingUpdate, StatusFields DEF LineKinds, Kinds
  <2>3. "NMI" \in s.global => "NMI" \in g /\ c = s.nmiClk
    OBVIOUS
  <2> HIDE DEF r, p, n, g, c, first
  <2>4. r \in Statuses /\ r.global = g /\ r.nmiClk = c
    BY <2>1, <2>2 DEF Statuses
  <2> QED BY <2>3, <2>4 DEF KeepsNmi, r
<1> QED BY <1>1, <1>2

LEMMA ReleaseNmiKeeps ==
    ASSUME NEW s \in Statuses, NEW l \in Lines
    PROVE  ReleaseNmi(s, l) \in Statuses /\ KeepsNmi(s, ReleaseNmi(s, l))
<1> DEFINE r == ReleaseNmi(s, l)
           p == [s.pending EXCEPT ![l] = @ \ {"NMI"}]
           n == s.nnmi - 1
<1>1. CASE "NMI" \notin s.pending[l] \/ s.nnmi = 0
  BY <1>1 DEF ReleaseNmi, KeepsNmi
<1>2. CASE ~("NMI" \notin s.pending[l] \/ s.nnmi = 0)
  <2>1. r = [s EXCEPT !.pending = p, !.nnmi = n]
    BY <1>2 DEF ReleaseNmi, Statuses
  <2>2. p \in [Lines -> SUBSET LineKinds] /\ n \in Nat
    BY <1>2, PendingUpdate, StatusFields DEF LineKinds
  <2> HIDE DEF r, p, n
  <2>3. r \in Statuses /\ r.global = s.global /\ r.nmiClk = s.nmiClk
    BY <2>1, <2>2 DEF Statuses
  <2> QED BY <2>3 DEF KeepsNmi, r
<1> QED BY <1>1, <1>2

LEMMA SetIntKeeps ==
    ASSUME NEW s \in Statuses, NEW l \in Lines, NEW kinds, NEW t \in Clock
    PROVE  SetInt(s, l, kinds, t) \in Statuses /\ KeepsNmi(s, SetInt(s, l, kinds, t))
<1> DEFINE n == IF "NMI" \in kinds THEN AssertNmi(s, l, t) ELSE ReleaseNmi(s, l)
<1>1. n \in Statuses /\ KeepsNmi(s, n)
  BY AssertNmiKeeps, ReleaseNmiKeeps
<1>2. SetInt(s, l, kinds, t) = IF "IRQ" \in kinds THEN AssertIrq(n, l, t)
                               ELSE ReleaseIrq(n, l, t)
  BY DEF SetInt
<1> HIDE DEF n
<1>3. /\ SetInt(s, l, kinds, t) \in Statuses
      /\ KeepsNmi(n, SetInt(s, l, kinds, t))
  BY <1>1, <1>2, AssertIrqKeeps, ReleaseIrqKeeps
<1> QED BY <1>1, <1>3 DEF KeepsNmi

LEMMA AckKeeps ==
    ASSUME NEW s \in Statuses
    PROVE  AckNmi(s) \in Statuses /\ AckIrq(s) \in Statuses /\ KeepsNmi(s, AckIrq(s))
<1>1. AckNmi(s) \in Statuses
  BY DEF AckNmi, Statuses
<1>2. /\ AckIrq(s) \in Statuses
      /\ AckIrq(s).global = s.global \ {"IRQPEND"} /\ AckIrq(s).nmiClk = s.nmiClk
  BY Ends0 DEF AckIrq, Statuses
<1> QED BY <1>1, <1>2 DEF KeepsNmi

LEMMA ExpireIrqKeeps ==
    ASSUME NEW s \in Statuses, NEW now
    PROVE  ExpireIrq(s, now) \in Statuses
BY AckKeeps DEF ExpireIrq

LEMMA DropReleasedIrqKeeps ==
    ASSUME NEW s \in Statuses
    PROVE  DropReleasedIrq(s) \in Statuses
BY DEF DropReleasedIrq, Statuses

LEMMA AskTrapKeeps ==
    ASSUME NEW s \in Statuses, NEW f \in Traps \cup {NoTrap}
    PROVE  AskTrap(s, f) \in Statuses /\ KeepsNmi(s, AskTrap(s, f))
<1>1. CASE f = NoTrap
  BY <1>1 DEF AskTrap, KeepsNmi
<1>2. CASE f # NoTrap
  <2>1. /\ TriggerTrap(s, f) \in Statuses
        /\ TriggerTrap(s, f).global = s.global \cup {"TRAP"}
        /\ TriggerTrap(s, f).nmiClk = s.nmiClk
    BY DEF TriggerTrap, Statuses, Kinds
  <2> QED BY <1>2, <2>1 DEF AskTrap, KeepsNmi
<1> QED BY <1>1, <1>2

LEMMA AskResetKeeps ==
    ASSUME NEW s \in Statuses, NEW reset \in BOOLEAN
    PROVE  AskReset(s, reset) \in Statuses /\ KeepsNmi(s, AskReset(s, reset))
<1>1. /\ TriggerReset(s) \in Statuses
      /\ TriggerReset(s).global = s.global \cup {"RESET"}
      /\ TriggerReset(s).nmiClk = s.nmiClk
  BY DEF TriggerReset, Statuses, Kinds
<1> QED BY <1>1 DEF AskReset, KeepsNmi

LEMMA AskedKeeps ==
    ASSUME NEW s \in Statuses, NEW f \in Traps \cup {NoTrap},
           NEW g \in Traps \cup {NoTrap}, NEW reset \in BOOLEAN
    PROVE  LET r == AskReset(AskTrap(AskTrap(s, f), g), reset)
           IN  r \in Statuses /\ KeepsNmi(s, r)
<1> DEFINE q == AskTrap(s, f)
           r == AskTrap(q, g)
<1>1. q \in Statuses /\ KeepsNmi(s, q)
  BY AskTrapKeeps
<1> HIDE DEF q
<1>2. r \in Statuses /\ KeepsNmi(q, r)
  BY <1>1, AskTrapKeeps
<1> HIDE DEF r
<1>3. AskReset(r, reset) \in Statuses /\ KeepsNmi(r, AskReset(r, reset))
  BY <1>2, AskResetKeeps
<1>4. KeepsNmi(s, AskReset(r, reset))
  BY <1>1, <1>2, <1>3 DEF KeepsNmi
<1> QED BY <1>3, <1>4 DEF q, r

LEMMA StatusResetType == StatusReset \in Statuses
BY Ends0 DEF StatusReset, Statuses

LEMMA ResetKeeps ==
    ASSUME NEW s \in Statuses
    PROVE  ResetKeepingMonitor(AckReset(s)) \in Statuses
<1>1. MonitorTrapOn(StatusReset) \in Statuses
  BY StatusResetType DEF MonitorTrapOn, Statuses, Kinds
<1> QED BY <1>1, StatusResetType DEF ResetKeepingMonitor

LEMMA BackType ==
    ASSUME NEW t \in Clock, NEW amount \in Nat
    PROVE  Back(t, amount) \in Clock
BY ClockMaxAssumption DEF Back, Clock

LEMMA StatusWarpType ==
    ASSUME NEW s \in Statuses, NEW amount \in Nat
    PROVE  /\ StatusWarp(s, amount) \in Statuses
           /\ StatusWarp(s, amount).global = s.global
           /\ StatusWarp(s, amount).nmiClk = Back(s.nmiClk, amount)
<1> DEFINE r == StatusWarp(s, amount)
           i == Back(s.irqClk, amount)
           n == Back(s.nmiClk, amount)
           p == IF s.irqPendingClk < ClockMax THEN Back(s.irqPendingClk, amount)
                ELSE s.irqPendingClk
<1>1. r = [s EXCEPT !.irqClk = i, !.nmiClk = n, !.irqPendingClk = p]
  BY DEF StatusWarp, Statuses
<1>2. i \in Clock /\ n \in Clock /\ p \in Clock
  BY StatusFields, BackType
<1> HIDE DEF r, i, n, p
<1>3. r \in Statuses /\ r.global = s.global /\ r.nmiClk = n
  BY <1>1, <1>2 DEF Statuses
<1> QED BY <1>3 DEF r, n

-----------------------------------------------------------------------------
(* Clocks.                                                                  *)

LEMMA Constants ==
    /\ SubMin \in Nat /\ FrameLen \in Nat /\ FrameLen >= 1 /\ ClockMax \in Nat
    /\ FrameLen + 10 <= SubMin /\ 2 * FrameLen < SubMin
    /\ GuardMax \in Nat /\ ClockMax = GuardMax + SubMin
    /\ SubMin + FrameLen + 9 <= GuardMax
    /\ ResetClk = 6 /\ Never = ClockMax
    /\ \A d \in Delays : d \in Nat /\ d >= 1 /\ d + FrameLen + 9 <= SubMin
BY MainCpuAssumption, ClockMaxAssumption DEF GuardMax, ResetClk, Never

(* What is said of the clocks, whatever the place.                          *)
ClocksGood ==
    clk \in Clock /\ due \in [Alarms -> Clock] /\ ClockBounded /\ Timely

LEMMA InvClocks == Inv => ClocksGood
BY DEF Inv, TypeOK, ClocksGood

LEMMA TimeGoesOn ==
    ASSUME ClocksGood, AlarmsDone, NEW n \in 0 .. 8, clk' = clk + n, due' = due
    PROVE  ClocksGood'
<1>1. clk \in Nat /\ due[Frame] \in Nat /\ clk >= 6
  BY Constants DEF ClocksGood, ClockBounded, Clock, Alarms
<1>2. clk < due[Frame]
  BY <1>1 DEF ClocksGood, ClockBounded, AlarmsDone, IsDue, Alarms
<1>3. clk' \in Clock /\ ClockBounded'
  <2>1. due[Frame] < GuardMax + FrameLen /\ due[Frame] <= clk + FrameLen /\ due[Frame] # Never
    BY DEF ClocksGood, ClockBounded
  <2>2. GuardMax' = GuardMax /\ Never' = Never
    BY DEF GuardMax, Never
  <2>3. clk + n \in 6 .. (GuardMax + FrameLen + Late)
    BY <1>1, <1>2, <2>1, Constants DEF Late
  <2>4. clk + n \in Clock
    BY <1>1, <2>3, Constants DEF Clock, Late
  <2> QED BY <1>1, <2>1, <2>2, <2>3, <2>4, Constants DEF ClockBounded
<1>4. Timely'
  <2> SUFFICES ASSUME NEW a \in Alarms, due[a] # Never
               PROVE  clk + n <= due[a] + Late /\ due[a] <= clk + n + SubMin - 10
    BY DEF Timely, Never
  <2>1. due[a] \in Nat /\ clk < due[a]
    BY <1>1 DEF AlarmsDone, IsDue, ClocksGood, Clock
  <2>2. due[a] <= clk + SubMin - 10
    BY DEF ClocksGood, Timely
  <2> QED BY <1>1, <2>1, <2>2, Constants DEF Late
<1> QED BY <1>3, <1>4 DEF ClocksGood

(* A chip sets its alarm, from a time that is not later than now.           *)
LEMMA ChipSets ==
    ASSUME ClocksGood, NEW l \in Lines, NEW next \in Clock, clk' = clk,
           due' = [due EXCEPT ![l] = next],
           next = Never \/ (clk <= next + Late /\ next <= clk + SubMin - 10)
    PROVE  ClocksGood'
<1>1. l \in Alarms /\ Frame \in Alarms /\ l # Frame
  BY MainCpuAssumption DEF Alarms
<1>2. due' \in [Alarms -> Clock] /\ due'[Frame] = due[Frame]
  BY <1>1 DEF ClocksGood
<1>3. GuardMax' = GuardMax
  BY DEF GuardMax
<1>4. clk' \in Clock /\ ClockBounded'
  BY <1>2, <1>3 DEF ClocksGood, ClockBounded
<1>5. Timely'
  <2> SUFFICES ASSUME NEW a \in Alarms
               PROVE  due'[a] = Never \/
                          (clk <= due'[a] + Late /\ due'[a] <= clk + SubMin - 10)
    BY DEF Timely, Never
  <2>1. CASE a = l
    BY <2>1, <1>1 DEF ClocksGood
  <2>2. CASE a # l
    <3>1. due'[a] = due[a]
      BY <2>2, <1>1 DEF ClocksGood
    <3> QED BY <3>1 DEF ClocksGood, Timely
  <2> QED BY <2>1, <2>2
<1> QED BY <1>2, <1>4, <1>5 DEF ClocksGood

LEMMA SetFrom ==
    ASSUME ClocksGood, NEW t \in Nat, NEW d \in Delays, t <= clk, clk <= t + Late
    PROVE  /\ t + d \in Clock
           /\ clk <= t + d + Late /\ t + d <= clk + SubMin - 10
<1>1. clk \in Nat /\ clk <= GuardMax + FrameLen + Late
  BY DEF ClocksGood, ClockBounded, Clock
<1> QED BY <1>1, Constants DEF Clock, Late

LEMMA ResetClocks ==
    ASSUME NEW d \in DueAfterReset
    PROVE  /\ ResetClk \in Clock /\ d \in [Alarms -> Clock]
           /\ d[Frame] # Never /\ d[Frame] = ResetClk + FrameLen
           /\ ResetClk \in ResetClk .. (GuardMax + FrameLen + Late)
           /\ d[Frame] < GuardMax + FrameLen
           /\ \A a \in Alarms : d[a] = Never \/
                  (ResetClk <= d[a] + Late /\ d[a] <= ResetClk + SubMin - 10)
<1>1. /\ d \in [Alarms -> {Never} \cup {ResetClk + e : e \in Delays \cup {FrameLen}}]
      /\ d[Frame] = ResetClk + FrameLen
  BY DEF DueAfterReset
<1>2. \A e \in Delays \cup {FrameLen} :
          e \in Nat /\ e >= 1 /\ e + 10 <= SubMin /\ ResetClk + e \in Clock
  BY Constants DEF Clock
<1>3. \A a \in Alarms : d[a] = Never \/
          \E e \in Delays \cup {FrameLen} : d[a] = ResetClk + e
  BY <1>1
<1>4. \A a \in Alarms : /\ d[a] \in Clock
                        /\ d[a] = Never \/
                             (ResetClk <= d[a] + Late /\ d[a] <= ResetClk + SubMin - 10)
  BY <1>2, <1>3, Constants DEF Clock, Late
<1>5. ResetClk \in Clock /\ ResetClk \in ResetClk .. (GuardMax + FrameLen + Late)
  BY Constants DEF Clock, Late
<1>6. d[Frame] # Never /\ d[Frame] < GuardMax + FrameLen
  BY <1>1, Constants
<1> QED BY <1>1, <1>4, <1>5, <1>6

LEMMA ResetGood ==
    ASSUME clk' = ResetClk, due' \in DueAfterReset
    PROVE  ClocksGood'
<1>1. GuardMax' = GuardMax
  BY DEF GuardMax
<1>2. due'[Frame] <= clk' + FrameLen
  BY ResetClocks, Constants
<1> QED BY <1>1, <1>2, ResetClocks DEF ClocksGood, ClockBounded, Timely

LEMMA MovedBack ==
    ASSUME NEW t \in Nat, NEW amount \in Nat, t < ClockMax, amount <= t
    PROVE  Moved(t, amount) = t - amount
BY ClockMaxAssumption DEF Moved, Never, ClockSub

(* The clock guard: whether it moves the clocks or not, every alarm keeps   *)
(* its distance from now.                                                   *)
LEMMA GuardMoves ==
    ASSUME ClocksGood, IsDue(Frame)
    PROVE  /\ GuardSub \in Nat /\ GuardSub <= clk
           /\ GuardSub # 0 => clk - GuardSub >= SubMin
           /\ clk - GuardSub < GuardMax /\ clk - GuardSub >= ResetClk
           /\ \A t \in Nat : clk <= t + Late => GuardSub <= t
<1>1. clk \in Nat /\ clk >= 6 /\ clk <= GuardMax + FrameLen + Late
  BY Constants DEF ClocksGood, ClockBounded, Clock
<1>2. due[Frame] \in Nat /\ due[Frame] < GuardMax + FrameLen /\ due[Frame] <= clk
  BY DEF ClocksGood, ClockBounded, IsDue, Clock, Alarms
<1>3. CASE clk < GuardMax
  BY <1>1, <1>3, Constants DEF GuardSub
<1>4. CASE clk >= GuardMax
  <2>1. GuardSub = GuardMax - SubMin
    BY <1>1, <1>4, Constants DEF GuardSub
  <2> QED BY <1>1, <1>4, <2>1, Constants DEF Late
<1> QED BY <1>1, <1>3, <1>4, Constants

LEMMA FrameClocks ==
    ASSUME ClocksGood, IsDue(Frame), clk' = clk - GuardSub,
           due' = [a \in Alarms |-> Moved([due EXCEPT ![Frame] = @ + FrameLen][a], GuardSub)]
    PROVE  ClocksGood'
<1> DEFINE moved == [due EXCEPT ![Frame] = @ + FrameLen]
           sub == GuardSub
<1>1. clk \in Nat /\ clk <= GuardMax + FrameLen + Late
  BY Constants DEF ClocksGood, ClockBounded, Clock
<1>2. /\ sub \in Nat /\ sub <= clk /\ clk - sub < GuardMax /\ clk - sub >= ResetClk
      /\ \A t \in Nat : clk <= t + Late => sub <= t
  BY GuardMoves
<1>3. Frame \in Alarms
  BY DEF Alarms
<1>4. /\ due[Frame] \in Nat /\ due[Frame] < GuardMax + FrameLen
      /\ due[Frame] <= clk /\ clk <= due[Frame] + Late
  BY <1>3 DEF ClocksGood, ClockBounded, Timely, IsDue, Clock
<1>5. /\ moved[Frame] = due[Frame] + FrameLen
      /\ \A a \in Alarms : a # Frame => moved[a] = due[a]
  BY <1>3 DEF ClocksGood
<1>6. /\ due' = [a \in Alarms |-> Moved(moved[a], sub)]
      /\ clk' = clk - sub
  OBVIOUS
<1> HIDE DEF moved, sub
<1>7. \A a \in Alarms :
          moved[a] = Never \/
              /\ moved[a] \in Nat /\ moved[a] < ClockMax
              /\ clk <= moved[a] + Late /\ moved[a] <= clk + SubMin - 10
  <2> SUFFICES ASSUME NEW a \in Alarms, moved[a] # Never
               PROVE  /\ moved[a] \in Nat /\ moved[a] < ClockMax
                      /\ clk <= moved[a] + Late /\ moved[a] <= clk + SubMin - 10
    OBVIOUS
  <2>1. CASE a = Frame
    BY <2>1, <1>1, <1>4, <1>5, Constants DEF Late
  <2>2. CASE a # Frame
    <3>1. moved[a] = due[a] /\ due[a] \in Clock
      BY <2>2, <1>5 DEF ClocksGood
    <3>2. clk <= due[a] + Late /\ due[a] <= clk + SubMin - 10
      BY <3>1 DEF ClocksGood, Timely
    <3> QED BY <3>1, <3>2, Constants DEF Clock
  <2> QED BY <2>1, <2>2
<1>8. \A a \in Alarms :
          \/ moved[a] = Never /\ due'[a] = Never
          \/ /\ moved[a] # Never /\ due'[a] = moved[a] - sub
             /\ due'[a] \in Nat /\ due'[a] < ClockMax
             /\ clk' <= due'[a] + Late /\ due'[a] <= clk' + SubMin - 10
  <2> SUFFICES ASSUME NEW a \in Alarms
               PROVE  \/ moved[a] = Never /\ due'[a] = Never
                      \/ /\ moved[a] # Never /\ due'[a] = moved[a] - sub
                         /\ due'[a] \in Nat /\ due'[a] < ClockMax
                         /\ clk' <= due'[a] + Late /\ due'[a] <= clk' + SubMin - 10
    OBVIOUS
  <2>1. due'[a] = Moved(moved[a], sub)
    BY <1>6
  <2>2. CASE moved[a] = Never
    BY <2>1, <2>2 DEF Moved
  <2>3. CASE moved[a] # Never
    <3>1. /\ moved[a] \in Nat /\ moved[a] < ClockMax
          /\ clk <= moved[a] + Late /\ moved[a] <= clk + SubMin - 10
      BY <2>3, <1>7
    <3>2. sub <= moved[a]
      BY <3>1, <1>2
    <3>3. due'[a] = moved[a] - sub
      BY <2>1, <3>1, <3>2, <1>2, MovedBack
    <3> QED BY <2>3, <3>1, <3>2, <3>3, <1>1, <1>2, <1>6, Constants DEF Late
  <2> QED BY <2>2, <2>3
<1>9. due' \in [Alarms -> Clock]
  BY <1>6, <1>8, Constants DEF Clock
<1>10. GuardMax' = GuardMax /\ Never' = Never
  BY DEF GuardMax, Never
<1>11. clk' \in Clock /\ clk' \in ResetClk .. (GuardMax + FrameLen + Late)
  BY <1>1, <1>2, <1>6, Constants DEF Clock, Late
<1>12. due'[Frame] # Never /\ due'[Frame] < GuardMax + FrameLen /\ due'[Frame] <= clk' + FrameLen
  <2>1. moved[Frame] # Never
    BY <1>4, <1>5, Constants
  <2>2. due'[Frame] = moved[Frame] - sub /\ due'[Frame] < ClockMax
    BY <1>3, <1>8, <2>1
  <2> QED BY <2>2, <1>1, <1>2, <1>4, <1>5, <1>6, Constants
<1>13. ClockBounded'
  BY <1>10, <1>11, <1>12 DEF ClockBounded
<1>14. Timely'
  BY <1>8, <1>10, Constants DEF Timely
<1> QED BY <1>9, <1>11, <1>13, <1>14 DEF ClocksGood

-----------------------------------------------------------------------------
(* The invariant holds at first and every action keeps it.                  *)

RestTyped ==
    /\ status \in Statuses /\ iFlag \in BOOLEAN
    /\ op \in {"plain", "branch", "disables", "enables", "brk"}
    /\ at \in Places /\ ik \subseteq Kinds /\ nmiTaken \in BOOLEAN
    /\ irqWait \in Nat /\ nmiWait \in Nat /\ owed \subseteq Traps

LEMMA InvParts ==
    Inv <=> /\ ClocksGood /\ RestTyped /\ NmiReady
            /\ at = "opcode" => AlarmsDone
BY DEF Inv, ClocksGood, RestTyped, TypeOK

LEMMA InvPartsPrimed ==
    ASSUME ClocksGood', RestTyped', NmiReady', (at = "opcode" => AlarmsDone)'
    PROVE  Inv'
BY DEF Inv, ClocksGood, RestTyped, TypeOK

LEMMA InitInv == Init => Inv
<1> SUFFICES ASSUME Init PROVE Inv
  OBVIOUS
<1>1. clk = ResetClk /\ due \in DueAfterReset /\ at = "after"
  BY DEF Init
<1>2. ClocksGood
  BY <1>1, ResetClocks, Constants DEF ClocksGood, ClockBounded, Timely
<1>3. RestTyped
  BY StatusResetType DEF Init, RestTyped, Places
<1>4. NmiReady
  BY <1>1 DEF NmiReady
<1> QED BY <1>1, <1>2, <1>3, <1>4, InvParts

LEMMA CallChipStep ==
    ASSUME Inv, NEW l \in Lines, CallChip(l)
    PROVE  Inv'
<1>1. ClocksGood /\ RestTyped /\ NmiReady
  BY InvParts
<1>2. l \in Alarms /\ due[l] \in Clock /\ due[l] \in Nat /\ due[l] # Never /\ due[l] <= clk
  BY <1>1 DEF CallChip, IsDue, ClocksGood, Clock, Alarms
<1>3. clk <= due[l] + Late
  BY <1>1, <1>2 DEF ClocksGood, Timely
<1>4. PICK next \in Again(l) : due' = [due EXCEPT ![l] = next]
  BY DEF CallChip
<1>5. next = Never \/ \E d \in Delays : next = due[l] + d
  BY DEF Again
<1>6. next \in Clock /\ (next = Never \/ (clk <= next + Late /\ next <= clk + SubMin - 10))
  BY <1>1, <1>2, <1>3, <1>5, SetFrom, Ends0 DEF Never
<1>7. clk' = clk /\ at' = at /\ nmiTaken' = nmiTaken /\ at # "opcode"
  BY DEF CallChip, CallPlaces
<1>8. ClocksGood'
  BY <1>1, <1>4, <1>6, <1>7, ChipSets
<1>9. PICK kinds \in SUBSET Wires : status' = SetInt(status, l, kinds, due[l])
  BY DEF CallChip
<1>10. status' \in Statuses /\ KeepsNmi(status, status')
  BY <1>1, <1>2, <1>9, SetIntKeeps DEF RestTyped
<1>11. RestTyped'
  <2>1. irqWait' \in Nat
    BY <1>1 DEF CallChip, WaitsOn, RestTyped
  <2> QED BY <1>1, <1>10, <2>1 DEF CallChip, RestTyped
<1>12. NmiReady'
  BY <1>1, <1>7, <1>10 DEF NmiReady, KeepsNmi
<1> QED BY <1>7, <1>8, <1>11, <1>12, InvPartsPrimed

LEMMA CallFrameStep ==
    ASSUME Inv, CallFrame
    PROVE  Inv'
<1>1. ClocksGood /\ RestTyped /\ NmiReady /\ IsDue(Frame)
  BY InvParts DEF CallFrame
<1>2. /\ clk' = clk - GuardSub
      /\ due' = [a \in Alarms |-> Moved([due EXCEPT ![Frame] = @ + FrameLen][a], GuardSub)]
  BY DEF CallFrame
<1>3. ClocksGood'
  BY <1>1, <1>2, FrameClocks
<1>4. /\ at' = at /\ nmiTaken' = nmiTaken /\ at # "opcode"
      /\ UNCHANGED <<iFlag, op, ik, irqWait, nmiWait>>
  BY DEF CallFrame, HandlesPendingAlarms, CallPlaces
<1>5. PICK f \in Traps \cup {NoTrap}, g \in Traps \cup {NoTrap}, reset \in BOOLEAN :
          LET asked == AskReset(AskTrap(AskTrap(status, f), g), reset)
          IN  /\ status' = IF GuardSub = 0 THEN asked ELSE StatusWarp(asked, GuardSub)
              /\ owed' = owed \cup ({f, g} \ {NoTrap})
  BY DEF CallFrame
<1> DEFINE asked == AskReset(AskTrap(AskTrap(status, f), g), reset)
<1>6. asked \in Statuses /\ KeepsNmi(status, asked)
  BY <1>1, AskedKeeps DEF RestTyped
<1>7. status' = IF GuardSub = 0 THEN asked ELSE StatusWarp(asked, GuardSub)
  BY <1>5
<1> HIDE DEF asked
<1>8. GuardSub \in Nat /\ (GuardSub # 0 => clk - GuardSub >= SubMin)
  BY <1>1, GuardMoves
<1>9. status' \in Statuses
  BY <1>6, <1>7, <1>8, StatusWarpType
<1>10. RestTyped'
  BY <1>1, <1>4, <1>5, <1>9 DEF RestTyped
<1>11. NmiReady'
  <2> SUFFICES ASSUME at = "entry", nmiTaken
               PROVE  "NMI" \in status'.global /\ clk' >= status'.nmiClk + IrqDelay
    BY <1>4 DEF NmiReady
  <2>1. /\ "NMI" \in asked.global
        /\ clk >= asked.nmiClk + 2 /\ asked.nmiClk \in Nat /\ clk \in Nat
    BY <1>1, <1>6, StatusFields DEF NmiReady, KeepsNmi, IrqDelay, ClocksGood, Clock
  <2>2. CASE GuardSub = 0
    BY <2>1, <2>2, <1>2, <1>7 DEF IrqDelay
  <2>3. CASE GuardSub # 0
    <3>1. "NMI" \in status'.global /\ status'.nmiClk = Back(asked.nmiClk, GuardSub)
      BY <2>1, <2>3, <1>6, <1>7, <1>8, StatusWarpType
    <3> QED BY <2>1, <2>3, <3>1, <1>2, <1>8, Constants DEF Back, IrqDelay
  <2> QED BY <2>2, <2>3
<1> QED BY <1>3, <1>4, <1>10, <1>11, InvPartsPrimed

LEMMA CheckStep ==
    ASSUME Inv, Check
    PROVE  Inv'
<1> DEFINE s == ExpireIrq(status, clk)
           enters == TakesNmi(s) \/ (IrqAllowed(s) /\ op # "enables")
           postponed == ~TakesNmi(s) /\ IrqAllowed(s) /\ op = "enables"
           marked == [s EXCEPT !.global = @ \cup {"IRQPEND"}]
<1>1. ClocksGood /\ RestTyped /\ AlarmsDone
  BY InvParts DEF Check
<1>2. s \in Statuses
  BY <1>1, ExpireIrqKeeps DEF RestTyped
<1>3. /\ status' = IF postponed THEN marked ELSE s
      /\ ik' = s.global /\ nmiTaken' = TakesNmi(s)
      /\ clk' = IF enters THEN clk + 5 ELSE clk
      /\ iFlag' = (iFlag \/ enters)
      /\ at' = IF s.global = {} THEN "opcode" ELSE IF enters THEN "entry" ELSE "traps"
      /\ UNCHANGED <<due, op, irqWait, nmiWait, owed>>
  BY DEF Check
<1>4. /\ TakesNmi(s) \in BOOLEAN /\ IrqAllowed(s) \in BOOLEAN
      /\ TakesNmi(s) => /\ "NMI" \in s.global /\ enters /\ ~postponed
                        /\ DelayOver(s.nmiClk)
      /\ s.global = {} => ~enters
  BY DEF TakesNmi, IrqAllowed
<1>5. s.nmiClk \in Nat /\ clk \in Nat
  BY <1>1, <1>2, StatusFields DEF ClocksGood, Clock
<1>6. DelayOver(s.nmiClk) => clk >= s.nmiClk + IrqDelay
  BY <1>5 DEF DelayOver, IrqDelay
<1>7. marked \in Statuses
  BY <1>2 DEF Statuses, Kinds
<1>8. s.global \subseteq Kinds
  BY <1>2, StatusFields
<1> HIDE DEF s, marked
<1>9. ClocksGood'
  <2>1. \E n \in 0 .. 8 : clk' = clk + n
    BY <1>3, <1>5
  <2> QED BY <1>1, <1>3, <2>1, TimeGoesOn
<1>10. RestTyped'
  <2>1. status' \in Statuses
    BY <1>2, <1>3, <1>7
  <2>2. iFlag' \in BOOLEAN /\ nmiTaken' \in BOOLEAN
    BY <1>3, <1>4
  <2>3. at' \in Places
    BY <1>3 DEF Places
  <2> QED BY <1>1, <1>3, <1>8, <2>1, <2>2, <2>3 DEF RestTyped
<1>11. NmiReady'
  <2> SUFFICES ASSUME nmiTaken'
               PROVE  "NMI" \in status'.global /\ clk' >= status'.nmiClk + IrqDelay
    BY DEF NmiReady
  <2>1. TakesNmi(s)
    BY <1>3
  <2>2. status' = s /\ clk' = clk + 5
    BY <1>3, <1>4, <2>1
  <2> QED BY <1>4, <1>5, <1>6, <2>1, <2>2 DEF IrqDelay
<1>12. (at = "opcode" => AlarmsDone)'
  <2> SUFFICES ASSUME at' = "opcode" PROVE AlarmsDone'
    OBVIOUS
  <2>1. clk' = clk /\ due' = due
    BY <1>3, <1>4
  <2> QED BY <1>1, <2>1 DEF AlarmsDone, IsDue, Never
<1> QED BY <1>9, <1>10, <1>11, <1>12, InvPartsPrimed

LEMMA VectorStep ==
    ASSUME Inv, Vector
    PROVE  Inv'
<1>1. ClocksGood /\ RestTyped /\ AlarmsDone
  BY InvParts DEF Vector
<1>2. clk' = clk + 2 /\ due' = due /\ at' = "traps"
  BY DEF Vector
<1>3. ClocksGood'
  BY <1>1, <1>2, TimeGoesOn
<1>4. status' \in Statuses
  BY <1>1, AckKeeps DEF Vector, RestTyped
<1>5. RestTyped'
  BY <1>1, <1>4 DEF Vector, RestTyped, Places
<1> QED BY <1>2, <1>3, <1>5, InvPartsPrimed DEF NmiReady

LEMMA ServeKeeps ==
    ASSUME ClocksGood, NEW s \in Statuses, irqWait \in Nat, nmiWait \in Nat,
           ServeReset(s) \/ ServeNoReset(s)
    PROVE  ClocksGood' /\ status' \in Statuses /\ irqWait' \in Nat /\ nmiWait' \in Nat
<1>1. CASE ServeReset(s)
  <2>1. status' \in Statuses
    BY <1>1, ResetKeeps, DropReleasedIrqKeeps DEF ServeReset
  <2> QED BY <1>1, <2>1, ResetGood DEF ServeReset
<1>2. CASE ServeNoReset(s)
  <2>1. status' \in Statuses
    BY <1>2, DropReleasedIrqKeeps DEF ServeNoReset
  <2>2. ClocksGood'
    BY <1>2 DEF ServeNoReset, ClocksGood, ClockBounded, Timely, GuardMax, Never
  <2> QED BY <1>2, <2>1, <2>2 DEF ServeNoReset
<1> QED BY <1>1, <1>2

LEMMA ServeStep ==
    ASSUME Inv, Serve
    PROVE  Inv'
<1>1. ClocksGood /\ RestTyped
  BY InvParts
<1>2. at' = "after" /\ ik' = {} /\ UNCHANGED <<iFlag, op, nmiTaken>>
  BY DEF Serve
<1>3. /\ ClocksGood' /\ status' \in Statuses /\ irqWait' \in Nat /\ nmiWait' \in Nat
      /\ owed' \subseteq Traps
  <2>1. CASE \E f \in Traps \cup {NoTrap}, reset \in BOOLEAN : RunTrap(f, reset)
    <3>1. PICK f \in Traps \cup {NoTrap}, reset \in BOOLEAN : RunTrap(f, reset)
      BY <2>1
    <3> DEFINE s == AskReset(AskTrap(AckTrap(status), f), reset)
    <3>2. AckTrap(status) \in Statuses
      BY <1>1 DEF RestTyped, AckTrap, Statuses
    <3>3. s \in Statuses
      BY <3>2, AskTrapKeeps, AskResetKeeps
    <3>4. ServeReset(s) \/ ServeNoReset(s)
      BY <3>1 DEF RunTrap
    <3>5. owed' \subseteq Traps
      BY <3>1, <1>1 DEF RunTrap, RestTyped
    <3> HIDE DEF s
    <3> QED BY <1>1, <3>3, <3>4, <3>5, ServeKeeps DEF RestTyped
  <2>2. CASE (ServeReset(status) \/ ServeNoReset(status)) /\ owed' = owed
    BY <1>1, <2>2, ServeKeeps DEF RestTyped
  <2> QED BY <2>1, <2>2 DEF Serve
<1>4. RestTyped'
  BY <1>1, <1>2, <1>3 DEF RestTyped, Places
<1> QED BY <1>2, <1>3, <1>4, InvPartsPrimed DEF NmiReady

LEMMA FetchStep ==
    ASSUME Inv, Fetch
    PROVE  Inv'
<1>1. ClocksGood /\ RestTyped /\ AlarmsDone
  BY InvParts DEF Fetch
<1>2. at' = "opcode" /\ UNCHANGED <<clk, due, status, iFlag, op, ik, nmiTaken, irqWait, nmiWait, owed>>
  BY DEF Fetch
<1>3. ClocksGood' /\ AlarmsDone'
  BY <1>1, <1>2 DEF ClocksGood, ClockBounded, Timely, GuardMax, Never, AlarmsDone, IsDue
<1>4. RestTyped'
  BY <1>1, <1>2 DEF RestTyped, Places
<1> QED BY <1>2, <1>3, <1>4, InvPartsPrimed DEF NmiReady

LEMMA EndsTyped ==
    ASSUME RestTyped, status' \in Statuses, NEW n, NEW flag \in BOOLEAN,
           NEW kind \in {"plain", "branch", "disables", "enables", "brk"},
           NEW waited \in Nat, Ends(n, kind, flag, waited)
    PROVE  RestTyped' /\ NmiReady' /\ at' = "start"
<1>1. irqWait' \in Nat /\ nmiWait' \in Nat
  BY DEF RestTyped, Ends
<1> QED BY <1>1 DEF RestTyped, Ends, Places, NmiReady

LEMMA InsideStep ==
    ASSUME Inv, NEW n \in 0 .. 8, NEW flag \in BOOLEAN,
           NEW kind \in {"plain", "branch", "disables", "enables", "brk"},
           Inside(n, kind, flag)
    PROVE  Inv'
<1>1. ClocksGood /\ RestTyped /\ AlarmsDone
  BY InvParts DEF Inside
<1>2. due' = due /\ status' = status /\ Ends(n, kind, flag, irqWait)
  BY DEF Inside
<1>3. ClocksGood'
  BY <1>1, <1>2, TimeGoesOn DEF Ends
<1>4. RestTyped' /\ NmiReady' /\ at' = "start"
  BY <1>1, <1>2, EndsTyped DEF RestTyped
<1> QED BY <1>3, <1>4, InvPartsPrimed

LEMMA OpcodesStep ==
    ASSUME Inv,
           \/ \E n \in Lengths : Opcode(n)
           \/ Branch
           \/ \E n \in {2, 4}, flag \in BOOLEAN : SetI(n, flag)
           \/ \E flag \in BOOLEAN : Rti(flag)
    PROVE  Inv'
<1>1. iFlag \in BOOLEAN
  BY InvParts DEF RestTyped
<1>2. ASSUME NEW n \in Lengths, Opcode(n) PROVE Inv'
  <2>1. n \in 0 .. 8
    BY MainCpuAssumption
  <2> QED BY <1>1, <1>2, <2>1, InsideStep DEF Opcode
<1>3. CASE Branch
  BY <1>1, <1>3, InsideStep DEF Branch
<1>4. ASSUME NEW n \in {2, 4}, NEW flag \in BOOLEAN, SetI(n, flag) PROVE Inv'
  <2> DEFINE kind == IF flag = iFlag THEN "plain" ELSE IF flag THEN "disables" ELSE "enables"
  <2>1. kind \in {"plain", "branch", "disables", "enables", "brk"} /\ n \in 0 .. 8
    OBVIOUS
  <2>2. Inside(n, kind, flag)
    BY <1>4 DEF SetI
  <2> HIDE DEF kind
  <2> QED BY <2>1, <2>2, InsideStep
<1>5. ASSUME NEW flag \in BOOLEAN, Rti(flag) PROVE Inv'
  BY <1>5, InsideStep DEF Rti
<1> QED BY <1>2, <1>3, <1>4, <1>5

LEMMA ReachStep ==
    ASSUME Inv, NEW n \in Lengths, Reach(n)
    PROVE  Inv'
<1>1. ClocksGood /\ RestTyped /\ AlarmsDone
  BY InvParts DEF Reach
<1>2. n \in 0 .. 8
  BY MainCpuAssumption
<1>3. ClocksGood' /\ at' = "access"
  BY <1>1, <1>2, TimeGoesOn DEF Reach
<1>4. RestTyped'
  BY <1>1 DEF Reach, RestTyped, Places
<1> QED BY <1>3, <1>4, InvPartsPrimed DEF NmiReady

LEMMA AccessStep ==
    ASSUME Inv, NEW l \in Lines, NEW t \in {clk - 1, clk}, NEW kinds \in SUBSET Wires,
           Access(l, t, kinds)
    PROVE  Inv'
<1>1. ClocksGood /\ RestTyped
  BY InvParts
<1>2. t \in Nat /\ t \in Clock /\ t <= clk /\ clk <= t + Late /\ l \in Alarms /\ clk \in Nat
  BY <1>1, Constants DEF ClocksGood, ClockBounded, Clock, Late, Alarms
<1>3. status' = SetInt(status, l, kinds, t) /\ Ends(0, "plain", iFlag, WaitsOn(l, kinds))
  BY DEF Access
<1>4. PICK next \in {due[l], Never} \cup {t + d : d \in Delays} :
          due' = [due EXCEPT ![l] = next]
  BY DEF Access
<1>5. clk' = clk
  BY <1>2, <1>3 DEF Ends
<1>6. next \in Clock /\ (next = Never \/ (clk <= next + Late /\ next <= clk + SubMin - 10))
  <2>1. CASE next = due[l]
    BY <1>1, <1>2, <2>1 DEF ClocksGood, Timely
  <2>2. CASE next = Never
    BY <2>2, Ends0 DEF Never
  <2>3. CASE next \in {t + d : d \in Delays}
    BY <1>1, <1>2, <2>3, SetFrom
  <2> QED BY <2>1, <2>2, <2>3
<1>7. ClocksGood'
  BY <1>1, <1>4, <1>5, <1>6, ChipSets
<1>8. status' \in Statuses
  BY <1>1, <1>2, <1>3, SetIntKeeps DEF RestTyped
<1>9. RestTyped' /\ NmiReady' /\ at' = "start"
  <2>1. WaitsOn(l, kinds) \in Nat
    BY <1>1 DEF WaitsOn, RestTyped
  <2> QED BY <1>1, <1>3, <1>8, <2>1, EndsTyped DEF RestTyped
<1> QED BY <1>7, <1>9, InvPartsPrimed

LEMMA BrkStep ==
    ASSUME Inv, Brk
    PROVE  Inv'
<1>1. ClocksGood /\ RestTyped /\ AlarmsDone
  BY InvParts DEF Brk
<1>2. ClocksGood' /\ at' = "brk"
  BY <1>1, TimeGoesOn DEF Brk
<1>3. RestTyped'
  BY <1>1 DEF Brk, RestTyped, Places
<1> QED BY <1>2, <1>3, InvPartsPrimed DEF NmiReady

LEMMA BrkVectorStep ==
    ASSUME Inv, BrkVector
    PROVE  Inv'
<1>1. ClocksGood /\ RestTyped /\ AlarmsDone
  BY InvParts DEF BrkVector
<1>2. due' = due /\ Ends(2, "brk", TRUE, irqWait)
  BY DEF BrkVector
<1>3. ClocksGood'
  BY <1>1, <1>2, TimeGoesOn DEF Ends
<1>4. status' \in Statuses
  BY <1>1, AckKeeps DEF BrkVector, RestTyped
<1>5. RestTyped' /\ NmiReady' /\ at' = "start"
  BY <1>1, <1>2, <1>4, EndsTyped DEF RestTyped
<1> QED BY <1>3, <1>5, InvPartsPrimed

LEMMA StutterStep == Inv /\ UNCHANGED vars => Inv'
<1> SUFFICES ASSUME Inv, UNCHANGED vars PROVE Inv'
  OBVIOUS
<1>1. /\ ClocksGood /\ RestTyped /\ NmiReady
      /\ at = "opcode" => AlarmsDone
  BY InvParts
<1>2. ClocksGood' /\ (at = "opcode" => AlarmsDone)'
  BY <1>1 DEF vars, ClocksGood, ClockBounded, Timely, GuardMax, Never, AlarmsDone, IsDue
<1>3. RestTyped' /\ NmiReady'
  BY <1>1 DEF vars, RestTyped, NmiReady
<1> QED BY <1>2, <1>3, InvPartsPrimed

LEMMA NextInv == Inv /\ [Next]_vars => Inv'
<1> SUFFICES ASSUME Inv, [Next]_vars PROVE Inv'
  OBVIOUS
<1>1. CASE \E l \in Lines : CallChip(l)
  BY <1>1, CallChipStep
<1>2. CASE CallFrame
  BY <1>2, CallFrameStep
<1>3. CASE Check
  BY <1>3, CheckStep
<1>4. CASE Vector
  BY <1>4, VectorStep
<1>5. CASE Serve
  BY <1>5, ServeStep
<1>6. CASE Fetch
  BY <1>6, FetchStep
<1>7. CASE \/ \E n \in Lengths : Opcode(n)
           \/ Branch
           \/ \E n \in {2, 4}, flag \in BOOLEAN : SetI(n, flag)
           \/ \E flag \in BOOLEAN : Rti(flag)
  BY <1>7, OpcodesStep
<1>8. CASE \E n \in Lengths : Reach(n)
  BY <1>8, ReachStep
<1>9. CASE \E l \in Lines, t \in {clk - 1, clk}, kinds \in SUBSET Wires : Access(l, t, kinds)
  BY <1>9, AccessStep
<1>10. CASE Brk
  BY <1>10, BrkStep
<1>11. CASE BrkVector
  BY <1>11, BrkVectorStep
<1>12. CASE UNCHANGED vars
  BY <1>12, StutterStep
<1> QED BY <1>1, <1>2, <1>3, <1>4, <1>5, <1>6, <1>7, <1>8, <1>9, <1>10, <1>11, <1>12
        DEF Next

LEMMA AlwaysInv == Spec => []Inv
<1>1. Init => Inv
  BY InitInv
<1>2. Inv /\ [Next]_vars => Inv'
  BY NextInv
<1> QED BY <1>1, <1>2, PTL DEF Spec

-----------------------------------------------------------------------------
(* All clocks stay within the CLOCK type and the interrupt status stays one *)
(* (interrupt.h:66-132), with the clock guard at work at any moment.        *)
THEOREM MainCpuTypes == Spec => []TypeOK
<1>1. Inv => TypeOK
  BY DEF Inv
<1> QED BY <1>1, AlwaysInv, PTL

(* When an opcode starts every alarm that was due has been called, and the  *)
(* clock guard has moved none out of sight (6510core.c:1982-2004,           *)
(* clkguard.c:101-139).                                                     *)
THEOREM AlarmsAreOnTime == Spec => []AlarmsOnTime
<1>1. Inv => AlarmsOnTime
  <2> SUFFICES ASSUME Inv, at = "opcode", NEW a \in Alarms, due[a] # Never
               PROVE  due[a] \in (clk + 1) .. (clk + SubMin)
    BY DEF AlarmsOnTime
  <2>1. clk \in Nat /\ due[a] \in Nat /\ due[a] > clk
    BY DEF Inv, TypeOK, AlarmsDone, IsDue, Clock
  <2>2. due[a] <= clk + SubMin - 10
    BY DEF Inv, Timely
  <2> QED BY <2>1, <2>2, Constants
<1> QED BY <1>1, AlwaysInv, PTL

(* An entry that was made for an NMI serves it, whatever alarms are called  *)
(* in the middle of it, the clock guard's included (6510core.c:375-412).    *)
THEOREM NmiEntries == Spec => NmiEntryServesNmi
<1>1. Inv => [Vector /\ nmiTaken => Hijacks]_vars
  BY DEF Inv, NmiReady, Vector, Hijacks
<1> QED BY <1>1, AlwaysInv, PTL DEF NmiEntryServesNmi

-----------------------------------------------------------------------------
(* How long an interrupt waits: IrqLatency and NmiLatency, on top of the    *)
(* invariant above.                                                         *)
(*                                                                         *)
(* A wire that was low when an opcode began is old enough when it has       *)
(* ended, because opcodes take two cycles at least, a taken branch three,   *)
(* and the clock guard moves the wire's clock with the CPU's.  So an        *)
(* interrupt that has waited for two opcodes is taken at the next check,    *)
(* unless that opcode was a CLI or a BRK.  A CLI cannot have been the       *)
(* second, for I was clear before; and a BRK is taken over by the NMI and   *)
(* sets I against the IRQ.                                                  *)

Aged(since) == clk >= since + IrqDelay

\* The wires were pulled in the past.
Past == status.irqClk <= clk /\ status.nmiClk <= clk

IrqAges ==
    /\ irqWait >= 1 => "IRQ" \in status.global /\ (at # "entry" => ~iFlag)
    /\ irqWait <= 2
    /\ at \notin {"start", "entry"} => irqWait <= 1
    /\ at = "access" /\ irqWait >= 1 => Aged(status.irqClk)
    /\ at = "start" /\ irqWait = 2 => DelayOver(status.irqClk) /\ op # "enables"

NmiAges ==
    /\ nmiWait >= 1 => "NMI" \in status.global
    /\ nmiWait <= 2
    /\ at \notin {"start", "entry"} => nmiWait <= 1
    /\ at \in {"access", "brk"} /\ nmiWait >= 1 => Aged(status.nmiClk)
    /\ at = "start" /\ nmiWait = 2 => DelayOver(status.nmiClk) /\ op # "brk"
    /\ at = "entry" /\ nmiWait = 2 => nmiTaken

Ages == Past /\ IrqAges /\ NmiAges

-----------------------------------------------------------------------------
(* What the operations on the interrupt status do to the wires.             *)

Outlives(kind, s, r) ==
    /\ kind \in s.global => kind \in r.global
    /\ kind = "IRQ" => r.irqClk = s.irqClk
    /\ kind = "NMI" => r.nmiClk = s.nmiClk
Untouched(s, r) == Outlives("IRQ", s, r) /\ Outlives("NMI", s, r)

LEMMA AckUntouched ==
    ASSUME NEW s \in Statuses
    PROVE  /\ Untouched(s, AckIrq(s)) /\ Outlives("IRQ", s, AckNmi(s))
           /\ AckNmi(s).nmiClk = s.nmiClk /\ "NMI" \notin AckNmi(s).global
<1>1. /\ AckIrq(s).global = s.global \ {"IRQPEND"}
      /\ AckIrq(s).irqClk = s.irqClk /\ AckIrq(s).nmiClk = s.nmiClk
  BY DEF AckIrq, Statuses
<1>2. /\ AckNmi(s).global = s.global \ {"NMI"}
      /\ AckNmi(s).irqClk = s.irqClk /\ AckNmi(s).nmiClk = s.nmiClk
  BY DEF AckNmi, Statuses
<1> QED BY <1>1, <1>2 DEF Untouched, Outlives

LEMMA ExpireUntouched ==
    ASSUME NEW s \in Statuses, NEW now
    PROVE  Untouched(s, ExpireIrq(s, now))
BY AckUntouched DEF ExpireIrq, Untouched, Outlives

LEMMA DropUntouched ==
    ASSUME NEW s \in Statuses
    PROVE  Untouched(s, DropReleasedIrq(s))
<1> DEFINE r == [s EXCEPT !.global = @ \ {"IRQPEND"}]
<1>1. r.global = s.global \ {"IRQPEND"} /\ r.irqClk = s.irqClk /\ r.nmiClk = s.nmiClk
  BY DEF Statuses
<1> QED BY <1>1 DEF DropReleasedIrq, Untouched, Outlives

LEMMA AckTrapUntouched ==
    ASSUME NEW s \in Statuses
    PROVE  AckTrap(s) \in Statuses /\ Untouched(s, AckTrap(s))
<1>1. /\ AckTrap(s).global = s.global \ {"TRAP"}
      /\ AckTrap(s).irqClk = s.irqClk /\ AckTrap(s).nmiClk = s.nmiClk
  BY DEF AckTrap, Statuses
<1>2. AckTrap(s) \in Statuses
  BY DEF AckTrap, Statuses
<1> QED BY <1>1, <1>2 DEF Untouched, Outlives

LEMMA AskTrapUntouched ==
    ASSUME NEW s \in Statuses, NEW f \in Traps \cup {NoTrap}
    PROVE  Untouched(s, AskTrap(s, f))
<1>1. /\ TriggerTrap(s, f).global = s.global \cup {"TRAP"}
      /\ TriggerTrap(s, f).irqClk = s.irqClk /\ TriggerTrap(s, f).nmiClk = s.nmiClk
  BY DEF TriggerTrap, Statuses
<1> QED BY <1>1 DEF AskTrap, Untouched, Outlives

LEMMA AskResetUntouched ==
    ASSUME NEW s \in Statuses, NEW reset \in BOOLEAN
    PROVE  Untouched(s, AskReset(s, reset))
<1>1. /\ TriggerReset(s).global = s.global \cup {"RESET"}
      /\ TriggerReset(s).irqClk = s.irqClk /\ TriggerReset(s).nmiClk = s.nmiClk
  BY DEF TriggerReset, Statuses
<1> QED BY <1>1 DEF AskReset, Untouched, Outlives

LEMMA UntouchedTwice ==
    ASSUME NEW s, NEW q, NEW r, Untouched(s, q), Untouched(q, r)
    PROVE  Untouched(s, r)
BY DEF Untouched, Outlives

(* A chip sets its line: the IRQ waits on from when it did, unless the chip *)
(* pulls it anew or it is gone.                                             *)
LEMMA NmiLineAlone ==
    ASSUME NEW s \in Statuses, NEW l \in Lines, NEW t \in Clock,
           NEW n \in {AssertNmi(s, l, t), ReleaseNmi(s, l)}
    PROVE  /\ n \in Statuses /\ KeepsNmi(s, n) /\ n.nmiClk \in {s.nmiClk, t}
           /\ n.irqClk = s.irqClk
           /\ "IRQ" \in n.pending[l] <=> "IRQ" \in s.pending[l]
<1>1. CASE n = AssertNmi(s, l, t)
  <2> DEFINE first == s.nnmi = 0 /\ "NMI" \notin s.global
  <2>1. /\ n.irqClk = s.irqClk /\ n.nmiClk \in {s.nmiClk, t}
        /\ n.pending[l] \in {s.pending[l], s.pending[l] \cup {"NMI"}}
    BY <1>1 DEF AssertNmi, Statuses
  <2> QED BY <1>1, <2>1, AssertNmiKeeps
<1>2. CASE n = ReleaseNmi(s, l)
  <2>1. /\ n.irqClk = s.irqClk /\ n.nmiClk = s.nmiClk
        /\ n.pending[l] \in {s.pending[l], s.pending[l] \ {"NMI"}}
    BY <1>2 DEF ReleaseNmi, Statuses
  <2> QED BY <1>2, <2>1, ReleaseNmiKeeps
<1> QED BY <1>1, <1>2

LEMMA SetIntAges ==
    ASSUME NEW s \in Statuses, NEW l \in Lines, NEW kinds, NEW t \in Clock
    PROVE  LET r == SetInt(s, l, kinds, t)
           IN  /\ r.irqClk \in {s.irqClk, t} /\ r.nmiClk \in {s.nmiClk, t}
               /\ ~("IRQ" \in kinds /\ "IRQ" \notin s.pending[l]) => r.irqClk = s.irqClk
<1> DEFINE n == IF "NMI" \in kinds THEN AssertNmi(s, l, t) ELSE ReleaseNmi(s, l)
           r == SetInt(s, l, kinds, t)
<1>1. /\ n \in Statuses /\ n.nmiClk \in {s.nmiClk, t} /\ n.irqClk = s.irqClk
      /\ "IRQ" \in n.pending[l] <=> "IRQ" \in s.pending[l]
  BY NmiLineAlone
<1>2. r = IF "IRQ" \in kinds THEN AssertIrq(n, l, t) ELSE ReleaseIrq(n, l, t)
  BY DEF SetInt
<1> HIDE DEF n, r
<1>3. CASE "IRQ" \in kinds
  <2>1. CASE "IRQ" \in n.pending[l]
    BY <1>1, <1>2, <1>3, <2>1 DEF AssertIrq, r
  <2>2. CASE "IRQ" \notin n.pending[l]
    <3>1. r.irqClk = t /\ r.nmiClk = n.nmiClk
      BY <1>1, <1>2, <1>3, <2>2 DEF AssertIrq, Statuses
    <3> QED BY <1>1, <1>3, <2>2, <3>1 DEF r
  <2> QED BY <2>1, <2>2
<1>4. CASE "IRQ" \notin kinds
  <2>1. r.irqClk = n.irqClk /\ r.nmiClk = n.nmiClk
    BY <1>1, <1>2, <1>4 DEF ReleaseIrq, Statuses
  <2> QED BY <1>1, <1>4, <2>1 DEF r
<1> QED BY <1>3, <1>4

LEMMA WarpAges ==
    ASSUME NEW s \in Statuses, NEW amount \in Nat
    PROVE  LET r == StatusWarp(s, amount)
           IN  /\ r.global = s.global
               /\ r.irqClk = Back(s.irqClk, amount) /\ r.nmiClk = Back(s.nmiClk, amount)
BY DEF StatusWarp, Statuses

LEMMA BackAges ==
    ASSUME NEW t \in Nat, NEW now \in Nat, NEW amount \in Nat, NEW n \in 0 .. 3,
           amount = 0 \/ now - amount >= 3, amount <= now, now >= t + n
    PROVE  now - amount >= Back(t, amount) + n
BY DEF Back

-----------------------------------------------------------------------------
(* The waits hold at first and every action keeps them.                     *)

Valued ==
    /\ clk \in Nat /\ status \in Statuses
    /\ status.irqClk \in Nat /\ status.nmiClk \in Nat
    /\ irqWait \in Nat /\ nmiWait \in Nat /\ iFlag \in BOOLEAN

LEMMA InvValued == Inv => Valued
BY StatusFields DEF Inv, TypeOK, Valued, Clock

LEMMA InvValuedPrimed == Inv' => Valued'
<1> SUFFICES ASSUME Inv' PROVE Valued'
  OBVIOUS
<1>1. status' \in Statuses
  BY DEF Inv, TypeOK
<1>2. status'.irqClk \in Clock /\ status'.nmiClk \in Clock
  BY <1>1, StatusFields
<1> QED BY <1>1, <1>2 DEF Inv, TypeOK, Valued, Clock

LEMMA InitAges == Init => Ages
<1> SUFFICES ASSUME Init PROVE Ages
  OBVIOUS
<1>1. status.irqClk = 0 /\ status.nmiClk = 0
  BY DEF Init, StatusReset
<1>2. clk = 6 /\ irqWait = 0 /\ nmiWait = 0 /\ at = "after"
  BY DEF Init, ResetClk
<1> QED BY <1>1, <1>2 DEF Ages, Past, IrqAges, NmiAges

LEMMA CallChipAges ==
    ASSUME Inv, Inv', Ages, NEW l \in Lines, CallChip(l)
    PROVE  Ages'
<1>1. Valued /\ Valued'
  BY InvValued, InvValuedPrimed
<1>2. PICK kinds \in SUBSET Wires :
          status' = SetInt(status, l, kinds, due[l]) /\ irqWait' = WaitsOn(l, kinds)
  BY DEF CallChip
<1>3. UNCHANGED <<clk, iFlag, op, at, nmiTaken, nmiWait>> /\ at \in CallPlaces
  BY DEF CallChip
<1>4. due[l] \in Clock /\ due[l] \in Nat /\ due[l] <= clk
  BY DEF CallChip, IsDue, Inv, TypeOK, Alarms, Clock
<1>5. /\ status'.irqClk \in {status.irqClk, due[l]}
      /\ status'.nmiClk \in {status.nmiClk, due[l]}
      /\ ~PullsAnew(l, kinds) => status'.irqClk = status.irqClk
  BY <1>1, <1>2, <1>4, SetIntAges DEF Valued, PullsAnew
<1>6. KeepsNmi(status, status')
  BY <1>1, <1>2, <1>4, SetIntKeeps DEF Valued
<1>7. Past'
  BY <1>3, <1>4, <1>5 DEF Ages, Past
<1>8. IrqAges'
  <2>1. CASE irqWait' = 0
    BY <2>1, <1>1 DEF IrqAges
  <2>2. CASE irqWait' # 0
    <3>1. irqWait' = irqWait /\ "IRQ" \in status'.global /\ status'.irqClk = status.irqClk
      BY <2>2, <1>2, <1>5 DEF WaitsOn
    <3> QED BY <3>1, <1>3 DEF Ages, IrqAges, Aged, DelayOver, CallPlaces
  <2> QED BY <2>1, <2>2
<1>9. NmiAges'
  BY <1>1, <1>3, <1>6 DEF Ages, NmiAges, Aged, DelayOver, KeepsNmi, Valued
<1> QED BY <1>7, <1>8, <1>9 DEF Ages

LEMMA CallFrameAges ==
    ASSUME Inv, Inv', Ages, CallFrame
    PROVE  Ages'
<1>1. Valued /\ Valued' /\ ClocksGood /\ IsDue(Frame)
  BY InvValued, InvValuedPrimed, InvParts DEF CallFrame
<1>2. clk' = clk - GuardSub /\ UNCHANGED <<iFlag, op, at, nmiTaken, irqWait, nmiWait>>
  BY DEF CallFrame
<1>3. PICK f \in Traps \cup {NoTrap}, g \in Traps \cup {NoTrap}, reset \in BOOLEAN :
          LET asked == AskReset(AskTrap(AskTrap(status, f), g), reset)
          IN  status' = IF GuardSub = 0 THEN asked ELSE StatusWarp(asked, GuardSub)
  BY DEF CallFrame
<1> DEFINE asked == AskReset(AskTrap(AskTrap(status, f), g), reset)
<1>4. asked \in Statuses /\ Untouched(status, asked)
  <2> DEFINE p == AskTrap(status, f)
             q == AskTrap(p, g)
  <2>1. p \in Statuses /\ Untouched(status, p)
    BY <1>1, AskTrapKeeps, AskTrapUntouched DEF Valued
  <2> HIDE DEF p
  <2>2. q \in Statuses /\ Untouched(p, q)
    BY <2>1, AskTrapKeeps, AskTrapUntouched
  <2> HIDE DEF q
  <2>3. AskReset(q, reset) \in Statuses /\ Untouched(q, AskReset(q, reset))
    BY <2>2, AskResetKeeps, AskResetUntouched
  <2>4. Untouched(status, AskReset(q, reset))
    BY <2>1, <2>2, <2>3, UntouchedTwice
  <2> QED BY <2>3, <2>4 DEF q, p
<1>5. status' = IF GuardSub = 0 THEN asked ELSE StatusWarp(asked, GuardSub)
  BY <1>3
<1> HIDE DEF asked
<1>6. /\ GuardSub \in Nat /\ GuardSub <= clk
      /\ GuardSub = 0 \/ clk - GuardSub >= 3
  BY <1>1, GuardMoves, Constants DEF Valued
<1>7. /\ \A k \in {"IRQ", "NMI"} : k \in status.global => k \in status'.global
      /\ status'.irqClk = Back(status.irqClk, GuardSub)
      /\ status'.nmiClk = Back(status.nmiClk, GuardSub)
  <2>1. /\ \A k \in {"IRQ", "NMI"} : k \in status.global => k \in asked.global
        /\ asked.irqClk = status.irqClk /\ asked.nmiClk = status.nmiClk
    BY <1>4 DEF Untouched, Outlives
  <2>2. CASE GuardSub = 0
    BY <2>1, <2>2, <1>1, <1>5 DEF Back, Valued
  <2>3. CASE GuardSub # 0
    <3>1. /\ status'.global = asked.global
          /\ status'.irqClk = Back(asked.irqClk, GuardSub)
          /\ status'.nmiClk = Back(asked.nmiClk, GuardSub)
      BY <1>4, <1>5, <1>6, <2>3, WarpAges
    <3> QED BY <2>1, <3>1
  <2> QED BY <2>2, <2>3
<1>8. \A t \in {status.irqClk, status.nmiClk}, n \in 0 .. 3 :
          clk >= t + n => clk' >= Back(t, GuardSub) + n
  BY <1>1, <1>2, <1>6, BackAges DEF Valued
<1>9. \A t \in {status.irqClk, status.nmiClk} :
          /\ t <= clk => Back(t, GuardSub) <= clk'
          /\ Aged(t) => clk' >= Back(t, GuardSub) + IrqDelay
          /\ DelayOver(t) => clk' >= Back(t, GuardSub) + IrqDelay
                                      + (IF op = "branch" THEN 1 ELSE 0)
  <2> TAKE t \in {status.irqClk, status.nmiClk}
  <2>1. t \in Nat /\ clk \in Nat /\ clk' \in Nat /\ Back(t, GuardSub) \in Nat
    BY <1>1, <1>6 DEF Valued, Back
  <2>2. /\ clk >= t + 0 => clk' >= Back(t, GuardSub) + 0
        /\ clk >= t + 2 => clk' >= Back(t, GuardSub) + 2
        /\ clk >= t + 3 => clk' >= Back(t, GuardSub) + 3
    BY <1>8
  <2> QED BY <2>1, <2>2 DEF Aged, DelayOver, IrqDelay
<1>10. Past'
  BY <1>7, <1>9 DEF Ages, Past
<1>11. IrqAges'
  BY <1>2, <1>7, <1>9 DEF Ages, IrqAges, Aged, DelayOver
<1>12. NmiAges'
  BY <1>2, <1>7, <1>9 DEF Ages, NmiAges, Aged, DelayOver
<1> QED BY <1>10, <1>11, <1>12 DEF Ages

LEMMA CheckAges ==
    ASSUME Inv, Inv', Ages, Check
    PROVE  Ages'
<1> DEFINE s == ExpireIrq(status, clk)
           enters == TakesNmi(s) \/ (IrqAllowed(s) /\ op # "enables")
           postponed == ~TakesNmi(s) /\ IrqAllowed(s) /\ op = "enables"
           marked == [s EXCEPT !.global = @ \cup {"IRQPEND"}]
<1>1. Valued /\ Valued' /\ at = "start"
  BY InvValued, InvValuedPrimed DEF Check
<1>2. s \in Statuses /\ Untouched(status, s)
  BY <1>1, ExpireIrqKeeps, ExpireUntouched DEF Valued
<1>3. Untouched(s, marked)
  <2>1. /\ marked.global = s.global \cup {"IRQPEND"}
        /\ marked.irqClk = s.irqClk /\ marked.nmiClk = s.nmiClk
    BY <1>2 DEF Statuses
  <2> QED BY <2>1 DEF Untouched, Outlives
<1>4. /\ status' = IF postponed THEN marked ELSE s
      /\ nmiTaken' = TakesNmi(s)
      /\ clk' = IF enters THEN clk + 5 ELSE clk
      /\ iFlag' = (iFlag \/ enters)
      /\ at' = IF s.global = {} THEN "opcode" ELSE IF enters THEN "entry" ELSE "traps"
      /\ UNCHANGED <<op, irqWait, nmiWait>>
  BY DEF Check
<1>5. TakesNmi(s) <=> "NMI" \in s.global /\ op # "brk" /\ DelayOver(s.nmiClk)
  BY DEF TakesNmi
<1>6. IrqAllowed(s) <=> /\ s.global \cap {"IRQ", "IRQPEND"} # {}
                        /\ ~iFlag \/ op = "disables"
                        /\ DelayOver(s.irqClk)
  BY DEF IrqAllowed
<1>7. /\ \A k \in {"IRQ", "NMI"} : k \in status.global => k \in s.global
      /\ s.irqClk = status.irqClk /\ s.nmiClk = status.nmiClk
  BY <1>2 DEF Untouched, Outlives
<1>8. /\ \A k \in {"IRQ", "NMI"} : k \in status.global => k \in status'.global
      /\ status'.irqClk = status.irqClk /\ status'.nmiClk = status.nmiClk
  BY <1>3, <1>4, <1>7 DEF Untouched, Outlives
<1> HIDE DEF s, marked, postponed
<1>9. irqWait = 2 => enters
  BY <1>1, <1>6, <1>7 DEF Ages, IrqAges
<1>10. nmiWait = 2 => TakesNmi(s)
  BY <1>1, <1>5, <1>7 DEF Ages, NmiAges
<1>11. /\ enters => at' = "entry"
       /\ ~enters => at' \in {"opcode", "traps"} /\ iFlag' = iFlag /\ clk' = clk
  <2>1. enters => s.global # {}
    BY <1>5, <1>6
  <2> HIDE DEF enters
  <2>2. CASE enters
    BY <2>1, <2>2, <1>4
  <2>3. CASE ~enters
    BY <2>3, <1>1, <1>4 DEF Valued
  <2> QED BY <2>2, <2>3
<1>12. Past'
  BY <1>1, <1>4, <1>8 DEF Ages, Past, Valued
<1>13. IrqAges'
  BY <1>1, <1>4, <1>8, <1>9, <1>11 DEF Ages, IrqAges, Valued
<1>14. NmiAges'
  BY <1>1, <1>4, <1>8, <1>10, <1>11 DEF Ages, NmiAges, Valued
<1> QED BY <1>12, <1>13, <1>14 DEF Ages

LEMMA VectorAges ==
    ASSUME Inv, Inv', Ages, Vector
    PROVE  Ages'
<1>1. Valued /\ Valued' /\ at = "entry"
  BY InvValued, InvValuedPrimed DEF Vector
<1>2. /\ status' = IF Hijacks THEN AckNmi(status) ELSE AckIrq(status)
      /\ nmiWait' = IF Hijacks THEN 0 ELSE nmiWait
      /\ irqWait' = 0 /\ clk' = clk + 2 /\ at' = "traps"
  BY DEF Vector
<1>3. status'.irqClk = status.irqClk /\ status'.nmiClk = status.nmiClk
  BY <1>1, <1>2, AckUntouched DEF Valued, Untouched, Outlives
<1>4. ~Hijacks => ("NMI" \in status.global => "NMI" \in status'.global)
  BY <1>1, <1>2, AckUntouched DEF Valued, Untouched, Outlives
<1>5. nmiWait = 2 => Hijacks
  BY <1>1 DEF Ages, NmiAges, Inv, NmiReady, Hijacks
<1>6. Past'
  BY <1>1, <1>2, <1>3 DEF Ages, Past, Valued
<1>7. IrqAges'
  BY <1>2 DEF IrqAges
<1>8. NmiAges'
  BY <1>1, <1>2, <1>4, <1>5 DEF Ages, NmiAges, Valued
<1> QED BY <1>6, <1>7, <1>8 DEF Ages

LEMMA ServeAges ==
    ASSUME Inv, Inv', Ages, Serve
    PROVE  Ages'
<1>1. Valued /\ Valued' /\ at = "traps" /\ at' = "after" /\ iFlag' = iFlag
  BY InvValued, InvValuedPrimed DEF Serve
<1>2. ASSUME NEW s \in Statuses, ServeReset(s) PROVE Ages'
  <2>1. clk' = 6 /\ irqWait' = 0 /\ nmiWait' = 0
    BY <1>2 DEF ServeReset, ResetClk
  <2> DEFINE r == ResetKeepingMonitor(AckReset(s))
  <2>2. r.irqClk = 0 /\ r.nmiClk = 0
    BY DEF ResetKeepingMonitor, MonitorTrapOn, StatusReset
  <2>3. r \in Statuses /\ status' = DropReleasedIrq(r)
    BY <1>2, ResetKeeps DEF ServeReset
  <2> HIDE DEF r
  <2>4. status'.irqClk = 0 /\ status'.nmiClk = 0
    BY <2>2, <2>3, DropUntouched DEF Untouched, Outlives
  <2> QED BY <2>1, <2>4, <1>1 DEF Ages, Past, IrqAges, NmiAges
<1>3. ASSUME NEW s \in Statuses, Untouched(status, s), ServeNoReset(s) PROVE Ages'
  <2>1. Untouched(s, status')
    BY <1>3, DropUntouched DEF ServeNoReset
  <2>2. Untouched(status, status')
    BY <1>3, <2>1, UntouchedTwice
  <2>3. UNCHANGED <<clk, irqWait, nmiWait>>
    BY <1>3 DEF ServeNoReset
  <2>4. Past'
    BY <2>2, <2>3 DEF Ages, Past, Untouched, Outlives
  <2>5. IrqAges' /\ NmiAges'
    BY <2>2, <2>3, <1>1 DEF Ages, IrqAges, NmiAges, Untouched, Outlives
  <2> QED BY <2>4, <2>5 DEF Ages
<1>4. ASSUME NEW f \in Traps \cup {NoTrap}, NEW reset \in BOOLEAN, RunTrap(f, reset)
      PROVE  Ages'
  <2> DEFINE p == AckTrap(status)
             q == AskTrap(p, f)
             s == AskReset(q, reset)
  <2>1. p \in Statuses /\ Untouched(status, p)
    BY <1>1, AckTrapUntouched DEF Valued
  <2>2. ServeReset(s) \/ ServeNoReset(s)
    BY <1>4 DEF RunTrap
  <2> HIDE DEF p
  <2>3. q \in Statuses /\ Untouched(p, q)
    BY <2>1, AskTrapKeeps, AskTrapUntouched
  <2> HIDE DEF q
  <2>4. s \in Statuses /\ Untouched(q, s)
    BY <2>3, AskResetKeeps, AskResetUntouched
  <2>5. Untouched(status, s)
    BY <2>1, <2>3, <2>4, UntouchedTwice
  <2> HIDE DEF s
  <2> QED BY <2>2, <2>4, <2>5, <1>2, <1>3
<1>5. Untouched(status, status)
  BY DEF Untouched, Outlives
<1>6. status \in Statuses
  BY <1>1 DEF Valued
<1> QED BY <1>2, <1>3, <1>4, <1>5, <1>6 DEF Serve

LEMMA FetchAges ==
    ASSUME Inv, Ages, Fetch
    PROVE  Ages'
BY DEF Fetch, Ages, Past, IrqAges, NmiAges

(* An opcode that does not look at interrupts.                              *)
LEMMA InsideAges ==
    ASSUME Inv, Inv', Ages, NEW n \in 2 .. 8, NEW flag \in BOOLEAN,
           NEW kind \in {"plain", "branch", "disables", "enables"},
           kind = "branch" => n >= 3, kind = "enables" => iFlag,
           Inside(n, kind, flag)
    PROVE  Ages'
<1>1. Valued /\ Valued'
  BY InvValued, InvValuedPrimed
<1>2. /\ at = "opcode" /\ status' = status
      /\ clk' = clk + n /\ op' = kind /\ iFlag' = flag /\ at' = "start"
      /\ irqWait' = IF "IRQ" \in status'.global /\ ~flag THEN irqWait + 1 ELSE 0
      /\ nmiWait' = IF "NMI" \in status'.global THEN nmiWait + 1 ELSE 0
  BY DEF Inside, Ends
<1>3. DelayOver(status.irqClk)' /\ DelayOver(status.nmiClk)'
  BY <1>1, <1>2 DEF DelayOver, IrqDelay, Ages, Past, Valued
<1>4. Past'
  BY <1>1, <1>2 DEF Ages, Past, Valued
<1>5. IrqAges'
  <2>1. CASE irqWait' = 0
    BY <2>1, <1>1 DEF IrqAges
  <2>2. CASE irqWait' # 0
    <3>1. irqWait' = irqWait + 1 /\ "IRQ" \in status'.global /\ ~flag
      BY <1>2, <2>2
    <3>2. irqWait <= 1 /\ (irqWait >= 1 => ~iFlag)
      BY <1>2 DEF Ages, IrqAges
    <3> QED BY <1>1, <1>2, <1>3, <3>1, <3>2 DEF IrqAges, Valued
  <2> QED BY <2>1, <2>2
<1>6. NmiAges'
  <2>1. nmiWait <= 1
    BY <1>2 DEF Ages, NmiAges
  <2> QED BY <1>1, <1>2, <1>3, <2>1 DEF NmiAges, Valued
<1> QED BY <1>4, <1>5, <1>6 DEF Ages

LEMMA OpcodesAges ==
    ASSUME Inv, Inv', Ages,
           \/ \E n \in Lengths : Opcode(n)
           \/ Branch
           \/ \E n \in {2, 4}, flag \in BOOLEAN : SetI(n, flag)
           \/ \E flag \in BOOLEAN : Rti(flag)
    PROVE  Ages'
<1>1. iFlag \in BOOLEAN
  BY InvValued DEF Valued
<1>2. ASSUME NEW n \in Lengths, Opcode(n) PROVE Ages'
  <2>1. n \in 2 .. 8
    BY MainCpuAssumption
  <2> QED BY <1>1, <1>2, <2>1, InsideAges DEF Opcode
<1>3. CASE Branch
  BY <1>1, <1>3, InsideAges DEF Branch
<1>4. ASSUME NEW n \in {2, 4}, NEW flag \in BOOLEAN, SetI(n, flag) PROVE Ages'
  <2> DEFINE kind == IF flag = iFlag THEN "plain" ELSE IF flag THEN "disables" ELSE "enables"
  <2>1. /\ kind \in {"plain", "branch", "disables", "enables"} /\ n \in 2 .. 8
        /\ kind # "branch" /\ (kind = "enables" => iFlag)
    BY <1>1
  <2>2. Inside(n, kind, flag)
    BY <1>4 DEF SetI
  <2> HIDE DEF kind
  <2> QED BY <2>1, <2>2, InsideAges
<1>5. ASSUME NEW flag \in BOOLEAN, Rti(flag) PROVE Ages'
  BY <1>5, InsideAges DEF Rti
<1> QED BY <1>2, <1>3, <1>4, <1>5

LEMMA ReachAges ==
    ASSUME Inv, Ages, NEW n \in Lengths, Reach(n)
    PROVE  Ages'
<1>1. Valued /\ n \in 2 .. 8
  BY InvValued, MainCpuAssumption
<1>2. /\ at = "opcode" /\ clk' = clk + n /\ at' = "access"
      /\ UNCHANGED <<status, iFlag, op, nmiTaken, irqWait, nmiWait>>
  BY DEF Reach
<1>3. Past' /\ Aged(status.irqClk)' /\ Aged(status.nmiClk)'
  BY <1>1, <1>2 DEF Ages, Past, Aged, IrqDelay, Valued
<1> QED BY <1>2, <1>3 DEF Ages, IrqAges, NmiAges

LEMMA AccessAges ==
    ASSUME Inv, Inv', Ages, NEW l \in Lines, NEW t \in {clk - 1, clk},
           NEW kinds \in SUBSET Wires, Access(l, t, kinds)
    PROVE  Ages'
<1>1. Valued /\ Valued'
  BY InvValued, InvValuedPrimed
<1>2. t \in Nat /\ t \in Clock /\ t <= clk
  BY Constants DEF Inv, TypeOK, ClockBounded, Clock
<1>3. /\ at = "access" /\ status' = SetInt(status, l, kinds, t)
      /\ clk' = clk /\ op' = "plain" /\ iFlag' = iFlag /\ at' = "start"
      /\ irqWait' = IF "IRQ" \in status'.global /\ ~iFlag THEN WaitsOn(l, kinds) + 1 ELSE 0
      /\ nmiWait' = IF "NMI" \in status'.global THEN nmiWait + 1 ELSE 0
  BY <1>1 DEF Access, Ends, Valued
<1>4. /\ status'.irqClk \in {status.irqClk, t} /\ status'.nmiClk \in {status.nmiClk, t}
      /\ ~PullsAnew(l, kinds) => status'.irqClk = status.irqClk
  BY <1>1, <1>2, <1>3, SetIntAges DEF Valued, PullsAnew
<1>5. KeepsNmi(status, status')
  BY <1>1, <1>2, <1>3, SetIntKeeps DEF Valued
<1>6. Past'
  BY <1>1, <1>2, <1>3, <1>4 DEF Ages, Past
<1>7. IrqAges'
  <2>1. CASE irqWait' <= 1
    BY <2>1, <1>1, <1>3 DEF IrqAges, Valued
  <2>2. CASE irqWait' > 1
    <3>1. WaitsOn(l, kinds) # 0 /\ irqWait' = WaitsOn(l, kinds) + 1 /\ ~iFlag
      BY <1>1, <1>3, <2>2
    <3>2. WaitsOn(l, kinds) = irqWait /\ ~PullsAnew(l, kinds) /\ "IRQ" \in status'.global
      BY <3>1 DEF WaitsOn
    <3>3. irqWait = 1 /\ Aged(status.irqClk)
      BY <1>1, <1>3, <3>1, <3>2 DEF Ages, IrqAges, Valued
    <3>4. DelayOver(status.irqClk)'
      BY <1>1, <1>3, <1>4, <3>2, <3>3 DEF Aged, DelayOver, Valued, IrqDelay
    <3> QED BY <1>3, <3>1, <3>2, <3>3, <3>4 DEF IrqAges
  <2> QED BY <2>1, <2>2, <1>1 DEF Valued
<1>8. NmiAges'
  <2>1. nmiWait <= 1
    BY <1>3 DEF Ages, NmiAges
  <2>2. nmiWait >= 1 => DelayOver(status.nmiClk)'
    <3> SUFFICES ASSUME nmiWait >= 1 PROVE DelayOver(status.nmiClk)'
      OBVIOUS
    <3>1. Aged(status.nmiClk) /\ "NMI" \in status.global
      BY <1>3 DEF Ages, NmiAges
    <3>2. status'.nmiClk = status.nmiClk
      BY <1>5, <3>1 DEF KeepsNmi
    <3> QED BY <1>1, <1>3, <3>1, <3>2 DEF Aged, DelayOver, Valued, IrqDelay
  <2> QED BY <1>1, <1>3, <2>1, <2>2 DEF NmiAges, Valued
<1> QED BY <1>6, <1>7, <1>8 DEF Ages

LEMMA BrkAges ==
    ASSUME Inv, Ages, Brk
    PROVE  Ages'
<1>1. Valued
  BY InvValued
<1>2. /\ at = "opcode" /\ clk' = clk + 5 /\ at' = "brk"
      /\ UNCHANGED <<status, iFlag, nmiTaken, irqWait, nmiWait>>
  BY DEF Brk
<1>3. Past' /\ Aged(status.nmiClk)'
  BY <1>1, <1>2 DEF Ages, Past, Aged, IrqDelay, Valued
<1> QED BY <1>2, <1>3 DEF Ages, IrqAges, NmiAges

LEMMA BrkVectorAges ==
    ASSUME Inv, Inv', Ages, BrkVector
    PROVE  Ages'
<1>1. Valued /\ Valued'
  BY InvValued, InvValuedPrimed
<1>2. /\ at = "brk" /\ clk' = clk + 2 /\ at' = "start" /\ op' = "brk"
      /\ irqWait' = 0
      /\ nmiWait' = IF "NMI" \in status'.global THEN nmiWait + 1 ELSE 0
  BY DEF BrkVector, Ends
<1>3. status' \in {status, AckNmi(status), AckIrq(status)}
  BY DEF BrkVector
<1>4. Hijacks => status' = AckNmi(status)
  BY DEF BrkVector
<1>5. status'.irqClk = status.irqClk /\ status'.nmiClk = status.nmiClk
  BY <1>1, <1>3, AckUntouched DEF Valued, Untouched, Outlives
<1>6. Past'
  BY <1>1, <1>2, <1>5 DEF Ages, Past, Valued
<1>7. IrqAges'
  BY <1>2 DEF IrqAges
<1>8. nmiWait' <= 1 /\ (nmiWait' >= 1 => "NMI" \in status'.global)
  <2>1. CASE Hijacks
    BY <1>1, <1>2, <1>4, <2>1, AckUntouched DEF Valued
  <2>2. CASE ~Hijacks
    <3>1. ~(nmiWait >= 1)
      BY <1>2, <2>2 DEF Ages, NmiAges, Hijacks, Aged
    <3> QED BY <1>1, <1>2, <3>1 DEF Valued
  <2> QED BY <2>1, <2>2
<1>9. NmiAges'
  BY <1>1, <1>2, <1>8 DEF NmiAges, Valued
<1> QED BY <1>6, <1>7, <1>9 DEF Ages

LEMMA NextAges == Inv /\ Ages /\ [Next]_vars => Inv' /\ Ages'
<1> SUFFICES ASSUME Inv, Ages, [Next]_vars PROVE Inv' /\ Ages'
  OBVIOUS
<1>1. Inv'
  BY NextInv
<1>2. CASE \E l \in Lines : CallChip(l)
  BY <1>1, <1>2, CallChipAges
<1>3. CASE CallFrame
  BY <1>1, <1>3, CallFrameAges
<1>4. CASE Check
  BY <1>1, <1>4, CheckAges
<1>5. CASE Vector
  BY <1>1, <1>5, VectorAges
<1>6. CASE Serve
  BY <1>1, <1>6, ServeAges
<1>7. CASE Fetch
  BY <1>1, <1>7, FetchAges
<1>8. CASE \/ \E n \in Lengths : Opcode(n)
           \/ Branch
           \/ \E n \in {2, 4}, flag \in BOOLEAN : SetI(n, flag)
           \/ \E flag \in BOOLEAN : Rti(flag)
  BY <1>1, <1>8, OpcodesAges
<1>9. CASE \E n \in Lengths : Reach(n)
  BY <1>1, <1>9, ReachAges
<1>10. CASE \E l \in Lines, t \in {clk - 1, clk}, kinds \in SUBSET Wires : Access(l, t, kinds)
  BY <1>1, <1>10, AccessAges
<1>11. CASE Brk
  BY <1>1, <1>11, BrkAges
<1>12. CASE BrkVector
  BY <1>1, <1>12, BrkVectorAges
<1>13. CASE UNCHANGED vars
  BY <1>1, <1>13 DEF vars, Ages, Past, IrqAges, NmiAges, Aged, DelayOver
<1> QED BY <1>2, <1>3, <1>4, <1>5, <1>6, <1>7, <1>8, <1>9, <1>10, <1>11, <1>12, <1>13
        DEF Next

LEMMA AlwaysAges == Spec => []Ages
<1>1. Init => Inv /\ Ages
  BY InitInv, InitAges
<1>2. Inv /\ Ages /\ [Next]_vars => (Inv /\ Ages)'
  BY NextAges
<1> QED BY <1>1, <1>2, PTL DEF Spec

-----------------------------------------------------------------------------
(* An IRQ is served within two opcodes from when the wire was last pulled   *)
(* and I was clear, whatever the program, the chips and the clock guard do  *)
(* (maincpu.c:364-385, 6510core.c:373-431).                                 *)
THEOREM IrqServedSoon == Spec => []IrqLatency
<1>1. Ages => IrqLatency
  BY DEF Ages, IrqAges, IrqLatency, MaxWait
<1> QED BY <1>1, AlwaysAges, PTL

(* An NMI is served within two opcodes, although a BRK postpones it         *)
(* (maincpu.c:337-359, 6510core.c:373-431, 793-817).                        *)
THEOREM NmiServedSoon == Spec => []NmiLatency
<1>1. Ages => NmiLatency
  BY DEF Ages, NmiAges, NmiLatency, MaxWait
<1> QED BY <1>1, AlwaysAges, PTL
=============================================================================
