-------------------------- MODULE CpuInputsProofs ---------------------------
(***************************************************************************)
(* What the CPU looks at before every opcode: the alarm table and the       *)
(* interrupt lines.                                                         *)
(*                                                                         *)
(* The alarm table is correct for any number of alarms, any table size and  *)
(* any width of CLOCK: its slots and the alarms' indices always match, and  *)
(* the cached next alarm is always an earliest one.  The interrupt status   *)
(* behaves like two wires and a latch for any number of sources and any     *)
(* width of CLOCK.                                                          *)
(*                                                                         *)
(* The two state machines share nothing but CLOCK; no proof about one uses  *)
(* an assumption of the other.                                              *)
(***************************************************************************)
EXTENDS AlarmTable, InterruptLines, FiniteSetTheorems, WellFoundedInduction, TLAPS

-----------------------------------------------------------------------------
(* Arithmetic and minima.                                                   *)

(* A non-empty set of natural numbers has a least element.                  *)
LEMMA LeastNatural ==
    ASSUME NEW S \in SUBSET Nat, S # {}
    PROVE  \E x \in S : \A y \in S : x <= y
<1>1. PICK x \in S : \A y \in S : <<y, x>> \notin OpToRel(<, Nat)
  BY WFMin, NatLessThanWellFounded, Zenon
<1>2. ASSUME NEW y \in S  PROVE  ~(y < x)
  BY <1>1 DEF OpToRel
<1> QED BY <1>2

(* The scan of alarm_context_update_next_pending finds a slot: the last of  *)
(* those with the least clock.                                              *)
LEMMA LastEarliestExists ==
    ASSUME NEW n \in Nat, n > 0, NEW f, \A i \in 0 .. (n-1) : f[i] \in Nat
    PROVE  \E i \in 0 .. (n-1) : \A j \in 0 .. (n-1) :
                f[i] < f[j] \/ (f[i] = f[j] /\ j <= i)
<1> DEFINE C == {f[i] : i \in 0 .. (n-1)}
<1>1. PICK m \in C : \A y \in C : m <= y
  <2>1. C \in SUBSET Nat /\ C # {}
    <3>1. f[0] \in C  OBVIOUS
    <3> QED BY <3>1
  <2> QED BY <2>1, LeastNatural
<1> DEFINE D == {d \in 0 .. (n-1) : f[n - 1 - d] = m}
<1>2. PICK d \in D : \A e \in D : d <= e
  <2>1. PICK k \in 0 .. (n-1) : f[k] = m  OBVIOUS
  <2>2. n - 1 - k \in 0 .. (n-1) /\ n - 1 - (n - 1 - k) = k  OBVIOUS
  <2>3. n - 1 - k \in D  BY <2>1, <2>2
  <2>4. D \in SUBSET Nat  OBVIOUS
  <2> HIDE DEF D
  <2> QED BY <2>3, <2>4, LeastNatural
<1>3. n - 1 - d \in 0 .. (n-1) /\ f[n - 1 - d] = m  OBVIOUS
<1>4. ASSUME NEW j \in 0 .. (n-1)
      PROVE  m < f[j] \/ (m = f[j] /\ j <= n - 1 - d)
  <2>1. m <= f[j]  BY <1>1
  <2>2. f[j] \in Nat /\ m \in Nat  OBVIOUS
  <2>3. CASE f[j] = m
    <3>1. n - 1 - j \in 0 .. (n-1) /\ n - 1 - (n - 1 - j) = j  OBVIOUS
    <3>2. n - 1 - j \in D  BY <2>3, <3>1
    <3>3. d <= n - 1 - j  BY <3>2, <1>2
    <3> QED BY <3>3, <2>3
  <2> QED BY <2>1, <2>2, <2>3
<1> QED BY <1>3, <1>4

(* A CLOCK difference that does not wrap is the difference.                 *)
LEMMA ModSmall ==
    ASSUME NEW M \in Nat \ {0}, NEW x \in 0 .. M
    PROVE  x % (M + 1) = x
OBVIOUS

-----------------------------------------------------------------------------
(* Each operation keeps a context consistent.                               *)

(* Rescanning the table repairs the cache whatever it held.                 *)
LEMMA UpdateConsistent ==
    ASSUME NEW c \in Contexts, SlotsMatch(c), BeforeEnd(c), c.num > 0
    PROVE  Consistent(UpdateNextPending(c))
<1> USE ClockMaxAssumption, MaxPendingAssumption
<1> DEFINE f == [i \in InUse(c) |-> c.slot[i].clk]
           k == LastEarliest(c)
           u == UpdateNextPending(c)
<1>1. c.num \in Nat /\ c.num <= MaxPending /\ InUse(c) \subseteq Slots
  BY DEF Contexts, InUse, Slots
<1>2. \A i \in InUse(c) : c.slot[i].clk \in Clock
  BY <1>1 DEF Contexts
<1>3. \A i \in 0 .. (c.num - 1) : f[i] \in Nat
  BY <1>1, <1>2 DEF InUse, Clock
<1> HIDE DEF f
<1>4. \E i \in 0 .. (c.num - 1) : \A j \in 0 .. (c.num - 1) :
            f[i] < f[j] \/ (f[i] = f[j] /\ j <= i)
  BY <1>1, <1>3, LastEarliestExists
<1>5. k \in InUse(c) /\ \A j \in InUse(c) : c.slot[k].clk <= c.slot[j].clk
  <2>1. \E i \in InUse(c) :
            \A j \in InUse(c) : \/ c.slot[i].clk < c.slot[j].clk
                                \/ c.slot[i].clk = c.slot[j].clk /\ j <= i
    BY <1>4 DEF f, InUse
  <2>2. /\ k \in InUse(c)
        /\ \A j \in InUse(c) : \/ c.slot[k].clk < c.slot[j].clk
                               \/ c.slot[k].clk = c.slot[j].clk /\ j <= k
    BY <2>1 DEF LastEarliest
  <2> QED BY <2>2, <1>2 DEF Clock
<1>6. u = [c EXCEPT !.nextClk = c.slot[k].clk, !.nextIdx = k]
  BY <1>1 DEF UpdateNextPending
<1> HIDE DEF k, u
<1>7. u \in Contexts
  <2>1. c.slot[k].clk \in Clock /\ k \in -1 .. MaxPending
    BY <1>1, <1>2, <1>5 DEF InUse
  <2> QED BY <1>6, <2>1 DEF Contexts
<1>8. /\ u.num = c.num /\ u.slot = c.slot /\ u.idx = c.idx /\ u.live = c.live
      /\ u.nextClk = c.slot[k].clk /\ u.nextIdx = k
  BY <1>6 DEF Contexts
<1>9. SlotsMatch(u)
  BY <1>8 DEF SlotsMatch, InUse, IsPending
<1>10. NextIsEarliest(u)
  BY <1>1, <1>5, <1>8 DEF NextIsEarliest, InUse
<1>11. BeforeEnd(u)
  BY <1>8 DEF BeforeEnd, InUse
<1> QED BY <1>7, <1>9, <1>10, <1>11 DEF Consistent, u

(* Rescanning touches nothing but the cache.                                *)
LEMMA UpdateFrame ==
    ASSUME NEW c \in Contexts
    PROVE  /\ UpdateNextPending(c).slot = c.slot
           /\ UpdateNextPending(c).idx = c.idx
           /\ UpdateNextPending(c).live = c.live
           /\ UpdateNextPending(c).num = c.num
BY DEF UpdateNextPending, Contexts

(* alarm_new links a new alarm and disturbs nothing (alarm.c:127-137).      *)
LEMMA NewConsistent ==
    ASSUME NEW c, Consistent(c), NEW a \in Alarms, a \notin c.live
    PROVE  /\ Consistent(AlarmNew(c, a))
           /\ AlarmNew(c, a).live = c.live \cup {a}
           /\ \A x \in Alarms : DueTime(AlarmNew(c, a), x) = DueTime(c, x)
<1> DEFINE n == AlarmNew(c, a)
<1>1. c.idx[a] = -1
  BY DEF Consistent, SlotsMatch, Contexts, IsPending, InUse
<1>2. /\ n.num = c.num /\ n.slot = c.slot /\ n.idx = c.idx
      /\ n.live = c.live \cup {a} /\ n.nextClk = c.nextClk
      /\ n.nextIdx = c.nextIdx /\ n \in Contexts
  BY <1>1 DEF AlarmNew, Consistent, Contexts
<1> HIDE DEF n
<1>3. SlotsMatch(n) /\ NextIsEarliest(n) /\ BeforeEnd(n)
  BY <1>2 DEF Consistent, SlotsMatch, NextIsEarliest, BeforeEnd, InUse, IsPending
<1> QED BY <1>2, <1>3 DEF Consistent, n, DueTime, IsPending

(* Appending an alarm keeps the table consistent, and sets that alarm's     *)
(* due time alone unless the table is full (alarm.h:156-177).               *)
LEMMA AddConsistent ==
    ASSUME NEW c, Consistent(c), NEW a \in c.live, ~IsPending(c, a),
           NEW t \in Clock, t < ClockMax
    PROVE  /\ Consistent(AddPending(c, a, t))
           /\ AddPending(c, a, t).live = c.live
           /\ \A x \in Alarms : x # a =>
                  DueTime(AddPending(c, a, t), x) = DueTime(c, x)
           /\ c.num < MaxPending => DueTime(AddPending(c, a, t), a) = t
<1> USE ClockMaxAssumption, MaxPendingAssumption
<1>1. CASE c.num >= MaxPending
  <2>1. AddPending(c, a, t) = c /\ ~(c.num < MaxPending)
    BY <1>1 DEF AddPending, Consistent, Contexts
  <2> QED BY <2>1
<1>2. CASE c.num < MaxPending
  <2> DEFINE n == AddPending(c, a, t)
  <2>1. /\ c \in Contexts /\ a \in Alarms /\ c.num \in Nat /\ c.num \in Slots
        /\ c.idx \in [Alarms -> -1 .. MaxPending - 1] /\ c.nextClk \in Clock
        /\ c.slot \in [Slots -> [alarm : Alarms \cup {NoAlarm}, clk : Clock]]
    BY <1>2 DEF Consistent, Contexts, Slots
  <2>2. /\ n.num = c.num + 1 /\ n.live = c.live
        /\ n.slot = [c.slot EXCEPT ![c.num] = [alarm |-> a, clk |-> t]]
        /\ n.idx = [c.idx EXCEPT ![a] = c.num]
        /\ n.nextClk = IF t < c.nextClk THEN t ELSE c.nextClk
        /\ n.nextIdx = IF t < c.nextClk THEN c.num ELSE c.nextIdx
        /\ n \in Contexts
    <3> DEFINE added == [c EXCEPT !.slot[c.num] = [alarm |-> a, clk |-> t],
                                  !.num = @ + 1,
                                  !.idx[a] = c.num]
    <3>1. c.num \in -1 .. MaxPending - 1 /\ c.num + 1 \in 0 .. MaxPending
      BY <1>2, <2>1 DEF Slots
    <3>2. /\ added \in Contexts /\ added.num = c.num + 1
          /\ added.live = c.live
          /\ added.slot = [c.slot EXCEPT ![c.num] = [alarm |-> a, clk |-> t]]
          /\ added.idx = [c.idx EXCEPT ![a] = c.num]
          /\ added.nextClk = c.nextClk /\ added.nextIdx = c.nextIdx
      BY <2>1, <3>1 DEF Contexts
    <3>3. n = IF t < c.nextClk
              THEN [added EXCEPT !.nextClk = t, !.nextIdx = c.num]
              ELSE added
      BY <1>2, <2>1 DEF AddPending, Slots
    <3> HIDE DEF n, added
    <3>4. c.num \in -1 .. MaxPending
      BY <2>1 DEF Slots
    <3> QED BY <3>2, <3>3, <3>4 DEF Contexts
  <2> HIDE DEF n
  <2>3. /\ n.slot[c.num] = [alarm |-> a, clk |-> t] /\ n.idx[a] = c.num
        /\ \A i \in InUse(n) : i = c.num \/ i \in InUse(c)
        /\ \A i \in InUse(c) : i \in Slots /\ i # c.num /\ n.slot[i] = c.slot[i]
        /\ \A b \in Alarms : b # a => n.idx[b] = c.idx[b]
    BY <1>2, <2>1, <2>2 DEF InUse, Slots
  <2>4. \A i \in InUse(c) : /\ c.slot[i].alarm \in c.live
                            /\ c.slot[i].alarm \in Alarms
                            /\ c.slot[i].alarm # a
                            /\ c.idx[c.slot[i].alarm] = i
    BY <2>1 DEF Consistent, SlotsMatch, InUse, IsPending, Contexts
  <2>5. SlotsMatch(n)
    <3>1. ASSUME NEW i \in InUse(n)
          PROVE  n.slot[i].alarm \in n.live /\ n.idx[n.slot[i].alarm] = i
      BY <2>2, <2>3, <2>4
    <3>2. ASSUME NEW b \in Alarms, IsPending(n, b)
          PROVE  n.idx[b] \in InUse(n) /\ n.slot[n.idx[b]].alarm = b
      <4>1. CASE b = a
        BY <2>1, <2>2, <2>3, <4>1 DEF InUse
      <4>2. CASE b # a
        <5>1. IsPending(c, b) /\ n.idx[b] = c.idx[b]
          BY <2>3, <3>2, <4>2 DEF IsPending
        <5>2. c.idx[b] \in InUse(c) /\ c.slot[c.idx[b]].alarm = b
          BY <5>1 DEF Consistent, SlotsMatch
        <5> QED BY <2>1, <2>2, <2>3, <5>1, <5>2 DEF InUse
      <4> QED BY <4>1, <4>2
    <3> QED BY <3>1, <3>2 DEF SlotsMatch
  <2>6. NextIsEarliest(n)
    <3>1. ASSUME NEW i \in InUse(n)  PROVE n.nextClk <= n.slot[i].clk
      <4>1. CASE i = c.num
        BY <2>1, <2>2, <2>3, <4>1 DEF Clock
      <4>2. CASE i \in InUse(c)
        <5>1. c.nextClk <= c.slot[i].clk /\ c.slot[i].clk \in Clock
          BY <2>1, <2>3, <4>2 DEF Consistent, NextIsEarliest
        <5> QED BY <2>1, <2>2, <2>3, <4>2, <5>1 DEF Clock
      <4> QED BY <2>3, <4>1, <4>2
    <3>2. ASSUME n.nextClk < ClockMax
          PROVE  n.nextIdx \in InUse(n) /\ n.slot[n.nextIdx].clk = n.nextClk
      <4>1. CASE t < c.nextClk
        BY <2>1, <2>2, <2>3, <4>1 DEF InUse
      <4>2. CASE ~(t < c.nextClk)
        <5>1. c.nextIdx \in InUse(c) /\ c.slot[c.nextIdx].clk = c.nextClk
          BY <2>2, <3>2, <4>2 DEF Consistent, NextIsEarliest
        <5> QED BY <2>1, <2>2, <2>3, <4>2, <5>1 DEF InUse
      <4> QED BY <4>1, <4>2
    <3> QED BY <2>1, <2>2, <3>1, <3>2 DEF NextIsEarliest
  <2>7. BeforeEnd(n)
    BY <2>2, <2>3 DEF Consistent, BeforeEnd
  <2>8. \A x \in Alarms : x # a => DueTime(n, x) = DueTime(c, x)
    <3>1. \A x \in Alarms : IsPending(c, x) => c.idx[x] \in InUse(c)
      BY DEF Consistent, SlotsMatch
    <3> QED BY <2>3, <3>1 DEF DueTime, IsPending
  <2>9. DueTime(n, a) = t
    BY <2>1, <2>3 DEF DueTime, IsPending
  <2> QED BY <2>2, <2>5, <2>6, <2>7, <2>8, <2>9 DEF Consistent, n
<1>3. c.num \in Nat /\ MaxPending \in Nat
  BY DEF Consistent, Contexts
<1> QED BY <1>1, <1>2, <1>3

(* Moving the due time of a pending alarm keeps the table consistent and    *)
(* changes no other (alarm.h:178-186).                                      *)
LEMMA ModifyConsistent ==
    ASSUME NEW c, Consistent(c), NEW a \in c.live, IsPending(c, a),
           NEW t \in Clock, t < ClockMax
    PROVE  /\ Consistent(ModifyPending(c, a, t))
           /\ ModifyPending(c, a, t).live = c.live
           /\ \A x \in Alarms : x # a =>
                  DueTime(ModifyPending(c, a, t), x) = DueTime(c, x)
           /\ DueTime(ModifyPending(c, a, t), a) = t
<1> USE ClockMaxAssumption, MaxPendingAssumption
<1> DEFINE m == [c EXCEPT !.slot[c.idx[a]].clk = t]
<1>1. /\ c \in Contexts /\ a \in Alarms /\ c.num \in Nat /\ c.nextClk \in Clock
      /\ c.slot \in [Slots -> [alarm : Alarms \cup {NoAlarm}, clk : Clock]]
      /\ c.idx[a] \in InUse(c) /\ InUse(c) \subseteq Slots
      /\ c.slot[c.idx[a]].alarm = a
  BY DEF Consistent, SlotsMatch, Contexts, Slots, InUse
<1>2. /\ m \in Contexts /\ m.num = c.num /\ m.live = c.live /\ m.idx = c.idx
      /\ m.nextClk = c.nextClk /\ m.nextIdx = c.nextIdx
      /\ m.slot = [c.slot EXCEPT ![c.idx[a]] = [c.slot[c.idx[a]] EXCEPT !.clk = t]]
  BY <1>1 DEF Contexts
<1> HIDE DEF m
<1>3. /\ m.slot[c.idx[a]].alarm = a /\ m.slot[c.idx[a]].clk = t
      /\ \A i \in InUse(c) : i # c.idx[a] => m.slot[i] = c.slot[i]
      /\ InUse(m) = InUse(c)
  BY <1>1, <1>2 DEF InUse
<1>4. SlotsMatch(m)
  <2>1. SlotsMatch(c)
    BY DEF Consistent
  <2>2. \A i \in InUse(c) : m.slot[i].alarm = c.slot[i].alarm
    BY <1>3, <1>1
  <2>3. \A x \in Alarms : IsPending(m, x) <=> IsPending(c, x)
    BY <1>2 DEF IsPending
  <2> QED BY <1>2, <1>3, <2>1, <2>2, <2>3 DEF SlotsMatch
<1>10. BeforeEnd(m)
  BY <1>1, <1>2, <1>3 DEF Consistent, BeforeEnd
<1>11. /\ \A x \in Alarms : x # a => DueTime(m, x) = DueTime(c, x)
       /\ DueTime(m, a) = t
  <2>1. \A x \in Alarms : IsPending(c, x) => /\ c.idx[x] \in InUse(c)
                                             /\ c.slot[c.idx[x]].alarm = x
    BY DEF Consistent, SlotsMatch
  <2> QED BY <1>1, <1>2, <1>3, <2>1 DEF DueTime, IsPending
<1>5. CASE c.nextClk > t \/ c.idx[a] = c.nextIdx
  <2>1. ModifyPending(c, a, t) = UpdateNextPending(m)
    BY <1>5 DEF ModifyPending, m
  <2>2. m.num > 0
    BY <1>1, <1>2 DEF InUse
  <2>4. \A x \in Alarms : DueTime(UpdateNextPending(m), x) = DueTime(m, x)
    BY <1>2, UpdateFrame DEF DueTime, IsPending
  <2> QED BY <1>1, <1>2, <1>4, <1>10, <1>11, <2>1, <2>2, <2>4, UpdateConsistent,
             UpdateFrame
<1>6. CASE ~(c.nextClk > t \/ c.idx[a] = c.nextIdx)
  <2>1. ModifyPending(c, a, t) = m
    BY <1>6 DEF ModifyPending, m
  <2>2. NextIsEarliest(c)
    BY DEF Consistent
  <2>3. \A i \in InUse(m) : m.nextClk <= m.slot[i].clk
    BY <1>1, <1>2, <1>3, <1>6, <2>2 DEF NextIsEarliest, Clock
  <2>4. NextIsEarliest(m)
    BY <1>1, <1>2, <1>3, <1>6, <2>2, <2>3 DEF NextIsEarliest
  <2> QED BY <1>2, <1>4, <1>10, <1>11, <2>1, <2>4 DEF Consistent
<1> QED BY <1>5, <1>6

(* alarm_set as a whole (alarm.h:148-187).                                  *)
LEMMA SetConsistent ==
    ASSUME NEW c, Consistent(c), NEW a \in c.live, NEW t \in Clock,
           t < ClockMax
    PROVE  /\ Consistent(AlarmSet(c, a, t))
           /\ AlarmSet(c, a, t).live = c.live
           /\ \A x \in Alarms : x # a =>
                  DueTime(AlarmSet(c, a, t), x) = DueTime(c, x)
           /\ IsPending(c, a) \/ c.num < MaxPending =>
                  DueTime(AlarmSet(c, a, t), a) = t
BY AddConsistent, ModifyConsistent DEF AlarmSet

(* Giving up a slot: the alarm of the last slot moves, and the cached index *)
(* follows it.                                                              *)
LEMMA RemoveConsistent ==
    ASSUME NEW c, Consistent(c), NEW a \in c.live, IsPending(c, a), c.num > 1
    PROVE  /\ Consistent(RemovePending(c, a))
           /\ ~IsPending(RemovePending(c, a), a)
           /\ RemovePending(c, a).live = c.live
           /\ \A x \in Alarms : x # a =>
                  DueTime(RemovePending(c, a), x) = DueTime(c, x)
<1> USE ClockMaxAssumption, MaxPendingAssumption
<1> DEFINE i == c.idx[a]
           last == c.num - 1
           b == c.slot[last].alarm
           m == IF last = i THEN [c EXCEPT !.num = last, !.idx[a] = -1]
                ELSE [c EXCEPT !.num = last,
                               !.slot[i] = c.slot[last],
                               !.idx = [@ EXCEPT ![b] = i, ![a] = -1]]
<1>1. /\ c \in Contexts /\ a \in Alarms /\ c.num \in Nat /\ c.nextClk \in Clock
      /\ c.nextIdx \in -1 .. MaxPending /\ c.num <= MaxPending
      /\ c.slot \in [Slots -> [alarm : Alarms \cup {NoAlarm}, clk : Clock]]
      /\ c.idx \in [Alarms -> -1 .. MaxPending - 1]
      /\ i \in InUse(c) /\ InUse(c) \subseteq Slots
      /\ c.slot[i].alarm = a /\ last \in InUse(c) /\ last > 0 /\ i \in Slots
  BY DEF Consistent, SlotsMatch, Contexts, Slots, InUse
<1>2. /\ \A j \in InUse(c) : /\ c.slot[j].alarm \in Alarms
                             /\ c.slot[j].alarm \in c.live
                             /\ c.idx[c.slot[j].alarm] = j
      /\ b \in Alarms /\ c.idx[b] = last
  BY <1>1 DEF Consistent, SlotsMatch, Contexts
<1>3. /\ m \in Contexts /\ m.num = last /\ m.live = c.live
      /\ m.nextClk = c.nextClk /\ m.nextIdx = c.nextIdx
      /\ last = i => m.slot = c.slot /\ m.idx = [c.idx EXCEPT ![a] = -1]
      /\ last # i => /\ m.slot = [c.slot EXCEPT ![i] = c.slot[last]]
                     /\ m.idx = [c.idx EXCEPT ![b] = i, ![a] = -1]
  <2>1. last \in 0 .. MaxPending /\ i \in -1 .. MaxPending - 1 /\ last \in Slots
    BY <1>1 DEF Slots, InUse
  <2>2. CASE last = i
    BY <1>1, <2>1, <2>2 DEF Contexts
  <2>3. CASE last # i
    <3> DEFINE newSlot == [c.slot EXCEPT ![i] = c.slot[last]]
               newIdx == [c.idx EXCEPT ![b] = i, ![a] = -1]
    <3>1. m = [c EXCEPT !.num = last, !.slot = newSlot, !.idx = newIdx]
      BY <2>3
    <3>2. /\ newSlot \in [Slots -> [alarm : Alarms \cup {NoAlarm}, clk : Clock]]
          /\ newIdx \in [Alarms -> -1 .. MaxPending - 1]
      BY <1>1, <1>2, <2>1
    <3> HIDE DEF newSlot, newIdx, m
    <3>3. /\ m \in Contexts /\ m.num = last /\ m.live = c.live
          /\ m.nextClk = c.nextClk /\ m.nextIdx = c.nextIdx
          /\ m.slot = newSlot /\ m.idx = newIdx
      BY <1>1, <2>1, <3>1, <3>2 DEF Contexts
    <3> QED BY <2>3, <3>3 DEF newSlot, newIdx
  <2> QED BY <2>2, <2>3
<1> HIDE DEF m
<1>4. /\ m.idx[a] = -1
      /\ \A j \in InUse(m) : j \in InUse(c) /\ j # last
      /\ \A j \in InUse(m) : j # i => m.slot[j] = c.slot[j]
      /\ last # i => /\ m.slot[i] = c.slot[last] /\ m.idx[b] = i
                     /\ i \in InUse(m) /\ b # a
      /\ \A x \in Alarms : x # a /\ (x = b => last = i) => m.idx[x] = c.idx[x]
  <2>1. \A j \in InUse(m) : j \in InUse(c) /\ j # last /\ j \in Slots
    BY <1>1, <1>3 DEF InUse
  <2>2. CASE last = i
    BY <1>1, <1>2, <1>3, <2>1, <2>2
  <2>3. CASE last # i
    <3>1. b # a /\ i \in InUse(m)
      BY <1>1, <1>2, <1>3, <2>3 DEF InUse
    <3>2. m.idx[a] = -1 /\ m.idx[b] = i /\ m.slot[i] = c.slot[last]
      BY <1>1, <1>2, <1>3, <2>3, <3>1
    <3>3. \A x \in Alarms : x # a /\ x # b => m.idx[x] = c.idx[x]
      BY <1>1, <1>2, <1>3, <2>3
    <3>4. \A j \in InUse(m) : j # i => m.slot[j] = c.slot[j]
      BY <1>1, <1>3, <2>1, <2>3
    <3> QED BY <2>1, <2>3, <3>1, <3>2, <3>3, <3>4
  <2> QED BY <2>2, <2>3
<1>5. SlotsMatch(m)
  <2>1. ASSUME NEW j \in InUse(m)
        PROVE  m.slot[j].alarm \in m.live /\ m.idx[m.slot[j].alarm] = j
    <3>1. CASE j = i
      BY <1>1, <1>2, <1>3, <1>4, <2>1, <3>1
    <3>2. CASE j # i
      <4>1. m.slot[j].alarm # a /\ m.slot[j].alarm # b
        BY <1>1, <1>2, <1>4, <3>2
      <4>2. j \in InUse(c) /\ m.slot[j] = c.slot[j]
        BY <1>4, <2>1, <3>2
      <4>3. c.slot[j].alarm \in Alarms /\ c.slot[j].alarm \in c.live /\ c.idx[c.slot[j].alarm] = j
        BY <1>2, <4>2
      <4> QED BY <1>3, <1>4, <4>1, <4>2, <4>3
    <3> QED BY <3>1, <3>2
  <2>2. ASSUME NEW x \in Alarms, IsPending(m, x)
        PROVE  m.idx[x] \in InUse(m) /\ m.slot[m.idx[x]].alarm = x
    <3>1. x # a
      BY <1>4, <2>2 DEF IsPending
    <3>2. CASE x = b /\ last # i
      BY <1>4, <3>2
    <3>3. CASE ~(x = b /\ last # i)
      <4>1. m.idx[x] = c.idx[x]
        BY <1>4, <3>1, <3>3
      <4>2. c.idx[x] \in InUse(c) /\ c.slot[c.idx[x]].alarm = x
        BY <2>2, <4>1 DEF IsPending, Consistent, SlotsMatch
      <4>3. c.idx[x] # i /\ c.idx[x] # last
        BY <1>1, <1>2, <3>1, <3>3, <4>2
      <4>4. c.idx[x] \in InUse(m)
        BY <1>1, <1>3, <4>2, <4>3 DEF InUse
      <4> QED BY <1>4, <4>1, <4>2, <4>3, <4>4
    <3> QED BY <3>2, <3>3
  <2> QED BY <2>1, <2>2 DEF SlotsMatch
<1>6. m.num > 0 /\ \A j \in InUse(m) : m.nextClk <= m.slot[j].clk
  <2>1. \A j \in InUse(c) : c.nextClk <= c.slot[j].clk
    BY DEF Consistent, NextIsEarliest
  <2>2. ASSUME NEW j \in InUse(m)  PROVE  m.nextClk <= m.slot[j].clk
    <3>1. CASE j = i
      BY <1>1, <1>3, <1>4, <2>1, <2>2, <3>1
    <3>2. CASE j # i
      BY <1>3, <1>4, <2>1, <2>2, <3>2
    <3> QED BY <3>1, <3>2
  <2> QED BY <1>1, <1>3, <2>2
<1>10. BeforeEnd(m)
  BY <1>1, <1>2, <1>3, <1>4 DEF Consistent, BeforeEnd
<1>11. \A x \in Alarms : x # a => DueTime(m, x) = DueTime(c, x)
  <2> TAKE x \in Alarms
  <2> HAVE x # a
  <2>1. CASE x = b /\ last # i
    <3>1. c.idx[x] = last /\ last \in InUse(c)
      BY <1>1, <1>2, <2>1
    <3>2. m.idx[x] = i /\ m.slot[i] = c.slot[last] /\ i \in InUse(m)
      BY <1>4, <2>1
    <3>3. m.idx[x] >= 0 /\ c.idx[x] >= 0
      BY <3>1, <3>2 DEF InUse
    <3> QED BY ONLY <3>1, <3>2, <3>3 DEF DueTime, IsPending
  <2>2. CASE ~(x = b /\ last # i)
    <3>1. m.idx[x] = c.idx[x]
      BY <1>4, <2>2
    <3>2. CASE IsPending(c, x)
      <4>1. c.idx[x] \in InUse(c) /\ c.slot[c.idx[x]].alarm = x
        BY <3>2 DEF Consistent, SlotsMatch
      <4>2. c.idx[x] # i /\ c.idx[x] # last
        BY <1>1, <1>2, <2>2, <4>1
      <4>3. c.idx[x] \in InUse(m)
        BY <1>1, <1>3, <4>1, <4>2 DEF InUse
      <4> QED BY <1>4, <3>1, <4>2, <4>3 DEF DueTime, IsPending
    <3>3. CASE ~IsPending(c, x)
      BY <3>1, <3>3 DEF DueTime, IsPending
    <3> QED BY <3>2, <3>3
  <2> QED BY <2>1, <2>2
<1>7. CASE c.nextIdx = i
  <2>1. RemovePending(c, a) = UpdateNextPending(m)
    BY <1>7 DEF RemovePending, m
  <2>2. UpdateNextPending(m).idx = m.idx /\ UpdateNextPending(m).live = m.live
    BY <1>3 DEF UpdateNextPending, Contexts
  <2>3. \A x \in Alarms : DueTime(UpdateNextPending(m), x) = DueTime(m, x)
    BY <1>3, UpdateFrame DEF DueTime, IsPending
  <2> QED BY <1>3, <1>4, <1>5, <1>6, <1>10, <1>11, <2>1, <2>2, <2>3,
             UpdateConsistent DEF IsPending
<1>8. CASE c.nextIdx # i /\ c.nextIdx = last
  <2> DEFINE r == [m EXCEPT !.nextIdx = i]
  <2>1. RemovePending(c, a) = r
    BY <1>8 DEF RemovePending, m
  <2>2. /\ r \in Contexts /\ r.num = m.num /\ r.live = m.live /\ r.idx = m.idx
        /\ r.slot = m.slot /\ r.nextClk = m.nextClk /\ r.nextIdx = i
    <3>1. i \in -1 .. MaxPending
      BY <1>1 DEF Slots
    <3> QED BY <1>3, <3>1 DEF Contexts
  <2> HIDE DEF r
  <2>3. SlotsMatch(r) /\ BeforeEnd(r)
    BY <1>5, <1>10, <2>2 DEF SlotsMatch, BeforeEnd, InUse, IsPending
  <2>4. c.nextClk < ClockMax => c.slot[last].clk = c.nextClk
    BY <1>8 DEF Consistent, NextIsEarliest
  <2>5. InUse(r) = InUse(m)
    BY <2>2 DEF InUse
  <2>6. NextIsEarliest(r)
    BY <1>3, <1>4, <1>6, <1>8, <2>2, <2>4, <2>5 DEF NextIsEarliest
  <2>7. \A x \in Alarms : DueTime(r, x) = DueTime(m, x)
    BY <2>2 DEF DueTime, IsPending
  <2> QED BY <1>3, <1>4, <1>11, <2>1, <2>2, <2>3, <2>6, <2>7
          DEF Consistent, IsPending
<1>9. CASE c.nextIdx # i /\ c.nextIdx # last
  <2>1. RemovePending(c, a) = m
    BY <1>9 DEF RemovePending, m
  <2>2. c.nextClk < ClockMax => /\ c.nextIdx \in InUse(c)
                                /\ c.slot[c.nextIdx].clk = c.nextClk
    BY DEF Consistent, NextIsEarliest
  <2>3. c.nextIdx \in InUse(c) => c.nextIdx \in InUse(m)
    BY <1>1, <1>3, <1>9 DEF InUse
  <2>4. NextIsEarliest(m)
    BY <1>3, <1>4, <1>6, <1>9, <2>2, <2>3 DEF NextIsEarliest
  <2> QED BY <1>3, <1>4, <1>5, <1>10, <1>11, <2>1, <2>4
          DEF Consistent, IsPending
<1> QED BY <1>7, <1>8, <1>9

(* alarm_unset keeps the table consistent and forgets that alarm alone,     *)
(* although it moves the last slot (alarm.c:167-207).                       *)
LEMMA UnsetConsistent ==
    ASSUME NEW c, Consistent(c), NEW a \in c.live
    PROVE  /\ Consistent(AlarmUnset(c, a))
           /\ ~IsPending(AlarmUnset(c, a), a)
           /\ AlarmUnset(c, a).live = c.live
           /\ \A x \in Alarms : x # a =>
                  DueTime(AlarmUnset(c, a), x) = DueTime(c, x)
<1> USE ClockMaxAssumption, MaxPendingAssumption
<1>1. CASE ~IsPending(c, a)
  BY <1>1 DEF AlarmUnset
<1>2. CASE IsPending(c, a) /\ c.num > 1
  BY <1>2, RemoveConsistent DEF AlarmUnset
<1>3. CASE IsPending(c, a) /\ ~(c.num > 1)
  <2> DEFINE u == [c EXCEPT !.num = 0, !.nextClk = ClockMax, !.nextIdx = -1,
                            !.idx[a] = -1]
  <2>1. AlarmUnset(c, a) = u
    BY <1>3 DEF AlarmUnset
  <2>2. /\ c \in Contexts /\ a \in Alarms /\ c.num = 1 /\ c.idx[a] = 0
        /\ c.idx \in [Alarms -> -1 .. MaxPending - 1]
    BY <1>3 DEF Consistent, SlotsMatch, Contexts, InUse, IsPending
  <2>3. /\ u \in Contexts /\ u.num = 0 /\ u.live = c.live
        /\ u.nextClk = ClockMax /\ u.idx = [c.idx EXCEPT ![a] = -1]
    <3>1. /\ ClockMax \in Clock /\ -1 \in -1 .. MaxPending
          /\ [c.idx EXCEPT ![a] = -1] \in [Alarms -> -1 .. MaxPending - 1]
          /\ 0 \in 0 .. MaxPending
      BY <2>2 DEF Clock
    <3> QED BY <2>2, <3>1 DEF Contexts
  <2> HIDE DEF u
  <2>4. /\ \A x \in Alarms : ~IsPending(u, x)
        /\ \A x \in Alarms : x # a => ~IsPending(c, x)
    <3>1. ASSUME NEW x \in Alarms, x # a  PROVE  c.idx[x] = -1
      <4>1. IsPending(c, x) => c.idx[x] = 0 /\ c.slot[0].alarm = x
        BY <2>2 DEF Consistent, SlotsMatch, InUse
      <4>2. c.slot[0].alarm = a
        BY <1>3, <2>2 DEF Consistent, SlotsMatch, InUse
      <4> QED BY <2>2, <3>1, <4>1, <4>2 DEF IsPending
    <3>2. ASSUME NEW x \in Alarms  PROVE  ~IsPending(u, x)
      <4>1. CASE x = a
        BY <2>2, <2>3, <4>1 DEF IsPending
      <4>2. CASE x # a
        <5>1. u.idx[x] = c.idx[x]
          BY <2>2, <2>3, <4>2
        <5> QED BY <3>1, <4>2, <5>1 DEF IsPending
      <4> QED BY <4>1, <4>2
    <3> QED BY <3>1, <3>2 DEF IsPending
  <2>5. SlotsMatch(u) /\ NextIsEarliest(u) /\ BeforeEnd(u)
    BY <2>3, <2>4 DEF SlotsMatch, NextIsEarliest, BeforeEnd, InUse
  <2> QED BY <2>1, <2>2, <2>3, <2>4, <2>5 DEF Consistent, DueTime
<1> QED BY <1>1, <1>2, <1>3

(* alarm_destroy unsets the alarm and takes it off the list.                *)
LEMMA DestroyConsistent ==
    ASSUME NEW c, Consistent(c), NEW a \in c.live
    PROVE  /\ Consistent(AlarmDestroy(c, a))
           /\ ~IsPending(AlarmDestroy(c, a), a)
           /\ AlarmDestroy(c, a).live = c.live \ {a}
           /\ \A x \in Alarms : x # a =>
                  DueTime(AlarmDestroy(c, a), x) = DueTime(c, x)
<1> DEFINE u == AlarmUnset(c, a)
           d == AlarmDestroy(c, a)
<1>1. /\ Consistent(u) /\ ~IsPending(u, a) /\ u.live = c.live
      /\ \A x \in Alarms : x # a => DueTime(u, x) = DueTime(c, x)
  BY UnsetConsistent
<1>2. d = [u EXCEPT !.live = @ \ {a}]
  BY DEF AlarmDestroy
<1> HIDE DEF u, d
<1>3. /\ d \in Contexts /\ d.live = u.live \ {a} /\ d.num = u.num
      /\ d.slot = u.slot /\ d.idx = u.idx /\ d.nextClk = u.nextClk
      /\ d.nextIdx = u.nextIdx
  BY <1>1, <1>2 DEF Consistent, Contexts
<1>4. \A i \in InUse(u) : u.slot[i].alarm # a
  BY <1>1 DEF Consistent, SlotsMatch, IsPending, InUse, Contexts
<1>5. SlotsMatch(d)
  BY <1>1, <1>3, <1>4 DEF Consistent, SlotsMatch, IsPending, InUse
<1>6. NextIsEarliest(d) /\ BeforeEnd(d)
  BY <1>1, <1>3 DEF Consistent, NextIsEarliest, BeforeEnd, InUse
<1>7. \A x \in Alarms : DueTime(d, x) = DueTime(u, x)
  BY <1>3 DEF DueTime, IsPending
<1> QED BY <1>1, <1>3, <1>5, <1>6, <1>7 DEF Consistent, IsPending, d

(* The clock warp of an overflow: as long as it reaches below no pending    *)
(* clock, every clock and the cached one move together.                     *)
LEMMA WarpConsistent ==
    ASSUME NEW c, Consistent(c), c.num > 0, NEW w \in Clock,
           \A i \in InUse(c) : c.slot[i].clk >= w
    PROVE  /\ Consistent(TimeWarp(c, w))
           /\ TimeWarp(c, w).live = c.live /\ TimeWarp(c, w).idx = c.idx
           /\ TimeWarp(c, w).num = c.num
           /\ \A x \in Alarms :
                  DueTime(TimeWarp(c, w), x) = IF IsPending(c, x)
                                               THEN DueTime(c, x) - w
                                               ELSE ClockMax + 1
<1> USE ClockMaxAssumption, MaxPendingAssumption
<1> DEFINE newSlot == [i \in Slots |->
                          IF i \in InUse(c)
                          THEN [c.slot[i] EXCEPT !.clk = ClockSub(@, w)]
                          ELSE c.slot[i]]
           v == TimeWarp(c, w)
<1>1. /\ c \in Contexts /\ c.num \in Nat /\ c.nextClk \in Clock
      /\ c.slot \in [Slots -> [alarm : Alarms \cup {NoAlarm}, clk : Clock]]
      /\ InUse(c) \subseteq Slots
  BY DEF Consistent, Contexts, InUse, Slots
<1>2. \A t \in Clock : t >= w => ClockSub(t, w) = t - w /\ t - w \in Clock
  <2> TAKE t \in Clock
  <2> HAVE t >= w
  <2>1. t - w \in 0 .. ClockMax
    BY DEF Clock
  <2> QED BY <2>1, ModSmall DEF ClockSub, Clock
<1>3. c.nextClk >= w
  <2>1. CASE c.nextClk < ClockMax
    BY <1>1, <2>1 DEF Consistent, NextIsEarliest
  <2>2. CASE c.nextClk = ClockMax
    BY <2>2 DEF Clock
  <2> QED BY <1>1, <2>1, <2>2 DEF Clock
<1>4. newSlot \in [Slots -> [alarm : Alarms \cup {NoAlarm}, clk : Clock]]
  BY <1>1, <1>2
<1>5. \A i \in InUse(c) : /\ newSlot[i].clk = c.slot[i].clk - w
                          /\ newSlot[i].alarm = c.slot[i].alarm
  BY <1>1, <1>2
<1>6. v = [c EXCEPT !.slot = newSlot, !.nextClk = c.nextClk - w]
  BY <1>1, <1>2, <1>3 DEF TimeWarp
<1> HIDE DEF newSlot, v
<1>7. /\ v \in Contexts /\ v.live = c.live /\ v.num = c.num /\ v.idx = c.idx
      /\ v.slot = newSlot /\ v.nextClk = c.nextClk - w /\ v.nextIdx = c.nextIdx
  <2>1. c.nextClk - w \in Clock
    BY <1>1, <1>2, <1>3
  <2> QED BY <1>1, <1>4, <1>6, <2>1 DEF Contexts
<1>8. SlotsMatch(v)
  BY <1>5, <1>7 DEF Consistent, SlotsMatch, InUse, IsPending
<1>9. NextIsEarliest(v)
  <2>1. InUse(v) = InUse(c)
    BY <1>7 DEF InUse
  <2>2. \A i \in InUse(v) : v.nextClk <= v.slot[i].clk
    <3>1. \A i \in InUse(c) : c.nextClk <= c.slot[i].clk /\ c.slot[i].clk \in Clock
      BY <1>1 DEF Consistent, NextIsEarliest
    <3> QED BY <1>1, <1>5, <1>7, <2>1, <3>1 DEF Clock
  <2>3. c.nextIdx \in InUse(c) /\ c.slot[c.nextIdx].clk = c.nextClk
    <3>1. 0 \in InUse(c) /\ c.nextClk <= c.slot[0].clk /\ c.slot[0].clk < ClockMax
      BY <1>1 DEF Consistent, NextIsEarliest, BeforeEnd, InUse
    <3>2. c.nextClk < ClockMax
      BY <1>1, <3>1 DEF Clock
    <3> QED BY <3>2 DEF Consistent, NextIsEarliest
  <2> QED BY <1>1, <1>5, <1>7, <2>1, <2>2, <2>3 DEF NextIsEarliest
<1>10. BeforeEnd(v)
  BY <1>1, <1>5, <1>7 DEF Consistent, BeforeEnd, InUse, Clock
<1>11. \A x \in Alarms :
           DueTime(v, x) = IF IsPending(c, x) THEN DueTime(c, x) - w
                           ELSE ClockMax + 1
  <2>1. \A x \in Alarms : IsPending(c, x) => c.idx[x] \in InUse(c)
    BY DEF Consistent, SlotsMatch
  <2> QED BY <1>5, <1>7, <2>1 DEF DueTime, IsPending
<1> QED BY <1>7, <1>8, <1>9, <1>10, <1>11 DEF Consistent, v

(* A dispatch reads a slot that is in use, of an alarm that is due and      *)
(* earliest.                                                                *)
LEMMA DispatchSound ==
    ASSUME NEW c, Consistent(c), NEW at \in Clock, at < ClockMax,
           at >= c.nextClk
    PROVE  /\ Dispatched(c) \in c.live /\ Dispatched(c) \in Alarms
           /\ IsPending(c, Dispatched(c))
           /\ DueTime(c, Dispatched(c)) = c.nextClk
           /\ DispatchOffset(c, at) = at - c.nextClk
           /\ at - c.nextClk \in Clock
           /\ \A x \in Alarms : IsPending(c, x) =>
                  DueTime(c, Dispatched(c)) <= DueTime(c, x)
<1> USE ClockMaxAssumption, MaxPendingAssumption
<1> DEFINE a == Dispatched(c)
<1>1. c \in Contexts /\ c.nextClk \in Clock /\ c.nextClk < ClockMax /\ c.num \in Nat
  BY DEF Consistent, Contexts, Clock
<1>2. c.nextIdx \in InUse(c) /\ c.slot[c.nextIdx].clk = c.nextClk
  BY <1>1 DEF Consistent, NextIsEarliest
<1>3. a \in c.live /\ a \in Alarms /\ c.idx[a] = c.nextIdx
  BY <1>1, <1>2 DEF Consistent, SlotsMatch, Contexts, Dispatched
<1>4. IsPending(c, a) /\ DueTime(c, a) = c.nextClk
  BY <1>1, <1>2, <1>3 DEF IsPending, DueTime, InUse
<1>5. \A x \in Alarms : IsPending(c, x) => c.nextClk <= DueTime(c, x)
  BY DEF Consistent, SlotsMatch, NextIsEarliest, DueTime
<1>6. at - c.nextClk \in 0 .. ClockMax
  BY <1>1 DEF Clock
<1>7. DispatchOffset(c, at) = at - c.nextClk
  BY <1>6, ModSmall DEF DispatchOffset, ClockSub
<1> QED BY <1>3, <1>4, <1>5, <1>6, <1>7 DEF Clock

-----------------------------------------------------------------------------
(* The theorems.                                                            *)

IInv == Consistent(ctx) /\ called \in {<<>>} \cup (Alarms \cup {NoAlarm}) \X Clock

(* A new context is consistent, whatever its cached index holds.            *)
LEMMA InitIInv == Init => IInv
<1> USE ClockMaxAssumption, MaxPendingAssumption
<1> SUFFICES ASSUME Init PROVE IInv
  OBVIOUS
<1>1. PICK garbage \in -1 .. MaxPending : ctx = ContextInit(garbage)
  BY DEF Init
<1>2. /\ ctx \in Contexts /\ ctx.num = 0 /\ ctx.nextClk = ClockMax
      /\ \A a \in Alarms : ctx.idx[a] = -1
  BY <1>1 DEF ContextInit, Contexts, Clock, Slots
<1>3. SlotsMatch(ctx) /\ NextIsEarliest(ctx) /\ BeforeEnd(ctx)
  BY <1>2 DEF SlotsMatch, NextIsEarliest, BeforeEnd, InUse, IsPending
<1> QED BY <1>2, <1>3 DEF Init, IInv, Consistent

(* Every call of the interface keeps the context consistent.                *)
LEMMA NextIInv == IInv /\ [Next]_vars => IInv'
<1> USE ClockMaxAssumption, MaxPendingAssumption
<1> SUFFICES ASSUME IInv, [Next]_vars PROVE IInv'
  OBVIOUS
<1>1. Consistent(ctx)
  BY DEF IInv
<1>2. ASSUME NEW a \in Alarms, New(a) PROVE IInv'
  BY <1>1, <1>2, NewConsistent DEF New, IInv
<1>3. ASSUME NEW a \in Alarms, Unset(a) PROVE IInv'
  BY <1>1, <1>3, UnsetConsistent DEF Unset, IInv
<1>4. ASSUME NEW a \in Alarms, Destroy(a) PROVE IInv'
  BY <1>1, <1>4, DestroyConsistent DEF Destroy, IInv
<1>5. ASSUME NEW a \in Alarms, NEW t \in 0 .. (ClockMax - 1), Set(a, t)
      PROVE  IInv'
  <2>1. t \in Clock /\ t < ClockMax
    BY DEF Clock
  <2> QED BY <1>1, <1>5, <2>1, SetConsistent DEF Set, IInv
<1>6. ASSUME NEW at \in Clock, Dispatch(at) PROVE IInv'
  <2>1. /\ Dispatched(ctx) \in ctx.live /\ Dispatched(ctx) \in Alarms
        /\ DispatchOffset(ctx, at) \in Clock
    BY <1>1, <1>6, DispatchSound DEF Dispatch
  <2>2. called' \in {<<>>} \cup (Alarms \cup {NoAlarm}) \X Clock
    BY <1>6, <2>1 DEF Dispatch
  <2>3. ASSUME NEW t \in (ctx.nextClk + 1) .. (ClockMax - 1),
               ctx' = AlarmSet(ctx, Dispatched(ctx), t)
        PROVE  Consistent(ctx')
    <3>1. t \in Clock /\ t < ClockMax
      BY <1>1 DEF Consistent, Contexts, Clock
    <3> QED BY <1>1, <2>1, <2>3, <3>1, SetConsistent
  <2>4. ASSUME ctx' = AlarmUnset(ctx, Dispatched(ctx))
        PROVE  Consistent(ctx')
    BY <1>1, <2>1, <2>4, UnsetConsistent
  <2>5. Consistent(ctx')
    BY <1>6, <2>3, <2>4 DEF Dispatch
  <2> QED BY <2>2, <2>5 DEF IInv
<1>7. ASSUME NEW w \in 1 .. ClockMax, Warp(w) PROVE IInv'
  <2>1. w \in Clock
    BY DEF Clock
  <2> QED BY <1>1, <1>7, <2>1, WarpConsistent DEF Warp, IInv
<1>8. CASE UNCHANGED vars
  BY <1>8 DEF vars, IInv
<1> QED BY <1>2, <1>3, <1>4, <1>5, <1>6, <1>7, <1>8 DEF Next

(* Type correctness, for every number of alarms, slots and clock values.    *)
THEOREM TypeCorrect == Spec => []TypeOK
<1>1. IInv => TypeOK
  BY DEF IInv, TypeOK, Consistent
<1> QED BY InitIInv, NextIInv, <1>1, PTL DEF Spec

(* The slots and the alarms' pending_idx always name each other: no alarm   *)
(* is orphaned or duplicated by alarm_unset's move of the last slot.        *)
THEOREM TableAlwaysConsistent == Spec => []TableConsistent
<1>1. IInv => TableConsistent
  BY DEF IInv, TableConsistent, Consistent
<1> QED BY InitIInv, NextIInv, <1>1, PTL DEF Spec

(* The cached next alarm, the only thing a CPU polls, is always an earliest *)
(* pending one.                                                             *)
THEOREM CacheAlwaysCorrect == Spec => []CacheCorrect
<1>1. IInv => CacheCorrect
  BY DEF IInv, CacheCorrect, Consistent
<1> QED BY InitIInv, NextIInv, <1>1, PTL DEF Spec

-----------------------------------------------------------------------------
(* The table implements the queue.                                          *)

(* An alarm is pending exactly when it has a due time.                      *)
LEMMA PendingSet ==
    ASSUME NEW c, Consistent(c)
    PROVE  /\ \A x \in Alarms : IsPending(c, x) <=> DueTime(c, x) # ClockMax + 1
           /\ \A x \in Alarms : IsPending(c, x) => DueTime(c, x) \in Clock
<1>1. \A x \in Alarms : IsPending(c, x) => DueTime(c, x) \in Clock
  <2>1. ASSUME NEW x \in Alarms, IsPending(c, x)  PROVE  DueTime(c, x) \in Clock
    <3>1. c.idx[x] \in InUse(c) /\ c.num \in 0 .. MaxPending
      BY <2>1 DEF Consistent, SlotsMatch, Contexts
    <3>2. c.idx[x] \in Slots
      BY <3>1, MaxPendingAssumption DEF InUse, Slots
    <3> QED BY <2>1, <3>2 DEF Consistent, Contexts, DueTime
  <2> QED BY <2>1
<1>2. ClockMax + 1 \notin Clock
  BY ClockMaxAssumption DEF Clock
<1> QED BY <1>1, <1>2 DEF DueTime

(* There are as many pending alarms as slots in use.                        *)
LEMMA PendingCount ==
    ASSUME NEW c, Consistent(c), NEW P, P = {x \in Alarms : IsPending(c, x)}
    PROVE  Cardinality(P) = c.num
<1> DEFINE g == [i \in InUse(c) |-> c.slot[i].alarm]
<1>1. c.num \in Nat
  BY DEF Consistent, Contexts
<1>2. \A i \in InUse(c) : c.slot[i].alarm \in P /\ c.idx[c.slot[i].alarm] = i
  BY <1>1 DEF Consistent, SlotsMatch, Contexts, InUse, IsPending
<1>3. \A x \in P : c.idx[x] \in InUse(c) /\ c.slot[c.idx[x]].alarm = x
  BY DEF Consistent, SlotsMatch
<1>4. g \in Bijection(InUse(c), P)
  <2>1. g \in [InUse(c) -> P]
    BY <1>2
  <2>2. \A i, j \in InUse(c) : g[i] = g[j] => i = j
    BY <1>2
  <2>3. \A x \in P : \E i \in InUse(c) : g[i] = x
    BY <1>3
  <2> QED BY <2>1, <2>2, <2>3 DEF Bijection, Injection, Surjection, IsInjective
<1>5. ExistsBijection(InUse(c), P)
  BY <1>4 DEF ExistsBijection
<1>6. IsFiniteSet(InUse(c)) /\ Cardinality(InUse(c)) = c.num
  <2>1. 0 \in Int /\ c.num - 1 \in Int
    BY <1>1
  <2>2. IsFiniteSet(0 .. (c.num - 1))
    BY <2>1, FS_Interval
  <2>3. Cardinality(0 .. (c.num - 1))
          = IF 0 > c.num - 1 THEN 0 ELSE (c.num - 1) - 0 + 1
    BY <2>1, FS_Interval
  <2>4. Cardinality(0 .. (c.num - 1)) = c.num
    BY <1>1, <2>3
  <2> QED BY <2>2, <2>4 DEF InUse
<1> QED BY <1>5, <1>6, FS_Bijection

(* Every step of the table is a step of the queue, or none of its steps.    *)
LEMMA StepImplementsQueue == IInv /\ [Next]_vars => [Queue!Next]_(Queue!vars)
<1> USE ClockMaxAssumption, MaxPendingAssumption
<1> SUFFICES ASSUME IInv, [Next]_vars PROVE [Queue!Next]_(Queue!vars)
  OBVIOUS
<1> DEFINE Never == ClockMax + 1
<1>1. /\ Consistent(ctx) /\ ctx.live \subseteq Alarms
      /\ Queue!Never = Never /\ Queue!Clock = Clock
  BY DEF IInv, Consistent, Contexts, Queue!Never, Queue!Clock, Clock
<1>2. /\ Queue!Pending = {x \in Alarms : IsPending(ctx, x)}
      /\ \A x \in Alarms : IsPending(ctx, x) => Due[x] \in Clock
      /\ \A x \in Alarms : ~IsPending(ctx, x) => Due[x] = Never
  BY <1>1, PendingSet DEF Queue!Pending, Due, DueTime
<1>3. Queue!Cardinality(Queue!Pending) = ctx.num
  <2>1. Cardinality(Queue!Pending) = ctx.num
    BY <1>1, <1>2, PendingCount
  <2>2. \A S : Queue!Cardinality(S) = Cardinality(S)
    BY DEF Queue!Cardinality, Cardinality
  <2> QED BY <2>1, <2>2
<1>4. ASSUME NEW a \in Alarms, New(a) PROVE Queue!Create(a)
  BY <1>1, <1>4, NewConsistent DEF New, Queue!Create, Due
<1>5. ASSUME NEW a \in Alarms, Unset(a) PROVE Queue!Cancel(a)
  <2>1. /\ ctx'.live = ctx.live /\ DueTime(ctx', a) = Never
        /\ \A x \in Alarms : x # a => DueTime(ctx', x) = DueTime(ctx, x)
    BY <1>1, <1>5, UnsetConsistent DEF Unset, DueTime
  <2> QED BY <1>1, <1>5, <2>1 DEF Unset, Queue!Cancel, Due
<1>6. ASSUME NEW a \in Alarms, Destroy(a) PROVE Queue!Discard(a)
  <2>1. /\ ctx'.live = ctx.live \ {a} /\ DueTime(ctx', a) = Never
        /\ \A x \in Alarms : x # a => DueTime(ctx', x) = DueTime(ctx, x)
    BY <1>1, <1>6, DestroyConsistent DEF Destroy, DueTime
  <2> QED BY <1>1, <1>6, <2>1 DEF Destroy, Queue!Discard, Due
<1>7. ASSUME NEW a \in Alarms, NEW t \in 0 .. (ClockMax - 1), Set(a, t)
      PROVE  Queue!Schedule(a, t)
  <2>1. t \in Clock /\ t < ClockMax
    BY DEF Clock
  <2>2. CASE IsPending(ctx, a) \/ ctx.num < MaxPending
    <3>1. /\ ctx'.live = ctx.live /\ DueTime(ctx', a) = t
          /\ \A x \in Alarms : x # a => DueTime(ctx', x) = DueTime(ctx, x)
      BY <1>1, <1>7, <2>1, <2>2, SetConsistent DEF Set
    <3>2. Due' = [Due EXCEPT ![a] = t]
      BY <3>1 DEF Due
    <3> QED BY <1>2, <1>3, <1>7, <2>2, <3>1, <3>2 DEF Set, Queue!Schedule
  <2>3. CASE ~(IsPending(ctx, a) \/ ctx.num < MaxPending)
    <3>1. ctx.num \in Nat /\ ctx.num <= MaxPending
      BY <1>1 DEF Consistent, Contexts
    <3>2. ctx' = ctx /\ ctx.num = MaxPending
      BY <1>7, <2>3, <3>1 DEF Set, AlarmSet, AddPending
    <3> QED BY <1>2, <1>3, <1>7, <2>3, <3>2 DEF Set, Queue!Schedule, Due
  <2> QED BY <2>2, <2>3
<1>8. ASSUME NEW at \in Clock, Dispatch(at)
      PROVE  \E a \in Alarms, next \in Clock \cup {Never} :
                 Queue!Call(a, at, next)
  <2> DEFINE a == Dispatched(ctx)
  <2>1. /\ a \in ctx.live /\ a \in Alarms /\ IsPending(ctx, a)
        /\ DueTime(ctx, a) = ctx.nextClk
        /\ DispatchOffset(ctx, at) = at - ctx.nextClk
        /\ \A x \in Alarms : IsPending(ctx, x) => DueTime(ctx, a) <= DueTime(ctx, x)
    BY <1>1, <1>8, DispatchSound DEF Dispatch
  <2> HIDE DEF a
  <2>2. Queue!Earliest(a) /\ Due[a] = ctx.nextClk
    BY <1>2, <2>1 DEF Queue!Earliest, Due
  <2>3. called' = <<a, at - Due[a]>> /\ Due[a] <= at
    BY <1>1, <1>8, <2>1, <2>2 DEF Dispatch, Consistent, Contexts, Clock, a
  <2>4. ASSUME NEW t \in (ctx.nextClk + 1) .. (ClockMax - 1), ctx' = AlarmSet(ctx, a, t)
        PROVE  Queue!Call(a, at, t) /\ t \in Clock
    <3>1. t \in Clock /\ t < ClockMax
      BY <1>1 DEF Consistent, Contexts, Clock
    <3>2. /\ ctx'.live = ctx.live /\ DueTime(ctx', a) = t
          /\ \A x \in Alarms : x # a => DueTime(ctx', x) = DueTime(ctx, x)
      BY <1>1, <2>1, <2>4, <3>1, SetConsistent
    <3>3. Due' = [Due EXCEPT ![a] = t]
      BY <2>1, <3>2 DEF Due
    <3> QED BY <2>2, <2>3, <3>1, <3>2, <3>3 DEF Queue!Call
  <2>5. ASSUME ctx' = AlarmUnset(ctx, a)
        PROVE  Queue!Call(a, at, Never)
    <3>1. /\ ctx'.live = ctx.live /\ DueTime(ctx', a) = Never
          /\ \A x \in Alarms : x # a => DueTime(ctx', x) = DueTime(ctx, x)
      BY <1>1, <2>1, <2>5, UnsetConsistent DEF DueTime
    <3>2. Due' = [Due EXCEPT ![a] = Never]
      BY <2>1, <3>1 DEF Due
    <3> QED BY <2>2, <2>3, <3>1, <3>2 DEF Queue!Call
  <2> QED BY <1>8, <2>1, <2>4, <2>5 DEF Dispatch, a
<1>9. ASSUME NEW w \in 1 .. ClockMax, Warp(w)
      PROVE  Queue!Warp(w) /\ w \in Clock
  <2>1. w \in Clock
    BY DEF Clock
  <2>2. /\ ctx'.live = ctx.live
        /\ \A x \in Alarms : DueTime(ctx', x) = IF IsPending(ctx, x)
                                                THEN DueTime(ctx, x) - w
                                                ELSE Never
    BY <1>1, <1>9, <2>1, WarpConsistent DEF Warp
  <2>3. \A x \in Alarms : IsPending(ctx, x) => DueTime(ctx, x) >= w
    BY <1>1, <1>9 DEF Warp, Consistent, SlotsMatch, DueTime
  <2>4. Due' = [x \in Alarms |-> IF x \in Queue!Pending THEN Due[x] - w ELSE Never]
    BY <1>2, <2>2 DEF Due
  <2>5. \A x \in Queue!Pending : Due[x] >= w
    BY <1>2, <2>3 DEF Due
  <2> QED BY <1>1, <1>9, <2>1, <2>2, <2>4, <2>5 DEF Warp, Queue!Warp
<1>10. CASE UNCHANGED vars
  BY <1>10 DEF vars, Queue!vars, Due
<1> QED BY <1>1, <1>4, <1>5, <1>6, <1>7, <1>8, <1>9, <1>10 DEF Next, Queue!Next, Clock

(* A chip that uses alarms may think of them as a set of due times: the     *)
(* table, its index bookkeeping and its cache never show.                   *)
THEOREM TableImplementsQueue == Spec => ImplementsQueue
<1>1. Init => Queue!Init
  <2> SUFFICES ASSUME Init PROVE Queue!Init
    OBVIOUS
  <2>1. \A x \in Alarms : ctx.idx[x] = -1
    BY DEF Init, ContextInit
  <2> QED BY <2>1 DEF Init, ContextInit, Queue!Init, Queue!Never, Due,
             DueTime, IsPending
<1> QED BY <1>1, InitIInv, NextIInv, StepImplementsQueue, PTL
        DEF Spec, ImplementsQueue, Queue!Spec

-----------------------------------------------------------------------------
(* Finite sets of lines.                                                    *)

(* The sets of asserting lines are finite.                                  *)
LEMMA LinesFinite ==
    \A s : IsFiniteSet(IrqLines(s)) /\ IsFiniteSet(NmiLines(s))
<1>1. ASSUME NEW s
      PROVE  IrqLines(s) \subseteq Lines /\ NmiLines(s) \subseteq Lines
  BY DEF IrqLines, NmiLines
<1> QED BY <1>1, LinesAssumption, FS_Subset

(* A count that is right stays right when a line joins or leaves.           *)
LEMMA CountChange ==
    ASSUME NEW S, IsFiniteSet(S), NEW x
    PROVE  /\ Cardinality(S) \in Nat
           /\ x \notin S => Cardinality(S \cup {x}) = Cardinality(S) + 1
           /\ x \in S => Cardinality(S \ {x}) = Cardinality(S) - 1
           /\ Cardinality(S) = 0 <=> S = {}
<1>1. Cardinality(S) \in Nat
  BY FS_CardinalityType
<1>2. x \notin S => Cardinality(S \cup {x}) = Cardinality(S) + 1
  BY FS_AddElement
<1>3. x \in S => Cardinality(S \ {x}) = Cardinality(S) - 1
  BY FS_RemoveElement
<1>4. Cardinality(S) = 0 <=> S = {}
  BY FS_EmptySet
<1> QED BY <1>1, <1>2, <1>3, <1>4

(* The number of the lines that assert, when it is 0 and when it is not.    *)
LEMMA LinesCount ==
    ASSUME NEW s
    PROVE  /\ Cardinality(IrqLines(s)) \in Nat
           /\ Cardinality(IrqLines(s)) = 0 <=> IrqLines(s) = {}
           /\ Cardinality(NmiLines(s)) \in Nat
           /\ Cardinality(NmiLines(s)) = 0 <=> NmiLines(s) = {}
<1>1. IsFiniteSet(IrqLines(s)) /\ IsFiniteSet(NmiLines(s))
  BY LinesFinite
<1> QED BY <1>1, FS_CardinalityType, FS_EmptySet

(* A clock that stays below the end of the range does not wrap.             *)
LEMMA AddSmall ==
    ASSUME NEW t \in Nat, NEW d \in Nat, t + d <= ClockMax
    PROVE  ClockAdd(t, d) = t + d
BY ClockMaxAssumption DEF ClockAdd

(* The types of a status' fields.                                           *)
LEMMA StatusFields ==
    ASSUME NEW s \in Statuses
    PROVE  /\ s.pending \in [Lines -> SUBSET LineKinds]
           /\ s.nirq \in Nat /\ s.nnmi \in Nat /\ s.global \in SUBSET Kinds
           /\ s.irqClk \in Clock /\ s.nmiClk \in Clock
           /\ s.irqPendingClk \in Clock /\ s.trap \in Traps \cup {NoTrap}
BY DEF Statuses

(* A line's kinds stay kinds.                                               *)
LEMMA PendingUpdate ==
    ASSUME NEW s \in Statuses, NEW l \in Lines, NEW k \in LineKinds
    PROVE  /\ [s.pending EXCEPT ![l] = @ \cup {k}] \in [Lines -> SUBSET LineKinds]
           /\ [s.pending EXCEPT ![l] = @ \ {k}] \in [Lines -> SUBSET LineKinds]
BY DEF Statuses

-----------------------------------------------------------------------------
(* Each call of the interface.                                              *)

(* Pulling the IRQ wire (interrupt.h:133-160).                              *)
LEMMA AssertIrqRight ==
    ASSUME NEW s \in Statuses, Counts(s), NEW l \in Lines, NEW t \in Clock
    PROVE  LET r == AssertIrq(s, l, t)
           IN  /\ r \in Statuses /\ Counts(r)
               /\ IrqLines(r) = IrqLines(s) \cup {l}
               /\ NmiLines(r) = NmiLines(s)
               /\ "NMI" \in r.global <=> "NMI" \in s.global
               /\ "IRQ" \in r.global
               /\ r = s \/ r.irqPendingClk = ClockMax
<1> DEFINE r == AssertIrq(s, l, t)
<1>1. CASE "IRQ" \in s.pending[l]
  <2>1. r = s
    BY <1>1 DEF AssertIrq
  <2>2. l \in IrqLines(s)
    BY <1>1 DEF IrqLines
  <2> QED BY <2>1, <2>2 DEF Counts
<1>2. CASE "IRQ" \notin s.pending[l]
  <2> DEFINE p == [s.pending EXCEPT ![l] = @ \cup {"IRQ"}]
             n == s.nirq + 1
             g == s.global \cup {"IRQ", "IRQPEND"}
  <2>1. r = [s EXCEPT !.pending = p, !.nirq = n, !.global = g,
                      !.irqClk = t, !.irqPendingClk = ClockMax]
    BY <1>2 DEF AssertIrq, Statuses
  <2>2. /\ p \in [Lines -> SUBSET LineKinds] /\ n \in Nat /\ g \in SUBSET Kinds
        /\ ClockMax \in Clock
    BY PendingUpdate, StatusFields, ClockMaxAssumption DEF LineKinds, Kinds, Clock
  <2> HIDE DEF r, p, n, g
  <2>3. /\ r \in Statuses /\ r.pending = p /\ r.nirq = n /\ r.nnmi = s.nnmi
        /\ r.global = g /\ r.irqPendingClk = ClockMax
    BY <2>1, <2>2 DEF Statuses
  <2> USE DEF p, n, g
  <2>4. IrqLines(r) = IrqLines(s) \cup {l} /\ NmiLines(r) = NmiLines(s)
    BY <2>3 DEF IrqLines, NmiLines, Statuses
  <2>5. l \notin IrqLines(s)
    BY <1>2 DEF IrqLines
  <2>6. Counts(r)
    BY <2>3, <2>4, <2>5, LinesFinite, CountChange DEF Counts
  <2> QED BY <2>3, <2>4, <2>6 DEF r
<1> QED BY <1>1, <1>2

(* Releasing the IRQ wire (interrupt.h:161-179): the flag falls with the    *)
(* last line, and then opens the window.                                    *)
LEMMA ReleaseIrqRight ==
    ASSUME NEW s \in Statuses, Counts(s), NEW l \in Lines,
           NEW t \in Clock, t + IrqWindow < ClockMax
    PROVE  LET r == ReleaseIrq(s, l, t)
           IN  /\ r \in Statuses /\ Counts(r)
               /\ IrqLines(r) = IrqLines(s) \ {l}
               /\ NmiLines(r) = NmiLines(s)
               /\ "NMI" \in r.global <=> "NMI" \in s.global
               /\ "IRQ" \in r.global => r.irqPendingClk = s.irqPendingClk
               /\ "IRQ" \in s.global /\ "IRQ" \notin r.global
                      => r.irqPendingClk = t + IrqWindow
               /\ "IRQ" \notin s.global => r = s
<1> DEFINE r == ReleaseIrq(s, l, t)
<1>1. CASE "IRQ" \notin s.pending[l]
  <2>1. r = s
    BY <1>1 DEF ReleaseIrq
  <2>2. l \notin IrqLines(s)
    BY <1>1 DEF IrqLines
  <2> QED BY <2>1, <2>2 DEF Counts
<1>2. CASE "IRQ" \in s.pending[l]
  <2>1. l \in IrqLines(s)
    BY <1>2 DEF IrqLines
  <2>2. s.nirq \in Nat /\ s.nirq # 0 /\ "IRQ" \in s.global
    BY <2>1, LinesCount, StatusFields DEF Counts
  <2> DEFINE p == [s.pending EXCEPT ![l] = @ \ {"IRQ"}]
             n == s.nirq - 1
             u == [s EXCEPT !.pending = p, !.nirq = n]
  <2>a. p \in [Lines -> SUBSET LineKinds] /\ n \in Nat
    BY <2>2, PendingUpdate, StatusFields DEF LineKinds
  <2>b. u = [s EXCEPT !.pending[l] = @ \ {"IRQ"}, !.nirq = @ - 1]
    BY DEF Statuses
  <2> HIDE DEF p, n
  <2>3. /\ u \in Statuses /\ u.pending = p /\ u.nirq = n
        /\ u.nnmi = s.nnmi /\ u.global = s.global
        /\ u.irqPendingClk = s.irqPendingClk
    BY <2>a DEF Statuses
  <2> USE DEF p, n
  <2>4. r = IF u.nirq > 0 THEN u
            ELSE [u EXCEPT !.global = @ \ {"IRQ"},
                           !.irqPendingClk = ClockAdd(t, IrqWindow)]
    BY <1>2, <2>2, <2>b DEF ReleaseIrq
  <2> HIDE DEF u, r
  <2>5. IrqLines(u) = IrqLines(s) \ {l} /\ NmiLines(u) = NmiLines(s)
    BY <2>3 DEF IrqLines, NmiLines, Statuses
  <2>6. u.nirq = Cardinality(IrqLines(u)) /\ u.nnmi = Cardinality(NmiLines(u))
    BY <2>1, <2>3, <2>5, LinesFinite, CountChange DEF Counts
  <2>7. CASE u.nirq > 0
    <3>1. IrqLines(u) # {}
      BY <2>6, <2>7, LinesCount
    <3>2. Counts(u)
      BY <2>2, <2>3, <2>6, <3>1 DEF Counts
    <3> QED BY <2>2, <2>3, <2>4, <2>5, <2>7, <3>2 DEF r
  <2>8. CASE ~(u.nirq > 0)
    <3>1. u.nirq = 0
      BY <2>2, <2>3, <2>8
    <3>2. IrqLines(u) = {}
      BY <2>6, <3>1, LinesFinite, CountChange
    <3>3. ClockAdd(t, IrqWindow) = t + IrqWindow /\ t + IrqWindow \in Clock
      BY AddSmall, ClockMaxAssumption DEF Clock, IrqWindow
    <3>4. /\ r \in Statuses /\ r.global = u.global \ {"IRQ"}
          /\ r.pending = u.pending /\ r.nirq = u.nirq /\ r.nnmi = u.nnmi
          /\ r.irqPendingClk = t + IrqWindow
      <4> DEFINE g == u.global \ {"IRQ"}
      <4>1. g \in SUBSET Kinds
        BY <2>3, StatusFields
      <4>2. r = [u EXCEPT !.global = g, !.irqPendingClk = t + IrqWindow]
        BY <2>4, <2>8, <3>3
      <4> HIDE DEF g
      <4>3. r \in Statuses /\ r.global = g /\ r.irqPendingClk = t + IrqWindow
        BY <2>3, <3>3, <4>1, <4>2 DEF Statuses
      <4>4. r.pending = u.pending /\ r.nirq = u.nirq /\ r.nnmi = u.nnmi
        BY <2>3, <4>2 DEF Statuses
      <4> QED BY <4>3, <4>4 DEF g
    <3>5. IrqLines(r) = IrqLines(u) /\ NmiLines(r) = NmiLines(u)
      BY <3>4 DEF IrqLines, NmiLines
    <3>6. Counts(r)
      BY <2>6, <3>2, <3>4, <3>5 DEF Counts
    <3> QED BY <2>2, <2>3, <2>5, <3>4, <3>5, <3>6 DEF r
  <2> QED BY <2>7, <2>8
<1> QED BY <1>1, <1>2

(* Pulling the NMI wire (interrupt.h:182-211): only its fall makes an NMI.  *)
LEMMA AssertNmiRight ==
    ASSUME NEW s \in Statuses, Counts(s), NEW l \in Lines, NEW t \in Clock
    PROVE  LET r == AssertNmi(s, l, t)
           IN  /\ r \in Statuses /\ Counts(r)
               /\ IrqLines(r) = IrqLines(s)
               /\ NmiLines(r) = NmiLines(s) \cup {l}
               /\ r.global \ {"NMI"} = s.global \ {"NMI"}
               /\ "NMI" \in r.global <=> "NMI" \in s.global \/ NmiLines(s) = {}
               /\ r.irqPendingClk = s.irqPendingClk
<1> DEFINE r == AssertNmi(s, l, t)
<1>1. CASE "NMI" \in s.pending[l]
  <2>1. r = s
    BY <1>1 DEF AssertNmi
  <2>2. l \in NmiLines(s)
    BY <1>1 DEF NmiLines
  <2> QED BY <2>1, <2>2 DEF Counts
<1>2. CASE "NMI" \notin s.pending[l]
  <2> DEFINE p == [s.pending EXCEPT ![l] = @ \cup {"NMI"}]
             n == s.nnmi + 1
             u == [s EXCEPT !.pending = p, !.nnmi = n]
  <2>a. p \in [Lines -> SUBSET LineKinds] /\ n \in Nat
    BY PendingUpdate, StatusFields DEF LineKinds
  <2>b. u = [s EXCEPT !.pending[l] = @ \cup {"NMI"}, !.nnmi = @ + 1]
    BY DEF Statuses
  <2> HIDE DEF p, n
  <2>1. /\ u \in Statuses /\ u.pending = p /\ u.nnmi = n
        /\ u.nirq = s.nirq /\ u.global = s.global
        /\ u.irqPendingClk = s.irqPendingClk
    BY <2>a DEF Statuses
  <2> USE DEF p, n
  <2>2. r = IF s.nnmi = 0 /\ "NMI" \notin s.global
            THEN [u EXCEPT !.global = @ \cup {"NMI"}, !.nmiClk = t] ELSE u
    BY <1>2, <2>b DEF AssertNmi
  <2> HIDE DEF u, r
  <2>3. /\ r \in Statuses /\ r.pending = u.pending
        /\ r.nirq = u.nirq /\ r.nnmi = u.nnmi
        /\ r.irqPendingClk = s.irqPendingClk
        /\ r.global = IF s.nnmi = 0 THEN s.global \cup {"NMI"} ELSE s.global
    <3>1. CASE s.nnmi = 0 /\ "NMI" \notin s.global
      <4> DEFINE g == s.global \cup {"NMI"}
      <4>1. g \in SUBSET Kinds
        BY StatusFields DEF Kinds, LineKinds
      <4>2. r = [u EXCEPT !.global = g, !.nmiClk = t]
        BY <2>1, <2>2, <3>1
      <4> HIDE DEF g
      <4>3. r \in Statuses /\ r.global = g
        BY <2>1, <4>1, <4>2 DEF Statuses
      <4>4. /\ r.pending = u.pending /\ r.nirq = u.nirq /\ r.nnmi = u.nnmi
            /\ r.irqPendingClk = u.irqPendingClk
        BY <2>1, <4>2 DEF Statuses
      <4> QED BY <2>1, <3>1, <4>3, <4>4 DEF g
    <3>2. CASE s.nnmi # 0 \/ "NMI" \in s.global
      <4>1. r = u
        BY <2>2, <3>2
      <4>2. s.nnmi = 0 => s.global \cup {"NMI"} = s.global
        BY <3>2
      <4> QED BY <2>1, <4>1, <4>2
    <3> QED BY <3>1, <3>2
  <2>4. IrqLines(r) = IrqLines(s) /\ NmiLines(r) = NmiLines(s) \cup {l}
    BY <2>1, <2>3 DEF IrqLines, NmiLines, Statuses
  <2>5. l \notin NmiLines(s)
    BY <1>2 DEF NmiLines
  <2>6. s.nnmi = 0 <=> NmiLines(s) = {}
    BY LinesFinite, CountChange DEF Counts
  <2>7. r.nnmi = Cardinality(NmiLines(r))
    BY <2>1, <2>3, <2>4, <2>5, LinesFinite, CountChange DEF Counts
  <2>8. Counts(r)
    BY <2>1, <2>3, <2>4, <2>7 DEF Counts
  <2> QED BY <2>1, <2>3, <2>4, <2>6, <2>8 DEF r
<1> QED BY <1>1, <1>2

(* Releasing the NMI wire (interrupt.h:212-231): the latch stays.           *)
LEMMA ReleaseNmiRight ==
    ASSUME NEW s \in Statuses, Counts(s), NEW l \in Lines
    PROVE  LET r == ReleaseNmi(s, l)
           IN  /\ r \in Statuses /\ Counts(r)
               /\ IrqLines(r) = IrqLines(s)
               /\ NmiLines(r) = NmiLines(s) \ {l}
               /\ r.global = s.global
               /\ r.irqPendingClk = s.irqPendingClk
<1> DEFINE r == ReleaseNmi(s, l)
<1>1. CASE "NMI" \notin s.pending[l]
  <2>1. r = s
    BY <1>1 DEF ReleaseNmi
  <2>2. l \notin NmiLines(s)
    BY <1>1 DEF NmiLines
  <2> QED BY <2>1, <2>2 DEF Counts
<1>2. CASE "NMI" \in s.pending[l]
  <2>1. l \in NmiLines(s)
    BY <1>2 DEF NmiLines
  <2>2. s.nnmi \in Nat /\ s.nnmi # 0
    BY <2>1, LinesCount, StatusFields DEF Counts
  <2> DEFINE p == [s.pending EXCEPT ![l] = @ \ {"NMI"}]
             n == s.nnmi - 1
  <2>3. r = [s EXCEPT !.pending = p, !.nnmi = n]
    BY <1>2, <2>2 DEF ReleaseNmi, Statuses
  <2>a. p \in [Lines -> SUBSET LineKinds] /\ n \in Nat
    BY <2>2, PendingUpdate, StatusFields DEF LineKinds
  <2> HIDE DEF r, p, n
  <2>4. /\ r \in Statuses /\ r.pending = p /\ r.nnmi = n
        /\ r.nirq = s.nirq /\ r.global = s.global
        /\ r.irqPendingClk = s.irqPendingClk
    BY <2>3, <2>a DEF Statuses
  <2> USE DEF p, n
  <2>5. IrqLines(r) = IrqLines(s) /\ NmiLines(r) = NmiLines(s) \ {l}
    BY <2>4 DEF IrqLines, NmiLines, Statuses
  <2>6. r.nnmi = Cardinality(NmiLines(r))
    BY <2>1, <2>4, <2>5, LinesFinite, CountChange DEF Counts
  <2>7. Counts(r)
    BY <2>4, <2>5, <2>6 DEF Counts
  <2> QED BY <2>4, <2>5, <2>7 DEF r
<1> QED BY <1>1, <1>2

(* What setting a line makes of the flags and of the end of the window, w   *)
(* if the line is the last that is released.                                *)
FlagsChange(s, r, w) ==
    /\ "IRQ" \in r.global
           => \/ r.irqPendingClk = ClockMax
              \/ "IRQ" \in s.global /\ r.irqPendingClk = s.irqPendingClk
    /\ "IRQ" \in s.global /\ "IRQ" \notin r.global => r.irqPendingClk = w
    /\ "IRQ" \notin s.global /\ "IRQ" \notin r.global
           => /\ r.irqPendingClk = s.irqPendingClk
              /\ "IRQPEND" \in r.global <=> "IRQPEND" \in s.global

(* Both lines at once (interrupt.h:237-242).                                *)
LEMMA SetIntRight ==
    ASSUME NEW s \in Statuses, Counts(s), NEW l \in Lines,
           NEW kinds \in SUBSET LineKinds,
           NEW t \in Clock, t + IrqWindow < ClockMax,
           NEW w, w = t + IrqWindow
    PROVE  LET r == SetInt(s, l, kinds, t)
           IN  /\ r \in Statuses /\ Counts(r)
               /\ IrqLines(r) = IF "IRQ" \in kinds THEN IrqLines(s) \cup {l}
                                ELSE IrqLines(s) \ {l}
               /\ NmiLines(r) = IF "NMI" \in kinds THEN NmiLines(s) \cup {l}
                                ELSE NmiLines(s) \ {l}
               /\ "NMI" \in r.global <=>
                      "NMI" \in s.global \/ ("NMI" \in kinds /\ NmiLines(s) = {})
               /\ FlagsChange(s, r, w)
<1> DEFINE n == IF "NMI" \in kinds THEN AssertNmi(s, l, t) ELSE ReleaseNmi(s, l)
           r == SetInt(s, l, kinds, t)
<1>1. /\ n \in Statuses /\ Counts(n)
      /\ IrqLines(n) = IrqLines(s)
      /\ NmiLines(n) = IF "NMI" \in kinds THEN NmiLines(s) \cup {l}
                       ELSE NmiLines(s) \ {l}
      /\ n.global \ {"NMI"} = s.global \ {"NMI"}
      /\ "NMI" \in n.global <=>
             "NMI" \in s.global \/ ("NMI" \in kinds /\ NmiLines(s) = {})
      /\ n.irqPendingClk = s.irqPendingClk
  <2>1. CASE "NMI" \in kinds
    <3>1. n = AssertNmi(s, l, t)
      BY <2>1
    <3> HIDE DEF n
    <3> QED BY <2>1, <3>1, AssertNmiRight
  <2>2. CASE "NMI" \notin kinds
    <3>1. n = ReleaseNmi(s, l)
      BY <2>2
    <3> HIDE DEF n
    <3> QED BY <2>2, <3>1, ReleaseNmiRight
  <2> QED BY <2>1, <2>2
<1>2. r = IF "IRQ" \in kinds THEN AssertIrq(n, l, t) ELSE ReleaseIrq(n, l, t)
  BY DEF SetInt
<1> HIDE DEF n, r
<1>3. /\ "IRQ" \in n.global <=> "IRQ" \in s.global
      /\ "IRQPEND" \in n.global <=> "IRQPEND" \in s.global
  BY <1>1
<1>4. CASE "IRQ" \in kinds
  <2>1. r = AssertIrq(n, l, t)
    BY <1>2, <1>4
  <2>2. /\ r \in Statuses /\ Counts(r)
        /\ IrqLines(r) = IrqLines(n) \cup {l} /\ NmiLines(r) = NmiLines(n)
        /\ "NMI" \in r.global <=> "NMI" \in n.global
        /\ "IRQ" \in r.global /\ (r = n \/ r.irqPendingClk = ClockMax)
    BY <1>1, <2>1, AssertIrqRight
  <2>3. FlagsChange(s, r, w)
    BY <1>1, <1>3, <2>2 DEF FlagsChange
  <2> QED BY <1>1, <1>3, <1>4, <2>2, <2>3 DEF r
<1>5. CASE "IRQ" \notin kinds
  <2>1. r = ReleaseIrq(n, l, t)
    BY <1>2, <1>5
  <2>2. /\ r \in Statuses /\ Counts(r)
        /\ IrqLines(r) = IrqLines(n) \ {l} /\ NmiLines(r) = NmiLines(n)
        /\ "NMI" \in r.global <=> "NMI" \in n.global
        /\ "IRQ" \in r.global => r.irqPendingClk = n.irqPendingClk
        /\ "IRQ" \in n.global /\ "IRQ" \notin r.global
               => r.irqPendingClk = t + IrqWindow
        /\ "IRQ" \notin n.global => r = n
    BY <1>1, <2>1, ReleaseIrqRight
  <2>3. "IRQ" \in r.global => "IRQ" \in n.global
    BY <2>2
  <2>4. FlagsChange(s, r, w)
    BY <1>1, <1>3, <2>2, <2>3 DEF FlagsChange
  <2> QED BY <1>1, <1>3, <1>5, <2>2, <2>3, <2>4 DEF r
<1> QED BY <1>4, <1>5

-----------------------------------------------------------------------------
(* What the CPU does with the flags.                                        *)
WithFlags(s, g, c) == [s EXCEPT !.global = g, !.irqPendingClk = c]

(* Changing the flags disturbs no line; the counts stay right as long as    *)
(* the IRQ flag does.                                                       *)
LEMMA FlagsRight ==
    ASSUME NEW s \in Statuses, Counts(s), NEW g \in SUBSET Kinds, NEW c \in Clock,
           "IRQ" \in g <=> "IRQ" \in s.global
    PROVE  LET r == WithFlags(s, g, c)
           IN  /\ r \in Statuses /\ Counts(r)
               /\ IrqLines(r) = IrqLines(s) /\ NmiLines(r) = NmiLines(s)
               /\ r.global = g /\ r.irqPendingClk = c
<1> DEFINE r == WithFlags(s, g, c)
<1>1. /\ r \in Statuses /\ r.global = g /\ r.irqPendingClk = c
      /\ r.pending = s.pending /\ r.nirq = s.nirq /\ r.nnmi = s.nnmi
  BY DEF WithFlags, Statuses
<1> HIDE DEF r
<1>2. IrqLines(r) = IrqLines(s) /\ NmiLines(r) = NmiLines(s)
  BY <1>1 DEF IrqLines, NmiLines
<1> QED BY <1>1, <1>2 DEF Counts, r

\* r has the lines of s, and its counts are right.
SameLines(s, r) ==
    /\ r \in Statuses /\ Counts(r)
    /\ IrqLines(r) = IrqLines(s) /\ NmiLines(r) = NmiLines(s)
    /\ "IRQ" \in r.global <=> "IRQ" \in s.global

(* Serving an interrupt and the expiry of a released IRQ disturb no line    *)
(* (interrupt.h:248-263, 6510core.c:1987-1999).                             *)
LEMMA ServingRight ==
    ASSUME NEW s \in Statuses, Counts(s)
    PROVE  /\ LET r == AckNmi(s)
              IN  /\ SameLines(s, r) /\ r.global = s.global \ {"NMI"}
                  /\ r.irqPendingClk = s.irqPendingClk
           /\ LET r == AckIrq(s)
              IN  /\ SameLines(s, r) /\ r.global = s.global \ {"IRQPEND"}
                  /\ r.irqPendingClk = ClockMax
           /\ LET r == DropReleasedIrq(s)
              IN  /\ SameLines(s, r)
                  /\ r.global = IF "IRQ" \in s.global THEN s.global
                                ELSE s.global \ {"IRQPEND"}
                  /\ r.irqPendingClk = s.irqPendingClk
<1> DEFINE n == s.global \ {"NMI"}
           p == s.global \ {"IRQPEND"}
<1>1. /\ n \in SUBSET Kinds /\ p \in SUBSET Kinds
      /\ "IRQ" \in n <=> "IRQ" \in s.global
      /\ "IRQ" \in p <=> "IRQ" \in s.global
      /\ s.irqPendingClk \in Clock /\ ClockMax \in Clock
  BY StatusFields, ClockMaxAssumption DEF Clock
<1>2. /\ AckNmi(s) = WithFlags(s, n, s.irqPendingClk)
      /\ AckIrq(s) = WithFlags(s, p, ClockMax)
      /\ [s EXCEPT !.global = @ \ {"IRQPEND"}] = WithFlags(s, p, s.irqPendingClk)
  BY DEF AckNmi, AckIrq, WithFlags, Statuses
<1> HIDE DEF n, p
<1>3. LET r == AckNmi(s)
      IN  SameLines(s, r) /\ r.global = n /\ r.irqPendingClk = s.irqPendingClk
  BY <1>1, <1>2, FlagsRight DEF SameLines
<1>4. LET r == AckIrq(s)
      IN  SameLines(s, r) /\ r.global = p /\ r.irqPendingClk = ClockMax
  BY <1>1, <1>2, FlagsRight DEF SameLines
<1>5. LET r == DropReleasedIrq(s)
      IN  /\ SameLines(s, r) /\ r.irqPendingClk = s.irqPendingClk
          /\ r.global = IF "IRQ" \in s.global THEN s.global ELSE p
  <2>1. CASE "IRQ" \in s.global
    BY <2>1 DEF DropReleasedIrq, SameLines
  <2>2. CASE "IRQ" \notin s.global
    <3>1. DropReleasedIrq(s) = WithFlags(s, p, s.irqPendingClk)
      BY <1>2, <2>2 DEF DropReleasedIrq
    <3> QED BY <1>1, <2>2, <3>1, FlagsRight DEF SameLines
  <2> QED BY <2>1, <2>2
<1> QED BY <1>3, <1>4, <1>5 DEF n, p

(* The expiry leaves an IRQ alone that is there or that may still be taken. *)
LEMMA ExpireRight ==
    ASSUME NEW s \in Statuses, Counts(s), NEW t \in Clock
    PROVE  LET r == ExpireIrq(s, t)
           IN  /\ SameLines(s, r)
               /\ r.global \ {"IRQPEND"} = s.global \ {"IRQPEND"}
               /\ "IRQPEND" \in r.global => r = s
               /\ "IRQ" \in s.global => r = s
               /\ "IRQPEND" \in r.global /\ "IRQ" \notin r.global
                      => t < r.irqPendingClk
<1>1. s.irqPendingClk \in Nat /\ t \in Nat
  BY StatusFields DEF Clock
<1>2. CASE "IRQ" \notin s.global /\ "IRQPEND" \in s.global /\ s.irqPendingClk <= t
  <2>1. ExpireIrq(s, t) = AckIrq(s)
    BY <1>2 DEF ExpireIrq
  <2>2. /\ SameLines(s, AckIrq(s))
        /\ AckIrq(s).global = s.global \ {"IRQPEND"}
    BY ServingRight
  <2> QED BY <1>2, <2>1, <2>2
<1>3. CASE ~("IRQ" \notin s.global /\ "IRQPEND" \in s.global /\ s.irqPendingClk <= t)
  <2>1. ExpireIrq(s, t) = s
    BY <1>3 DEF ExpireIrq
  <2> QED BY <1>1, <1>3, <2>1 DEF SameLines
<1> QED BY <1>2, <1>3

(* A warp disturbs no line and no flag (interrupt.c:130-168).               *)
LEMMA WarpRight ==
    ASSUME NEW s \in Statuses, Counts(s), NEW w \in Clock
    PROVE  LET r == StatusWarp(s, w)
           IN  /\ SameLines(s, r) /\ r.global = s.global
               /\ r.irqPendingClk = IF s.irqPendingClk < ClockMax
                                    THEN Back(s.irqPendingClk, w)
                                    ELSE s.irqPendingClk
<1> DEFINE i == Back(s.irqClk, w)
           n == Back(s.nmiClk, w)
           c == IF s.irqPendingClk < ClockMax THEN Back(s.irqPendingClk, w)
                ELSE s.irqPendingClk
           r == StatusWarp(s, w)
<1>1. \A t \in Clock : Back(t, w) \in Clock
  BY ClockMaxAssumption DEF Back, Clock
<1>2. i \in Clock /\ n \in Clock /\ c \in Clock
  BY <1>1, StatusFields
<1>3. r = [s EXCEPT !.irqClk = i, !.nmiClk = n, !.irqPendingClk = c]
  BY DEF StatusWarp
<1> HIDE DEF i, n, c, r
<1>4. /\ r \in Statuses /\ r.global = s.global /\ r.irqPendingClk = c
      /\ r.pending = s.pending /\ r.nirq = s.nirq /\ r.nnmi = s.nnmi
  BY <1>2, <1>3 DEF Statuses
<1>5. IrqLines(r) = IrqLines(s) /\ NmiLines(r) = NmiLines(s)
  BY <1>4 DEF IrqLines, NmiLines
<1> QED BY <1>4, <1>5 DEF SameLines, Counts, c, r

(* A status that was reset (interrupt.c:54-81).                             *)
LEMMA CleanRight ==
    LET z == StatusReset
    IN  /\ z \in Statuses /\ Counts(z)
        /\ IrqLines(z) = {} /\ NmiLines(z) = {}
        /\ z.global = {} /\ z.irqPendingClk = ClockMax
<1> DEFINE z == StatusReset
<1>1. [l \in Lines |-> {}] \in [Lines -> SUBSET LineKinds]
  OBVIOUS
<1>2. /\ z \in Statuses /\ z.pending = [l \in Lines |-> {}]
      /\ z.nirq = 0 /\ z.nnmi = 0 /\ z.global = {} /\ z.irqPendingClk = ClockMax
  <2>1. 0 \in Clock /\ ClockMax \in Clock
    BY ClockMaxAssumption DEF Clock
  <2> QED BY <1>1, <2>1 DEF StatusReset, Statuses
<1> HIDE DEF z
<1>3. IrqLines(z) = {} /\ NmiLines(z) = {}
  BY <1>2 DEF IrqLines, NmiLines
<1>4. Counts(z)
  BY <1>2, <1>3, FS_EmptySet DEF Counts
<1> QED BY <1>2, <1>3, <1>4 DEF z

(* A reset releases every line and clears every flag but the monitor's      *)
(* (interrupt.c:54-81, maincpu.c:305-325).                                  *)
LEMMA ResetRight ==
    ASSUME NEW s
    PROVE  LET r == ResetKeepingMonitor(s)
           IN  /\ r \in Statuses /\ Counts(r)
               /\ IrqLines(r) = {} /\ NmiLines(r) = {}
               /\ r.global \in SUBSET {"MONITOR"}
<1> DEFINE z == StatusReset
           r == ResetKeepingMonitor(s)
<1> DEFINE mon == {"MONITOR"}
           m == WithFlags(z, mon, ClockMax)
<1>2. /\ z \in Statuses /\ Counts(z) /\ z.global = {} /\ z.irqPendingClk = ClockMax
      /\ IrqLines(z) = {} /\ NmiLines(z) = {}
  BY CleanRight
<1>3. mon \in SUBSET Kinds /\ ClockMax \in Clock /\ ("IRQ" \in mon <=> "IRQ" \in z.global)
  BY <1>2, ClockMaxAssumption DEF Kinds, Clock
<1>4. r = z \/ r = m
  <2>1. MonitorTrapOn(z) = m
    BY <1>2 DEF MonitorTrapOn, WithFlags, Statuses
  <2> QED BY <2>1 DEF ResetKeepingMonitor, z
<1> HIDE DEF mon
<1>5. /\ m \in Statuses /\ Counts(m)
      /\ IrqLines(m) = IrqLines(z) /\ NmiLines(m) = NmiLines(z) /\ m.global = mon
  BY <1>2, <1>3, FlagsRight
<1> HIDE DEF r, m
<1>6. CASE r = z
  BY <1>2, <1>6 DEF r
<1>7. CASE r = m
  BY <1>2, <1>5, <1>7 DEF r, mon
<1> QED BY <1>4, <1>6, <1>7

-----------------------------------------------------------------------------
(* The inductive invariant: the counts and the window, and with them that   *)
(* the clock has room for the window and that a release is in the past.     *)
LinesInv ==
    /\ status \in Statuses
    /\ now \in Clock /\ now + IrqWindow < ClockMax
    /\ released \in Clock /\ (released = ClockMax \/ released <= now)
    /\ CountsMatch
    /\ WindowTrue

(* It holds of the reset status.                                            *)
LEMMA InitLinesInv == LinesInit => LinesInv
BY CleanRight, ClockMaxAssumption, RoomAssumption
   DEF LinesInit, LinesInv, CountsMatch, WindowTrue, Clock, IrqWindow

(* A line call keeps it: a new low closes the window, the last release      *)
(* opens a new one.                                                         *)
LEMMA LineStepIInv ==
    ASSUME LinesInv, UNCHANGED now, released' = Released,
           status' \in Statuses, Counts(status'),
           "IRQ" \in status'.global
               => \/ status'.irqPendingClk = ClockMax
                  \/ /\ "IRQ" \in status.global
                     /\ status'.irqPendingClk = status.irqPendingClk,
           "IRQ" \in status.global /\ "IRQ" \notin status'.global
               => status'.irqPendingClk = now + IrqWindow,
           "IRQ" \notin status.global /\ "IRQ" \notin status'.global
               => /\ status'.irqPendingClk = status.irqPendingClk
                  /\ "IRQPEND" \in status'.global <=> "IRQPEND" \in status.global
    PROVE  LinesInv'
<1>1. /\ released' \in Clock /\ (released' = ClockMax \/ released' <= now)
      /\ now # ClockMax
  BY ClockMaxAssumption DEF LinesInv, Released, Clock, IrqWindow
<1>2. WindowTrue'
  <2>1. CASE "IRQ" \in status'.global
    BY <2>1 DEF LinesInv, WindowTrue
  <2>2. CASE "IRQ" \notin status'.global /\ "IRQ" \in status.global
    <3>1. released' = now /\ status'.irqPendingClk = now + IrqWindow
      BY <2>2 DEF Released
    <3> QED BY <1>1, <2>2, <3>1 DEF WindowTrue, LinesInv, Clock, IrqWindow
  <2>3. CASE "IRQ" \notin status'.global /\ "IRQ" \notin status.global
    <3>1. released' = released
      BY <2>3 DEF Released
    <3> QED BY <2>3, <3>1 DEF WindowTrue, LinesInv
  <2> QED BY <2>1, <2>2, <2>3
<1>3. now' = now
  OBVIOUS
<1> QED BY <1>1, <1>2, <1>3 DEF LinesInv, CountsMatch

(* So does a step of the CPU after which no released IRQ is remembered.     *)
LEMMA CpuStepIInv ==
    ASSUME LinesInv, UNCHANGED now, released' = ClockMax,
           status' \in Statuses, Counts(status'),
           "IRQPEND" \in status'.global => "IRQ" \in status'.global,
           "IRQ" \in status'.global => status'.irqPendingClk = ClockMax
    PROVE  LinesInv'
BY ClockMaxAssumption DEF LinesInv, CountsMatch, WindowTrue, Clock

(* What every CPU step starts from: the status after the expiry.            *)
LEMMA ExpiredRight ==
    ASSUME LinesInv
    PROVE  /\ SameLines(status, Expired)
           /\ Expired.global \ {"IRQPEND"} = status.global \ {"IRQPEND"}
           /\ "IRQPEND" \in Expired.global => Expired = status
           /\ "IRQ" \in status.global => Expired.irqPendingClk = ClockMax
           /\ "IRQPEND" \in Expired.global /\ "IRQ" \notin Expired.global
                  => released # ClockMax /\ now < released + IrqWindow
<1>1. status \in Statuses /\ Counts(status) /\ now \in Clock /\ released \in Clock
  BY DEF LinesInv, CountsMatch
<1>2. LET r == Expired
      IN  /\ SameLines(status, r)
          /\ r.global \ {"IRQPEND"} = status.global \ {"IRQPEND"}
          /\ "IRQPEND" \in r.global => r = status
          /\ "IRQ" \in status.global => r = status
          /\ "IRQPEND" \in r.global /\ "IRQ" \notin r.global
                 => now < r.irqPendingClk
  BY <1>1, ExpireRight DEF Expired
<1>3. Expired \in Statuses /\ Expired.irqPendingClk \in Nat
  BY <1>2, StatusFields DEF SameLines, Clock
<1> QED BY <1>1, <1>2, <1>3 DEF LinesInv, WindowTrue, Clock, IrqWindow

(* An IRQ that is postponed only gets the flag that DropReleasedIrq looks   *)
(* at (maincpu.c:364-385).                                                  *)
LEMMA PostponeRight ==
    ASSUME LinesInv
    PROVE  LET r == DropReleasedIrq([Expired EXCEPT !.global = @ \cup {"IRQPEND"}])
           IN  /\ SameLines(status, r) /\ r.irqPendingClk = Expired.irqPendingClk
               /\ r.global \ {"IRQPEND"} = status.global \ {"IRQPEND"}
               /\ "IRQPEND" \in r.global => "IRQ" \in r.global
<1> DEFINE e == Expired
           g == e.global \cup {"IRQPEND"}
           c == e.irqPendingClk
           p == WithFlags(e, g, c)
<1>1. /\ SameLines(status, e) /\ e.global \ {"IRQPEND"} = status.global \ {"IRQPEND"}
  BY ExpiredRight
<1> HIDE DEF e
<1>2. e \in Statuses /\ Counts(e) /\ e.global \in SUBSET Kinds /\ c \in Clock
  BY <1>1, StatusFields DEF SameLines
<1>3. g \in SUBSET Kinds /\ ("IRQ" \in g <=> "IRQ" \in e.global)
  BY <1>2 DEF Kinds
<1>4. p = [e EXCEPT !.global = @ \cup {"IRQPEND"}]
  BY <1>2 DEF WithFlags, Statuses
<1> HIDE DEF g, c
<1>5. /\ p \in Statuses /\ Counts(p)
      /\ IrqLines(p) = IrqLines(e) /\ NmiLines(p) = NmiLines(e)
      /\ p.global = g /\ p.irqPendingClk = c
  BY <1>2, <1>3, FlagsRight
<1> HIDE DEF p
<1>6. LET r == DropReleasedIrq(p)
      IN  /\ SameLines(p, r) /\ r.irqPendingClk = p.irqPendingClk
          /\ r.global = IF "IRQ" \in p.global THEN p.global
                        ELSE p.global \ {"IRQPEND"}
  BY <1>5, ServingRight
<1>7. LET r == DropReleasedIrq(p)
      IN  /\ SameLines(status, r) /\ r.irqPendingClk = c
          /\ r.global \ {"IRQPEND"} = e.global \ {"IRQPEND"}
          /\ "IRQPEND" \in r.global => "IRQ" \in r.global
  BY <1>1, <1>3, <1>5, <1>6 DEF SameLines, g
<1> QED BY <1>1, <1>4, <1>7 DEF e, c

(* So does serving an NMI.                                                  *)
LEMMA ServeNmiRight ==
    ASSUME LinesInv
    PROVE  LET r == DropReleasedIrq(AckNmi(Expired))
           IN  /\ SameLines(status, r) /\ r.irqPendingClk = Expired.irqPendingClk
               /\ r.global \ {"IRQPEND"} = status.global \ {"IRQPEND", "NMI"}
               /\ "IRQPEND" \in r.global => "IRQ" \in r.global
<1> DEFINE e == Expired
           a == AckNmi(e)
           r == DropReleasedIrq(a)
<1>1. /\ SameLines(status, e) /\ e.global \ {"IRQPEND"} = status.global \ {"IRQPEND"}
  BY ExpiredRight
<1> HIDE DEF e
<1>2. /\ SameLines(e, a) /\ a.global = e.global \ {"NMI"}
      /\ a.irqPendingClk = e.irqPendingClk
  BY <1>1, ServingRight DEF SameLines
<1> HIDE DEF a
<1>3. /\ SameLines(a, r) /\ r.irqPendingClk = a.irqPendingClk
      /\ r.global = IF "IRQ" \in a.global THEN a.global
                    ELSE a.global \ {"IRQPEND"}
  BY <1>2, ServingRight DEF SameLines
<1> HIDE DEF r
<1>4. /\ SameLines(status, r) /\ r.irqPendingClk = e.irqPendingClk
      /\ "IRQPEND" \in r.global => "IRQ" \in r.global
  BY <1>1, <1>2, <1>3 DEF SameLines
<1>5. r.global \ {"IRQPEND"} = (e.global \ {"IRQPEND"}) \ {"NMI"}
  BY <1>2, <1>3
<1>6. r.global \ {"IRQPEND"} = status.global \ {"IRQPEND", "NMI"}
  BY <1>1, <1>5
<1> QED BY <1>4, <1>6 DEF r, a, e

-----------------------------------------------------------------------------
(* Every step keeps the invariant.                                          *)
LEMMA NextLinesInv == LinesInv /\ [LinesNext]_linesVars => LinesInv'
<1> SUFFICES ASSUME LinesInv, [LinesNext]_linesVars PROVE LinesInv'
  OBVIOUS
<1>1. /\ status \in Statuses /\ Counts(status)
      /\ now \in Clock /\ now + IrqWindow < ClockMax
  BY DEF LinesInv, CountsMatch
<1>2. ASSUME NEW l \in Lines, NEW value \in BOOLEAN, SetIrq(l, value)
      PROVE  LinesInv'
  <2>1. CASE value
    <3>1. status' = AssertIrq(status, l, now)
      BY <1>2, <2>1 DEF SetIrq
    <3>2. /\ status' \in Statuses /\ Counts(status') /\ "IRQ" \in status'.global
          /\ status' = status \/ status'.irqPendingClk = ClockMax
      BY <1>1, <3>1, AssertIrqRight
    <3> QED BY <1>2, <3>2, LineStepIInv DEF SetIrq
  <2>2. CASE ~value
    <3>1. status' = ReleaseIrq(status, l, now)
      BY <1>2, <2>2 DEF SetIrq
    <3>2. /\ status' \in Statuses /\ Counts(status')
          /\ "IRQ" \in status'.global => status'.irqPendingClk = status.irqPendingClk
          /\ "IRQ" \in status.global /\ "IRQ" \notin status'.global
                 => status'.irqPendingClk = now + IrqWindow
          /\ "IRQ" \notin status.global => status' = status
      BY <1>1, <3>1, ReleaseIrqRight
    <3> QED BY <1>2, <3>2, LineStepIInv DEF SetIrq
  <2> QED BY <2>1, <2>2
<1>3. ASSUME NEW l \in Lines, NEW value \in BOOLEAN, SetNmi(l, value)
      PROVE  LinesInv'
  <2>1. CASE value
    <3>1. status' = AssertNmi(status, l, now)
      BY <1>3, <2>1 DEF SetNmi
    <3>2. /\ status' \in Statuses /\ Counts(status')
          /\ status'.global \ {"NMI"} = status.global \ {"NMI"}
          /\ status'.irqPendingClk = status.irqPendingClk
      BY <1>1, <3>1, AssertNmiRight
    <3>3. /\ "IRQ" \in status'.global <=> "IRQ" \in status.global
          /\ "IRQPEND" \in status'.global <=> "IRQPEND" \in status.global
      BY <3>2
    <3> QED BY <1>3, <3>2, <3>3 DEF SetNmi, LinesInv, CountsMatch, WindowTrue
  <2>2. CASE ~value
    <3>1. status' = ReleaseNmi(status, l)
      BY <1>3, <2>2 DEF SetNmi
    <3>2. /\ status' \in Statuses /\ Counts(status')
          /\ status'.global = status.global
          /\ status'.irqPendingClk = status.irqPendingClk
      BY <1>1, <3>1, ReleaseNmiRight
    <3> QED BY <1>3, <3>2 DEF SetNmi, LinesInv, CountsMatch, WindowTrue
  <2> QED BY <2>1, <2>2
<1>4. ASSUME NEW l \in Lines, NEW kinds \in SUBSET LineKinds, SetBoth(l, kinds)
      PROVE  LinesInv'
  <2>1. PICK r, w : r = SetInt(status, l, kinds, now) /\ w = now + IrqWindow
    OBVIOUS
  <2>2. status' = r
    BY <1>4, <2>1 DEF SetBoth
  <2>3. r \in Statuses /\ Counts(r) /\ FlagsChange(status, r, w)
    BY <1>1, <2>1, SetIntRight
  <2> QED BY <1>4, <2>1, <2>2, <2>3, LineStepIInv DEF SetBoth, FlagsChange
<1>5. CASE Expire
  <2>1. /\ SameLines(status, status')
        /\ "IRQPEND" \in status'.global => status' = status
        /\ "IRQ" \in status.global => status'.irqPendingClk = ClockMax
    BY <1>5, ExpiredRight DEF Expire
  <2>2. ClockMax \in Clock /\ now' = now
    BY <1>5, ClockMaxAssumption DEF Expire, Clock
  <2> QED BY <1>5, <2>1, <2>2 DEF Expire, SameLines, LinesInv, CountsMatch, WindowTrue
<1>6. CASE ServeNmi
  <2>1. /\ SameLines(status, status') /\ status'.irqPendingClk = Expired.irqPendingClk
        /\ "IRQPEND" \in status'.global => "IRQ" \in status'.global
    BY <1>6, ServeNmiRight DEF ServeNmi
  <2>2. "IRQ" \in status.global => Expired.irqPendingClk = ClockMax
    BY ExpiredRight
  <2> QED BY <1>6, <2>1, <2>2, CpuStepIInv DEF ServeNmi, SameLines
<1>7. CASE ServeIrq
  <2>1. SameLines(status, Expired)
    BY ExpiredRight
  <2>2. /\ SameLines(Expired, status') /\ status'.irqPendingClk = ClockMax
        /\ status'.global = Expired.global \ {"IRQPEND"}
    BY <1>7, <2>1, ServingRight DEF ServeIrq, SameLines
  <2> QED BY <1>7, <2>1, <2>2, CpuStepIInv DEF ServeIrq, SameLines
<1>8. CASE Postpone
  <2>1. /\ SameLines(status, status') /\ status'.irqPendingClk = Expired.irqPendingClk
        /\ "IRQPEND" \in status'.global => "IRQ" \in status'.global
    BY <1>8, PostponeRight DEF Postpone
  <2>2. "IRQ" \in status.global => Expired.irqPendingClk = ClockMax
    BY ExpiredRight
  <2> QED BY <1>8, <2>1, <2>2, CpuStepIInv DEF Postpone, SameLines
<1>9. CASE Forget
  <2>1. /\ SameLines(status, Expired)
        /\ "IRQ" \in status.global => Expired.irqPendingClk = ClockMax
    BY ExpiredRight
  <2>2. /\ SameLines(Expired, status') /\ status'.irqPendingClk = Expired.irqPendingClk
        /\ status'.global = IF "IRQ" \in Expired.global THEN Expired.global
                            ELSE Expired.global \ {"IRQPEND"}
    BY <1>9, <2>1, ServingRight DEF Forget, SameLines
  <2> QED BY <1>9, <2>1, <2>2, CpuStepIInv DEF Forget, SameLines
<1>10. CASE Reset
  BY <1>10, ResetRight, CpuStepIInv DEF Reset
<1>11. ASSUME NEW on \in BOOLEAN, Monitor(on)
       PROVE  LinesInv'
  <2> DEFINE g == IF on THEN status.global \cup {"MONITOR"}
                  ELSE status.global \ {"MONITOR"}
             c == status.irqPendingClk
  <2>1. /\ g \in SUBSET Kinds /\ c \in Clock
        /\ "IRQ" \in g <=> "IRQ" \in status.global
        /\ "IRQPEND" \in g <=> "IRQPEND" \in status.global
    BY <1>1, StatusFields DEF Kinds
  <2>2. status' = WithFlags(status, g, c)
    BY <1>1, <1>11 DEF Monitor, MonitorTrapOn, MonitorTrapOff, WithFlags, Statuses
  <2> HIDE DEF g
  <2>3. /\ status' \in Statuses /\ Counts(status')
        /\ status'.global = g /\ status'.irqPendingClk = c
    BY <1>1, <2>1, <2>2, FlagsRight
  <2> QED BY <1>11, <2>1, <2>3 DEF Monitor, LinesInv, CountsMatch, WindowTrue
<1>12. CASE Tick
  <2>1. now' \in Clock /\ now' + IrqWindow < ClockMax /\ now <= now'
    BY <1>1, <1>12, ClockMaxAssumption DEF Tick, Clock, IrqWindow
  <2>2. released' \in Clock /\ (released' = ClockMax \/ released' <= now')
    BY <1>1, <1>12, <2>1 DEF Tick, LinesInv, Clock
  <2> QED BY <1>12, <2>1, <2>2 DEF Tick, LinesInv, CountsMatch, Counts, WindowTrue
<1>13. ASSUME NEW amount \in 1 .. ClockMax, WarpStatus(amount)
       PROVE  LinesInv'
  <2>1. amount \in Clock
    BY DEF Clock
  <2>2. /\ SameLines(status, status') /\ status'.global = status.global
        /\ status'.irqPendingClk = IF status.irqPendingClk < ClockMax
                                   THEN Back(status.irqPendingClk, amount)
                                   ELSE status.irqPendingClk
    BY <1>1, <1>13, <2>1, WarpRight DEF WarpStatus
  <2>3. /\ now' = now - amount /\ now' \in Clock /\ now' + IrqWindow < ClockMax
    BY <1>1, <1>13, ClockMaxAssumption DEF WarpStatus, Clock, IrqWindow
  <2>4. /\ released' \in Clock
        /\ released = ClockMax => released' = ClockMax
        /\ released # ClockMax
               => released' = Back(released, amount) /\ released' <= now'
    <3>1. CASE released = ClockMax
      BY <1>13, <3>1 DEF WarpStatus, LinesInv
    <3>2. CASE released # ClockMax
      <4>1. released \in Nat /\ released <= now /\ now \in Nat /\ amount \in Nat
        BY <1>1, <3>2 DEF LinesInv, Clock
      <4>2. released' = Back(released, amount)
        BY <1>13, <3>2 DEF WarpStatus
      <4>3. released' \in Nat /\ released' <= now'
        BY <2>3, <4>1, <4>2 DEF Back, Clock
      <4> QED BY <2>3, <3>2, <4>2, <4>3, ClockMaxAssumption DEF Clock, IrqWindow
    <3> QED BY <3>1, <3>2
  <2>5. status.irqPendingClk \in Nat /\ released \in Nat /\ now \in Nat
    BY <1>1, StatusFields DEF LinesInv, Clock
  <2>6. WindowTrue'
    <3>1. CASE "IRQ" \in status.global
      <4>1. status.irqPendingClk = ClockMax
        BY <3>1 DEF LinesInv, WindowTrue
      <4> QED BY <2>2, <3>1, <4>1, ClockMaxAssumption DEF WindowTrue
    <3>2. CASE "IRQPEND" \in status.global /\ "IRQ" \notin status.global
      <4>1. released # ClockMax /\ status.irqPendingClk <= released + IrqWindow
        BY <3>2 DEF LinesInv, WindowTrue
      <4>2. released <= now /\ status.irqPendingClk < ClockMax
        BY <2>5, <4>1, ClockMaxAssumption DEF LinesInv, Clock, IrqWindow
      <4>3. status'.irqPendingClk <= released' + IrqWindow /\ released' # ClockMax
        BY <1>1, <2>2, <2>3, <2>4, <2>5, <4>1, <4>2, ClockMaxAssumption
           DEF Back, IrqWindow, Clock
      <4> QED BY <2>2, <3>2, <4>3 DEF WindowTrue
    <3>3. CASE "IRQPEND" \notin status.global /\ "IRQ" \notin status.global
      BY <2>2, <3>3 DEF WindowTrue
    <3> QED BY <3>1, <3>2, <3>3
  <2> QED BY <2>2, <2>3, <2>4, <2>6 DEF SameLines, LinesInv, CountsMatch
<1>14. CASE UNCHANGED linesVars
  BY <1>14 DEF linesVars, LinesInv, CountsMatch, Counts, WindowTrue
<1> QED BY <1>2, <1>3, <1>4, <1>5, <1>6, <1>7, <1>8, <1>9, <1>10, <1>11, <1>12,
           <1>13, <1>14 DEF LinesNext

-----------------------------------------------------------------------------
(* The inductive invariant holds in every behaviour.                        *)
LEMMA AlwaysLinesInv == LinesSpec => []LinesInv
BY InitLinesInv, NextLinesInv, PTL DEF LinesSpec

(* The status is always well formed: its counters never go below 0 and its  *)
(* clocks never leave the range of CLOCK.                                   *)
THEOREM StatusTypeCorrect == LinesSpec => []LinesTypeOK
<1>1. LinesInv => LinesTypeOK
  BY DEF LinesInv, LinesTypeOK
<1> QED BY <1>1, AlwaysLinesInv, PTL

(* However often, and in whatever order, any number of sources set their    *)
(* lines, nirq, nnmi and the IRQ flag agree with the single lines.          *)
THEOREM CountsAlwaysMatch == LinesSpec => []CountsMatch
<1>1. LinesInv => CountsMatch
  BY DEF LinesInv
<1> QED BY <1>1, AlwaysLinesInv, PTL

(* irq_pending_clk is the end of the window of the last release, and only   *)
(* of that one, through any number of clock warps.                          *)
THEOREM WindowAlwaysTrue == LinesSpec => []WindowTrue
<1>1. LinesInv => WindowTrue
  BY DEF LinesInv
<1> QED BY <1>1, AlwaysLinesInv, PTL

(* An IRQ whose last line was released is never taken later than in the     *)
(* window after the release.                                                *)
THEOREM IrqOnlyTakenInWindow == LinesSpec => IrqTakenInWindow
<1>1. ASSUME LinesInv, ServeIrq
      PROVE  \/ "IRQ" \in status.global
             \/ released # ClockMax /\ now < released + IrqWindow
  BY <1>1, ExpiredRight DEF ServeIrq, IrqSeen, SameLines
<1>2. LinesInv => [ServeIrq => \/ "IRQ" \in status.global
                          \/ /\ released # ClockMax
                             /\ now < released + IrqWindow]_linesVars
  BY <1>1
<1> QED BY <1>2, AlwaysLinesInv, PTL DEF IrqTakenInWindow

(* Every step is a step of the wires: a line call moves one source, serving *)
(* an NMI clears the latch, a reset releases everything, and the rest does  *)
(* not show on the wires.                                                   *)
LEMMA StepImplementsWires == LinesInv /\ [LinesNext]_linesVars => [Wires!Next]_Wires!vars
<1> SUFFICES ASSUME LinesInv, [LinesNext]_linesVars
             PROVE  Wires!Next \/ UNCHANGED Wires!vars
  OBVIOUS
<1>1. /\ status \in Statuses /\ Counts(status)
      /\ now \in Clock /\ now + IrqWindow < ClockMax
      /\ "IRQ" \in status.global <=> IrqLines(status) # {}
  BY DEF LinesInv, CountsMatch, Counts
<1>2. ASSUME NEW l \in Lines, NEW i \in BOOLEAN, NEW n \in BOOLEAN,
             Counts(status'),
             IrqLines(status') = IF i THEN IrqLines(status) \cup {l}
                                 ELSE IrqLines(status) \ {l},
             NmiLines(status') = IF n THEN NmiLines(status) \cup {l}
                                 ELSE NmiLines(status) \ {l},
             "NMI" \in status'.global <=>
                 "NMI" \in status.global \/ (n /\ NmiLines(status) = {})
      PROVE  Wires!Next
  <2>1. "IRQ" \in status'.global <=> IrqLines(status') # {}
    BY <1>2 DEF Counts
  <2>3. "NMI" \in status'.global <=>
            "NMI" \in status.global
            \/ (NmiLines(status) = {} /\ NmiLines(status') # {})
    BY <1>2
  <2>4. Wires!Change(l, i, n)
    BY <1>2, <2>1, <2>3 DEF Wires!Change, Wires!Irq, Wires!Nmi
  <2> QED BY <1>2, <2>4 DEF Wires!Next
<1>3. ASSUME SameLines(status, status'),
             "NMI" \in status'.global <=> "NMI" \in status.global
      PROVE  UNCHANGED Wires!vars
  BY <1>3 DEF SameLines, Wires!vars
<1>4. ASSUME NEW l \in Lines, NEW value \in BOOLEAN, SetIrq(l, value)
      PROVE  Wires!Next
  <2> DEFINE n == l \in NmiLines(status)
  <2>1. CASE value
    <3>1. status' = AssertIrq(status, l, now)
      BY <1>4, <2>1 DEF SetIrq
    <3>2. /\ Counts(status') /\ IrqLines(status') = IrqLines(status) \cup {l}
          /\ NmiLines(status') = NmiLines(status)
          /\ "NMI" \in status'.global <=> "NMI" \in status.global
      BY <1>1, <3>1, AssertIrqRight
    <3>3. NmiLines(status') = IF n THEN NmiLines(status) \cup {l}
                              ELSE NmiLines(status) \ {l}
      BY <3>2
    <3> QED BY <1>2, <2>1, <3>2, <3>3
  <2>2. CASE ~value
    <3>1. status' = ReleaseIrq(status, l, now)
      BY <1>4, <2>2 DEF SetIrq
    <3>2. /\ Counts(status') /\ IrqLines(status') = IrqLines(status) \ {l}
          /\ NmiLines(status') = NmiLines(status)
          /\ "NMI" \in status'.global <=> "NMI" \in status.global
      BY <1>1, <3>1, ReleaseIrqRight
    <3>3. NmiLines(status') = IF n THEN NmiLines(status) \cup {l}
                              ELSE NmiLines(status) \ {l}
      BY <3>2
    <3> QED BY <1>2, <2>2, <3>2, <3>3
  <2> QED BY <2>1, <2>2
<1>5. ASSUME NEW l \in Lines, NEW value \in BOOLEAN, SetNmi(l, value)
      PROVE  Wires!Next
  <2> DEFINE i == l \in IrqLines(status)
  <2>1. CASE value
    <3>1. status' = AssertNmi(status, l, now)
      BY <1>5, <2>1 DEF SetNmi
    <3>2. /\ Counts(status') /\ IrqLines(status') = IrqLines(status)
          /\ NmiLines(status') = NmiLines(status) \cup {l}
          /\ "NMI" \in status'.global <=>
                 "NMI" \in status.global \/ NmiLines(status) = {}
      BY <1>1, <3>1, AssertNmiRight
    <3>3. IrqLines(status') = IF i THEN IrqLines(status) \cup {l}
                              ELSE IrqLines(status) \ {l}
      BY <3>2
    <3> QED BY <1>2, <2>1, <3>2, <3>3
  <2>2. CASE ~value
    <3>1. status' = ReleaseNmi(status, l)
      BY <1>5, <2>2 DEF SetNmi
    <3>2. /\ Counts(status') /\ IrqLines(status') = IrqLines(status)
          /\ NmiLines(status') = NmiLines(status) \ {l}
          /\ status'.global = status.global
      BY <1>1, <3>1, ReleaseNmiRight
    <3>3. IrqLines(status') = IF i THEN IrqLines(status) \cup {l}
                              ELSE IrqLines(status) \ {l}
      BY <3>2
    <3> QED BY <1>2, <2>2, <3>2, <3>3
  <2> QED BY <2>1, <2>2
<1>6. ASSUME NEW l \in Lines, NEW kinds \in SUBSET LineKinds, SetBoth(l, kinds)
      PROVE  Wires!Next
  <2> DEFINE i == "IRQ" \in kinds
             n == "NMI" \in kinds
  <2>1. status' = SetInt(status, l, kinds, now)
    BY <1>6 DEF SetBoth
  <2>2. /\ Counts(status')
        /\ IrqLines(status') = IF i THEN IrqLines(status) \cup {l}
                               ELSE IrqLines(status) \ {l}
        /\ NmiLines(status') = IF n THEN NmiLines(status) \cup {l}
                               ELSE NmiLines(status) \ {l}
        /\ "NMI" \in status'.global <=>
               "NMI" \in status.global \/ (n /\ NmiLines(status) = {})
    BY <1>1, <2>1, SetIntRight
  <2>3. i \in BOOLEAN /\ n \in BOOLEAN
    OBVIOUS
  <2> HIDE DEF i, n
  <2> QED BY <1>2, <2>2, <2>3
<1>7. CASE Expire
  <2>1. /\ SameLines(status, status')
        /\ status'.global \ {"IRQPEND"} = status.global \ {"IRQPEND"}
    BY <1>7, ExpiredRight DEF Expire
  <2>2. "NMI" \in status'.global <=> "NMI" \in status.global
    BY <2>1
  <2> QED BY <1>3, <2>1, <2>2
<1>8. CASE ServeNmi
  <2>1. /\ "NMI" \in status.global /\ SameLines(status, status')
        /\ status'.global \ {"IRQPEND"} = status.global \ {"IRQPEND", "NMI"}
    BY <1>8, ServeNmiRight DEF ServeNmi
  <2>2. "NMI" \notin status'.global
    BY <2>1
  <2>3. Wires!ServeNmi
    BY <2>1, <2>2 DEF SameLines, Wires!ServeNmi
  <2> QED BY <2>3 DEF Wires!Next
<1>9. CASE ServeIrq
  <2>1. /\ SameLines(status, Expired)
        /\ Expired.global \ {"IRQPEND"} = status.global \ {"IRQPEND"}
    BY ExpiredRight
  <2>2. /\ SameLines(Expired, status')
        /\ status'.global = Expired.global \ {"IRQPEND"}
    BY <1>9, <2>1, ServingRight DEF ServeIrq, SameLines
  <2>3. "NMI" \in status'.global <=> "NMI" \in status.global
    BY <2>1, <2>2
  <2>4. SameLines(status, status')
    BY <2>1, <2>2 DEF SameLines
  <2> QED BY <1>3, <2>3, <2>4
<1>10. CASE Postpone
  <2>1. /\ SameLines(status, status')
        /\ status'.global \ {"IRQPEND"} = status.global \ {"IRQPEND"}
    BY <1>10, PostponeRight DEF Postpone
  <2>2. "NMI" \in status'.global <=> "NMI" \in status.global
    BY <2>1
  <2> QED BY <1>3, <2>1, <2>2
<1>11. CASE Forget
  <2>1. /\ SameLines(status, Expired)
        /\ Expired.global \ {"IRQPEND"} = status.global \ {"IRQPEND"}
    BY ExpiredRight
  <2>2. /\ SameLines(Expired, status')
        /\ status'.global = IF "IRQ" \in Expired.global THEN Expired.global
                            ELSE Expired.global \ {"IRQPEND"}
    BY <1>11, <2>1, ServingRight DEF Forget, SameLines
  <2>3. "NMI" \in status'.global <=> "NMI" \in status.global
    BY <2>1, <2>2
  <2>4. SameLines(status, status')
    BY <2>1, <2>2 DEF SameLines
  <2> QED BY <1>3, <2>3, <2>4
<1>12. CASE Reset
  <2>1. /\ Counts(status') /\ IrqLines(status') = {} /\ NmiLines(status') = {}
        /\ status'.global \in SUBSET {"MONITOR"}
    BY <1>12, ResetRight DEF Reset
  <2>2. Wires!Reset
    BY <2>1 DEF Wires!Reset
  <2> QED BY <2>2 DEF Wires!Next
<1>13. ASSUME NEW on \in BOOLEAN, Monitor(on)
       PROVE  UNCHANGED Wires!vars
  <2>1. /\ status'.pending = status.pending
        /\ status'.global \ {"MONITOR"} = status.global \ {"MONITOR"}
    BY <1>1, <1>13 DEF Monitor, MonitorTrapOn, MonitorTrapOff, Statuses
  <2>2. /\ "NMI" \in status'.global <=> "NMI" \in status.global
        /\ "IRQ" \in status'.global <=> "IRQ" \in status.global
    BY <2>1
  <2> QED BY <2>1, <2>2 DEF IrqLines, NmiLines, Wires!vars
<1>14. CASE Tick \/ UNCHANGED linesVars
  BY <1>14 DEF Tick, linesVars, Wires!vars
<1>15. ASSUME NEW amount \in 1 .. ClockMax, WarpStatus(amount)
       PROVE  UNCHANGED Wires!vars
  <2>1. amount \in Clock
    BY DEF Clock
  <2>2. SameLines(status, status') /\ status'.global = status.global
    BY <1>1, <1>15, <2>1, WarpRight DEF WarpStatus
  <2> QED BY <1>3, <2>2
<1> QED BY <1>4, <1>5, <1>6, <1>7, <1>8, <1>9, <1>10, <1>11, <1>12, <1>13,
           <1>14, <1>15 DEF LinesNext

(* A chip, and the CPU, may think of the interrupt status as two wires and  *)
(* an edge latch.                                                           *)
THEOREM StatusImplementsWires == LinesSpec => ImplementsWires
<1>1. LinesInit => Wires!Init
  BY CleanRight DEF LinesInit, Wires!Init
<1> QED BY <1>1, InitLinesInv, NextLinesInv, StepImplementsWires, PTL
        DEF LinesSpec, ImplementsWires, Wires!Spec
=============================================================================
