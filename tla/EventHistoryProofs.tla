------------------------- MODULE EventHistoryProofs -------------------------
(***************************************************************************)
(* A recording is played back to the cycle for any length of a second and   *)
(* of a frame, any width of CLOCK, any clock at which it begins, and        *)
(* whatever the user does in whatever order.                                *)
(***************************************************************************)
EXTENDS EventHistory, WellFoundedInduction, TLAPS

-----------------------------------------------------------------------------
(* Numbers.                                                                 *)

(* The latest clock that a machine has before it is moved back.             *)
Top == ClkMax + FrameLen - 1

LEMMA Division ==
    ASSUME NEW a \in Nat, NEW n \in Nat \ {0}
    PROVE  /\ a \div n \in Nat /\ (a \div n) * n \in 0 .. a
           /\ a < (a \div n) * n + n
           /\ a % n \in 0 .. n - 1
OBVIOUS

(* What the assumptions on the constants amount to.                         *)
LEMMA Numbers ==
    /\ Modulus \in Nat /\ SubMin \in Nat /\ FrameLen \in Nat /\ Second \in Nat
    /\ ResetClk \in Nat /\ Horizon \in Nat /\ ClkMax \in Nat /\ Sub \in Nat /\ Top \in Nat
    /\ 1 <= FrameLen /\ 1 <= Second /\ 1 <= ResetClk
    /\ ResetClk <= SubMin /\ FrameLen < SubMin /\ Second + FrameLen <= SubMin + 1
    /\ ClkMax + SubMin + 1 = Modulus /\ Top = ClkMax + FrameLen - 1
    /\ 4 * SubMin <= ClkMax + 1
    /\ Sub + SubMin <= ClkMax /\ ClkMax < Sub + SubMin + FrameLen
<1>1. /\ Modulus \in Nat \ {0} /\ SubMin \in Nat \ {0} /\ FrameLen \in Nat \ {0}
      /\ Second \in Nat \ {0} /\ ResetClk \in Nat \ {0} /\ Horizon \in Nat \ {0}
      /\ Modulus >= 5 * SubMin /\ SubMin > FrameLen /\ Second + FrameLen <= SubMin + 1
      /\ ResetClk <= SubMin
  BY ConstantsAssumption
<1>2. ClkMax - SubMin \in Nat /\ ClkMax \in Nat /\ ClkMax = Modulus - 1 - SubMin
  BY <1>1 DEF ClkMax
<1>3. PICK s \in Int : s = ((ClkMax - SubMin) \div FrameLen) * FrameLen
  BY <1>1, <1>2
<1>4. s \in 0 .. ClkMax - SubMin /\ ClkMax - SubMin < s + FrameLen
  BY <1>1, <1>2, <1>3, Division
<1>5. Sub = s
  BY <1>3 DEF Sub
<1>6. Top \in Nat /\ Top = ClkMax + FrameLen - 1
  BY <1>1, <1>2 DEF Top
<1> QED BY <1>1, <1>2, <1>4, <1>5, <1>6

(* What is left of a number smaller than the divisor.                       *)
LEMMA Remainder ==
    ASSUME NEW n \in Nat \ {0}, NEW q \in Nat, NEW r \in 0 .. n - 1
    PROVE  (q * n + r) % n = r
OBVIOUS

LEMMA SmallRemainder ==
    ASSUME NEW n \in Nat \ {0}, NEW r \in 0 .. n - 1
    PROVE  r % n = r
OBVIOUS

(* Remainders add up.                                                       *)
LEMMA RemainderAdds ==
    ASSUME NEW n \in Nat \ {0}, NEW a \in Nat, NEW b \in Nat
    PROVE  ((a % n) + b) % n = (a + b) % n
<1> DEFINE p == a \div n
           r == a % n
           q == (r + b) \div n
           s == (r + b) % n
<1>1. p \in Nat /\ r \in 0 .. n - 1 /\ a = p * n + r
  OBVIOUS
<1>2. r + b \in Nat
  BY <1>1
<1> HIDE DEF p, r
<1>3. q \in Nat /\ s \in 0 .. n - 1 /\ r + b = q * n + s
  BY <1>2
<1> HIDE DEF q, s
<1>4. a + b = p * n + q * n + s /\ p + q \in Nat
  BY <1>1, <1>3
<1>5. p * n + q * n = (p + q) * n
  BY <1>1, <1>3
<1>6. a + b = (p + q) * n + s
  BY <1>1, <1>3, <1>4, <1>5
<1>7. (a + b) % n = s
  BY <1>3, <1>4, <1>6, Remainder
<1> QED BY <1>7 DEF r, s

LEMMA LeastNatural ==
    ASSUME NEW S \in SUBSET Nat, S # {}
    PROVE  \E x \in S : \A y \in S : x <= y
<1>1. PICK x \in S : \A y \in S : <<y, x>> \notin OpToRel(<, Nat)
  BY WFMin, NatLessThanWellFounded, Zenon
<1>2. ASSUME NEW y \in S  PROVE  ~(y < x)
  BY <1>1 DEF OpToRel
<1> QED BY <1>2

(* What holds of 0 and is handed on to the next number below n holds of     *)
(* every number up to n.                                                    *)
LEMMA Induction ==
    ASSUME NEW n \in Nat, NEW G, 0 \in G, \A k \in 0 .. n - 1 : k \in G => k + 1 \in G
    PROVE  \A k \in 0 .. n : k \in G
<1> SUFFICES ASSUME NEW k \in 0 .. n, k \notin G  PROVE FALSE
  OBVIOUS
<1> DEFINE Bad == {i \in 0 .. n : i \notin G}
<1>1. PICK i \in Bad : \A j \in Bad : i <= j
  <2>1. Bad \in SUBSET Nat /\ Bad # {}
    OBVIOUS
  <2> HIDE DEF Bad
  <2> QED BY <2>1, LeastNatural
<1>2. i \in 1 .. n /\ i - 1 \in 0 .. n - 1
  OBVIOUS
<1>3. i - 1 \in G
  BY <1>1, <1>2
<1>4. (i - 1) + 1 \in G /\ (i - 1) + 1 = i
  BY <1>2, <1>3
<1> QED BY <1>4

-----------------------------------------------------------------------------
(* Timestamps.                                                              *)

LEMMA ModSmall ==
    ASSUME NEW x \in 0 .. Modulus - 1
    PROVE  x % Modulus = x
BY Numbers, SmallRemainder

(* The timestamps that are inserted before the time to, and the first that  *)
(* is not, do not leave the range of CLOCK.                                 *)
LEMMA SecondsEnd ==
    ASSUME NEW from \in Clock, NEW to \in 0 .. Top
    PROVE  LET n == Seconds(from, to)
           IN  /\ n \in Nat
               /\ \A k \in 0 .. n - 1 : /\ Plus(from, k * Second) = from + k * Second
                                        /\ from + k * Second < to
               /\ Plus(from, n * Second) = from + n * Second
               /\ from + n * Second \in Clock /\ to <= from + n * Second
               /\ n # 0 => from + n * Second < to + Second
<1> DEFINE At(n) == from + n * Second
           S == {n \in Nat : At(n) >= to}
           Good(n) == /\ Plus(from, n * Second) >= to
                      /\ \A k \in 0 .. n - 1 : Plus(from, k * Second) < to
<1>1. /\ from \in Nat /\ from < Modulus /\ to \in Nat /\ Second \in Nat /\ 1 <= Second
      /\ Modulus \in Nat /\ to + Second < Modulus
  BY Numbers DEF Clock
<1>2. ASSUME NEW k \in Nat  PROVE At(k) \in Nat /\ At(k + 1) = At(k) + Second /\ At(0) = from
  <2>1. k * Second \in Nat /\ (k + 1) * Second = k * Second + Second /\ 0 * Second = 0
    BY <1>1
  <2> QED BY <1>1, <2>1
<1>3. to \in S
  <2>1. to * Second \in Nat /\ to * Second >= to
    BY <1>1
  <2> QED BY <1>1, <2>1
<1>4. PICK n \in S : \A m \in S : n <= m
  <2>1. S \in SUBSET Nat
    OBVIOUS
  <2> HIDE DEF S
  <2> QED BY <1>3, <2>1, LeastNatural
<1>5. n \in 0 .. Modulus /\ n \in Nat /\ At(n) >= to
  BY <1>1, <1>3, <1>4
<1>6. ASSUME NEW k \in 0 .. n - 1  PROVE At(k) \in Nat /\ At(k) < to
  <2>1. k \in Nat /\ k \notin S
    BY <1>4, <1>5
  <2>2. At(k) \in Nat
    BY <1>2, <2>1
  <2> QED BY <1>1, <2>1, <2>2
<1>7. n # 0 => At(n) < to + Second
  <2> SUFFICES ASSUME n # 0  PROVE At(n) < to + Second
    OBVIOUS
  <2>1. n - 1 \in 0 .. n - 1 /\ n - 1 \in Nat /\ (n - 1) + 1 = n
    BY <1>5
  <2>2. At((n - 1) + 1) = At(n - 1) + Second /\ At(n - 1) \in Nat
    BY <1>2, <2>1
  <2>3. At(n - 1) < to
    BY <1>6, <2>1
  <2> HIDE DEF At
  <2> QED BY <1>1, <2>1, <2>2, <2>3
<1>8. At(n) \in Clock
  <2>1. n = 0 => At(n) = from
    BY <1>2
  <2>2. At(n) \in Nat
    BY <1>2, <1>5
  <2> HIDE DEF At
  <2> QED BY <1>1, <1>7, <2>1, <2>2 DEF Clock
<1>9. ASSUME NEW k \in 0 .. n  PROVE Plus(from, k * Second) = At(k)
  <2>1. At(k) \in 0 .. Modulus - 1
    <3>1. CASE k = n
      BY <1>8, <3>1 DEF Clock
    <3>2. CASE k # n
      <4>1. k \in 0 .. n - 1
        BY <1>5, <3>2
      <4>2. At(k) \in Nat /\ At(k) < to
        BY <1>6, <4>1
      <4> HIDE DEF At
      <4> QED BY <1>1, <4>2
    <3> QED BY <3>1, <3>2
  <2>2. At(k) % Modulus = At(k)
    BY <2>1, ModSmall, Zenon
  <2> QED BY <2>2 DEF Plus
<1>10. ASSUME NEW k \in 0 .. n - 1  PROVE Plus(from, k * Second) < to
  <2>1. k \in 0 .. n
    BY <1>5
  <2> QED BY <1>6, <1>9, <2>1
<1>11. n \in 0 .. n
  BY <1>5
<1>12. Good(n)
  <2>1. Plus(from, n * Second) >= to
    BY <1>5, <1>9, <1>11
  <2> QED BY <1>10, <2>1
<1>13. ASSUME NEW m \in 0 .. Modulus, Good(m)  PROVE m = n
  <2>1. m \in Nat /\ n \in Nat
    BY <1>1, <1>5
  <2>2. CASE m < n
    <3>1. m \in 0 .. n - 1
      BY <2>1, <2>2
    <3>2. Plus(from, m * Second) < to /\ Plus(from, m * Second) = At(m) /\ At(m) \in Nat
      BY <1>6, <1>9, <1>10, <2>1, <3>1
    <3> QED BY <1>1, <1>13, <3>2
  <2>3. CASE m > n
    <3>1. n \in 0 .. m - 1
      BY <2>1, <2>3
    <3>2. Plus(from, n * Second) < to
      BY <1>13, <3>1
    <3>3. Plus(from, n * Second) = At(n) /\ At(n) \in Nat
      BY <1>2, <1>5, <1>9, <1>11
    <3> QED BY <1>1, <1>5, <3>2, <3>3
  <2> QED BY <2>1, <2>2, <2>3
<1>14. Seconds(from, to) = n
  <2>1. Seconds(from, to) = CHOOSE m \in 0 .. Modulus : Good(m)
    BY Zenon DEF Seconds
  <2> HIDE DEF Good
  <2> QED BY <1>5, <1>12, <1>13, <2>1
<1> HIDE DEF Good, S
<1>15. \A k \in 0 .. n - 1 : /\ Plus(from, k * Second) = from + k * Second
                              /\ from + k * Second < to
  <2> SUFFICES ASSUME NEW k \in 0 .. n - 1
               PROVE  Plus(from, k * Second) = At(k) /\ At(k) < to
    OBVIOUS
  <2>1. k \in 0 .. n
    BY <1>5
  <2> QED BY <1>6, <1>9, <2>1
<1>16. Plus(from, n * Second) = At(n)
  BY <1>9, <1>11
<1> QED BY <1>5, <1>7, <1>8, <1>14, <1>15, <1>16

-----------------------------------------------------------------------------
(* Lists that are loaded and saved event by event.                          *)

(* The state of event_snapshot_read_module after i events.                  *)
LoadAt(f, i, saved) == IF i = 0 THEN [list |-> <<>>, stamp |-> 0] ELSE LoadStep(f[i - 1], saved[i])

LEMMA LoadingExists ==
    ASSUME NEW saved, NEW n \in Nat
    PROVE  \E f : f = [i \in 0 .. n |-> LoadAt(f, i, saved)]
<1> DEFINE Upto(f, m) == \A i \in 0 .. m : f[i] = LoadAt(f, i, saved)
           G == {m \in 0 .. n : \E f : Upto(f, m)}
<1>1. 0 \in G
  <2> DEFINE f == [i \in {0} |-> [list |-> <<>>, stamp |-> 0]]
  <2>1. ASSUME NEW i \in 0 .. 0  PROVE f[i] = LoadAt(f, i, saved)
    BY DEF LoadAt
  <2> HIDE DEF f
  <2>2. Upto(f, 0)
    BY <2>1
  <2> HIDE DEF Upto
  <2> QED BY <2>2
<1>2. ASSUME NEW k \in 0 .. n - 1, k \in G  PROVE k + 1 \in G
  <2>1. PICK f : Upto(f, k)
    BY <1>2
  <2> DEFINE g == [i \in 0 .. k + 1 |-> IF i = k + 1 THEN LoadAt(f, i, saved) ELSE f[i]]
  <2>2. ASSUME NEW i \in 0 .. k + 1  PROVE g[i] = LoadAt(g, i, saved)
    <3>1. i = 0 \/ (i - 1 \in 0 .. k + 1 /\ i - 1 # k + 1)
      OBVIOUS
    <3>2. i # 0 => g[i - 1] = f[i - 1]
      BY <3>1
    <3>3. LoadAt(g, i, saved) = LoadAt(f, i, saved)
      <4> HIDE DEF g
      <4> QED BY <3>2, Zenon DEF LoadAt
    <3>4. g[i] = LoadAt(f, i, saved)
      <4>1. CASE i = k + 1
        BY <4>1
      <4>2. CASE i # k + 1
        <5>1. g[i] = f[i] /\ i \in 0 .. k
          BY <4>2
        <5> HIDE DEF g
        <5> QED BY <2>1, <5>1
      <4> QED BY <4>1, <4>2
    <3> HIDE DEF g
    <3> QED BY <3>3, <3>4
  <2>3. Upto(g, k + 1)
    <3> HIDE DEF g
    <3> QED BY <2>2
  <2>4. k + 1 \in 0 .. n
    OBVIOUS
  <2> HIDE DEF g, Upto
  <2> QED BY <2>3, <2>4
<1>3. n \in G
  <2> HIDE DEF G
  <2>1. \A k \in 0 .. n : k \in G
    BY <1>1, <1>2, Induction
  <2> QED BY <2>1
<1>4. PICK f : Upto(f, n)
  BY <1>3
<1> DEFINE h == [i \in 0 .. n |-> f[i]]
<1>5. ASSUME NEW i \in 0 .. n  PROVE h[i] = LoadAt(h, i, saved)
  <2>1. i # 0 => h[i - 1] = f[i - 1]
    OBVIOUS
  <2>2. h[i] = f[i] /\ f[i] = LoadAt(f, i, saved)
    BY <1>4
  <2> HIDE DEF h
  <2> QED BY <2>1, <2>2, Zenon DEF LoadAt
<1>6. h = [i \in 0 .. n |-> LoadAt(h, i, saved)]
  BY <1>5
<1> HIDE DEF h
<1> QED BY <1>6

LEMMA Loading ==
    ASSUME NEW saved, EndOf(saved) \in Nat
    PROVE  \E acc : /\ acc[0] = [list |-> <<>>, stamp |-> 0]
                    /\ \A i \in 1 .. EndOf(saved) : acc[i] = LoadStep(acc[i - 1], saved[i])
                    /\ Load(saved) = acc[EndOf(saved)]
<1> DEFINE n == EndOf(saved)
           Is(f) == f = [i \in 0 .. n |-> LoadAt(f, i, saved)]
<1>1. \E f : Is(f)
  BY LoadingExists
<1>2. PICK acc : acc = CHOOSE f : Is(f)
  OBVIOUS
<1> HIDE DEF n
<1>3. Is(acc)
  <2> HIDE DEF Is
  <2> QED BY <1>1, <1>2
<1> USE DEF n
<1>4. Load(saved) = acc[n]
  <2>1. Load(saved) = (CHOOSE f : Is(f))[n]
    BY DEF Load, LoadAt
  <2> QED BY <1>2, <2>1
<1> HIDE DEF n
<1>5. n \in Nat
  BY DEF n
<1>6. ASSUME NEW i \in 0 .. n  PROVE acc[i] = LoadAt(acc, i, saved)
  BY <1>3
<1>7. acc[0] = [list |-> <<>>, stamp |-> 0]
  <2>1. 0 \in 0 .. n
    BY <1>5
  <2>2. acc[0] = LoadAt(acc, 0, saved)
    BY <1>6, <2>1
  <2> QED BY <2>2, Zenon DEF LoadAt
<1>8. ASSUME NEW i \in 1 .. n  PROVE acc[i] = LoadStep(acc[i - 1], saved[i])
  <2>1. i \in 0 .. n /\ i # 0
    BY <1>5
  <2>2. acc[i] = LoadAt(acc, i, saved)
    BY <1>6, <2>1
  <2> QED BY <2>1, <2>2, Zenon DEF LoadAt
<1> QED BY <1>4, <1>7, <1>8 DEF n

(* The events among the first i that are saved.                             *)
KeptAt(f, i, events) ==
    IF i = 0 THEN <<>>
    ELSE IF events[i].type = "TIMESTAMP" THEN f[i - 1]
    ELSE Append(f[i - 1], events[i])

LEMMA KeepingExists ==
    ASSUME NEW events, NEW n \in Nat
    PROVE  \E f : f = [i \in 0 .. n |-> KeptAt(f, i, events)]
<1> DEFINE Upto(f, m) == \A i \in 0 .. m : f[i] = KeptAt(f, i, events)
           G == {m \in 0 .. n : \E f : Upto(f, m)}
<1>1. 0 \in G
  <2> DEFINE f == [i \in {0} |-> <<>>]
  <2>1. ASSUME NEW i \in 0 .. 0  PROVE f[i] = KeptAt(f, i, events)
    BY DEF KeptAt
  <2> HIDE DEF f
  <2>2. Upto(f, 0)
    BY <2>1
  <2> HIDE DEF Upto
  <2> QED BY <2>2
<1>2. ASSUME NEW k \in 0 .. n - 1, k \in G  PROVE k + 1 \in G
  <2>1. PICK f : Upto(f, k)
    BY <1>2
  <2> DEFINE g == [i \in 0 .. k + 1 |-> IF i = k + 1 THEN KeptAt(f, i, events) ELSE f[i]]
  <2>2. ASSUME NEW i \in 0 .. k + 1  PROVE g[i] = KeptAt(g, i, events)
    <3>1. i = 0 \/ (i - 1 \in 0 .. k + 1 /\ i - 1 # k + 1)
      OBVIOUS
    <3>2. i # 0 => g[i - 1] = f[i - 1]
      BY <3>1
    <3>3. KeptAt(g, i, events) = KeptAt(f, i, events)
      <4> HIDE DEF g
      <4> QED BY <3>2, Zenon DEF KeptAt
    <3>4. g[i] = KeptAt(f, i, events)
      <4>1. CASE i = k + 1
        BY <4>1
      <4>2. CASE i # k + 1
        <5>1. g[i] = f[i] /\ i \in 0 .. k
          BY <4>2
        <5> HIDE DEF g
        <5> QED BY <2>1, <5>1
      <4> QED BY <4>1, <4>2
    <3> HIDE DEF g
    <3> QED BY <3>3, <3>4
  <2>3. Upto(g, k + 1)
    <3> HIDE DEF g
    <3> QED BY <2>2
  <2>4. k + 1 \in 0 .. n
    OBVIOUS
  <2> HIDE DEF g, Upto
  <2> QED BY <2>3, <2>4
<1>3. n \in G
  <2> HIDE DEF G
  <2>1. \A k \in 0 .. n : k \in G
    BY <1>1, <1>2, Induction
  <2> QED BY <2>1
<1>4. PICK f : Upto(f, n)
  BY <1>3
<1> DEFINE h == [i \in 0 .. n |-> f[i]]
<1>5. ASSUME NEW i \in 0 .. n  PROVE h[i] = KeptAt(h, i, events)
  <2>1. i # 0 => h[i - 1] = f[i - 1]
    OBVIOUS
  <2>2. h[i] = f[i] /\ f[i] = KeptAt(f, i, events)
    BY <1>4
  <2> HIDE DEF h
  <2> QED BY <2>1, <2>2, Zenon DEF KeptAt
<1>6. h = [i \in 0 .. n |-> KeptAt(h, i, events)]
  BY <1>5
<1> HIDE DEF h
<1> QED BY <1>6

LEMMA Keeping ==
    ASSUME NEW events, Len(events) \in Nat
    PROVE  \E kept : /\ kept[0] = <<>>
                     /\ \A i \in 1 .. Len(events) :
                            kept[i] = IF events[i].type = "TIMESTAMP" THEN kept[i - 1]
                                      ELSE Append(kept[i - 1], events[i])
                     /\ Kept(events) = kept[Len(events)]
<1> DEFINE n == Len(events)
           Is(f) == f = [i \in 0 .. n |-> KeptAt(f, i, events)]
<1>1. \E f : Is(f)
  BY KeepingExists
<1>2. PICK kept : kept = CHOOSE f : Is(f)
  OBVIOUS
<1> HIDE DEF n
<1>3. Is(kept)
  <2> HIDE DEF Is
  <2> QED BY <1>1, <1>2
<1> USE DEF n
<1>4. Kept(events) = kept[n]
  <2>1. Kept(events) = (CHOOSE f : Is(f))[n]
    BY DEF Kept, KeptAt
  <2> QED BY <1>2, <2>1
<1> HIDE DEF n
<1>5. n \in Nat
  BY DEF n
<1>6. ASSUME NEW i \in 0 .. n  PROVE kept[i] = KeptAt(kept, i, events)
  BY <1>3
<1>7. kept[0] = <<>>
  <2>1. 0 \in 0 .. n
    BY <1>5
  <2>2. kept[0] = KeptAt(kept, 0, events)
    BY <1>6, <2>1
  <2> QED BY <2>2, Zenon DEF KeptAt
<1>8. ASSUME NEW i \in 1 .. n
      PROVE  kept[i] = IF events[i].type = "TIMESTAMP" THEN kept[i - 1]
                       ELSE Append(kept[i - 1], events[i])
  <2>1. i \in 0 .. n /\ i # 0
    BY <1>5
  <2>2. kept[i] = KeptAt(kept, i, events)
    BY <1>6, <2>1
  <2> QED BY <2>1, <2>2, Zenon DEF KeptAt
<1> QED BY <1>4, <1>7, <1>8 DEF n

-----------------------------------------------------------------------------
(* Lists.                                                                   *)

LEMMA EventTypes ==
    /\ \A e \in Events : e.clk \in Clock /\ e.clk \in Nat /\ e = Event(e.type, e.clk)
    /\ Blank \in Events /\ Blank.type = "LIST_END" /\ Blank.clk = 0
    /\ \A type, clk : Event(type, clk).type = type /\ Event(type, clk).clk = clk
<1>1. 0 \in Clock
  BY Numbers DEF Clock
<1>2. Blank \in Events /\ Blank.type = "LIST_END" /\ Blank.clk = 0
  BY <1>1 DEF Blank, Event, Events
<1>3. ASSUME NEW e \in Events
      PROVE  e.clk \in Clock /\ e.clk \in Nat /\ e = Event(e.type, e.clk)
  <2>1. Clock \subseteq Nat
    BY Numbers DEF Clock
  <2>2. e.clk \in Clock /\ e = [type |-> e.type, clk |-> e.clk]
    BY DEF Events
  <2> QED BY <2>1, <2>2 DEF Event
<1>4. ASSUME NEW type, NEW clk
      PROVE  Event(type, clk).type = type /\ Event(type, clk).clk = clk
  BY DEF Event
<1> QED BY <1>2, <1>3, <1>4

(* No end among the first n events.                                         *)
NoEnd(events, n) == \A i \in 1 .. n : events[i].type # "LIST_END"

(* A list begins with its start, ends with an end, and its clocks are those *)
(* of a machine.                                                            *)
Shaped(events) ==
    /\ events \in Seq(Events) /\ 2 <= Len(events)
    /\ events[1].type \in Starts
    /\ events[Len(events)].type = "LIST_END"
    /\ \A i \in 2 .. Len(events) : events[i].type \notin Starts
    /\ \A i \in 1 .. Len(events) : events[i].clk <= Top

LEMMA LengthType ==
    ASSUME NEW events \in Seq(Events)
    PROVE  /\ Len(events) \in Nat /\ DOMAIN events = 1 .. Len(events)
           /\ \A i \in 1 .. Len(events) : events[i] \in Events
OBVIOUS

(* A sequence that is made of the first n events of another, and one more.  *)
LEMMA PrefixAndOne ==
    ASSUME NEW events \in Seq(Events), NEW n \in 0 .. Len(events), NEW e \in Events
    PROVE  LET r == SubSeq(events, 1, n) \o <<e>>
           IN  /\ r \in Seq(Events) /\ Len(r) = n + 1
               /\ \A i \in 1 .. n : r[i] = events[i]
               /\ r[n + 1] = e
OBVIOUS

LEMMA AppendOne ==
    ASSUME NEW events \in Seq(Events), NEW e \in Events
    PROVE  LET r == Append(events, e)
           IN  /\ r \in Seq(Events) /\ Len(r) = Len(events) + 1
               /\ \A i \in 1 .. Len(events) : r[i] = events[i]
               /\ r[Len(events) + 1] = e
OBVIOUS

LEMMA Joined ==
    ASSUME NEW a \in Seq(Events), NEW b \in Seq(Events)
    PROVE  /\ a \o b \in Seq(Events) /\ Len(a \o b) = Len(a) + Len(b)
           /\ \A i \in 1 .. Len(a) : (a \o b)[i] = a[i]
           /\ \A i \in 1 .. Len(b) : (a \o b)[Len(a) + i] = b[i]
OBVIOUS

(* Such a sequence is shaped when the one event is an end.                  *)
LEMMA ShapedPrefix ==
    ASSUME NEW events, Shaped(events), NEW n \in 1 .. Len(events) - 1,
           NEW r \in Seq(Events), Len(r) = n + 1, \A i \in 1 .. n : r[i] = events[i],
           r[n + 1].type = "LIST_END", r[n + 1].clk <= Top
    PROVE  Shaped(r) /\ r[1] = events[1]
<1>1. Len(events) \in Nat /\ n \in Nat
  BY LengthType DEF Shaped
<1>2. Len(r) = n + 1 /\ 2 <= Len(r) /\ r[Len(r)].type = "LIST_END"
  BY <1>1
<1>3. r[1] = events[1]
  BY <1>1
<1>4. ASSUME NEW i \in 2 .. Len(r)  PROVE r[i].type \notin Starts
  <2>1. CASE i = n + 1
    BY <2>1 DEF Starts
  <2>2. CASE i # n + 1
    <3>1. i \in 1 .. n /\ i \in 2 .. Len(events)
      BY <1>1, <1>2, <2>2
    <3> QED BY <3>1 DEF Shaped
  <2> QED BY <2>1, <2>2
<1>5. ASSUME NEW i \in 1 .. Len(r)  PROVE r[i].clk <= Top
  <2>1. CASE i = n + 1
    BY <2>1
  <2>2. CASE i # n + 1
    <3>1. i \in 1 .. n /\ i \in 1 .. Len(events)
      BY <1>1, <1>2, <2>2
    <3> QED BY <3>1 DEF Shaped
  <2> QED BY <2>1, <2>2
<1> QED BY <1>2, <1>3, <1>4, <1>5 DEF Shaped

(* One more event is recorded in place of the last.                         *)
Replaced(events, e) == [events EXCEPT ![Len(events)] = e] \o <<Blank>>

LEMMA ReplacedShaped ==
    ASSUME NEW events, Shaped(events), NEW e \in Events, e.type \notin Starts, e.clk <= Top
    PROVE  LET r == Replaced(events, e)
               n == Len(events)
           IN  /\ Shaped(r) /\ r \in Seq(Events) /\ Len(r) = n + 1
               /\ \A i \in 1 .. n - 1 : r[i] = events[i]
               /\ r[n] = e /\ r[n + 1] = Blank
<1> DEFINE n == Len(events)
           a == [events EXCEPT ![n] = e]
           r == Replaced(events, e)
<1>1. events \in Seq(Events) /\ n \in Nat /\ 2 <= n
  BY LengthType DEF Shaped
<1>2. /\ a \in Seq(Events) /\ Len(a) = n /\ a[n] = e
      /\ \A i \in 1 .. n - 1 : a[i] = events[i]
  BY <1>1
<1>3. <<Blank>> \in Seq(Events) /\ Len(<<Blank>>) = 1 /\ <<Blank>>[1] = Blank
  BY EventTypes
<1>4. r = a \o <<Blank>>
  BY DEF Replaced
<1> HIDE DEF n, a, r
<1>5. r \in Seq(Events) /\ Len(r) = n + 1 /\ r[n + 1] = Blank
  BY <1>1, <1>2, <1>3, <1>4, Joined
<1>6. r[n] = e /\ \A i \in 1 .. n - 1 : r[i] = events[i]
  BY <1>1, <1>2, <1>3, <1>4, Joined
<1>7. 2 <= Len(r) /\ r[1] = events[1] /\ r[Len(r)].type = "LIST_END"
  BY <1>1, <1>5, <1>6, EventTypes
<1>8. ASSUME NEW i \in 2 .. Len(r)  PROVE r[i].type \notin Starts
  <2>1. CASE i = n + 1
    BY <2>1, <1>5, EventTypes DEF Starts
  <2>2. CASE i = n
    BY <2>2, <1>6
  <2>3. CASE i # n + 1 /\ i # n
    <3>1. i \in 1 .. n - 1 /\ i \in 2 .. n
      BY <1>1, <1>5, <2>3
    <3> QED BY <3>1, <1>6 DEF Shaped, n
  <2> QED BY <2>1, <2>2, <2>3
<1>9. ASSUME NEW i \in 1 .. Len(r)  PROVE r[i].clk <= Top
  <2>1. CASE i = n + 1
    BY <2>1, <1>5, EventTypes, Numbers
  <2>2. CASE i = n
    BY <2>2, <1>6
  <2>3. CASE i # n + 1 /\ i # n
    <3>1. i \in 1 .. n - 1 /\ i \in 1 .. n
      BY <1>1, <1>5, <2>3
    <3> QED BY <3>1, <1>6 DEF Shaped, n
  <2> QED BY <2>1, <2>2, <2>3
<1>10. events[1].type \in Starts
  BY DEF Shaped
<1>11. Shaped(r)
  BY <1>5, <1>7, <1>8, <1>9, <1>10 DEF Shaped
<1> QED BY <1>5, <1>6, <1>11 DEF n, r

(* The first end of a shaped list.                                          *)
LEMMA EndOfShaped ==
    ASSUME NEW events, Shaped(events)
    PROVE  /\ EndOf(events) \in 2 .. Len(events)
           /\ events[EndOf(events)].type = "LIST_END"
           /\ NoEnd(events, EndOf(events) - 1)
<1> DEFINE S == {i \in 1 .. Len(events) : events[i].type = "LIST_END"}
           Good(i) == /\ events[i].type = "LIST_END"
                      /\ \A j \in 1 .. i - 1 : events[j].type # "LIST_END"
<1>1. Len(events) \in Nat /\ 2 <= Len(events) /\ DOMAIN events = 1 .. Len(events)
  BY LengthType DEF Shaped
<1>2. PICK i \in S : \A j \in S : i <= j
  <2>1. Len(events) \in S
    BY <1>1 DEF Shaped
  <2>2. S \in SUBSET Nat
    OBVIOUS
  <2> HIDE DEF S
  <2> QED BY <2>1, <2>2, LeastNatural
<1>3. i \in DOMAIN events /\ Good(i)
  BY <1>1, <1>2
<1>4. EndOf(events) = CHOOSE j \in DOMAIN events : Good(j)
  BY DEF EndOf
<1>5. EndOf(events) \in DOMAIN events /\ Good(EndOf(events))
  <2> HIDE DEF Good
  <2> QED BY <1>3, <1>4
<1>6. EndOf(events) # 1
  BY <1>5 DEF Shaped, Starts
<1> QED BY <1>1, <1>5, <1>6 DEF NoEnd

LEMMA EndOfIs ==
    ASSUME NEW events \in Seq(Events), NEW n \in 1 .. Len(events),
           events[n].type = "LIST_END", NoEnd(events, n - 1)
    PROVE  EndOf(events) = n
<1> DEFINE Good(i) == /\ events[i].type = "LIST_END"
                      /\ \A j \in 1 .. i - 1 : events[j].type # "LIST_END"
<1>1. n \in DOMAIN events /\ Good(n) /\ DOMAIN events \subseteq Nat
  BY DEF NoEnd
<1>2. ASSUME NEW j \in DOMAIN events, Good(j)  PROVE j = n
  <2>1. j \in Nat /\ n \in Nat /\ 1 <= j /\ 1 <= n
    BY <1>1
  <2>2. CASE j < n
    BY <2>1, <2>2, <1>1, <1>2
  <2>3. CASE n < j
    BY <2>1, <2>3, <1>1, <1>2
  <2> QED BY <2>1, <2>2, <2>3
<1>3. EndOf(events) = CHOOSE j \in DOMAIN events : Good(j)
  BY DEF EndOf
<1> HIDE DEF Good
<1> QED BY <1>1, <1>2, <1>3

(* What an event makes of the state of event_snapshot_read_module: the      *)
(* clock up to which timestamps are inserted, how many, and the next.       *)
Until(e) == IF e.type = "OVERFLOW" THEN ClkMax ELSE e.clk
Stamps(acc, e) == Seconds(acc.stamp, Until(e))
StampAt(acc, k) == acc.stamp + k * Second
Inserted(acc, e) ==
    [i \in 1 .. Stamps(acc, e) |-> Event("TIMESTAMP", Plus(acc.stamp, (i - 1) * Second))]

LEMMA UntilType ==
    ASSUME NEW e \in Events, e.clk <= Top
    PROVE  Until(e) \in 0 .. Top
BY EventTypes, Numbers DEF Until

(* Minus does not wrap where the result is not negative.                    *)
LEMMA MinusSmall ==
    ASSUME NEW a \in Clock, NEW b \in Nat, b <= a
    PROVE  Minus(a, b) = a - b /\ Minus(a, b) \in Clock
<1>1. PICK d \in Int : d = a - b
  BY Numbers DEF Clock
<1>2. d \in 0 .. Modulus - 1
  BY <1>1, Numbers DEF Clock
<1>3. d % Modulus = d
  BY <1>2, ModSmall
<1>4. Minus(a, b) = d % Modulus
  BY <1>1, Zenon DEF Minus
<1> QED BY <1>1, <1>2, <1>3, <1>4 DEF Clock

LEMMA StampedRight ==
    ASSUME NEW acc, acc.list \in Seq(Events), acc.stamp \in Clock,
           NEW e \in Events, e.clk <= Top
    PROVE  LET r == Stamped(acc, e)
               n == Stamps(acc, e)
               len == Len(acc.list)
           IN  /\ n \in Nat /\ len \in Nat
               /\ \A k \in 0 .. n - 1 : /\ StampAt(acc, k) \in Clock
                                        /\ StampAt(acc, k) < Until(e)
               /\ StampAt(acc, n) \in Clock /\ Until(e) <= StampAt(acc, n)
               /\ n # 0 => StampAt(acc, n) < Until(e) + Second
               /\ r.list \in Seq(Events) /\ Len(r.list) = len + n + 1
               /\ \A i \in 1 .. len : r.list[i] = acc.list[i]
               /\ \A k \in 1 .. n :
                      r.list[len + k] = Event("TIMESTAMP", StampAt(acc, k - 1))
               /\ r.list[len + n + 1] = e
               /\ r.stamp \in Clock
               /\ e.type = "RESETCPU" => r.stamp = StampAt(acc, n) - e.clk
               /\ e.type = "OVERFLOW" => r.stamp = StampAt(acc, n) - Sub
               /\ e.type \notin {"RESETCPU", "OVERFLOW"} => r.stamp = StampAt(acc, n)
<1> DEFINE r == Stamped(acc, e)
           n == Stamps(acc, e)
           len == Len(acc.list)
           ins == Inserted(acc, e)
           last == Plus(acc.stamp, n * Second)
<1>1. Until(e) \in 0 .. Top
  BY UntilType
<1>2. /\ n \in Nat
      /\ \A k \in 0 .. n - 1 : /\ Plus(acc.stamp, k * Second) = StampAt(acc, k)
                               /\ StampAt(acc, k) < Until(e)
      /\ last = StampAt(acc, n)
      /\ StampAt(acc, n) \in Clock /\ Until(e) <= StampAt(acc, n)
      /\ n # 0 => StampAt(acc, n) < Until(e) + Second
  BY <1>1, SecondsEnd, Zenon DEF Stamps, StampAt
<1>3. ASSUME NEW k \in 0 .. n - 1  PROVE StampAt(acc, k) \in Clock
  <2>1. k \in Nat /\ acc.stamp \in Nat /\ Second \in Nat
    BY <1>2, Numbers DEF Clock
  <2>2. k * Second \in Nat
    BY <2>1
  <2>3. StampAt(acc, k) \in Nat
    BY <2>1, <2>2 DEF StampAt
  <2>4. StampAt(acc, k) < Until(e)
    BY <1>2
  <2> HIDE DEF n
  <2> QED BY <1>1, <2>3, <2>4, Numbers DEF Clock
<1>4. len \in Nat
  BY LengthType
<1>5. ASSUME NEW k \in 1 .. n
      PROVE  /\ ins[k] = Event("TIMESTAMP", StampAt(acc, k - 1))
             /\ ins[k] \in Events
  <2>1. k - 1 \in 0 .. n - 1
    BY <1>2
  <2>2. ins[k] = Event("TIMESTAMP", StampAt(acc, k - 1))
    BY <1>2, <2>1 DEF Inserted
  <2>3. StampAt(acc, k - 1) \in Clock
    BY <1>3, <2>1
  <2> QED BY <2>2, <2>3 DEF Event, Events
<1>6. ins \in Seq(Events) /\ Len(ins) = n
  <2>1. ins = [k \in 1 .. n |-> ins[k]]
    BY DEF Inserted
  <2> HIDE DEF ins, n
  <2>2. ins \in [1 .. n -> Events]
    BY <1>5, <2>1
  <2>3. n \in Nat
    BY <1>2
  <2> QED BY <2>2, <2>3
<1> DEFINE joined == acc.list \o ins
<1>7. /\ joined \in Seq(Events) /\ Len(joined) = len + n
      /\ \A i \in 1 .. len : joined[i] = acc.list[i]
      /\ \A k \in 1 .. n : joined[len + k] = ins[k]
  <2> HIDE DEF ins
  <2>1. /\ joined \in Seq(Events) /\ Len(joined) = Len(acc.list) + Len(ins)
        /\ \A i \in 1 .. Len(acc.list) : joined[i] = acc.list[i]
        /\ \A k \in 1 .. Len(ins) : joined[Len(acc.list) + k] = ins[k]
    BY <1>6, Joined
  <2> HIDE DEF joined
  <2> QED BY <1>6, <2>1
<1>8. r.list = joined \o <<e>> /\ r.stamp = (CASE e.type = "RESETCPU" -> Minus(last, e.clk)
                                             [] e.type = "OVERFLOW" -> Minus(last, Sub)
                                             [] OTHER -> last)
  BY DEF Stamped, Inserted, Stamps, Until
<1> HIDE DEF joined, ins, r, last
<1>9. <<e>> \in Seq(Events) /\ Len(<<e>>) = 1 /\ <<e>>[1] = e
  OBVIOUS
<1>10. /\ r.list \in Seq(Events) /\ Len(r.list) = len + n + 1
       /\ \A i \in 1 .. len + n : r.list[i] = joined[i]
       /\ r.list[len + n + 1] = e
  <2>1. Len(joined \o <<e>>) = (len + n) + 1 /\ (joined \o <<e>>)[(len + n) + 1] = e
    <3> HIDE DEF len, n
    <3> QED BY <1>7, <1>9, Joined
  <2>2. /\ joined \o <<e>> \in Seq(Events)
        /\ \A i \in 1 .. len + n : (joined \o <<e>>)[i] = joined[i]
    <3> HIDE DEF len, n
    <3> QED BY <1>7, <1>9, Joined
  <2> HIDE DEF len, n
  <2> QED BY <1>8, <2>1, <2>2
<1>11. \A i \in 1 .. len : r.list[i] = acc.list[i]
  <2> SUFFICES ASSUME NEW i \in 1 .. len  PROVE r.list[i] = acc.list[i]
    OBVIOUS
  <2> HIDE DEF len, n
  <2>1. i \in 1 .. len + n
    BY <1>2, <1>4
  <2> QED BY <1>7, <1>10, <2>1
<1>12. \A k \in 1 .. n : r.list[len + k] = Event("TIMESTAMP", StampAt(acc, k - 1))
  <2> SUFFICES ASSUME NEW k \in 1 .. n
               PROVE  r.list[len + k] = Event("TIMESTAMP", StampAt(acc, k - 1))
    OBVIOUS
  <2> HIDE DEF len, n
  <2>1. len + k \in 1 .. len + n
    BY <1>2, <1>4
  <2> QED BY <1>5, <1>7, <1>10, <2>1
<1>13. ASSUME e.type = "RESETCPU"
       PROVE  r.stamp = StampAt(acc, n) - e.clk /\ r.stamp \in Clock
  <2>1. e.clk \in Nat /\ e.clk = Until(e) /\ r.stamp = Minus(StampAt(acc, n), e.clk)
    BY <1>2, <1>8, <1>13, EventTypes DEF Until
  <2> QED BY <1>2, <2>1, MinusSmall
<1>14. ASSUME e.type = "OVERFLOW"
       PROVE  r.stamp = StampAt(acc, n) - Sub /\ r.stamp \in Clock
  <2>1. Until(e) = ClkMax /\ r.stamp = Minus(StampAt(acc, n), Sub)
    BY <1>2, <1>8, <1>14 DEF Until
  <2>2. Sub \in Nat /\ Sub <= ClkMax /\ ClkMax \in Nat
    BY Numbers
  <2>3. StampAt(acc, n) \in Nat
    BY <1>2, Numbers DEF Clock
  <2>4. Sub <= StampAt(acc, n)
    <3> HIDE DEF n
    <3> QED BY <1>2, <2>1, <2>2, <2>3
  <2> QED BY <1>2, <2>1, <2>2, <2>4, MinusSmall
<1>15. ASSUME e.type \notin {"RESETCPU", "OVERFLOW"}
       PROVE  r.stamp = StampAt(acc, n) /\ r.stamp \in Clock
  BY <1>2, <1>8, <1>15
<1>16. r.stamp \in Clock
  BY <1>13, <1>14, <1>15
<1> HIDE DEF n, len
<1> QED BY <1>2, <1>3, <1>4, <1>10, <1>11, <1>12, <1>13, <1>14, <1>15, <1>16 DEF n, len, r

(* What is loaded of the first i events of a shaped list.                   *)
Loaded(a, saved, i) ==
    /\ a.list \in Seq(Events) /\ a.stamp \in Clock
    /\ i <= Len(a.list) /\ a.list[1] = saved[1] /\ a.list[Len(a.list)] = saved[i]
    /\ \A j \in 2 .. Len(a.list) : a.list[j].type \notin Starts
    /\ \A j \in 1 .. Len(a.list) : a.list[j].clk <= Top
    /\ NoEnd(a.list, Len(a.list) - 1)

Nothing == [list |-> <<>>, stamp |-> 0]

LEMMA LoadFirst ==
    ASSUME NEW saved, Shaped(saved)
    PROVE  LET a == LoadStep(Nothing, saved[1])
           IN  /\ Loaded(a, saved, 1)
               /\ Len(a.list) = 1
               /\ a.stamp = IF saved[1].type = "INITIAL_RESET" THEN 0 ELSE saved[1].clk
<1> DEFINE a == LoadStep(Nothing, saved[1])
<1>1. saved[1] \in Events /\ saved[1].type \in Starts /\ saved[1].clk <= Top
  BY LengthType DEF Shaped
<1>2. saved[1].clk \in Clock /\ 0 \in Clock
  BY <1>1, EventTypes, Numbers DEF Clock
<1>3. /\ a.list = Append(<<>>, saved[1])
      /\ a.stamp = IF saved[1].type = "INITIAL_RESET" THEN 0 ELSE saved[1].clk
  BY <1>1 DEF LoadStep, Nothing
<1>4. <<>> \in Seq(Events) /\ Len(<<>>) = 0
  OBVIOUS
<1> HIDE DEF a
<1>5. a.list \in Seq(Events) /\ Len(a.list) = 1 /\ a.list[1] = saved[1]
  BY <1>1, <1>3
<1> QED BY <1>1, <1>2, <1>3, <1>5 DEF Loaded, NoEnd, a

LEMMA LoadNext ==
    ASSUME NEW saved, Shaped(saved), NEW i \in 1 .. EndOf(saved) - 1, NEW acc,
           Loaded(acc, saved, i)
    PROVE  /\ LoadStep(acc, saved[i + 1]) = Stamped(acc, saved[i + 1])
           /\ Loaded(LoadStep(acc, saved[i + 1]), saved, i + 1)
<1> DEFINE e == saved[i + 1]
           r == Stamped(acc, e)
           n == Stamps(acc, e)
           len == Len(acc.list)
<1>1. /\ i \in Nat /\ i + 1 \in 2 .. Len(saved) /\ i + 1 \in 1 .. Len(saved)
      /\ i \in 1 .. EndOf(saved) - 1
  BY EndOfShaped, LengthType DEF Shaped
<1>2. e \in Events /\ e.type \notin Starts /\ e.clk <= Top
  BY <1>1, LengthType DEF Shaped
<1>3. LoadStep(acc, e) = r
  BY <1>2 DEF LoadStep
<1>4. saved[i].type # "LIST_END"
  BY <1>1, EndOfShaped DEF NoEnd
<1> HIDE DEF e
<1>5. /\ n \in Nat /\ len \in Nat
      /\ \A k \in 0 .. n - 1 : /\ StampAt(acc, k) \in Clock
                               /\ StampAt(acc, k) < Until(e)
      /\ r.list \in Seq(Events) /\ Len(r.list) = len + n + 1
      /\ \A j \in 1 .. len : r.list[j] = acc.list[j]
      /\ \A k \in 1 .. n : r.list[len + k] = Event("TIMESTAMP", StampAt(acc, k - 1))
      /\ r.list[len + n + 1] = e
      /\ r.stamp \in Clock
  BY <1>2, StampedRight DEF Loaded
<1>6. /\ acc.list \in Seq(Events) /\ i <= len /\ acc.list[1] = saved[1]
      /\ acc.list[len] = saved[i]
      /\ \A j \in 2 .. len : acc.list[j].type \notin Starts
      /\ \A j \in 1 .. len : acc.list[j].clk <= Top
      /\ \A j \in 1 .. len - 1 : acc.list[j].type # "LIST_END"
  BY DEF Loaded, NoEnd
<1> HIDE DEF r, n, len
<1>7. ASSUME NEW k \in 1 .. n
      PROVE  /\ r.list[len + k].type = "TIMESTAMP"
             /\ r.list[len + k].clk <= Top
  <2>1. k - 1 \in 0 .. n - 1
    BY <1>5
  <2>2. r.list[len + k].type = "TIMESTAMP" /\ r.list[len + k].clk = StampAt(acc, k - 1)
    BY <1>5, EventTypes
  <2>3. StampAt(acc, k - 1) \in Nat /\ StampAt(acc, k - 1) < Until(e)
    BY <1>5, <2>1, Numbers DEF Clock
  <2>4. Until(e) \in Nat /\ Until(e) <= Top /\ Top \in Nat
    BY <1>2, UntilType, Numbers
  <2> QED BY <2>2, <2>3, <2>4
<1>8. ASSUME NEW j \in 1 .. len + n + 1
      PROVE  \/ j \in 1 .. len
             \/ \E k \in 1 .. n : j = len + k
             \/ j = len + n + 1
  <2>1. j - len \in 1 .. n \/ j <= len \/ j = len + n + 1
    BY <1>5
  <2>2. j = len + (j - len)
    BY <1>5
  <2> QED BY <1>5, <2>1, <2>2
<1>9. i + 1 <= Len(r.list) /\ r.list[Len(r.list)] = e
  BY <1>1, <1>5, <1>6
<1>10. r.list[1] = saved[1]
  BY <1>1, <1>5, <1>6
<1>11. ASSUME NEW j \in 2 .. Len(r.list)  PROVE r.list[j].type \notin Starts
  <2>1. CASE j \in 1 .. len
    <3>1. j \in 2 .. len
      BY <2>1, <1>5
    <3> QED BY <3>1, <1>5, <1>6
  <2>2. CASE \E k \in 1 .. n : j = len + k
    BY <2>2, <1>7 DEF Starts
  <2>3. CASE j = len + n + 1
    BY <2>3, <1>2, <1>5
  <2>4. j \in 1 .. len + n + 1
    BY <1>5
  <2> QED BY <1>8, <2>1, <2>2, <2>3, <2>4
<1>12. ASSUME NEW j \in 1 .. Len(r.list)  PROVE r.list[j].clk <= Top
  <2>1. CASE j \in 1 .. len
    BY <2>1, <1>5, <1>6
  <2>2. CASE \E k \in 1 .. n : j = len + k
    BY <2>2, <1>7
  <2>3. CASE j = len + n + 1
    BY <2>3, <1>2, <1>5
  <2>4. j \in 1 .. len + n + 1
    BY <1>5
  <2> QED BY <1>8, <2>1, <2>2, <2>3, <2>4
<1>13. ASSUME NEW j \in 1 .. Len(r.list) - 1  PROVE r.list[j].type # "LIST_END"
  <2>1. CASE j \in 1 .. len
    <3>1. acc.list[j].type # "LIST_END"
      <4>1. CASE j = len
        BY <4>1, <1>4, <1>6
      <4>2. CASE j # len
        <5>1. j \in 1 .. len - 1
          BY <2>1, <4>2, <1>5
        <5> QED BY <5>1, <1>6
      <4> QED BY <4>1, <4>2
    <3> QED BY <2>1, <3>1, <1>5
  <2>2. CASE \E k \in 1 .. n : j = len + k
    BY <2>2, <1>7
  <2>3. j \in 1 .. len + n + 1 /\ j # len + n + 1
    BY <1>5
  <2> QED BY <1>8, <2>1, <2>2, <2>3
<1>14. Loaded(r, saved, i + 1)
  BY <1>5, <1>9, <1>10, <1>11, <1>12, <1>13 DEF Loaded, NoEnd, e
<1> QED BY <1>3, <1>14 DEF e, r

(* The loading of a shaped list, event by event.                            *)
LoadingOf(acc, saved) ==
    /\ acc[1] = LoadStep(Nothing, saved[1])
    /\ \A i \in 2 .. EndOf(saved) : acc[i] = Stamped(acc[i - 1], saved[i])
    /\ \A i \in 1 .. EndOf(saved) : Loaded(acc[i], saved, i)
    /\ Load(saved) = acc[EndOf(saved)]

LEMMA ShapedLoading ==
    ASSUME NEW saved, Shaped(saved)
    PROVE  \E acc : LoadingOf(acc, saved)
<1> DEFINE n == EndOf(saved)
<1>1. n \in Nat /\ 2 <= n
  BY EndOfShaped
<1>2. PICK acc : /\ acc[0] = Nothing
                 /\ \A i \in 1 .. n : acc[i] = LoadStep(acc[i - 1], saved[i])
                 /\ Load(saved) = acc[n]
  BY <1>1, Loading DEF Nothing
<1>3. acc[1] = LoadStep(Nothing, saved[1])
  <2>1. 1 \in 1 .. n /\ 1 - 1 = 0
    BY <1>1
  <2> HIDE DEF n
  <2> QED BY <1>2, <2>1
<1> DEFINE G == {k \in 0 .. n - 1 : Loaded(acc[k + 1], saved, k + 1)}
<1>4. 0 \in G
  <2>1. Loaded(acc[1], saved, 1)
    BY <1>3, LoadFirst
  <2>2. 0 \in 0 .. n - 1 /\ 0 + 1 = 1
    BY <1>1
  <2> HIDE DEF n
  <2> QED BY <2>1, <2>2
<1>5. ASSUME NEW k \in 0 .. (n - 1) - 1, k \in G  PROVE k + 1 \in G
  <2>1. k + 1 \in 1 .. n - 1 /\ k + 1 \in 0 .. n - 1 /\ (k + 1) + 1 \in 1 .. n
    BY <1>1
  <2>2. Loaded(acc[k + 1], saved, k + 1)
    BY <1>5
  <2>3. ((k + 1) + 1) - 1 = k + 1
    BY <2>1
  <2>4. acc[(k + 1) + 1] = LoadStep(acc[k + 1], saved[(k + 1) + 1])
    <3> HIDE DEF n
    <3>1. acc[(k + 1) + 1] = LoadStep(acc[((k + 1) + 1) - 1], saved[(k + 1) + 1])
      BY <1>2, <2>1, Zenon
    <3> QED BY <2>3, <3>1
  <2>5. Loaded(acc[(k + 1) + 1], saved, (k + 1) + 1)
    BY <2>1, <2>2, <2>4, LoadNext
  <2> QED BY <2>1, <2>5
<1>6. \A k \in 0 .. n - 1 : k \in G
  <2>1. n - 1 \in Nat
    BY <1>1
  <2> HIDE DEF G, n
  <2> QED BY <1>4, <1>5, <2>1, Induction
<1>7. ASSUME NEW i \in 1 .. n  PROVE Loaded(acc[i], saved, i)
  <2>1. i - 1 \in 0 .. n - 1 /\ (i - 1) + 1 = i
    BY <1>1
  <2>2. Loaded(acc[(i - 1) + 1], saved, (i - 1) + 1)
    BY <1>6, <2>1
  <2> QED BY <2>1, <2>2
<1>8. ASSUME NEW i \in 2 .. n  PROVE acc[i] = Stamped(acc[i - 1], saved[i])
  <2>1. i \in 1 .. n /\ i - 1 \in 1 .. n - 1 /\ i - 1 \in 1 .. n /\ (i - 1) + 1 = i
    BY <1>1
  <2>2. Loaded(acc[i - 1], saved, i - 1)
    BY <1>7, <2>1
  <2>3. LoadStep(acc[i - 1], saved[(i - 1) + 1]) = Stamped(acc[i - 1], saved[(i - 1) + 1])
    BY <2>1, <2>2, LoadNext
  <2>4. acc[i] = LoadStep(acc[i - 1], saved[i])
    BY <1>2, <2>1
  <2> QED BY <2>1, <2>3, <2>4
<1> HIDE DEF n
<1>9. LoadingOf(acc, saved)
  BY <1>2, <1>3, <1>7, <1>8 DEF LoadingOf, n
<1> QED BY <1>9

LEMMA LoadShaped ==
    ASSUME NEW saved, Shaped(saved)
    PROVE  LET r == Load(saved)
           IN  /\ Shaped(r.list) /\ r.stamp \in Clock
               /\ r.list[1] = saved[1]
               /\ r.list[Len(r.list)] = saved[EndOf(saved)]
               /\ NoEnd(r.list, Len(r.list) - 1)
<1> DEFINE r == Load(saved)
<1>1. EndOf(saved) \in 2 .. Len(saved) /\ saved[EndOf(saved)].type = "LIST_END"
  BY EndOfShaped
<1>2. PICK acc : LoadingOf(acc, saved)
  BY ShapedLoading
<1>3. Loaded(r, saved, EndOf(saved))
  <2>1. EndOf(saved) \in 1 .. EndOf(saved)
    BY <1>1
  <2> QED BY <1>2, <2>1 DEF LoadingOf
<1> HIDE DEF r
<1>4. 2 <= Len(r.list) /\ Len(r.list) \in Nat
  BY <1>1, <1>3, LengthType DEF Loaded
<1>5. saved[1].type \in Starts
  BY DEF Shaped
<1> QED BY <1>1, <1>3, <1>4, <1>5 DEF Loaded, Shaped, r

(* What is kept of the first i events of a shaped list.                     *)
KeptOf(k, events, i) ==
    /\ k \in Seq(Events) /\ 1 <= Len(k) /\ k[1] = events[1]
    /\ \A j \in 2 .. Len(k) : k[j].type \notin Starts
    /\ \A j \in 1 .. Len(k) : k[j].clk <= Top /\ k[j].type # "TIMESTAMP"
    /\ NoEnd(events, i) => NoEnd(k, Len(k))

LEMMA KeptAppend ==
    ASSUME NEW k, NEW events, NEW i \in Nat, KeptOf(k, events, i), NEW e \in Events,
           e = events[i + 1], e.type \notin Starts, e.clk <= Top, e.type # "TIMESTAMP"
    PROVE  LET r == Append(k, e)
           IN  /\ KeptOf(r, events, i + 1) /\ Len(r) = Len(k) + 1
               /\ r[Len(r)] = e /\ \A j \in 1 .. Len(k) : r[j] = k[j]
<1> DEFINE r == Append(k, e)
           n == Len(k)
<1>1. /\ k \in Seq(Events) /\ n \in Nat /\ 1 <= n /\ k[1] = events[1]
      /\ \A j \in 2 .. n : k[j].type \notin Starts
      /\ \A j \in 1 .. n : k[j].clk <= Top /\ k[j].type # "TIMESTAMP"
  BY LengthType DEF KeptOf
<1>2. /\ r \in Seq(Events) /\ Len(r) = n + 1 /\ r[n + 1] = e
      /\ \A j \in 1 .. n : r[j] = k[j]
  BY <1>1, AppendOne
<1> HIDE DEF r
<1>3. r[1] = events[1] /\ 1 <= Len(r)
  BY <1>1, <1>2
<1>4. ASSUME NEW j \in 1 .. Len(r)  PROVE j = n + 1 \/ j \in 1 .. n
  BY <1>1, <1>2
<1>5. ASSUME NEW j \in 2 .. Len(r)  PROVE r[j].type \notin Starts
  <2>1. j \in 1 .. Len(r)
    OBVIOUS
  <2>2. CASE j = n + 1
    BY <2>2, <1>2
  <2>3. CASE j \in 1 .. n
    <3>1. j \in 2 .. n
      BY <2>3
    <3> QED BY <2>3, <3>1, <1>1, <1>2
  <2> QED BY <1>4, <2>1, <2>2, <2>3
<1>6. ASSUME NEW j \in 1 .. Len(r)  PROVE r[j].clk <= Top /\ r[j].type # "TIMESTAMP"
  <2>1. CASE j = n + 1
    BY <2>1, <1>2
  <2>2. CASE j \in 1 .. n
    BY <2>2, <1>1, <1>2
  <2> QED BY <1>4, <2>1, <2>2
<1>7. ASSUME NoEnd(events, i + 1)  PROVE NoEnd(r, Len(r))
  <2>1. NoEnd(events, i) /\ e.type # "LIST_END"
    BY <1>7 DEF NoEnd
  <2>2. NoEnd(k, n)
    BY <2>1 DEF KeptOf
  <2>3. ASSUME NEW j \in 1 .. Len(r)  PROVE r[j].type # "LIST_END"
    <3>1. CASE j = n + 1
      BY <3>1, <1>2, <2>1
    <3>2. CASE j \in 1 .. n
      BY <3>2, <1>2, <2>2 DEF NoEnd
    <3> QED BY <1>4, <3>1, <3>2
  <2> QED BY <2>3 DEF NoEnd
<1>8. KeptOf(r, events, i + 1)
  BY <1>2, <1>3, <1>5, <1>6, <1>7 DEF KeptOf
<1> QED BY <1>1, <1>2, <1>8 DEF r, n

(* The saving of a shaped list, event by event.                             *)
KeepingOf(kept, events) ==
    /\ kept[1] = <<events[1]>>
    /\ \A i \in 2 .. Len(events) :
           kept[i] = IF events[i].type = "TIMESTAMP" THEN kept[i - 1]
                     ELSE Append(kept[i - 1], events[i])
    /\ \A i \in 1 .. Len(events) : KeptOf(kept[i], events, i)
    /\ Kept(events) = kept[Len(events)]

LEMMA ShapedKeeping ==
    ASSUME NEW events, Shaped(events)
    PROVE  \E kept : KeepingOf(kept, events)
<1> DEFINE n == Len(events)
<1>1. n \in Nat /\ 2 <= n
  BY LengthType DEF Shaped
<1>2. PICK kept : /\ kept[0] = <<>>
                  /\ \A i \in 1 .. n :
                         kept[i] = IF events[i].type = "TIMESTAMP" THEN kept[i - 1]
                                   ELSE Append(kept[i - 1], events[i])
                  /\ Kept(events) = kept[n]
  BY <1>1, Keeping
<1> HIDE DEF n
<1>3. ASSUME NEW i \in 1 .. n  PROVE events[i] \in Events /\ events[i].clk <= Top
  BY <1>3, LengthType DEF Shaped, n
<1>4. kept[1] = <<events[1]>>
  <2>1. 1 \in 1 .. n /\ 1 - 1 = 0
    BY <1>1
  <2>2. events[1].type # "TIMESTAMP"
    BY DEF Shaped, Starts
  <2>3. kept[1] = IF events[1].type = "TIMESTAMP" THEN kept[1 - 1]
                  ELSE Append(kept[1 - 1], events[1])
    BY <1>2, <2>1, Zenon
  <2>4. kept[1] = Append(<<>>, events[1])
    BY <1>2, <2>1, <2>2, <2>3
  <2> QED BY <2>4
<1> DEFINE G == {k \in 0 .. n - 1 : KeptOf(kept[k + 1], events, k + 1)}
<1>5. 0 \in G
  <2>1. events[1] \in Events /\ events[1].clk <= Top
    BY <1>1, <1>3
  <2>2. events[1].type # "TIMESTAMP"
    BY DEF Shaped, Starts
  <2>3. /\ kept[1] \in Seq(Events) /\ Len(kept[1]) = 1 /\ kept[1][1] = events[1]
    BY <1>4, <2>1
  <2>4. NoEnd(events, 1) => NoEnd(kept[1], 1)
    BY <2>3 DEF NoEnd
  <2>5. KeptOf(kept[1], events, 1)
    BY <2>1, <2>2, <2>3, <2>4 DEF KeptOf
  <2>6. 0 \in 0 .. n - 1 /\ 0 + 1 = 1
    BY <1>1
  <2> QED BY <2>5, <2>6
<1>6. ASSUME NEW k \in 0 .. (n - 1) - 1, k \in G  PROVE k + 1 \in G
  <2>1. /\ k + 1 \in Nat /\ k + 1 \in 0 .. n - 1
        /\ (k + 1) + 1 \in 1 .. n /\ (k + 1) + 1 \in 2 .. n
        /\ ((k + 1) + 1) - 1 = k + 1
    BY <1>1
  <2> DEFINE e == events[(k + 1) + 1]
  <2>2. KeptOf(kept[k + 1], events, k + 1)
    BY <1>6
  <2>3. e \in Events /\ e.clk <= Top /\ e.type \notin Starts
    BY <1>3, <2>1 DEF Shaped, n
  <2>4. kept[(k + 1) + 1] = IF e.type = "TIMESTAMP" THEN kept[k + 1]
                            ELSE Append(kept[k + 1], e)
    <3>1. kept[(k + 1) + 1] = IF e.type = "TIMESTAMP" THEN kept[((k + 1) + 1) - 1]
                              ELSE Append(kept[((k + 1) + 1) - 1], e)
      BY <1>2, <2>1, Zenon
    <3> QED BY <2>1, <3>1, Zenon
  <2>5. CASE e.type = "TIMESTAMP"
    <3>1. NoEnd(events, (k + 1) + 1) => NoEnd(events, k + 1)
      BY <2>1 DEF NoEnd
    <3>2. KeptOf(kept[k + 1], events, (k + 1) + 1)
      BY <2>2, <3>1 DEF KeptOf
    <3> QED BY <2>1, <2>4, <2>5, <3>2
  <2>6. CASE e.type # "TIMESTAMP"
    <3>1. KeptOf(Append(kept[k + 1], e), events, (k + 1) + 1)
      BY <2>1, <2>2, <2>3, <2>6, KeptAppend
    <3> QED BY <2>1, <2>4, <2>6, <3>1
  <2> QED BY <2>5, <2>6
<1>7. \A k \in 0 .. n - 1 : k \in G
  <2>1. n - 1 \in Nat
    BY <1>1
  <2> HIDE DEF G
  <2> QED BY <1>5, <1>6, <2>1, Induction
<1>8. ASSUME NEW i \in 1 .. n  PROVE KeptOf(kept[i], events, i)
  <2>1. i - 1 \in 0 .. n - 1 /\ (i - 1) + 1 = i
    BY <1>1
  <2>2. KeptOf(kept[(i - 1) + 1], events, (i - 1) + 1)
    BY <1>7, <2>1
  <2> QED BY <2>1, <2>2
<1>9. ASSUME NEW i \in 2 .. n
      PROVE  kept[i] = IF events[i].type = "TIMESTAMP" THEN kept[i - 1]
                       ELSE Append(kept[i - 1], events[i])
  <2>1. i \in 1 .. n
    OBVIOUS
  <2> QED BY <1>2, <2>1, Zenon
<1>10. KeepingOf(kept, events)
  BY <1>2, <1>4, <1>8, <1>9 DEF KeepingOf, n
<1> QED BY <1>10

LEMMA KeptShaped ==
    ASSUME NEW events, Shaped(events)
    PROVE  LET r == Kept(events)
           IN  /\ Shaped(r) /\ r[1] = events[1]
               /\ \A i \in 1 .. Len(r) : r[i].type # "TIMESTAMP"
<1> DEFINE n == Len(events)
           r == Kept(events)
<1>1. n \in Nat /\ 2 <= n /\ n - 1 \in 1 .. n /\ n \in 1 .. n /\ n \in 2 .. n
  BY LengthType DEF Shaped
<1>2. PICK kept : KeepingOf(kept, events)
  BY ShapedKeeping
<1>3. events[n].type = "LIST_END" /\ events[n] \in Events /\ events[1].type \in Starts
  BY <1>1, LengthType DEF Shaped
<1>4. r = Append(kept[n - 1], events[n])
  BY <1>1, <1>2, <1>3 DEF KeepingOf
<1>5. KeptOf(kept[n - 1], events, n - 1) /\ KeptOf(r, events, n)
  BY <1>1, <1>2 DEF KeepingOf
<1>6. Len(r) = Len(kept[n - 1]) + 1 /\ r[Len(r)] = events[n] /\ 2 <= Len(r)
  <2>1. kept[n - 1] \in Seq(Events) /\ 1 <= Len(kept[n - 1]) /\ Len(kept[n - 1]) \in Nat
    BY <1>5, LengthType DEF KeptOf
  <2> HIDE DEF r, n
  <2> QED BY <1>3, <1>4, <2>1, AppendOne
<1> HIDE DEF r, n
<1> QED BY <1>3, <1>5, <1>6 DEF KeptOf, Shaped, r, n

-----------------------------------------------------------------------------
(* Machines.                                                                *)

(* The clock guard strikes; a machine that has been moved back; one to      *)
(* which something was done; one whose reset has been served.               *)
Strikes(m) == m.beam = 0 /\ m.clk >= ClkMax
Guarded(m) == [m EXCEPT !.clk = m.clk - Sub]
Done(m, what) == [m EXCEPT !.deeds = Append(m.deeds, [what |-> what, time |-> m.time])]
Served(m) == [Done(m, "reset") EXCEPT !.clk = ResetClk, !.beam = 0]

(* The guard strikes at the first end of a frame at or after clk_max_value. *)
Clocked(m) == m.clk < ClkMax + (IF m.beam = 0 THEN FrameLen ELSE m.beam)

LEMMA MachineFields ==
    ASSUME NEW m \in Machines
    PROVE  /\ m.clk \in Clock /\ m.clk \in Nat /\ m.clk < Modulus
           /\ m.beam \in 0 .. FrameLen - 1 /\ m.beam \in Nat
           /\ m.time \in Nat /\ m.deeds \in Deeds
           /\ m = [clk |-> m.clk, beam |-> m.beam, time |-> m.time, deeds |-> m.deeds]
BY Numbers DEF Machines, Clock

LEMMA ClockedTop ==
    ASSUME NEW m \in Machines, Clocked(m)
    PROVE  m.clk <= Top
BY MachineFields, Numbers DEF Clocked

LEMMA DoneType ==
    ASSUME NEW m \in Machines, NEW what \in {"key", "reset"}
    PROVE  LET r == Done(m, what)
           IN  /\ r \in Machines /\ r.clk = m.clk /\ r.beam = m.beam /\ r.time = m.time
               /\ r.deeds = Append(m.deeds, [what |-> what, time |-> m.time])
               /\ r.deeds \in Deeds
               /\ Clocked(m) => Clocked(r)
<1> DEFINE d == Append(m.deeds, [what |-> what, time |-> m.time])
           r == Done(m, what)
<1>1. m.deeds \in Seq([what : {"key", "reset"}, time : Nat]) /\ m.time \in Nat
  BY MachineFields DEF Deeds
<1>2. d \in Deeds
  BY <1>1 DEF Deeds
<1> HIDE DEF d
<1>3. r = [m EXCEPT !.deeds = d]
  BY DEF Done, d
<1>4. /\ r \in Machines /\ r.clk = m.clk /\ r.beam = m.beam /\ r.time = m.time
      /\ r.deeds = d
  BY <1>2, <1>3 DEF Machines
<1> HIDE DEF r
<1> QED BY <1>2, <1>4 DEF Clocked, r, d

LEMMA ServedType ==
    ASSUME NEW m \in Machines
    PROVE  LET r == Served(m)
           IN  /\ r \in Machines /\ r.clk = ResetClk /\ r.beam = 0 /\ r.time = m.time
               /\ r.deeds = Append(m.deeds, [what |-> "reset", time |-> m.time])
               /\ r.deeds \in Deeds
               /\ Clocked(r)
<1> DEFINE d == Done(m, "reset")
           r == Served(m)
<1>1. /\ d \in Machines /\ d.time = m.time
      /\ d.deeds = Append(m.deeds, [what |-> "reset", time |-> m.time]) /\ d.deeds \in Deeds
  BY DoneType
<1> HIDE DEF d
<1>2. r = [d EXCEPT !.clk = ResetClk, !.beam = 0]
  BY DEF Served, d
<1>3. ResetClk \in Clock /\ 0 \in 0 .. FrameLen - 1
  BY Numbers DEF Clock
<1>4. r \in Machines /\ r.clk = ResetClk /\ r.beam = 0 /\ r.time = d.time /\ r.deeds = d.deeds
  BY <1>1, <1>2, <1>3 DEF Machines
<1>5. ResetClk < ClkMax + FrameLen
  BY Numbers
<1> HIDE DEF r
<1> QED BY <1>1, <1>4, <1>5 DEF Clocked, r

LEMMA BegunType ==
    ASSUME NEW clk \in Clock, NEW beam \in 0 .. FrameLen - 1
    PROVE  LET r == Begun(clk, beam)
           IN  /\ r \in Machines /\ r.clk = clk /\ r.beam = beam /\ r.time = 0
               /\ r.deeds = <<>>
<1>1. <<>> \in Deeds
  BY DEF Deeds
<1> QED BY <1>1 DEF Begun, Machines

LEMMA BegunReset ==
    LET r == Begun(ResetClk, 0)
    IN  /\ r \in Machines /\ r.clk = ResetClk /\ r.beam = 0 /\ r.time = 0
        /\ r.deeds = <<>> /\ Clocked(r)
<1>1. ResetClk \in Clock /\ 0 \in 0 .. FrameLen - 1 /\ ResetClk < ClkMax + FrameLen
  BY Numbers DEF Clock
<1> QED BY <1>1, BegunType DEF Clocked

(* A move leaves enough room on both sides.                                 *)
LEMMA GuardedType ==
    ASSUME NEW m \in Machines, m.clk >= ClkMax, m.clk <= Top
    PROVE  LET r == Guarded(m)
           IN  /\ r \in Machines /\ r.clk = m.clk - Sub /\ r.beam = m.beam
               /\ r.time = m.time /\ r.deeds = m.deeds
               /\ r.clk \in Clock /\ SubMin <= r.clk /\ r.clk + Second + SubMin < ClkMax
               /\ r.clk + SubMin < m.clk
               /\ Clocked(r) /\ ~Strikes(r)
<1> DEFINE r == Guarded(m)
           c == m.clk - Sub
<1>1. /\ c \in Clock /\ c \in Nat /\ SubMin <= c /\ c + Second + SubMin < ClkMax
      /\ c + SubMin < m.clk
  BY MachineFields, Numbers DEF Clock
<1> HIDE DEF c
<1>2. r = [m EXCEPT !.clk = c]
  BY DEF Guarded, c
<1>3. /\ r \in Machines /\ r.clk = c /\ r.beam = m.beam /\ r.time = m.time
      /\ r.deeds = m.deeds
  BY <1>1, <1>2 DEF Machines
<1> HIDE DEF r
<1>4. Clocked(r) /\ ~Strikes(r)
  BY <1>1, <1>3, MachineFields, Numbers DEF Clocked, Strikes
<1> QED BY <1>1, <1>3, <1>4 DEF r, c

(* The next cycle.                                                          *)
LEMMA Cycle ==
    ASSUME NEW m \in Machines, Clocked(m), ~Strikes(m)
    PROVE  /\ m.clk + 1 \in Clock /\ Plus(m.clk, 1) = m.clk + 1
           /\ (m.beam + 1) % FrameLen \in 0 .. FrameLen - 1
           /\ m.clk + 1 < ClkMax + IF (m.beam + 1) % FrameLen = 0 THEN FrameLen
                                   ELSE (m.beam + 1) % FrameLen
<1>1. /\ m.clk \in Nat /\ m.beam \in Nat /\ m.beam <= FrameLen - 1 /\ FrameLen \in Nat \ {0}
      /\ ClkMax \in Nat /\ Modulus \in Nat /\ ClkMax + FrameLen < Modulus
  BY MachineFields, Numbers
<1>2. m.clk < ClkMax + m.beam
  BY <1>1 DEF Clocked, Strikes
<1>3. m.clk + 1 \in 0 .. Modulus - 1
  BY <1>1, <1>2
<1>4. (m.clk + 1) % Modulus = m.clk + 1
  BY <1>3, ModSmall
<1>5. CASE m.beam + 1 = FrameLen
  <2>1. FrameLen % FrameLen = 0
    BY <1>1
  <2>2. (m.beam + 1) % FrameLen = 0
    BY <1>5, <2>1
  <2> QED BY <1>1, <1>2, <1>3, <1>4, <2>2 DEF Clock, Plus
<1>6. CASE m.beam + 1 # FrameLen
  <2>1. m.beam + 1 \in 0 .. FrameLen - 1
    BY <1>1, <1>6
  <2>2. (m.beam + 1) % FrameLen = m.beam + 1
    BY <1>1, <2>1, SmallRemainder
  <2> QED BY <1>1, <1>2, <1>3, <1>4, <2>1, <2>2 DEF Clock, Plus
<1> QED BY <1>5, <1>6

-----------------------------------------------------------------------------
(* Types, and the shape of what is kept.                                    *)

ListSane ==
    IF list = <<>> THEN current = 0 /\ alarm = Unset /\ ~record /\ ~playback
    ELSE /\ Shaped(list) /\ current \in 2 .. Len(list)
         /\ record => current = Len(list)

HasStart(events, start) == events[1].type = "INITIAL_SAVE" => start \in Machines

FileSane(f) ==
    /\ Clocked(f.machine) /\ Shaped(f.list)
    /\ \A i \in 1 .. Len(f.list) : f.list[i].type # "TIMESTAMP"

Shape ==
    /\ Clocked(machine)
    /\ ListSane
    /\ list # <<>> => HasStart(list, startFile)
    /\ startFile \in Machines => Clocked(startFile)
    /\ endFile # NoFile => /\ FileSane(endFile) /\ HasStart(endFile.list, startFile)
                           /\ ~record => endFile.over
    /\ record /\ playback => "both" \in upset

(* A list that is not empty.                                                *)
LEMMA ListFacts ==
    ASSUME TypeOK, Shape, list # <<>>
    PROVE  /\ Shaped(list) /\ list \in Seq(Events) /\ Len(list) \in Nat /\ 2 <= Len(list)
           /\ current \in 2 .. Len(list) /\ current \in Nat
           /\ current \in DOMAIN list
           /\ list[current] \in Events
           /\ record => current = Len(list)
           /\ list[current].type # "LIST_END" => current < Len(list)
<1>1. Shaped(list) /\ current \in 2 .. Len(list) /\ (record => current = Len(list))
  BY DEF Shape, ListSane
<1>2. Len(list) \in Nat /\ list \in Seq(Events) /\ 2 <= Len(list)
  BY <1>1, LengthType DEF Shaped
<1>3. current \in 1 .. Len(list)
  BY <1>1, <1>2
<1>4. list[current] \in Events /\ current \in DOMAIN list
  BY <1>2, <1>3, LengthType
<1>5. list[current].type # "LIST_END" => current # Len(list)
  BY <1>1 DEF Shaped
<1> QED BY <1>1, <1>2, <1>3, <1>4, <1>5

LEMMA NextAlarmType ==
    ASSUME NEW e \in Events, NEW clk \in Clock
    PROVE  NextAlarm(e, clk) \in Clock
<1>1. e.clk \in Clock /\ e.clk \in Nat /\ Sub \in Nat /\ Modulus \in Nat \ {0}
  BY EventTypes, Numbers
<1>2. PICK s \in Nat : s = e.clk + Sub
  BY <1>1
<1>3. s % Modulus \in Clock
  BY <1>1 DEF Clock
<1>4. Plus(e.clk, Sub) = s % Modulus
  BY <1>2, Zenon DEF Plus
<1> QED BY <1>1, <1>3, <1>4 DEF NextAlarm

LEMMA MinusType ==
    ASSUME NEW a \in Clock, NEW b \in Int
    PROVE  Minus(a, b) \in Clock
<1>1. PICK s \in Int : s = a - b
  BY Numbers DEF Clock
<1>2. s % Modulus \in Clock
  BY Numbers DEF Clock
<1> QED BY <1>1, <1>2 DEF Minus

LEMMA PlusType ==
    ASSUME NEW a \in Clock, NEW b \in Int
    PROVE  Plus(a, b) \in Clock
<1>1. PICK s \in Int : s = a + b
  BY Numbers DEF Clock
<1>2. s % Modulus \in Clock
  BY Numbers DEF Clock
<1> QED BY <1>1, <1>2 DEF Plus

LEMMA SpendType ==
    ASSUME left \in [Kinds -> Nat], NEW kind \in Kinds, Spend(kind)
    PROVE  left' \in [Kinds -> Nat]
BY DEF Spend

LEMMA NotStarts ==
    {"key", "RESETCPU", "OVERFLOW", "TIMESTAMP", "LIST_END"} \cap Starts = {}
BY DEF Starts

(* What is recorded at clock clk.                                           *)
LEMMA RecordedRight ==
    ASSUME TypeOK, Shape, record, NEW clk \in Clock, clk <= Top,
           NEW type \in {"key", "RESETCPU", "OVERFLOW", "LIST_END"}
    PROVE  LET r == Recorded(type, clk)
               n == Len(list)
           IN  /\ list # <<>> /\ n \in Nat /\ 2 <= n /\ current = n
               /\ Shaped(r) /\ r \in Seq(Events) /\ Len(r) = n + 1 /\ r # <<>>
               /\ \A i \in 1 .. n - 1 : r[i] = list[i]
               /\ r[n] = Event(type, clk) /\ r[n + 1] = Blank /\ r[1] = list[1]
<1>1. list # <<>>
  BY DEF Shape, ListSane
<1>2. Shaped(list) /\ current = Len(list) /\ Len(list) \in Nat /\ 2 <= Len(list)
  BY <1>1, ListFacts
<1>3. Recorded(type, clk) = Replaced(list, Event(type, clk))
  BY <1>2 DEF Recorded, Replaced
<1>4. Event(type, clk) \in Events /\ Event(type, clk).clk = clk
  BY DEF Event, Events
<1>5. Event(type, clk).type \notin Starts
  BY NotStarts DEF Event
<1> DEFINE r == Replaced(list, Event(type, clk))
           n == Len(list)
<1>6. /\ Shaped(r) /\ r \in Seq(Events) /\ Len(r) = n + 1
      /\ \A i \in 1 .. n - 1 : r[i] = list[i]
      /\ r[n] = Event(type, clk) /\ r[n + 1] = Blank
  BY <1>2, <1>4, <1>5, ReplacedShaped
<1> HIDE DEF r
<1>7. r # <<>> /\ r[1] = list[1]
  <2>1. 1 \in 1 .. n - 1 /\ Len(r) # 0
    BY <1>2, <1>6
  <2> QED BY <1>6, <2>1
<1> QED BY <1>1, <1>2, <1>3, <1>6, <1>7 DEF r

-----------------------------------------------------------------------------
(* Types and shape: one lemma for each action.                              *)

LEMMA InitShape == Init => TypeOK /\ Shape
<1> SUFFICES ASSUME Init  PROVE TypeOK /\ Shape
  OBVIOUS
<1>1. PICK clk \in InitialClks : machine = Begun(clk, 0)
  BY DEF Init
<1>2. clk \in Clock /\ clk < ClkMax + FrameLen /\ 0 \in 0 .. FrameLen - 1
  BY ConstantsAssumption, Numbers DEF Clock, ClkMax
<1>3. machine \in Machines /\ Clocked(machine)
  BY <1>1, <1>2, BegunType DEF Clocked
<1>4. 0 \in Clock
  BY Numbers DEF Clock
<1>5. left \in [Kinds -> Nat]
  BY ConstantsAssumption DEF Init
<1>6. NoFile \notin Machines
  BY DEF NoFile, Machines
<1>7. TypeOK
  <2>1. /\ resetting = FALSE /\ list = <<>> /\ current = 0 /\ alarm = Unset
        /\ record = FALSE /\ playback = FALSE /\ nextStamp = 0 /\ milestoneStamp = 0
        /\ startFile = NoFile /\ endFile = NoFile /\ upset = {}
    BY DEF Init
  <2>2. <<>> \in Seq(Events) /\ {} \in SUBSET Reasons
    OBVIOUS
  <2> QED BY <1>3, <1>4, <1>5, <2>1, <2>2 DEF TypeOK
<1>8. Shape
  BY <1>3, <1>6 DEF Init, Shape, ListSane
<1> QED BY <1>7, <1>8

LEMMA TickShape ==
    ASSUME TypeOK, Shape, Tick
    PROVE  TypeOK' /\ Shape'
<1>1. machine \in Machines /\ Clocked(machine) /\ ~Strikes(machine)
  BY DEF TypeOK, Shape, Tick, GuardDue, Strikes
<1> DEFINE clk == machine.clk + 1
           beam == (machine.beam + 1) % FrameLen
           time == IF machine.time > Horizon THEN machine.time ELSE machine.time + 1
<1>2. /\ clk \in Clock /\ Plus(machine.clk, 1) = clk /\ beam \in 0 .. FrameLen - 1
      /\ clk < ClkMax + IF beam = 0 THEN FrameLen ELSE beam
  BY <1>1, Cycle
<1>3. time \in Nat
  BY <1>1, MachineFields
<1>4. machine' = [machine EXCEPT !.clk = clk, !.beam = beam, !.time = time]
  BY <1>2 DEF Tick
<1> HIDE DEF clk, beam, time
<1>5. machine' \in Machines /\ machine'.clk = clk /\ machine'.beam = beam
  BY <1>1, <1>2, <1>3, <1>4 DEF Machines
<1>6. Clocked(machine')
  BY <1>2, <1>5 DEF Clocked
<1>7. /\ resetting' = resetting /\ list' = list /\ current' = current /\ alarm' = alarm
      /\ record' = record /\ playback' = playback
      /\ nextStamp' = nextStamp /\ milestoneStamp' = milestoneStamp
      /\ startFile' = startFile /\ endFile' = endFile /\ upset' = upset /\ left' = left
  BY DEF Tick, modes, stamps, files
<1>8. TypeOK'
  BY <1>5, <1>7 DEF TypeOK
<1>9. Shape'
  BY <1>6, <1>7 DEF Shape, ListSane
<1> QED BY <1>8, <1>9

(* The clock when the guard strikes.                                        *)
LEMMA GuardClock ==
    ASSUME TypeOK, Shape, GuardDue
    PROVE  /\ machine \in Machines /\ Strikes(machine)
           /\ machine.clk >= ClkMax /\ machine.clk <= Top /\ machine.clk \in Nat
BY MachineFields, ClockedTop DEF TypeOK, Shape, GuardDue, Strikes

LEMMA GuardShape ==
    ASSUME TypeOK, Shape, Guard
    PROVE  TypeOK' /\ Shape'
<1>1. machine \in Machines /\ machine.clk >= ClkMax /\ machine.clk <= Top
  BY GuardClock DEF Guard
<1>2. machine' = Guarded(machine)
  BY DEF Guard, Guarded
<1>3. machine' \in Machines /\ Clocked(machine') /\ machine'.clk \in Clock /\ machine'.clk <= Top
  BY <1>1, <1>2, GuardedType, ClockedTop
<1>4. /\ alarm' \in Clock \cup {Unset}
      /\ alarm = Unset => alarm' = Unset
      /\ nextStamp' \in Clock
  <2>1. Sub \in Int /\ nextStamp \in Clock /\ (alarm = Unset \/ alarm \in Clock)
    BY Numbers DEF TypeOK
  <2>2. nextStamp' = IF nextStamp = 0 THEN 0 ELSE Minus(nextStamp, Sub)
    BY DEF Guard
  <2>3. alarm' = IF alarm = Unset THEN Unset ELSE Minus(alarm, Sub)
    BY DEF Guard
  <2> QED BY <2>1, <2>2, <2>3, MinusType
<1>5. /\ resetting' = resetting /\ record' = record /\ playback' = playback
      /\ milestoneStamp' = milestoneStamp /\ startFile' = startFile /\ endFile' = endFile
      /\ left' = left
  BY DEF Guard, modes, files
<1>6. upset' \in SUBSET Reasons /\ upset \subseteq upset'
  BY DEF Guard, TypeOK, Reasons
<1>7. CASE record
  <2>1. list' = Recorded("OVERFLOW", machine'.clk) /\ current' = current + 1
    BY <1>7 DEF Guard
  <2>2. /\ list # <<>> /\ Len(list) \in Nat /\ 2 <= Len(list) /\ current = Len(list)
        /\ Shaped(list') /\ list' \in Seq(Events) /\ Len(list') = Len(list) + 1
        /\ list' # <<>> /\ list'[1] = list[1]
    BY <1>3, <1>7, <2>1, RecordedRight
  <2>3. current' \in 2 .. Len(list') /\ current' = Len(list') /\ current' \in DOMAIN list'
    BY <2>1, <2>2
  <2>4. TypeOK'
    BY <1>3, <1>4, <1>5, <1>6, <2>2, <2>3 DEF TypeOK
  <2>5. Shape'
    BY <1>3, <1>5, <1>6, <2>2, <2>3 DEF Shape, ListSane, HasStart
  <2> QED BY <2>4, <2>5
<1>8. CASE ~record
  <2>1. list' = list /\ current' = current
    BY <1>8 DEF Guard
  <2>2. TypeOK'
    BY <1>3, <1>4, <1>5, <1>6, <2>1 DEF TypeOK
  <2>3. Shape'
    BY <1>3, <1>4, <1>5, <1>6, <1>8, <2>1 DEF Shape, ListSane
  <2> QED BY <2>2, <2>3
<1> QED BY <1>7, <1>8

(* What the user does, while it is recorded or not.                         *)
LEMMA RecordShape ==
    ASSUME TypeOK, Shape, NEW type \in {"key", "RESETCPU"}, NEW kind \in Kinds, Spend(kind),
           machine' \in Machines, Clocked(machine'), resetting' \in BOOLEAN,
           IF record THEN RecordInList(type) /\ upset' = upset \cup Upsets
           ELSE UNCHANGED <<list, current, nextStamp, upset>>,
           UNCHANGED <<alarm, modes, milestoneStamp, files>>
    PROVE  TypeOK' /\ Shape'
<1>1. /\ alarm' = alarm /\ record' = record /\ playback' = playback
      /\ milestoneStamp' = milestoneStamp /\ startFile' = startFile /\ endFile' = endFile
  BY DEF modes, files
<1>2. left' \in [Kinds -> Nat]
  BY SpendType DEF TypeOK
<1>3. upset' \in SUBSET Reasons /\ upset \subseteq upset'
  BY DEF TypeOK, Reasons, Upsets
<1>4. machine.clk \in Clock /\ machine.clk <= Top /\ machine.clk \in Int
  BY MachineFields, ClockedTop DEF TypeOK, Shape
<1>5. nextStamp' \in Clock
  <2>1. nextStamp \in Clock
    BY DEF TypeOK
  <2>2. Minus(nextStamp, machine.clk) \in Clock
    BY <1>4, <2>1, MinusType
  <2> QED BY <2>1, <2>2 DEF RecordInList
<1>6. CASE record
  <2>1. list' = Recorded(type, machine.clk) /\ current' = current + 1
    BY <1>6 DEF RecordInList
  <2>2. /\ list # <<>> /\ Len(list) \in Nat /\ 2 <= Len(list) /\ current = Len(list)
        /\ Shaped(list') /\ list' \in Seq(Events) /\ Len(list') = Len(list) + 1
        /\ list' # <<>> /\ list'[1] = list[1]
    BY <1>4, <1>6, <2>1, RecordedRight
  <2>3. current' \in 2 .. Len(list') /\ current' = Len(list') /\ current' \in DOMAIN list'
    BY <2>1, <2>2
  <2>4. TypeOK'
    BY <1>1, <1>2, <1>3, <1>5, <2>2, <2>3 DEF TypeOK
  <2>5. Shape'
    BY <1>1, <1>3, <2>2, <2>3 DEF Shape, ListSane, HasStart
  <2> QED BY <2>4, <2>5
<1>7. CASE ~record
  <2>1. list' = list /\ current' = current /\ nextStamp' = nextStamp
    BY <1>7
  <2>2. TypeOK'
    BY <1>1, <1>2, <1>3, <1>5, <2>1 DEF TypeOK
  <2>3. Shape'
    BY <1>1, <1>3, <1>7, <2>1 DEF Shape, ListSane
  <2> QED BY <2>2, <2>3
<1> QED BY <1>6, <1>7

LEMMA InputShape ==
    ASSUME TypeOK, Shape, Input
    PROVE  TypeOK' /\ Shape'
<1>1. machine' = Done(machine, "key")
  BY DEF Input, Do, Done
<1>2. machine' \in Machines /\ Clocked(machine')
  BY <1>1, DoneType DEF TypeOK, Shape
<1>3. /\ resetting' \in BOOLEAN /\ Spend("input") /\ "input" \in Kinds
      /\ UNCHANGED <<alarm, modes, milestoneStamp, files>>
      /\ IF record THEN RecordInList("key") /\ upset' = upset \cup Upsets
         ELSE UNCHANGED <<list, current, nextStamp, upset>>
  BY DEF Input, TypeOK, Kinds
<1> QED BY <1>2, <1>3, RecordShape

LEMMA TriggerResetShape ==
    ASSUME TypeOK, Shape, TriggerReset
    PROVE  TypeOK' /\ Shape'
<1>1. machine' \in Machines /\ Clocked(machine')
  BY DEF TypeOK, Shape, TriggerReset
<1>2. /\ resetting' \in BOOLEAN /\ Spend("input") /\ "input" \in Kinds
      /\ UNCHANGED <<alarm, modes, milestoneStamp, files>>
      /\ IF record THEN RecordInList("RESETCPU") /\ upset' = upset \cup Upsets
         ELSE UNCHANGED <<list, current, nextStamp, upset>>
  BY DEF TriggerReset, TypeOK, Kinds
<1> QED BY <1>1, <1>2, RecordShape

(* The next event exists unless the list ends here.                         *)
LEMMA NextEvent ==
    ASSUME TypeOK, Shape, list # <<>>, list[current].type # "LIST_END"
    PROVE  /\ current + 1 \in 2 .. Len(list) /\ current + 1 \in 1 .. Len(list)
           /\ list[current + 1] \in Events
BY ListFacts, LengthType

LEMMA ResetClock == ResetClk \in Clock
BY Numbers DEF Clock

LEMMA ServeResetShape ==
    ASSUME TypeOK, Shape, ServeReset
    PROVE  TypeOK' /\ Shape'
<1>1. machine' = Served(machine)
  BY DEF ServeReset, Do, Done, Served
<1>2. machine' \in Machines /\ Clocked(machine')
  BY <1>1, ServedType DEF TypeOK
<1>3. /\ resetting' = FALSE /\ list' = list /\ record' = record /\ playback' = playback
      /\ nextStamp' = nextStamp /\ milestoneStamp' = milestoneStamp
      /\ startFile' = startFile /\ endFile' = endFile /\ left' = left
      /\ current' = AckCurrent(list, current)
      /\ alarm' = AckAlarm(list, current, FALSE, record, nextStamp, alarm)
  BY DEF ServeReset, stamps, files
<1>4. upset' \in SUBSET Reasons /\ upset \subseteq upset'
  BY DEF ServeReset, TypeOK, Reasons
<1>5. CASE list = <<>>
  <2>1. current' = current /\ alarm' = alarm
    BY <1>3, <1>5 DEF AckCurrent, AckAlarm
  <2>2. TypeOK'
    BY <1>2, <1>3, <1>4, <2>1 DEF TypeOK
  <2>3. Shape'
    BY <1>2, <1>3, <1>4, <2>1 DEF Shape, ListSane
  <2> QED BY <2>2, <2>3
<1>6. CASE list # <<>>
  <2>1. /\ Shaped(list) /\ Len(list) \in Nat /\ current \in 2 .. Len(list)
        /\ record => current = Len(list)
    BY <1>6, ListFacts
  <2>2. current' \in 2 .. Len(list) /\ (record => current' = Len(list))
    <3>1. CASE list[current].type = "RESETCPU"
      <4>1. ~record
        BY <2>1, <3>1 DEF Shaped
      <4> QED BY <1>3, <1>6, <3>1, <4>1, NextEvent DEF AckCurrent
    <3>2. CASE list[current].type # "RESETCPU"
      BY <1>3, <2>1, <3>2 DEF AckCurrent
    <3> QED BY <3>1, <3>2
  <2>3. alarm' \in Clock \cup {Unset}
    <3>1. CASE record
      BY <1>3, <1>6, <3>1 DEF AckAlarm, TypeOK
    <3>2. CASE ~record /\ list[current].type = "RESETCPU"
      <4>1. alarm' = NextAlarm(list[current + 1], ResetClk)
        BY <1>3, <1>6, <3>2 DEF AckAlarm
      <4> QED BY <1>6, <3>2, <4>1, NextEvent, NextAlarmType, ResetClock
    <3>3. CASE ~record /\ list[current].type # "RESETCPU"
      BY <1>3, <1>6, <3>3 DEF AckAlarm, TypeOK
    <3> QED BY <3>1, <3>2, <3>3
  <2>4. current' \in DOMAIN list
    BY <2>1, <2>2, LengthType DEF Shaped
  <2>5. TypeOK'
    BY <1>2, <1>3, <1>4, <1>6, <2>3, <2>4 DEF TypeOK
  <2>6. Shape'
    BY <1>2, <1>3, <1>4, <1>6, <2>1, <2>2 DEF Shape, ListSane
  <2> QED BY <2>5, <2>6
<1> QED BY <1>5, <1>6

LEMMA StampAlarmShape ==
    ASSUME TypeOK, Shape, StampAlarm
    PROVE  TypeOK' /\ Shape'
<1>1. /\ machine' = machine /\ resetting' = resetting /\ list' = list /\ current' = current
      /\ record' = record /\ playback' = playback /\ milestoneStamp' = milestoneStamp
      /\ startFile' = startFile /\ endFile' = endFile /\ upset' = upset /\ left' = left
      /\ record
  BY DEF StampAlarm, modes, files
<1>2. nextStamp' \in Clock /\ alarm' \in Clock
  <2>1. nextStamp \in Clock /\ Second \in Int
    BY Numbers DEF TypeOK
  <2> QED BY <2>1, PlusType DEF StampAlarm
<1>3. TypeOK'
  BY <1>1, <1>2 DEF TypeOK
<1>4. Shape'
  BY <1>1 DEF Shape, ListSane
<1> QED BY <1>3, <1>4

(* A due alarm belongs to a list.                                           *)
LEMMA DueList ==
    ASSUME TypeOK, Shape, Due
    PROVE  list # <<>> /\ alarm # Unset /\ alarm \in Clock /\ machine.clk >= alarm
BY DEF TypeOK, Shape, ListSane, Due

LEMMA PlayEventShape ==
    ASSUME TypeOK, Shape, PlayEvent
    PROVE  TypeOK' /\ Shape'
<1>1. /\ resetting' = resetting /\ list' = list /\ record' = record /\ playback' = playback
      /\ nextStamp' = nextStamp /\ milestoneStamp' = milestoneStamp
      /\ startFile' = startFile /\ endFile' = endFile /\ upset' = upset /\ left' = left
      /\ Due /\ ~record /\ list[current].type \notin {"RESETCPU", "LIST_END"}
      /\ current' = current + 1
      /\ alarm' = NextAlarm(list[current + 1], machine.clk)
  BY DEF PlayEvent, modes, stamps, files
<1>2. list # <<>>
  BY <1>1, DueList
<1>3. machine \in Machines /\ Clocked(machine) /\ machine.clk \in Clock
  BY MachineFields DEF TypeOK, Shape
<1>4. machine' = Done(machine, "key") \/ machine' = machine
  BY DEF PlayEvent, Do, Done
<1>5. machine' \in Machines /\ Clocked(machine')
  BY <1>3, <1>4, DoneType
<1>6. /\ current' \in 2 .. Len(list) /\ current' \in 1 .. Len(list)
      /\ list[current + 1] \in Events
  BY <1>1, <1>2, NextEvent
<1>7. alarm' \in Clock
  BY <1>1, <1>3, <1>6, NextAlarmType
<1>8. Shaped(list) /\ current' \in DOMAIN list
  BY <1>2, <1>6, ListFacts, LengthType
<1>9. TypeOK'
  BY <1>1, <1>2, <1>5, <1>7, <1>8 DEF TypeOK
<1>10. Shape'
  BY <1>1, <1>2, <1>5, <1>6, <1>8 DEF Shape, ListSane
<1> QED BY <1>9, <1>10

LEMMA PlayResetShape ==
    ASSUME TypeOK, Shape, PlayReset
    PROVE  TypeOK' /\ Shape'
<1>1. /\ machine' = machine /\ list' = list /\ current' = current /\ record' = record
      /\ playback' = playback /\ nextStamp' = nextStamp /\ milestoneStamp' = milestoneStamp
      /\ startFile' = startFile /\ endFile' = endFile /\ upset' = upset /\ left' = left
      /\ resetting' = TRUE /\ alarm' = Unset
  BY DEF PlayReset, modes, stamps, files
<1>2. TypeOK'
  BY <1>1 DEF TypeOK
<1>3. Shape'
  BY <1>1 DEF Shape, ListSane
<1> QED BY <1>2, <1>3

LEMMA PlayEndShape ==
    ASSUME TypeOK, Shape, PlayEnd
    PROVE  TypeOK' /\ Shape'
<1>1. /\ machine' = machine /\ list' = list /\ current' = current /\ record' = record
      /\ resetting' = resetting /\ nextStamp' = nextStamp
      /\ milestoneStamp' = milestoneStamp
      /\ startFile' = startFile /\ endFile' = endFile /\ upset' = upset /\ left' = left
      /\ playback' = FALSE /\ alarm' = Unset
  BY DEF PlayEnd, stamps, files
<1>2. TypeOK'
  BY <1>1 DEF TypeOK
<1>3. Shape'
  BY <1>1 DEF Shape, ListSane
<1> QED BY <1>2, <1>3

-----------------------------------------------------------------------------
(* The commands.                                                            *)

LEMMA TwoShaped ==
    ASSUME NEW type \in Starts, NEW clk \in Clock, clk <= Top
    PROVE  LET r == <<Event(type, clk), Blank>>
           IN  /\ Shaped(r) /\ r \in Seq(Events) /\ Len(r) = 2 /\ r # <<>>
               /\ r[1] = Event(type, clk) /\ r[2] = Blank
<1>1. Event(type, clk) \in Events /\ Event(type, clk).type = type /\ Event(type, clk).clk = clk
  BY DEF Event, Events
<1>2. Blank \in Events /\ Blank.type = "LIST_END" /\ Blank.clk = 0 /\ 0 <= Top
  BY EventTypes, Numbers
<1> DEFINE r == <<Event(type, clk), Blank>>
<1>3. /\ r \in Seq(Events) /\ Len(r) = 2 /\ r # <<>>
      /\ r[1] = Event(type, clk) /\ r[2] = Blank
  BY <1>1, <1>2
<1> HIDE DEF r
<1>4. ASSUME NEW i \in 2 .. Len(r)  PROVE r[i].type \notin Starts
  BY <1>2, <1>3, NotStarts
<1>5. ASSUME NEW i \in 1 .. Len(r)  PROVE r[i].clk <= Top
  BY <1>1, <1>2, <1>3
<1> QED BY <1>1, <1>2, <1>3, <1>4, <1>5 DEF Shaped, r

LEMMA BeginsType ==
    ASSUME NEW why \in SUBSET Reasons
    PROVE  /\ Begins(why) \in SUBSET Reasons /\ why \subseteq Begins(why)
           /\ Both \in SUBSET Reasons /\ (playback => "both" \in Both)
           /\ Begins(why) = {} => why = {} /\ ~resetting
BY DEF Begins, Both, Reasons

LEMMA RecordStartSaveShape ==
    ASSUME TypeOK, Shape, RecordStartSave
    PROVE  TypeOK' /\ Shape'
<1> DEFINE m == Begun(machine.clk, machine.beam)
<1>1. /\ machine' = m /\ startFile' = m
      /\ list' = <<Event("INITIAL_SAVE", m.clk), Blank>> /\ current' = 2
      /\ record' = TRUE /\ nextStamp' = m.clk /\ alarm' = m.clk /\ milestoneStamp' = 0
      /\ upset' = Begins(Both)
      /\ endFile' = IF endFile = NoFile THEN NoFile
                    ELSE [endFile EXCEPT !.upset = @ \cup {"stale"}]
      /\ resetting' = resetting /\ playback' = playback
      /\ Spend("record")
  BY DEF RecordStartSave
<1>2. machine \in Machines /\ machine.clk \in Clock /\ machine.beam \in 0 .. FrameLen - 1
  BY MachineFields DEF TypeOK
<1>3. m \in Machines /\ m.clk = machine.clk /\ m.beam = machine.beam
  BY <1>2, BegunType
<1> HIDE DEF m
<1>4. Clocked(m) /\ m.clk <= Top /\ m.clk \in Clock
  <2>1. Clocked(m)
    BY <1>3 DEF Shape, Clocked
  <2> QED BY <1>2, <1>3, <2>1, ClockedTop
<1>5. /\ Shaped(list') /\ list' \in Seq(Events) /\ Len(list') = 2 /\ list' # <<>>
  BY <1>1, <1>4, TwoShaped DEF Starts
<1>6. upset' \in SUBSET Reasons /\ (playback => "both" \in upset')
  <2>1. Both \in SUBSET Reasons /\ (playback => "both" \in Both)
    BY DEF Both, Reasons
  <2> QED BY <1>1, <2>1, BeginsType
<1>7. left' \in [Kinds -> Nat]
  BY <1>1, SpendType DEF TypeOK, Kinds
<1>8. /\ endFile' \in EndFiles \cup {NoFile}
      /\ endFile' # NoFile => /\ endFile # NoFile /\ endFile'.list = endFile.list
                              /\ endFile'.machine = endFile.machine
  BY <1>1 DEF TypeOK, EndFiles, Reasons
<1>9. 0 \in Clock /\ current' \in DOMAIN list'
  <2>1. 0 \in Clock
    BY Numbers DEF Clock
  <2>2. DOMAIN list' = 1 .. 2
    BY <1>5
  <2> QED BY <1>1, <2>1, <2>2
<1>10. TypeOK'
  BY <1>1, <1>3, <1>4, <1>5, <1>6, <1>7, <1>8, <1>9 DEF TypeOK
<1>11. endFile' # NoFile => FileSane(endFile') /\ HasStart(endFile'.list, startFile')
  BY <1>1, <1>3, <1>8 DEF Shape, FileSane, HasStart
<1>12. HasStart(list', startFile')
  BY <1>1, <1>3 DEF HasStart
<1>13. Shape'
  BY <1>1, <1>4, <1>5, <1>6, <1>11, <1>12 DEF Shape, ListSane
<1> QED BY <1>10, <1>13

LEMMA RecordStartResetShape ==
    ASSUME TypeOK, Shape, RecordStartReset
    PROVE  TypeOK' /\ Shape'
<1>1. /\ machine' = IF playback THEN Begun(machine.clk, machine.beam) ELSE Begun(ResetClk, 0)
      /\ list' = <<Event("INITIAL_RESET", machine.clk), Blank>> /\ current' = 2
      /\ record' = TRUE /\ nextStamp' = 0 /\ alarm' = 0 /\ milestoneStamp' = 0
      /\ upset' = Both /\ resetting' = (resetting /\ playback)
      /\ startFile' = startFile /\ endFile' = endFile /\ playback' = playback
      /\ Spend("record")
  BY DEF RecordStartReset, files
<1>2. /\ machine \in Machines /\ Clocked(machine) /\ machine.clk \in Clock
      /\ machine.beam \in 0 .. FrameLen - 1 /\ machine.clk <= Top
  BY MachineFields, ClockedTop DEF TypeOK, Shape
<1>3. machine' \in Machines /\ Clocked(machine')
  <2>1. CASE playback
    BY <1>1, <1>2, <2>1, BegunType DEF Clocked
  <2>2. CASE ~playback
    BY <1>1, <2>2, BegunReset
  <2> QED BY <2>1, <2>2
<1>4. /\ Shaped(list') /\ list' \in Seq(Events) /\ Len(list') = 2 /\ list' # <<>>
      /\ list'[1].type = "INITIAL_RESET"
  BY <1>1, <1>2, TwoShaped, EventTypes DEF Starts
<1>5. upset' \in SUBSET Reasons /\ (playback => "both" \in upset')
  BY <1>1 DEF Both, Reasons
<1>6. left' \in [Kinds -> Nat]
  BY <1>1, SpendType DEF TypeOK, Kinds
<1>7. 0 \in Clock /\ current' \in DOMAIN list'
  <2>1. 0 \in Clock
    BY Numbers DEF Clock
  <2>2. DOMAIN list' = 1 .. 2
    BY <1>4
  <2> QED BY <1>1, <2>1, <2>2
<1>8. TypeOK'
  BY <1>1, <1>3, <1>4, <1>5, <1>6, <1>7 DEF TypeOK
<1>9. Shape'
  BY <1>1, <1>3, <1>4, <1>5 DEF Shape, ListSane, HasStart
<1> QED BY <1>8, <1>9

(* The end of a loaded list becomes the place for the next event.           *)
LEMMA WarpEndShaped ==
    ASSUME NEW events, Shaped(events)
    PROVE  LET r == WarpEnd(events)
           IN  /\ Shaped(r) /\ r \in Seq(Events) /\ Len(r) = Len(events) /\ r # <<>>
               /\ \A i \in 1 .. Len(events) - 1 : r[i] = events[i]
               /\ r[1] = events[1]
<1> DEFINE n == Len(events) - 1
           r == WarpEnd(events)
<1>1. events \in Seq(Events) /\ Len(events) \in Nat /\ n \in 1 .. Len(events) - 1 /\ n \in Nat
  BY LengthType DEF Shaped
<1>2. r = SubSeq(events, 1, n) \o <<Blank>>
  BY DEF WarpEnd, Front
<1>3. Blank \in Events /\ Blank.type = "LIST_END" /\ Blank.clk <= Top
  BY EventTypes, Numbers
<1>4. n \in 0 .. Len(events)
  BY <1>1
<1> HIDE DEF r
<1>5. /\ r \in Seq(Events) /\ Len(r) = n + 1 /\ r[n + 1] = Blank
      /\ \A i \in 1 .. n : r[i] = events[i]
  <2> HIDE DEF n
  <2> QED BY <1>1, <1>2, <1>3, <1>4, PrefixAndOne
<1>6. Shaped(r) /\ r[1] = events[1]
  <2> HIDE DEF n
  <2> QED BY <1>1, <1>3, <1>5, ShapedPrefix
<1>7. Len(r) = Len(events) /\ r # <<>>
  BY <1>1, <1>5
<1> QED BY <1>5, <1>6, <1>7 DEF r

(* A saved file that exists.                                                *)
LEMMA FileFacts ==
    ASSUME TypeOK, Shape, endFile # NoFile
    PROVE  /\ endFile.machine \in Machines /\ Clocked(endFile.machine)
           /\ endFile.machine.clk \in Clock
           /\ Shaped(endFile.list) /\ HasStart(endFile.list, startFile)
           /\ endFile.upset \in SUBSET Reasons /\ endFile.over \in BOOLEAN
           /\ ~record => endFile.over
<1>1. endFile \in EndFiles
  BY DEF TypeOK
<1>2. endFile.machine \in Machines /\ endFile.upset \in SUBSET Reasons /\ endFile.over \in BOOLEAN
  BY <1>1 DEF EndFiles
<1> QED BY <1>2, MachineFields DEF Shape, FileSane

(* The list with which a saved recording is continued.                      *)
LEMMA ContinuedList ==
    ASSUME TypeOK, Shape, endFile # NoFile
    PROVE  LET loaded == Load(endFile.list)
               r == WarpEnd(loaded.list)
           IN  /\ Shaped(r) /\ r \in Seq(Events) /\ r # <<>>
               /\ Len(r) = Len(loaded.list)
               /\ Len(r) \in 2 .. Len(r) /\ Len(r) \in DOMAIN r
               /\ HasStart(r, startFile) /\ loaded.stamp \in Clock
<1> DEFINE loaded == Load(endFile.list)
           r == WarpEnd(loaded.list)
<1>1. /\ Shaped(loaded.list) /\ loaded.stamp \in Clock
      /\ loaded.list[1] = endFile.list[1]
  BY FileFacts, LoadShaped
<1>2. HasStart(endFile.list, startFile)
  BY FileFacts
<1> HIDE DEF loaded
<1>3. /\ Shaped(r) /\ r \in Seq(Events) /\ Len(r) = Len(loaded.list) /\ r # <<>>
      /\ r[1] = loaded.list[1]
  BY <1>1, WarpEndShaped
<1> HIDE DEF r
<1>4. Len(r) \in 2 .. Len(r) /\ Len(r) \in DOMAIN r
  BY <1>3, LengthType DEF Shaped
<1>5. HasStart(r, startFile)
  BY <1>1, <1>2, <1>3 DEF HasStart
<1> QED BY <1>1, <1>3, <1>4, <1>5 DEF r, loaded

LEMMA RecordStartLoadShape ==
    ASSUME TypeOK, Shape, RecordStartLoad
    PROVE  TypeOK' /\ Shape'
<1>1. /\ endFile # NoFile /\ Spend("record")
      /\ list' = WarpEnd(Load(endFile.list).list) /\ current' = Len(Load(endFile.list).list)
      /\ machine' = endFile.machine /\ record' = TRUE
      /\ nextStamp' = endFile.machine.clk /\ alarm' = nextStamp' /\ milestoneStamp' = 0
      /\ upset' = Begins(endFile.upset \cup Both)
      /\ resetting' = resetting /\ playback' = playback
      /\ startFile' = startFile /\ endFile' = endFile
  BY DEF RecordStartLoad, files
<1>2. /\ Shaped(list') /\ list' \in Seq(Events) /\ list' # <<>> /\ current' = Len(list')
      /\ current' \in 2 .. Len(list') /\ current' \in DOMAIN list'
      /\ HasStart(list', startFile)
  BY <1>1, ContinuedList
<1>3. machine' \in Machines /\ Clocked(machine') /\ nextStamp' \in Clock
  BY <1>1, FileFacts
<1>4. upset' \in SUBSET Reasons /\ (playback => "both" \in upset')
  <2>1. Both \in SUBSET Reasons /\ (playback => "both" \in Both) /\ endFile.upset \in SUBSET Reasons
    BY <1>1, FileFacts DEF Both, Reasons
  <2>2. endFile.upset \cup Both \in SUBSET Reasons
    BY <2>1
  <2> QED BY <1>1, <2>1, <2>2, BeginsType
<1>5. left' \in [Kinds -> Nat] /\ 0 \in Clock
  BY <1>1, SpendType, Numbers DEF TypeOK, Kinds, Clock
<1>6. TypeOK'
  BY <1>1, <1>2, <1>3, <1>4, <1>5 DEF TypeOK
<1>7. Shape'
  BY <1>1, <1>2, <1>3, <1>4 DEF Shape, ListSane
<1> QED BY <1>6, <1>7

LEMMA RecordStartPlaybackShape ==
    ASSUME TypeOK, Shape, RecordStartPlayback
    PROVE  TypeOK' /\ Shape'
<1> DEFINE e == [list[current] EXCEPT !.type = "LIST_END"]
           n == current - 1
<1>1. /\ Spend("record") /\ ~record /\ playback
      /\ list' = SubSeq(list, 1, n) \o <<e>>
      /\ playback' = FALSE /\ record' = TRUE
      /\ nextStamp' = machine.clk /\ alarm' = nextStamp' /\ milestoneStamp' = 0
      /\ upset' = Begins(upset) \cup
                  (IF GuardDue \/ (Due /\ list[current].type = "OVERFLOW") THEN {"tie"} ELSE {})
      /\ machine' = machine /\ resetting' = resetting /\ current' = current
      /\ startFile' = startFile /\ endFile' = endFile
  BY DEF RecordStartPlayback, files
<1>2. list # <<>>
  BY <1>1 DEF Shape, ListSane
<1>3. /\ Shaped(list) /\ list \in Seq(Events) /\ Len(list) \in Nat
      /\ current \in 2 .. Len(list) /\ list[current] \in Events
  BY <1>2, ListFacts
<1>4. e \in Events /\ e.type = "LIST_END" /\ e.clk = list[current].clk
  BY <1>3 DEF Events
<1>5. e.clk <= Top /\ current \in 1 .. Len(list)
  BY <1>3, <1>4 DEF Shaped
<1> HIDE DEF e
<1>6. /\ n \in 1 .. Len(list) - 1 /\ n \in 0 .. Len(list) /\ n + 1 = current /\ n \in Nat
  BY <1>3
<1>7. /\ list' \in Seq(Events) /\ Len(list') = n + 1 /\ list'[n + 1] = e
      /\ \A i \in 1 .. n : list'[i] = list[i]
  <2> HIDE DEF n
  <2> QED BY <1>1, <1>3, <1>4, <1>6, PrefixAndOne
<1>8. Shaped(list') /\ list'[1] = list[1]
  <2> HIDE DEF n
  <2> QED BY <1>3, <1>4, <1>5, <1>6, <1>7, ShapedPrefix
<1>9. /\ list' # <<>> /\ current' = Len(list') /\ current' \in 2 .. Len(list')
      /\ current' \in DOMAIN list'
  BY <1>1, <1>3, <1>6, <1>7
<1>10. upset' \in SUBSET Reasons
  <2>1. Begins(upset) \in SUBSET Reasons
    BY BeginsType DEF TypeOK
  <2> QED BY <1>1, <2>1 DEF Reasons
<1>11. left' \in [Kinds -> Nat] /\ 0 \in Clock /\ nextStamp' \in Clock
  <2>1. machine.clk \in Clock
    BY MachineFields DEF TypeOK
  <2> QED BY <1>1, <2>1, SpendType, Numbers DEF TypeOK, Kinds, Clock
<1>12. TypeOK'
  BY <1>1, <1>7, <1>9, <1>10, <1>11 DEF TypeOK
<1>13. HasStart(list', startFile')
  BY <1>1, <1>2, <1>8 DEF Shape, HasStart
<1>14. Shape'
  BY <1>1, <1>8, <1>9, <1>13 DEF Shape, ListSane
<1> QED BY <1>12, <1>14

(* What is written to end.vsf.                                              *)
LEMMA SaveRight ==
    ASSUME TypeOK, Shape, NEW events, Shaped(events), HasStart(events, startFile),
           NEW over \in BOOLEAN, NEW why \in SUBSET Reasons
    PROVE  LET f == Save(events, over, why)
           IN  /\ f \in EndFiles /\ FileSane(f) /\ HasStart(f.list, startFile)
               /\ f.list = Kept(events) /\ f.machine = machine /\ f.over = over
               /\ f.upset = why
<1> DEFINE f == Save(events, over, why)
<1>1. /\ f.list = Kept(events) /\ f.machine = machine /\ f.over = over /\ f.upset = why
      /\ f = [list |-> Kept(events), machine |-> machine, over |-> over, upset |-> why]
  BY DEF Save
<1>2. /\ Shaped(f.list) /\ f.list[1] = events[1]
      /\ \A i \in 1 .. Len(f.list) : f.list[i].type # "TIMESTAMP"
  BY <1>1, KeptShaped
<1>3. machine \in Machines /\ Clocked(machine)
  BY DEF TypeOK, Shape
<1> HIDE DEF f
<1>4. f \in EndFiles
  <2>1. f.list \in Seq(Events)
    BY <1>2 DEF Shaped
  <2> QED BY <1>1, <1>3, <2>1 DEF EndFiles
<1>5. FileSane(f)
  BY <1>1, <1>2, <1>3 DEF FileSane
<1>6. HasStart(f.list, startFile)
  BY <1>2 DEF HasStart
<1> QED BY <1>1, <1>4, <1>5, <1>6 DEF f

LEMMA UpsetsType == Upsets \in SUBSET Reasons
BY DEF Upsets, Reasons

LEMMA RecordStopShape ==
    ASSUME TypeOK, Shape, RecordStop
    PROVE  TypeOK' /\ Shape'
<1>1. /\ Spend("stop") /\ record
      /\ list' = Recorded("LIST_END", machine.clk) /\ current' = current + 1
      /\ nextStamp' = nextStamp
      /\ endFile' = Save(list', TRUE, upset \cup Upsets)
      /\ record' = FALSE /\ alarm' = Unset
      /\ machine' = machine /\ resetting' = resetting /\ playback' = playback
      /\ milestoneStamp' = milestoneStamp /\ startFile' = startFile /\ upset' = upset
  BY DEF RecordStop, RecordInList
<1>2. machine.clk \in Clock /\ machine.clk <= Top
  BY MachineFields, ClockedTop DEF TypeOK, Shape
<1>3. /\ list # <<>> /\ Len(list) \in Nat /\ 2 <= Len(list) /\ current = Len(list)
      /\ Shaped(list') /\ list' \in Seq(Events) /\ Len(list') = Len(list) + 1
      /\ list' # <<>> /\ list'[1] = list[1]
  BY <1>1, <1>2, RecordedRight
<1>4. current' \in 2 .. Len(list') /\ current' \in DOMAIN list'
  BY <1>1, <1>3
<1>5. HasStart(list', startFile)
  BY <1>3 DEF Shape, HasStart
<1>6. upset \cup Upsets \in SUBSET Reasons
  BY UpsetsType DEF TypeOK
<1>7. /\ endFile' \in EndFiles /\ FileSane(endFile') /\ HasStart(endFile'.list, startFile)
      /\ endFile'.over = TRUE
  BY <1>1, <1>3, <1>5, <1>6, SaveRight
<1>8. left' \in [Kinds -> Nat]
  BY <1>1, SpendType DEF TypeOK, Kinds
<1>9. TypeOK'
  BY <1>1, <1>3, <1>4, <1>7, <1>8 DEF TypeOK
<1>10. Shape'
  BY <1>1, <1>3, <1>4, <1>5, <1>7 DEF Shape, ListSane
<1> QED BY <1>9, <1>10

LEMMA SetMilestoneShape ==
    ASSUME TypeOK, Shape, SetMilestone
    PROVE  TypeOK' /\ Shape'
<1>1. /\ Spend("milestone") /\ record
      /\ endFile' = Save(list, FALSE, Begins(upset))
      /\ milestoneStamp' = nextStamp
      /\ machine' = machine /\ resetting' = resetting /\ list' = list /\ current' = current
      /\ alarm' = alarm /\ record' = record /\ playback' = playback
      /\ nextStamp' = nextStamp /\ startFile' = startFile /\ upset' = upset
  BY DEF SetMilestone, modes
<1>2. list # <<>>
  BY <1>1 DEF Shape, ListSane
<1>3. Shaped(list) /\ HasStart(list, startFile)
  BY <1>2, ListFacts DEF Shape
<1>4. Begins(upset) \in SUBSET Reasons
  BY BeginsType DEF TypeOK
<1>5. endFile' \in EndFiles /\ FileSane(endFile') /\ HasStart(endFile'.list, startFile)
  BY <1>1, <1>3, <1>4, SaveRight
<1>6. left' \in [Kinds -> Nat]
  BY <1>1, SpendType DEF TypeOK, Kinds
<1>7. TypeOK'
  BY <1>1, <1>5, <1>6 DEF TypeOK
<1>8. Shape'
  BY <1>1, <1>5 DEF Shape, ListSane
<1> QED BY <1>7, <1>8

LEMMA ResetMilestoneShape ==
    ASSUME TypeOK, Shape, ResetMilestone
    PROVE  TypeOK' /\ Shape'
<1>1. /\ endFile # NoFile /\ Spend("milestone") /\ record /\ ~playback
      /\ list' = WarpEnd(Load(endFile.list).list) /\ current' = Len(Load(endFile.list).list)
      /\ nextStamp' = IF milestoneStamp > 0 THEN milestoneStamp ELSE Load(endFile.list).stamp
      /\ alarm' = IF milestoneStamp > 0 THEN milestoneStamp ELSE alarm
      /\ machine' = endFile.machine
      /\ upset' = Begins(endFile.upset)
      /\ resetting' = resetting /\ playback' = playback /\ record' = record
      /\ milestoneStamp' = milestoneStamp
      /\ startFile' = startFile /\ endFile' = endFile
  BY DEF ResetMilestone, files, modes
<1>2. /\ Shaped(list') /\ list' \in Seq(Events) /\ list' # <<>> /\ current' = Len(list')
      /\ current' \in 2 .. Len(list') /\ current' \in DOMAIN list'
      /\ HasStart(list', startFile) /\ Load(endFile.list).stamp \in Clock
  BY <1>1, ContinuedList
<1>3. machine' \in Machines /\ Clocked(machine')
  BY <1>1, FileFacts
<1>4. nextStamp' \in Clock /\ alarm' \in Clock \cup {Unset}
  BY <1>1, <1>2 DEF TypeOK
<1>5. upset' \in SUBSET Reasons
  BY <1>1, FileFacts, BeginsType
<1>6. left' \in [Kinds -> Nat]
  BY <1>1, SpendType DEF TypeOK, Kinds
<1>7. TypeOK'
  BY <1>1, <1>2, <1>3, <1>4, <1>5, <1>6 DEF TypeOK
<1>8. Shape'
  BY <1>1, <1>2, <1>3 DEF Shape, ListSane
<1> QED BY <1>7, <1>8

LEMMA ResetMilestoneFailsShape ==
    ASSUME TypeOK, Shape, ResetMilestoneFails
    PROVE  TypeOK' /\ Shape'
<1>1. /\ Spend("milestone") /\ endFile = NoFile /\ record' = FALSE
      /\ machine' = machine /\ resetting' = resetting /\ list' = list /\ current' = current
      /\ alarm' = alarm /\ playback' = playback
      /\ nextStamp' = nextStamp /\ milestoneStamp' = milestoneStamp
      /\ startFile' = startFile /\ endFile' = endFile /\ upset' = upset
  BY DEF ResetMilestoneFails, stamps, files
<1>2. left' \in [Kinds -> Nat]
  BY <1>1, SpendType DEF TypeOK, Kinds
<1>3. TypeOK'
  BY <1>1, <1>2 DEF TypeOK
<1>4. Shape'
  BY <1>1 DEF Shape, ListSane
<1> QED BY <1>3, <1>4

LEMMA PlaybackStartShape ==
    ASSUME TypeOK, Shape, PlaybackStart
    PROVE  TypeOK' /\ Shape'
<1> DEFINE loaded == Load(endFile.list)
           resets == loaded.list[1].type = "INITIAL_RESET"
<1>1. /\ Spend("play") /\ ~record /\ endFile # NoFile
      /\ list' = loaded.list /\ nextStamp' = loaded.stamp
      /\ machine' = IF resets THEN Begun(ResetClk, 0) ELSE startFile
      /\ current' = IF resets THEN AckCurrent(list', 2) ELSE 2
      /\ alarm' = IF resets THEN AckAlarm(list', 2, TRUE, FALSE, nextStamp', alarm)
                  ELSE NextAlarm(list'[2], machine'.clk)
      /\ playback' = TRUE /\ upset' = endFile.upset
      /\ resetting' = resetting /\ record' = record /\ milestoneStamp' = milestoneStamp
      /\ startFile' = startFile /\ endFile' = endFile
  BY DEF PlaybackStart, files
<1>2. /\ Shaped(list') /\ nextStamp' \in Clock /\ list'[1] = endFile.list[1]
  BY <1>1, FileFacts, LoadShaped
<1>3. /\ list' \in Seq(Events) /\ Len(list') \in Nat /\ 2 <= Len(list') /\ list' # <<>>
      /\ DOMAIN list' = 1 .. Len(list')
      /\ \A i \in 1 .. Len(list') : list'[i] \in Events
  <2>1. list' \in Seq(Events) /\ 2 <= Len(list')
    BY <1>2 DEF Shaped
  <2> QED BY <2>1, LengthType
<1>4. HasStart(list', startFile)
  BY <1>1, <1>2, FileFacts DEF HasStart
<1>5. machine' \in Machines /\ Clocked(machine')
  <2>1. CASE resets
    BY <1>1, <2>1, BegunReset
  <2>2. CASE ~resets
    <3>1. list'[1].type = "INITIAL_SAVE"
      BY <1>1, <1>2, <2>2 DEF Shaped, Starts
    <3>2. startFile \in Machines
      BY <1>4, <3>1 DEF HasStart
    <3> QED BY <1>1, <2>2, <3>2 DEF Shape
  <2> QED BY <2>1, <2>2
<1> HIDE DEF loaded, resets
<1>6. current' \in 2 .. Len(list') /\ current' \in DOMAIN list' /\ alarm' \in Clock
  <2>1. 2 \in 1 .. Len(list') /\ list'[2] \in Events
    BY <1>3
  <2>2. CASE list'[2].type = "RESETCPU" /\ resets
    <3>1. Len(list') # 2
      BY <1>2, <2>2 DEF Shaped
    <3>2. 3 \in 1 .. Len(list') /\ 3 \in 2 .. Len(list') /\ list'[3] \in Events
      BY <1>3, <3>1
    <3>3. current' = 3 /\ alarm' = NextAlarm(list'[3], ResetClk)
      BY <1>1, <1>3, <2>2 DEF AckCurrent, AckAlarm
    <3> QED BY <1>3, <3>2, <3>3, NextAlarmType, ResetClock
  <2>3. CASE list'[2].type # "RESETCPU" /\ resets
    <3>1. current' = 2 /\ alarm' = NextAlarm(list'[2], ResetClk)
      BY <1>1, <1>3, <2>3 DEF AckCurrent, AckAlarm
    <3> QED BY <1>3, <2>1, <3>1, NextAlarmType, ResetClock
  <2>4. CASE ~resets
    <3>1. current' = 2 /\ alarm' = NextAlarm(list'[2], machine'.clk)
      BY <1>1, <2>4
    <3>2. machine'.clk \in Clock
      BY <1>5, MachineFields
    <3> QED BY <1>3, <2>1, <3>1, <3>2, NextAlarmType
  <2> QED BY <2>2, <2>3, <2>4
<1>7. left' \in [Kinds -> Nat]
  BY <1>1, SpendType DEF TypeOK, Kinds
<1>8. upset' \in SUBSET Reasons
  BY <1>1, FileFacts
<1>9. TypeOK'
  BY <1>1, <1>2, <1>3, <1>5, <1>6, <1>7, <1>8 DEF TypeOK
<1>10. Shape'
  BY <1>1, <1>2, <1>3, <1>4, <1>5, <1>6 DEF Shape, ListSane
<1> QED BY <1>9, <1>10

LEMMA PlaybackStopShape ==
    ASSUME TypeOK, Shape, PlaybackStop
    PROVE  TypeOK' /\ Shape'
<1>1. /\ Spend("halt") /\ playback' = FALSE /\ alarm' = Unset
      /\ machine' = machine /\ resetting' = resetting /\ list' = list /\ current' = current
      /\ record' = record /\ nextStamp' = nextStamp /\ milestoneStamp' = milestoneStamp
      /\ startFile' = startFile /\ endFile' = endFile /\ upset' = upset
  BY DEF PlaybackStop, stamps, files
<1>2. left' \in [Kinds -> Nat]
  BY <1>1, SpendType DEF TypeOK, Kinds
<1>3. TypeOK'
  BY <1>1, <1>2 DEF TypeOK
<1>4. Shape'
  BY <1>1 DEF Shape, ListSane
<1> QED BY <1>3, <1>4

LEMMA NextShape ==
    ASSUME TypeOK, Shape, [Next]_vars
    PROVE  TypeOK' /\ Shape'
<1>1. CASE Next
  BY <1>1, TickShape, GuardShape, InputShape, TriggerResetShape, ServeResetShape,
     StampAlarmShape, PlayEventShape, PlayResetShape, PlayEndShape, RecordStartSaveShape,
     RecordStartResetShape, RecordStartLoadShape, RecordStartPlaybackShape, RecordStopShape,
     SetMilestoneShape, ResetMilestoneShape, ResetMilestoneFailsShape, PlaybackStartShape,
     PlaybackStopShape, Zenon DEF Next
<1>2. CASE UNCHANGED vars
  <2>1. /\ machine' = machine /\ resetting' = resetting /\ list' = list
        /\ current' = current /\ alarm' = alarm /\ record' = record
        /\ playback' = playback /\ nextStamp' = nextStamp
        /\ milestoneStamp' = milestoneStamp /\ startFile' = startFile
        /\ endFile' = endFile /\ upset' = upset /\ left' = left
    BY <1>2 DEF vars
  <2>2. TypeOK'
    BY <2>1 DEF TypeOK
  <2>3. Shape'
    BY <2>1 DEF Shape, ListSane
  <2> QED BY <2>2, <2>3
<1> QED BY <1>1, <1>2

-----------------------------------------------------------------------------
(* How a machine goes on by itself.                                         *)

(* A machine k cycles later.                                                *)
Ran(m, k) ==
    [clk |-> m.clk + k, beam |-> (m.beam + k) % FrameLen, time |-> m.time + k, deeds |-> m.deeds]

(* Machine a becomes b before the clock guard strikes.                      *)
RunsTo(a, b) == \E k \in Nat : b = Ran(a, k) /\ \A j \in 0 .. k - 1 : ~Strikes(Ran(a, j))

LEMMA RanAdds ==
    ASSUME NEW m \in Machines, NEW i \in Nat, NEW j \in Nat
    PROVE  Ran(Ran(m, i), j) = Ran(m, i + j) /\ Ran(m, 0) = m
<1>1. m.clk \in Nat /\ m.beam \in Nat /\ m.time \in Nat /\ FrameLen \in Nat \ {0}
      /\ m.beam \in 0 .. FrameLen - 1
  BY MachineFields, Numbers
<1>2. (((m.beam + i) % FrameLen) + j) % FrameLen = (m.beam + (i + j)) % FrameLen
  <2>1. PICK b \in Nat : b = m.beam + i
    BY <1>1
  <2>2. ((b % FrameLen) + j) % FrameLen = (b + j) % FrameLen
    BY <1>1, RemainderAdds
  <2>3. b + j = m.beam + (i + j)
    BY <1>1, <2>1
  <2> QED BY <2>1, <2>2, <2>3, Zenon
<1>3. (m.clk + i) + j = m.clk + (i + j) /\ (m.time + i) + j = m.time + (i + j)
  BY <1>1
<1>4. Ran(Ran(m, i), j) = Ran(m, i + j)
  BY <1>2, <1>3, Zenon DEF Ran
<1>5. m.beam % FrameLen = m.beam
  BY <1>1, SmallRemainder
<1>6. m.clk + 0 = m.clk /\ m.time + 0 = m.time /\ m.beam + 0 = m.beam
  BY <1>1
<1>7. Ran(m, 0) = m
  <2>1. m = [clk |-> m.clk, beam |-> m.beam, time |-> m.time, deeds |-> m.deeds]
    BY MachineFields
  <2>2. Ran(m, 0) = [clk |-> m.clk, beam |-> m.beam, time |-> m.time, deeds |-> m.deeds]
    BY <1>5, <1>6, Zenon DEF Ran
  <2> QED BY <2>1, <2>2, Zenon
<1> QED BY <1>4, <1>7

LEMMA RanFields ==
    ASSUME NEW m \in Machines, NEW k \in Nat
    PROVE  LET r == Ran(m, k)
           IN  /\ r.clk = m.clk + k /\ r.beam = (m.beam + k) % FrameLen
               /\ r.time = m.time + k /\ r.deeds = m.deeds
               /\ m.clk + k < Modulus => r \in Machines
<1>1. m.clk \in Nat /\ m.beam \in Nat /\ m.time \in Nat /\ m.deeds \in Deeds
  BY MachineFields
<1>2. m.clk + k \in Nat /\ m.time + k \in Nat /\ m.beam + k \in Nat
  BY <1>1
<1>3. (m.beam + k) % FrameLen \in 0 .. FrameLen - 1
  <2>1. PICK b \in Nat : b = m.beam + k
    BY <1>2
  <2>2. b % FrameLen \in 0 .. FrameLen - 1
    BY Numbers, Division
  <2> QED BY <2>1, <2>2
<1>4. m.clk + k < Modulus => m.clk + k \in Clock
  BY <1>2, Numbers DEF Clock
<1> QED BY <1>1, <1>2, <1>3, <1>4 DEF Ran, Machines

LEMMA RunsRefl ==
    ASSUME NEW m \in Machines
    PROVE  RunsTo(m, m)
<1>1. 0 \in Nat /\ Ran(m, 0) = m /\ \A j \in 0 .. 0 - 1 : ~Strikes(Ran(m, j))
  BY RanAdds
<1> QED BY <1>1 DEF RunsTo

LEMMA RunsTrans ==
    ASSUME NEW a \in Machines, NEW b \in Machines, NEW c, RunsTo(a, b), RunsTo(b, c)
    PROVE  RunsTo(a, c)
<1>1. PICK i \in Nat : b = Ran(a, i) /\ \A j \in 0 .. i - 1 : ~Strikes(Ran(a, j))
  BY DEF RunsTo
<1>2. PICK k \in Nat : c = Ran(b, k) /\ \A j \in 0 .. k - 1 : ~Strikes(Ran(b, j))
  BY DEF RunsTo
<1>3. c = Ran(a, i + k) /\ i + k \in Nat
  BY <1>1, <1>2, RanAdds
<1>4. ASSUME NEW j \in 0 .. (i + k) - 1  PROVE ~Strikes(Ran(a, j))
  <2>1. CASE j \in 0 .. i - 1
    BY <1>1, <2>1
  <2>2. CASE j \notin 0 .. i - 1
    <3>1. j - i \in 0 .. k - 1 /\ j - i \in Nat /\ i + (j - i) = j
      BY <2>2
    <3>2. Ran(b, j - i) = Ran(a, i + (j - i))
      BY <1>1, <3>1, RanAdds
    <3>3. Ran(b, j - i) = Ran(a, j)
      BY <3>1, <3>2
    <3> QED BY <1>2, <3>1, <3>3
  <2> QED BY <2>1, <2>2
<1> QED BY <1>3, <1>4 DEF RunsTo

LEMMA RunsFacts ==
    ASSUME NEW a \in Machines, NEW b \in Machines, RunsTo(a, b)
    PROVE  /\ a.clk <= b.clk /\ a.time <= b.time /\ b.deeds = a.deeds
           /\ b.clk = a.clk => b = a
           /\ Strikes(a) => b = a
           /\ b.time - a.time = b.clk - a.clk
<1>1. PICK k \in Nat : b = Ran(a, k) /\ \A j \in 0 .. k - 1 : ~Strikes(Ran(a, j))
  BY DEF RunsTo
<1>2. b.clk = a.clk + k /\ b.time = a.time + k /\ b.deeds = a.deeds
  BY <1>1, RanFields
<1>3. a.clk \in Nat /\ a.time \in Nat
  BY MachineFields
<1>4. Ran(a, 0) = a
  BY RanAdds
<1>5. b # a => k # 0
  BY <1>1, <1>4
<1>6. Strikes(a) => b = a
  <2>1. k # 0 => 0 \in 0 .. k - 1
    OBVIOUS
  <2> QED BY <1>1, <1>4, <1>5, <2>1
<1> QED BY <1>2, <1>3, <1>5, <1>6

(* Between two machines lies every clock that lies between their clocks.    *)
LEMMA RunsBetween ==
    ASSUME NEW a \in Machines, NEW b \in Machines, RunsTo(a, b),
           NEW t \in Nat, a.clk <= t, t < b.clk
    PROVE  LET m == Ran(a, t - a.clk)
           IN  /\ m \in Machines /\ m.clk = t /\ m.deeds = a.deeds
               /\ RunsTo(a, m) /\ RunsTo(m, b) /\ ~Strikes(m)
<1>1. PICK k \in Nat : b = Ran(a, k) /\ \A j \in 0 .. k - 1 : ~Strikes(Ran(a, j))
  BY DEF RunsTo
<1>2. a.clk \in Nat /\ b.clk \in Nat /\ b.clk < Modulus /\ Modulus \in Nat
  BY MachineFields, Numbers
<1>3. b.clk = a.clk + k
  BY <1>1, RanFields
<1>4. PICK i \in Nat : i = t - a.clk
  BY <1>2
<1>5. i < k /\ i \in 0 .. k - 1 /\ a.clk + i = t
  BY <1>2, <1>3, <1>4
<1> DEFINE m == Ran(a, i)
<1>6. m \in Machines /\ m.clk = t /\ m.deeds = a.deeds
  BY <1>2, <1>5, RanFields
<1>7. ~Strikes(m)
  BY <1>1, <1>5
<1>8. RunsTo(a, m)
  <2>1. \A j \in 0 .. i - 1 : ~Strikes(Ran(a, j))
    BY <1>1, <1>5
  <2> QED BY <2>1 DEF RunsTo
<1>9. RunsTo(m, b)
  <2>1. k - i \in Nat /\ i + (k - i) = k
    BY <1>5
  <2>2. Ran(m, k - i) = Ran(a, i + (k - i))
    BY <2>1, RanAdds
  <2>3. b = Ran(m, k - i)
    BY <1>1, <2>1, <2>2
  <2>4. ASSUME NEW j \in 0 .. (k - i) - 1  PROVE ~Strikes(Ran(m, j))
    <3>1. i + j \in 0 .. k - 1 /\ j \in Nat
      BY <1>5
    <3>2. Ran(m, j) = Ran(a, i + j)
      BY <3>1, RanAdds
    <3> QED BY <1>1, <3>1, <3>2
  <2> HIDE DEF m
  <2> QED BY <2>1, <2>3, <2>4 DEF RunsTo
<1> QED BY <1>4, <1>6, <1>7, <1>8, <1>9

(* One cycle.                                                               *)
LEMMA RunsStep ==
    ASSUME NEW a \in Machines, ~Strikes(a), Clocked(a)
    PROVE  LET m == Ran(a, 1)
           IN  /\ m \in Machines /\ RunsTo(a, m)
               /\ \A b \in Machines : RunsTo(a, b) /\ a.clk < b.clk => RunsTo(m, b)
<1> DEFINE m == Ran(a, 1)
<1>1. a.clk \in Nat /\ a.clk + 1 < Modulus
  BY Cycle, MachineFields, Numbers DEF Clock
<1>2. m \in Machines
  BY <1>1, RanFields
<1>3. RunsTo(a, m)
  <2>1. ASSUME NEW j \in 0 .. 1 - 1  PROVE ~Strikes(Ran(a, j))
    BY RanAdds
  <2> HIDE DEF m
  <2> QED BY <2>1 DEF RunsTo, m
<1>4. ASSUME NEW b \in Machines, RunsTo(a, b), a.clk < b.clk  PROVE RunsTo(m, b)
  <2>1. PICK k \in Nat : b = Ran(a, k) /\ \A j \in 0 .. k - 1 : ~Strikes(Ran(a, j))
    BY <1>4 DEF RunsTo
  <2>2. k - 1 \in Nat /\ 1 + (k - 1) = k
    <3>1. b.clk = a.clk + k
      BY <2>1, RanFields
    <3> QED BY <1>1, <1>4, <3>1
  <2>3. Ran(m, k - 1) = Ran(a, 1 + (k - 1))
    BY <2>2, RanAdds
  <2>4. ASSUME NEW j \in 0 .. (k - 1) - 1  PROVE ~Strikes(Ran(m, j))
    <3>1. 1 + j \in 0 .. k - 1 /\ j \in Nat
      BY <2>2
    <3>2. Ran(m, j) = Ran(a, 1 + j)
      BY <3>1, RanAdds
    <3> QED BY <2>1, <3>1, <3>2
  <2>5. b = Ran(m, k - 1)
    BY <2>1, <2>2, <2>3
  <2> HIDE DEF m
  <2> QED BY <2>2, <2>4, <2>5 DEF RunsTo
<1> QED BY <1>2, <1>3, <1>4

-----------------------------------------------------------------------------
(* What is done to a machine, and how an event leads from one machine to    *)
(* the next.                                                                *)

(* Machine b may be what has become of machine a.                           *)
After(a, b) ==
    /\ a.time <= b.time /\ Len(a.deeds) <= Len(b.deeds)
    /\ \A i \in 1 .. Len(a.deeds) : b.deeds[i] = a.deeds[i]
    /\ \A i \in 1 .. Len(b.deeds) : i <= Len(a.deeds) \/ a.time <= b.deeds[i].time

(* Event e happens to machine x and leaves n.                               *)
Takes(x, e, n) ==
    \/ e.type = "key" /\ x.clk = e.clk /\ ~Strikes(x) /\ n = Done(x, "key")
    \/ e.type = "RESETCPU" /\ x.clk = e.clk /\ ~Strikes(x) /\ n = Served(x)
    \/ e.type = "OVERFLOW" /\ Strikes(x) /\ x.clk <= Top /\ e.clk = x.clk - Sub /\ n = Guarded(x)
    \/ e.type = "TIMESTAMP" /\ ~Strikes(x) /\ n = x
    \/ e.type = "LIST_END" /\ x.clk = e.clk /\ ~Strikes(x) /\ n = x

(* From machine m on, event e is the next to happen, and leaves n.          *)
Leads(m, e, n) == \E x \in Machines : RunsTo(m, x) /\ Takes(x, e, n)

LEMMA DeedsLength ==
    ASSUME NEW m \in Machines
    PROVE  /\ Len(m.deeds) \in Nat /\ m.time \in Nat
           /\ \A i \in 1 .. Len(m.deeds) : m.deeds[i].time \in Nat
<1>1. m.deeds \in Seq([what : {"key", "reset"}, time : Nat])
  BY MachineFields DEF Deeds
<1>2. ASSUME NEW i \in 1 .. Len(m.deeds)  PROVE m.deeds[i].time \in Nat
  <2>1. \A D : \A s \in Seq(D) : \A j \in 1 .. Len(s) : s[j] \in D
    OBVIOUS
  <2>2. m.deeds[i] \in [what : {"key", "reset"}, time : Nat]
    BY <1>1, <2>1, Zenon
  <2> QED BY <2>2
<1> QED BY <1>1, <1>2, MachineFields

LEMMA AfterRefl ==
    ASSUME NEW a \in Machines, NEW b, b.deeds = a.deeds, b.time \in Nat, a.time <= b.time
    PROVE  After(a, b)
BY DeedsLength DEF After

LEMMA AfterTrans ==
    ASSUME NEW a \in Machines, NEW b \in Machines, NEW c \in Machines,
           After(a, b), After(b, c)
    PROVE  After(a, c)
<1>1. /\ Len(a.deeds) \in Nat /\ Len(b.deeds) \in Nat /\ Len(c.deeds) \in Nat
      /\ a.time \in Nat /\ b.time \in Nat /\ c.time \in Nat
      /\ \A i \in 1 .. Len(c.deeds) : c.deeds[i].time \in Nat
  BY DeedsLength
<1>2. a.time <= c.time /\ Len(a.deeds) <= Len(c.deeds)
  BY <1>1 DEF After
<1>3. ASSUME NEW i \in 1 .. Len(a.deeds)  PROVE c.deeds[i] = a.deeds[i]
  <2>1. i \in 1 .. Len(b.deeds)
    BY <1>1 DEF After
  <2> QED BY <2>1 DEF After
<1>4. ASSUME NEW i \in 1 .. Len(c.deeds), ~(i <= Len(a.deeds))
      PROVE  a.time <= c.deeds[i].time
  <2>1. CASE i <= Len(b.deeds)
    <3>1. i \in 1 .. Len(b.deeds)
      BY <1>1, <2>1
    <3>2. c.deeds[i] = b.deeds[i] /\ a.time <= b.deeds[i].time
      BY <1>4, <3>1 DEF After
    <3> QED BY <3>2
  <2>2. CASE ~(i <= Len(b.deeds))
    <3>1. b.time <= c.deeds[i].time /\ a.time <= b.time
      BY <2>2 DEF After
    <3>2. c.deeds[i].time \in Nat
      BY <1>1
    <3> QED BY <1>1, <3>1, <3>2
  <2> QED BY <2>1, <2>2
<1> QED BY <1>2, <1>3, <1>4 DEF After

LEMMA AfterRuns ==
    ASSUME NEW a \in Machines, NEW b \in Machines, RunsTo(a, b)
    PROVE  After(a, b)
<1>1. b.deeds = a.deeds /\ a.time <= b.time /\ b.time \in Nat
  BY RunsFacts, MachineFields
<1> QED BY <1>1, AfterRefl

LEMMA AfterDone ==
    ASSUME NEW m \in Machines, NEW b \in Machines, NEW what \in {"key", "reset"},
           b.time = m.time, b.deeds = Append(m.deeds, [what |-> what, time |-> m.time])
    PROVE  After(m, b)
<1> DEFINE d == [what |-> what, time |-> m.time]
           len == Len(m.deeds)
<1>1. m.deeds \in Seq([what : {"key", "reset"}, time : Nat]) /\ m.time \in Nat /\ len \in Nat
  BY MachineFields, DeedsLength DEF Deeds
<1>2. d \in [what : {"key", "reset"}, time : Nat] /\ d.time = m.time
  BY <1>1
<1>3. /\ Len(b.deeds) = len + 1 /\ b.deeds[len + 1] = d
      /\ \A i \in 1 .. len : b.deeds[i] = m.deeds[i]
  <2> HIDE DEF d
  <2>1. b.deeds = Append(m.deeds, d)
    BY DEF d
  <2> QED BY <1>1, <1>2, <2>1
<1>4. ASSUME NEW i \in 1 .. Len(b.deeds), ~(i <= len)  PROVE m.time <= b.deeds[i].time
  <2>1. i = len + 1
    BY <1>1, <1>3, <1>4
  <2>2. b.deeds[i].time = m.time
    BY <1>2, <1>3, <2>1
  <2> QED BY <1>1, <2>2
<1> HIDE DEF d
<1> QED BY <1>1, <1>3, <1>4 DEF After

LEMMA TakesRight ==
    ASSUME NEW x \in Machines, NEW e, NEW n, Takes(x, e, n)
    PROVE  n \in Machines /\ After(x, n)
<1>1. CASE n = Done(x, "key")
  BY <1>1, DoneType, AfterDone
<1>2. CASE n = Served(x)
  BY <1>2, ServedType, AfterDone
<1>3. CASE n = Guarded(x) /\ Strikes(x) /\ x.clk <= Top
  <2>1. n \in Machines /\ n.time = x.time /\ n.deeds = x.deeds
    BY <1>3, GuardedType DEF Strikes
  <2>2. x.time \in Nat /\ x.time <= n.time
    BY <2>1, MachineFields
  <2> QED BY <2>1, <2>2, AfterRefl
<1>4. CASE n = x
  BY <1>4, RunsRefl, AfterRuns
<1> QED BY <1>1, <1>2, <1>3, <1>4 DEF Takes

LEMMA LeadsRight ==
    ASSUME NEW m \in Machines, NEW e, NEW n, Leads(m, e, n)
    PROVE  n \in Machines /\ After(m, n)
<1>1. PICK x \in Machines : RunsTo(m, x) /\ Takes(x, e, n)
  BY DEF Leads
<1> QED BY <1>1, TakesRight, AfterRuns, AfterTrans

(* What has been done to a machine on the way to the recorded end is a part *)
(* of what was recorded.                                                    *)
LEMMA AfterInStep ==
    ASSUME machine \in Machines, endFile.machine \in Machines,
           After(machine, endFile.machine)
    PROVE  InStep
<1> DEFINE a == machine.deeds
           b == endFile.machine.deeds
           Deed == [what : {"key", "reset"}, time : Nat]
<1>1. a \in Seq(Deed) /\ b \in Seq(Deed)
  BY MachineFields DEF Deeds
<1>2. Len(a) \in Nat /\ Len(b) \in Nat /\ Len(a) <= Len(b) /\ \A i \in 1 .. Len(a) : b[i] = a[i]
  BY DeedsLength DEF After
<1>3. SubSeq(a, 1, Len(a)) = SubSeq(b, 1, Len(a))
  <2> HIDE DEF a, b
  <2>1. /\ SubSeq(a, 1, Len(a)) = [i \in 1 .. Len(a) |-> a[i]]
        /\ SubSeq(b, 1, Len(a)) = [i \in 1 .. Len(a) |-> b[i]]
    BY <1>1, <1>2
  <2> QED BY <1>2, <2>1
<1>4. IsPrefix(a, b)
  BY <1>2, <1>3 DEF IsPrefix
<1>5. ASSUME NEW i \in DOMAIN b, b[i].time < machine.time  PROVE i <= Len(a)
  <2>1. i \in 1 .. Len(b)
    BY <1>1
  <2>2. b[i].time \in Nat /\ machine.time \in Nat
    BY <2>1, DeedsLength
  <2>3. i <= Len(a) \/ machine.time <= b[i].time
    BY <2>1 DEF After
  <2> QED BY <1>5, <2>2, <2>3
<1> QED BY <1>4, <1>5 DEF InStep

-----------------------------------------------------------------------------
(* The trail of a recording: P[i] is what the machine was after event i.    *)

First(e, start, m) ==
    \/ e.type = "INITIAL_RESET" /\ m = Begun(ResetClk, 0)
    \/ e.type = "INITIAL_SAVE" /\ start \in Machines /\ m = start /\ e.clk = start.clk

Trail(P, events, n, start) ==
    /\ \A i \in 1 .. n : P[i] \in Machines
    /\ First(events[1], start, P[1])
    /\ \A i \in 2 .. n : Leads(P[i - 1], events[i], P[i])

LEMMA TrailAgrees ==
    ASSUME NEW P, NEW events, NEW others, NEW n \in Nat, NEW k \in 1 .. n, NEW start,
           Trail(P, events, n, start), \A i \in 1 .. k : others[i] = events[i]
    PROVE  Trail(P, others, k, start)
<1>1. others[1] = events[1]
  OBVIOUS
<1>2. \A i \in 1 .. k : P[i] \in Machines
  BY DEF Trail
<1>3. ASSUME NEW i \in 2 .. k  PROVE Leads(P[i - 1], others[i], P[i])
  <2>1. i \in 2 .. n /\ others[i] = events[i]
    OBVIOUS
  <2> QED BY <2>1 DEF Trail
<1> QED BY <1>1, <1>2, <1>3 DEF Trail

(* Trail Q is trail P with m behind it, along other events.                 *)
Grown(Q, P, others, n, start, m) ==
    /\ Trail(Q, others, n + 1, start)
    /\ Q[n + 1] = m /\ \A i \in 1 .. n : Q[i] = P[i]

LEMMA TrailGrows ==
    ASSUME NEW P, NEW events, NEW others, NEW n \in Nat \ {0}, NEW start, NEW m,
           Trail(P, events, n, start), \A i \in 1 .. n : others[i] = events[i],
           Leads(P[n], others[n + 1], m)
    PROVE  \E Q : Grown(Q, P, others, n, start, m)
<1> DEFINE Q == [i \in 1 .. n + 1 |-> IF i <= n THEN P[i] ELSE m]
<1>1. Q[n + 1] = m /\ \A i \in 1 .. n : Q[i] = P[i]
  OBVIOUS
<1>2. \A i \in 1 .. n : P[i] \in Machines
  BY DEF Trail
<1>3. m \in Machines
  BY <1>2, LeadsRight
<1> HIDE DEF Q
<1>4. ASSUME NEW i \in 1 .. n + 1  PROVE Q[i] \in Machines
  <2>1. i \in 1 .. n \/ i = n + 1
    OBVIOUS
  <2> QED BY <1>1, <1>2, <1>3, <2>1
<1>5. First(others[1], start, Q[1])
  BY <1>1 DEF Trail
<1>6. ASSUME NEW i \in 2 .. n + 1  PROVE Leads(Q[i - 1], others[i], Q[i])
  <2>1. CASE i \in 2 .. n
    <3>1. i \in 1 .. n /\ i - 1 \in 1 .. n
      BY <2>1
    <3>2. Q[i - 1] = P[i - 1] /\ Q[i] = P[i] /\ others[i] = events[i]
      BY <1>1, <3>1
    <3>3. Leads(P[i - 1], events[i], P[i])
      BY <2>1 DEF Trail
    <3> QED BY <3>2, <3>3
  <2>2. CASE i \notin 2 .. n
    <3>1. i = n + 1 /\ i - 1 = n /\ n \in 1 .. n
      BY <2>2
    <3>2. Q[i - 1] = P[n] /\ Q[i] = m
      BY <1>1, <3>1
    <3> QED BY <3>1, <3>2
  <2> QED BY <2>1, <2>2
<1>7. Trail(Q, others, n + 1, start)
  BY <1>4, <1>5, <1>6 DEF Trail
<1> QED BY <1>1, <1>7 DEF Grown

LEMMA TrailAfter ==
    ASSUME NEW P, NEW events, NEW n \in Nat, NEW start, Trail(P, events, n, start),
           NEW i \in 1 .. n
    PROVE  After(P[i], P[n])
<1>1. \A j \in 1 .. n : P[j] \in Machines
  BY DEF Trail
<1> DEFINE G == {k \in 0 .. n - i : After(P[i], P[i + k])}
<1>2. 0 \in G
  <2>1. i + 0 = i /\ 0 \in 0 .. n - i /\ P[i] \in Machines
    BY <1>1
  <2>2. After(P[i], P[i])
    BY <2>1, RunsRefl, AfterRuns
  <2> QED BY <2>1, <2>2
<1>3. ASSUME NEW k \in 0 .. (n - i) - 1, k \in G  PROVE k + 1 \in G
  <2>1. PICK j \in 1 .. n - 1 : j = i + k
    OBVIOUS
  <2>2. j + 1 = i + (k + 1) /\ j + 1 \in 2 .. n /\ (j + 1) - 1 = j /\ k + 1 \in 0 .. n - i
    BY <2>1
  <2>3. Leads(P[j], events[j + 1], P[j + 1])
    BY <2>2 DEF Trail
  <2>4. P[i] \in Machines /\ P[j] \in Machines /\ P[j + 1] \in Machines
    BY <1>1, <2>2
  <2>5. After(P[i], P[j]) /\ After(P[j], P[j + 1])
    BY <1>3, <2>1, <2>3, <2>4, LeadsRight
  <2>6. After(P[i], P[j + 1])
    BY <2>4, <2>5, AfterTrans
  <2> QED BY <2>2, <2>6
<1>4. n - i \in Nat /\ n - i \in 0 .. n - i /\ i + (n - i) = n
  OBVIOUS
<1> HIDE DEF G
<1>5. n - i \in G
  BY <1>2, <1>3, <1>4, Induction
<1> QED BY <1>4, <1>5 DEF G

-----------------------------------------------------------------------------
(* What is saved leaves the timestamps out.                                 *)

(* Trail Q of the saved list s leads as far as the machine p after event e. *)
KeptTrail(Q, s, start, p, e) ==
    /\ Trail(Q, s, Len(s), start)
    /\ RunsTo(Q[Len(s)], p)
    /\ e.type # "TIMESTAMP" => Q[Len(s)] = p

LEMMA KeptTrails ==
    ASSUME NEW events, Shaped(events), NEW kept, KeepingOf(kept, events),
           NEW n \in 1 .. Len(events), NEW start, NEW P, Trail(P, events, n, start)
    PROVE  \A i \in 1 .. n : \E Q : KeptTrail(Q, kept[i], start, P[i], events[i])
<1>1. \A j \in 1 .. n : P[j] \in Machines
  BY DEF Trail
<1>2. Len(events) \in Nat /\ n \in Nat /\ events \in Seq(Events)
  BY LengthType DEF Shaped
<1> DEFINE G == {k \in 0 .. n - 1 : \E Q : KeptTrail(Q, kept[k + 1], start, P[k + 1], events[k + 1])}
<1>3. 0 \in G
  <2>1. kept[1] = <<events[1]>> /\ Len(kept[1]) = 1 /\ kept[1][1] = events[1]
    BY DEF KeepingOf
  <2>2. First(events[1], start, P[1]) /\ P[1] \in Machines
    BY <1>1, <1>2 DEF Trail
  <2>3. Trail(P, kept[1], 1, start)
    BY <2>1, <2>2 DEF Trail
  <2>4. KeptTrail(P, kept[1], start, P[1], events[1])
    BY <2>1, <2>2, <2>3, RunsRefl DEF KeptTrail
  <2>5. 0 \in 0 .. n - 1 /\ 0 + 1 = 1
    BY <1>2
  <2> QED BY <2>4, <2>5
<1>4. ASSUME NEW k \in 0 .. (n - 1) - 1, k \in G  PROVE k + 1 \in G
  <2>1. PICK i \in 2 .. n : i = k + 2
    BY <1>2
  <2>2. k + 1 = i - 1 /\ (k + 1) + 1 = i /\ k + 1 \in 0 .. n - 1 /\ i - 1 \in 1 .. Len(events)
        /\ i \in 2 .. Len(events) /\ i \in 1 .. Len(events)
    BY <1>2, <2>1
  <2>3. PICK Q : KeptTrail(Q, kept[i - 1], start, P[i - 1], events[i - 1])
    BY <1>4, <2>2
  <2>4. PICK x \in Machines : RunsTo(P[i - 1], x) /\ Takes(x, events[i], P[i])
    BY <2>2 DEF Trail, Leads
  <2>5. KeptOf(kept[i - 1], events, i - 1)
    BY <2>2 DEF KeepingOf
  <2>6. PICK len \in Nat \ {0} : len = Len(kept[i - 1])
    BY <2>5 DEF KeptOf
  <2>7. Q[len] \in Machines /\ RunsTo(Q[len], P[i - 1]) /\ Trail(Q, kept[i - 1], len, start)
        /\ P[i - 1] \in Machines
    BY <1>1, <2>1, <2>3, <2>6 DEF KeptTrail, Trail
  <2>8. RunsTo(Q[len], x)
    BY <2>4, <2>7, RunsTrans
  <2>9. CASE events[i].type = "TIMESTAMP"
    <3>1. kept[i] = kept[i - 1]
      BY <2>2, <2>9 DEF KeepingOf
    <3>2. P[i] = x
      BY <2>4, <2>9 DEF Takes
    <3>3. KeptTrail(Q, kept[i], start, P[i], events[i])
      BY <2>6, <2>7, <2>8, <2>9, <3>1, <3>2 DEF KeptTrail
    <3> QED BY <2>2, <3>3
  <2>10. CASE events[i].type # "TIMESTAMP"
    <3>1. kept[i] = Append(kept[i - 1], events[i])
      BY <2>2, <2>10 DEF KeepingOf
    <3>2. kept[i - 1] \in Seq(Events) /\ events[i] \in Events
      BY <1>2, <2>2, <2>5 DEF KeptOf
    <3>3. /\ Len(kept[i]) = len + 1 /\ kept[i][len + 1] = events[i]
          /\ \A j \in 1 .. len : kept[i][j] = kept[i - 1][j]
      BY <2>6, <3>1, <3>2, AppendOne
    <3>4. Leads(Q[len], kept[i][len + 1], P[i])
      BY <2>4, <2>8, <3>3 DEF Leads
    <3>5. PICK R : Trail(R, kept[i], len + 1, start) /\ R[len + 1] = P[i]
      <4>1. len \in Nat \ {0} /\ Trail(Q, kept[i - 1], len, start)
            /\ \A j \in 1 .. len : kept[i][j] = kept[i - 1][j]
        BY <2>7, <3>3
      <4>2. \E R : Grown(R, Q, kept[i], len, start, P[i])
        BY <3>4, <4>1, TrailGrows
      <4> QED BY <4>2 DEF Grown
    <3>6. P[i] \in Machines
      BY <1>1
    <3>7. KeptTrail(R, kept[i], start, P[i], events[i])
      BY <3>3, <3>5, <3>6, RunsRefl DEF KeptTrail
    <3> QED BY <2>2, <3>7
  <2> QED BY <2>9, <2>10
<1> HIDE DEF G
<1>5. \A k \in 0 .. n - 1 : k \in G
  <2>1. n - 1 \in Nat
    BY <1>2
  <2> QED BY <2>1, <1>3, <1>4, Induction
<1>6. ASSUME NEW i \in 1 .. n
      PROVE  \E Q : KeptTrail(Q, kept[i], start, P[i], events[i])
  <2>1. i - 1 \in 0 .. n - 1 /\ (i - 1) + 1 = i
    BY <1>2
  <2> QED BY <1>5, <2>1 DEF G
<1> QED BY <1>6

(* The end of what is saved is the first end of the list.                   *)
LEMMA KeptEnd ==
    ASSUME NEW events, Shaped(events), NEW kept, KeepingOf(kept, events),
           NEW m \in 2 .. Len(events), m >= Len(events) - 1,
           events[m].type = "LIST_END", NoEnd(events, m - 1)
    PROVE  LET s == Kept(events)
               e == EndOf(s)
           IN  /\ e \in Nat /\ e = Len(kept[m - 1]) + 1 /\ e = Len(kept[m])
               /\ s[e] = events[m]
               /\ \A i \in 1 .. e - 1 : s[i] = kept[m - 1][i]
               /\ \A i \in 1 .. e : s[i] = kept[m][i]
<1>1. /\ events \in Seq(Events) /\ Len(events) \in Nat /\ m - 1 \in 1 .. Len(events)
      /\ events[m] \in Events /\ m \in 1 .. Len(events)
  BY LengthType DEF Shaped
<1>2. KeptOf(kept[m - 1], events, m - 1)
  BY <1>1 DEF KeepingOf
<1>3. PICK len \in Nat \ {0} : len = Len(kept[m - 1])
  BY <1>2 DEF KeptOf
<1>4. kept[m - 1] \in Seq(Events) /\ NoEnd(kept[m - 1], len)
  BY <1>2, <1>3 DEF KeptOf
<1>5. kept[m] = Append(kept[m - 1], events[m])
  BY DEF KeepingOf
<1>6. /\ kept[m] \in Seq(Events) /\ Len(kept[m]) = len + 1 /\ kept[m][len + 1] = events[m]
      /\ \A i \in 1 .. len : kept[m][i] = kept[m - 1][i]
  BY <1>1, <1>3, <1>4, <1>5, AppendOne
<1>7. PICK s : s = Kept(events)
  OBVIOUS
<1>8. /\ s \in Seq(Events) /\ len + 1 \in 1 .. Len(s)
      /\ \A i \in 1 .. len + 1 : s[i] = kept[m][i]
  <2>1. CASE m = Len(events)
    <3>1. s = kept[m]
      BY <1>7, <2>1 DEF KeepingOf
    <3> QED BY <1>6, <3>1
  <2>2. CASE m # Len(events)
    <3>1. m + 1 = Len(events) /\ Len(events) - 1 = m /\ Len(events) \in 2 .. Len(events)
      BY <1>1, <2>2
    <3>2. events[Len(events)].type = "LIST_END" /\ events[Len(events)] \in Events
      BY <1>1 DEF Shaped
    <3>3. kept[Len(events)] = Append(kept[m], events[Len(events)])
      <4>1. events[Len(events)].type # "TIMESTAMP"
        BY <3>2
      <4> QED BY <3>1, <4>1 DEF KeepingOf
    <3>4. s = Append(kept[m], events[Len(events)])
      BY <1>7, <3>3 DEF KeepingOf
    <3>5. /\ s \in Seq(Events) /\ Len(s) = Len(kept[m]) + 1
          /\ \A i \in 1 .. Len(kept[m]) : s[i] = kept[m][i]
      BY <1>6, <3>2, <3>4, AppendOne
    <3> QED BY <1>6, <3>5
  <2> QED BY <2>1, <2>2
<1>9. s[len + 1] = events[m] /\ \A i \in 1 .. len : s[i] = kept[m - 1][i]
  BY <1>6, <1>8
<1>10. NoEnd(s, (len + 1) - 1)
  BY <1>4, <1>9 DEF NoEnd
<1>11. EndOf(s) = len + 1
  BY <1>8, <1>9, <1>10, EndOfIs
<1> QED BY <1>3, <1>6, <1>7, <1>8, <1>9, <1>11

(* The trail of what is saved when the recording has ended...               *)
LEMMA SavedTrail ==
    ASSUME NEW events, Shaped(events), NEW m \in 2 .. Len(events), m >= Len(events) - 1,
           events[m].type = "LIST_END", NoEnd(events, m - 1),
           NEW start, NEW P, Trail(P, events, m, start)
    PROVE  LET s == Kept(events)
               e == EndOf(s)
           IN  \E Q : Trail(Q, s, e, start) /\ Q[e] = P[m]
<1>1. PICK kept : KeepingOf(kept, events)
  BY ShapedKeeping
<1>2. PICK s : s = Kept(events)
  OBVIOUS
<1>3. PICK e \in Nat : e = EndOf(s)
  BY <1>1, <1>2, KeptEnd
<1>4. e = Len(kept[m]) /\ \A i \in 1 .. e : s[i] = kept[m][i]
  BY <1>1, <1>2, <1>3, KeptEnd
<1>5. m \in 1 .. m /\ m \in 1 .. Len(events)
  OBVIOUS
<1>6. PICK Q : KeptTrail(Q, kept[m], start, P[m], events[m])
  BY <1>1, <1>5, KeptTrails
<1>7. Trail(Q, kept[m], e, start) /\ Q[e] = P[m]
  BY <1>4, <1>6 DEF KeptTrail
<1>8. e \in 1 .. e
  <2>1. e = Len(kept[m - 1]) + 1 /\ m - 1 \in 1 .. Len(events)
    BY <1>1, <1>2, <1>3, KeptEnd
  <2>2. KeptOf(kept[m - 1], events, m - 1)
    BY <1>1, <2>1 DEF KeepingOf
  <2> QED BY <1>3, <2>1, <2>2 DEF KeptOf
<1>9. Trail(Q, s, e, start)
  BY <1>4, <1>7, <1>8, TrailAgrees
<1> QED BY <1>2, <1>3, <1>7, <1>9

(* ...and when it goes on.                                                  *)
LEMMA SavedMilestone ==
    ASSUME NEW events, Shaped(events), NoEnd(events, Len(events) - 1),
           NEW start, NEW P, Trail(P, events, Len(events) - 1, start)
    PROVE  LET s == Kept(events)
               e == EndOf(s)
           IN  /\ s[e] = events[Len(events)]
               /\ \E Q : Trail(Q, s, e - 1, start) /\ RunsTo(Q[e - 1], P[Len(events) - 1])
<1>1. PICK kept : KeepingOf(kept, events)
  BY ShapedKeeping
<1>2. PICK m \in 2 .. Len(events) : m = Len(events)
  BY LengthType DEF Shaped
<1>3. events[m].type = "LIST_END" /\ NoEnd(events, m - 1) /\ m >= Len(events) - 1
  BY <1>2 DEF Shaped
<1>4. PICK s : s = Kept(events)
  OBVIOUS
<1>5. PICK e \in Nat : e = EndOf(s)
  BY <1>1, <1>3, <1>4, KeptEnd
<1>6. e = Len(kept[m - 1]) + 1 /\ s[e] = events[m] /\ \A i \in 1 .. e - 1 : s[i] = kept[m - 1][i]
  BY <1>1, <1>3, <1>4, <1>5, KeptEnd
<1>7. m - 1 \in 1 .. m - 1 /\ m - 1 \in 1 .. Len(events)
  OBVIOUS
<1>8. PICK Q : KeptTrail(Q, kept[m - 1], start, P[m - 1], events[m - 1])
  BY <1>1, <1>2, <1>7, KeptTrails
<1>9. e - 1 \in Nat /\ Len(kept[m - 1]) = e - 1 /\ e - 1 \in 1 .. e - 1
  <2>1. KeptOf(kept[m - 1], events, m - 1)
    BY <1>1, <1>7 DEF KeepingOf
  <2> QED BY <1>6, <2>1 DEF KeptOf
<1>10. Trail(Q, kept[m - 1], e - 1, start) /\ RunsTo(Q[e - 1], P[m - 1])
  BY <1>8, <1>9 DEF KeptTrail
<1>11. Trail(Q, s, e - 1, start)
  BY <1>6, <1>9, <1>10, TrailAgrees
<1> QED BY <1>2, <1>4, <1>5, <1>6, <1>10, <1>11

-----------------------------------------------------------------------------
(* What is loaded has timestamps, at which the machine just goes on.        *)

(* The machine that began as m when the timestamp t is due.                 *)
Wait(m, t) == IF t < m.clk THEN m ELSE Ran(m, t - m.clk)

(* The timestamp that follows the events up to machine m.                   *)
StampSane(s, m) ==
    /\ s \in Clock /\ s < m.clk + Second
    /\ m.clk <= s \/ (m.clk < ClkMax /\ m.clk <= s + SubMin)

(* Event e, which leads from m to n, is near enough to be waited for.       *)
Prompt(e, m, n) ==
    /\ e.type = "OVERFLOW" => ClkMax <= m.clk + Second
    /\ e.clk <= m.clk + Second
    /\ e.type = "TIMESTAMP" => n.clk = e.clk \/ (n = m /\ e.clk < m.clk /\ m.clk <= e.clk + SubMin)
Timed(events, P, n) == \A i \in 2 .. n : Prompt(events[i], P[i - 1], P[i])

LEMMA WaitRight ==
    ASSUME NEW m \in Machines, NEW x \in Machines, RunsTo(m, x), NEW t \in Nat, t < x.clk
    PROVE  LET w == Wait(m, t)
           IN  /\ w \in Machines /\ RunsTo(m, w) /\ RunsTo(w, x)
               /\ t <= w.clk /\ (m.clk <= t => w.clk = t) /\ (t < m.clk => w = m)
               /\ m.clk < ClkMax \/ m.clk <= t => ~Strikes(w)
<1>1. m.clk \in Nat /\ x.clk \in Nat /\ ClkMax \in Nat
  BY MachineFields, Numbers
<1>2. CASE t < m.clk
  <2>1. Wait(m, t) = m
    BY <1>2, Zenon DEF Wait
  <2>2. m.clk < ClkMax => ~Strikes(m)
    BY <1>1 DEF Strikes
  <2>3. ~(m.clk <= t) /\ t <= m.clk
    BY <1>1, <1>2
  <2> QED BY <1>2, <2>1, <2>2, <2>3, RunsRefl
<1>3. CASE ~(t < m.clk)
  <2>1. Wait(m, t) = Ran(m, t - m.clk)
    BY <1>3, Zenon DEF Wait
  <2>2. m.clk <= t
    BY <1>1, <1>3
  <2>3. PICK w : w = Ran(m, t - m.clk)
    OBVIOUS
  <2>4. w \in Machines /\ w.clk = t /\ RunsTo(m, w) /\ RunsTo(w, x) /\ ~Strikes(w)
    BY <2>2, <2>3, RunsBetween
  <2> QED BY <1>3, <2>1, <2>3, <2>4
<1> QED BY <1>2, <1>3

LEMMA WaitsOn ==
    ASSUME NEW m \in Machines, NEW x \in Machines, RunsTo(m, x),
           NEW t \in Nat, NEW u \in Nat, t <= u, u < x.clk
    PROVE  RunsTo(Wait(m, t), Wait(m, u))
<1>1. m.clk \in Nat /\ x.clk \in Nat
  BY MachineFields
<1>2. PICK w \in Machines : w = Wait(m, u) /\ RunsTo(m, w) /\ (m.clk <= u => w.clk = u)
  BY WaitRight
<1>3. CASE t < m.clk
  <2>1. Wait(m, t) = m
    BY <1>3, Zenon DEF Wait
  <2> QED BY <1>2, <2>1
<1>4. CASE ~(t < m.clk) /\ t < u
  <2>1. t < w.clk
    BY <1>1, <1>2, <1>4
  <2>2. RunsTo(Wait(m, t), w)
    BY <1>2, <2>1, WaitRight
  <2> QED BY <1>2, <2>2
<1>5. CASE t = u
  <2>1. Wait(m, t) = w
    BY <1>2, <1>5
  <2> QED BY <1>2, <2>1, RunsRefl
<1> QED BY <1>1, <1>3, <1>4, <1>5

LEMMA StampAtNext ==
    ASSUME NEW acc, acc.stamp \in Nat, NEW k \in Nat
    PROVE  /\ StampAt(acc, k) \in Nat /\ StampAt(acc, 0) = acc.stamp
           /\ StampAt(acc, k + 1) = StampAt(acc, k) + Second
           /\ acc.stamp <= StampAt(acc, k)
<1>1. PICK s \in Nat : s = acc.stamp
  OBVIOUS
<1>2. PICK d \in Nat : d = Second
  BY Numbers
<1>3. k * d \in Nat /\ (k + 1) * d = k * d + d /\ 0 * d = 0
  OBVIOUS
<1>4. PICK a \in Nat : a = k * d
  BY <1>3
<1>5. s + a \in Nat /\ s + (a + d) = (s + a) + d /\ s <= s + a /\ s + 0 = s
  OBVIOUS
<1>6. StampAt(acc, k) = s + a /\ StampAt(acc, k + 1) = s + (a + d) /\ StampAt(acc, 0) = s + 0
  BY <1>1, <1>2, <1>3, <1>4, Zenon DEF StampAt
<1> QED BY <1>1, <1>2, <1>5, <1>6

(* Timestamps can be put behind a trail.                                    *)
Put(Q, P, len, M, n) ==
    /\ \A i \in 1 .. len : Q[i] = P[i]
    /\ \A k \in 0 .. n : Q[len + k] = M[k]

LEMMA TrailWaits ==
    ASSUME NEW P, NEW events, NEW len \in Nat \ {0}, NEW start, Trail(P, events, len, start),
           NEW others, \A i \in 1 .. len : others[i] = events[i],
           NEW n \in Nat, \A k \in 1 .. n : others[len + k].type = "TIMESTAMP",
           NEW M, M[0] = P[len],
           \A k \in 1 .. n : M[k] \in Machines /\ ~Strikes(M[k]) /\ RunsTo(M[k - 1], M[k])
    PROVE  \E Q : Trail(Q, others, len + n, start) /\ Put(Q, P, len, M, n)
<1> DEFINE Q == [i \in 1 .. len + n |-> IF i <= len THEN P[i] ELSE M[i - len]]
<1>1. \A i \in 1 .. len : Q[i] = P[i]
  OBVIOUS
<1>2. ASSUME NEW k \in 0 .. n  PROVE Q[len + k] = M[k]
  <2>1. CASE k = 0
    <3>1. len + k = len /\ len \in 1 .. len
      BY <2>1
    <3>2. Q[len] = P[len]
      BY <1>1, <3>1
    <3> HIDE DEF Q
    <3> QED BY <2>1, <3>1, <3>2
  <2>2. CASE k # 0
    <3>1. PICK i \in 1 .. len + n : i = len + k
      OBVIOUS
    <3>2. ~(i <= len) /\ i - len = k
      BY <2>2, <3>1
    <3>3. Q[i] = M[i - len]
      BY <3>2
    <3> HIDE DEF Q
    <3> QED BY <3>1, <3>2, <3>3
  <2> QED BY <2>1, <2>2
<1> HIDE DEF Q
<1>3. \A i \in 1 .. len : P[i] \in Machines
  BY DEF Trail
<1>4. ASSUME NEW i \in 1 .. len + n  PROVE Q[i] \in Machines
  <2>1. CASE i <= len
    <3>1. i \in 1 .. len
      BY <2>1
    <3> QED BY <1>1, <1>3, <3>1
  <2>2. CASE ~(i <= len)
    <3>1. i - len \in 1 .. n /\ i - len \in 0 .. n /\ len + (i - len) = i
      BY <2>2
    <3>2. Q[len + (i - len)] = M[i - len]
      BY <1>2, <3>1
    <3> QED BY <3>1, <3>2
  <2> QED BY <2>1, <2>2
<1>5. First(others[1], start, Q[1])
  <2>1. 1 \in 1 .. len
    OBVIOUS
  <2> QED BY <1>1, <2>1 DEF Trail
<1>6. ASSUME NEW i \in 2 .. len + n  PROVE Leads(Q[i - 1], others[i], Q[i])
  <2>1. CASE i <= len
    <3>1. i \in 2 .. len /\ i \in 1 .. len /\ i - 1 \in 1 .. len
      BY <2>1
    <3>2. Q[i] = P[i] /\ Q[i - 1] = P[i - 1] /\ others[i] = events[i]
      BY <1>1, <3>1
    <3>3. Leads(P[i - 1], events[i], P[i])
      BY <3>1 DEF Trail
    <3> QED BY <3>2, <3>3
  <2>2. CASE ~(i <= len)
    <3>1. PICK k \in 1 .. n : i = len + k
      <4>1. i - len \in 1 .. n /\ i = len + (i - len)
        BY <2>2
      <4> QED BY <4>1
    <3>2. k \in 0 .. n /\ k - 1 \in 0 .. n /\ i - 1 = len + (k - 1)
      BY <3>1
    <3>3. Q[i] = M[k] /\ Q[i - 1] = M[k - 1]
      BY <1>2, <3>1, <3>2
    <3>4. M[k] \in Machines /\ ~Strikes(M[k]) /\ RunsTo(M[k - 1], M[k])
      OBVIOUS
    <3>5. Takes(M[k], others[i], M[k])
      BY <3>1, <3>4 DEF Takes
    <3> QED BY <3>3, <3>4, <3>5 DEF Leads
  <2> QED BY <2>1, <2>2
<1>7. Trail(Q, others, len + n, start)
  BY <1>4, <1>5, <1>6 DEF Trail
<1> QED BY <1>1, <1>2, <1>7 DEF Put

LEMMA TakesClock ==
    ASSUME NEW x \in Machines, NEW e \in Events, NEW n, Takes(x, e, n), e.type # "TIMESTAMP"
    PROVE  /\ n \in Machines /\ Until(e) \in Nat /\ Until(e) <= x.clk
           /\ e.type \in {"key", "RESETCPU", "OVERFLOW", "LIST_END"}
           /\ e.type = "OVERFLOW" =>
                  /\ Until(e) = ClkMax /\ ClkMax <= x.clk /\ x.clk <= Top
                  /\ e.clk = x.clk - Sub /\ n = Guarded(x) /\ n.clk = e.clk /\ Strikes(x)
           /\ e.type # "OVERFLOW" => Until(e) = e.clk /\ e.clk = x.clk
           /\ e.type = "RESETCPU" => n.clk = ResetClk
           /\ e.type \in {"key", "LIST_END"} => n.clk = x.clk
<1>1. x.clk \in Nat /\ e.clk \in Nat /\ ClkMax \in Nat /\ n \in Machines
  BY MachineFields, EventTypes, Numbers, TakesRight
<1>2. CASE e.type = "OVERFLOW"
  <2>1. Strikes(x) /\ x.clk <= Top /\ e.clk = x.clk - Sub /\ n = Guarded(x)
    BY <1>2 DEF Takes
  <2>2. ClkMax <= x.clk
    BY <1>1, <2>1 DEF Strikes
  <2>3. n.clk = x.clk - Sub
    BY <2>1, <2>2, GuardedType
  <2>4. Until(e) = ClkMax
    BY <1>2, Zenon DEF Until
  <2> QED BY <1>1, <1>2, <2>1, <2>2, <2>3, <2>4
<1>3. CASE e.type # "OVERFLOW"
  <2>1. x.clk = e.clk /\ e.type \in {"key", "RESETCPU", "LIST_END"}
    BY <1>3 DEF Takes
  <2>2. Until(e) = e.clk
    BY <1>3, Zenon DEF Until
  <2>3. e.type = "RESETCPU" => n.clk = ResetClk
    BY ServedType DEF Takes
  <2>4. e.type = "key" => n.clk = x.clk
    BY DoneType DEF Takes
  <2>5. e.type = "LIST_END" => n.clk = x.clk
    BY DEF Takes
  <2> QED BY <1>1, <1>3, <2>1, <2>2, <2>3, <2>4, <2>5
<1> QED BY <1>2, <1>3

LEMMA StampKept ==
    ASSUME NEW m \in Machines, NEW x \in Machines, RunsTo(m, x),
           NEW e \in Events, NEW n, Takes(x, e, n), e.type # "TIMESTAMP",
           NEW s \in Clock, Until(e) <= s, s < Until(e) + Second \/ s < m.clk + Second,
           NEW stamp \in Clock,
           e.type = "RESETCPU" => stamp = s - e.clk,
           e.type = "OVERFLOW" => stamp = s - Sub,
           e.type \notin {"RESETCPU", "OVERFLOW"} => stamp = s
    PROVE  StampSane(stamp, n)
<1>1. /\ m.clk \in Nat /\ x.clk \in Nat /\ e.clk \in Nat /\ s \in Nat /\ stamp \in Nat
      /\ m.clk <= x.clk
  BY MachineFields, EventTypes, RunsFacts, Numbers DEF Clock
<1>2. s < x.clk + Second /\ Until(e) \in Nat
  <2>1. Until(e) \in Nat /\ Until(e) <= x.clk
    BY TakesClock
  <2> QED BY <1>1, <2>1, Numbers
<1>3. CASE e.type = "OVERFLOW"
  <2>1. /\ Until(e) = ClkMax /\ ClkMax <= x.clk /\ x.clk <= Top
        /\ e.clk = x.clk - Sub /\ n = Guarded(x) /\ n.clk = e.clk /\ Strikes(x)
    BY <1>3, TakesClock
  <2>2. stamp = s - Sub /\ n.clk = x.clk - Sub
    BY <1>3, <2>1
  <2>3. ClkMax <= s /\ x.clk <= s + SubMin
    BY <1>1, <2>1, Numbers
  <2>4. n.clk + Second + SubMin < ClkMax /\ n.clk \in Nat
    BY <2>1, GuardedType, Numbers DEF Clock
  <2>5. n.clk < ClkMax
    BY <2>4, Numbers
  <2>6. stamp < n.clk + Second /\ n.clk <= stamp + SubMin
    BY <1>1, <1>2, <2>2, <2>3, Numbers
  <2> QED BY <2>5, <2>6 DEF StampSane
<1>4. CASE e.type = "RESETCPU"
  <2>1. n.clk = ResetClk /\ e.clk = x.clk
    BY <1>4, TakesClock
  <2>2. stamp = s - x.clk
    BY <1>4, <2>1
  <2>3. stamp < n.clk + Second /\ n.clk < ClkMax /\ n.clk <= stamp + SubMin
    BY <1>1, <1>2, <2>1, <2>2, Numbers
  <2> QED BY <2>3 DEF StampSane
<1>5. CASE e.type \notin {"RESETCPU", "OVERFLOW"}
  <2>1. n.clk = x.clk /\ Until(e) = x.clk /\ stamp = s
    BY <1>5, TakesClock
  <2>2. stamp < n.clk + Second /\ n.clk <= stamp
    BY <1>2, <2>1
  <2> QED BY <2>2 DEF StampSane
<1> QED BY <1>3, <1>4, <1>5

LEMMA PromptEvent ==
    ASSUME NEW w \in Machines, NEW x \in Machines, RunsTo(w, x),
           NEW e \in Events, NEW n, Takes(x, e, n), e.type # "TIMESTAMP",
           Until(e) <= w.clk + Second
    PROVE  Prompt(e, w, n)
<1>1. w.clk \in Nat /\ e.clk \in Nat
  BY MachineFields, EventTypes
<1>2. CASE e.type = "OVERFLOW"
  <2>1. Until(e) = ClkMax /\ n = Guarded(x) /\ n.clk = e.clk /\ ClkMax <= x.clk /\ x.clk <= Top
    BY <1>2, TakesClock
  <2>2. e.clk + Second + SubMin < ClkMax
    BY <2>1, GuardedType
  <2>3. e.clk <= w.clk + Second
    BY <1>1, <2>1, <2>2, Numbers
  <2> QED BY <1>2, <2>1, <2>3 DEF Prompt
<1>3. CASE e.type # "OVERFLOW"
  <2>1. Until(e) = e.clk
    BY <1>3, TakesClock
  <2> QED BY <1>3, <2>1 DEF Prompt
<1> QED BY <1>2, <1>3

(* The trail P of a list a being loaded, which ends at machine p.           *)
LoadTrail(P, a, start, p) ==
    /\ Trail(P, a.list, Len(a.list), start) /\ Timed(a.list, P, Len(a.list))
    /\ P[Len(a.list)] = p /\ StampSane(a.stamp, p)

(* The machines at the timestamps that are put before event e.              *)
Waits(acc, m, n) == [k \in 0 .. n |-> IF k = 0 THEN m ELSE Wait(m, StampAt(acc, k - 1))]

LEMMA WaitsRight ==
    ASSUME NEW acc, acc.stamp \in Nat, NEW m \in Machines, StampSane(acc.stamp, m),
           NEW x \in Machines, RunsTo(m, x), NEW n \in Nat,
           \A k \in 0 .. n - 1 : StampAt(acc, k) < x.clk
    PROVE  LET M == Waits(acc, m, n)
           IN  /\ M[0] = m
               /\ \A k \in 1 .. n : /\ M[k] \in Machines /\ ~Strikes(M[k])
                                    /\ RunsTo(M[k - 1], M[k]) /\ RunsTo(M[k], x)
                                    /\ StampAt(acc, k - 1) <= M[k].clk
                                    /\ StampAt(acc, k - 1) <= M[k - 1].clk + Second
                                    /\ Prompt(Event("TIMESTAMP", StampAt(acc, k - 1)), M[k - 1], M[k])
               /\ M[n] \in Machines /\ RunsTo(M[n], x)
<1> DEFINE M == Waits(acc, m, n)
<1>1. M[0] = m /\ \A k \in 1 .. n : M[k] = Wait(m, StampAt(acc, k - 1))
  BY DEF Waits
<1> HIDE DEF M
<1>2. m.clk \in Nat /\ x.clk \in Nat /\ Second \in Nat /\ SubMin \in Nat /\ ClkMax \in Nat
      /\ 1 <= Second
  BY MachineFields, Numbers
<1>3. \A k \in Nat : StampAt(acc, k) \in Nat /\ StampAt(acc, k + 1) = StampAt(acc, k) + Second
                     /\ StampAt(acc, 0) = acc.stamp /\ acc.stamp <= StampAt(acc, k)
  BY StampAtNext
<1>4. acc.stamp < m.clk + Second /\ (m.clk <= acc.stamp \/ (m.clk < ClkMax /\ m.clk <= acc.stamp + SubMin))
  BY DEF StampSane
<1>5. ASSUME NEW k \in 1 .. n
      PROVE  /\ M[k] \in Machines /\ ~Strikes(M[k])
             /\ RunsTo(M[k - 1], M[k]) /\ RunsTo(M[k], x)
             /\ StampAt(acc, k - 1) <= M[k].clk
             /\ StampAt(acc, k - 1) <= M[k - 1].clk + Second
             /\ Prompt(Event("TIMESTAMP", StampAt(acc, k - 1)), M[k - 1], M[k])
  <2>1. k - 1 \in Nat /\ k - 1 \in 0 .. n - 1
    OBVIOUS
  <2>2. PICK t \in Nat : t = StampAt(acc, k - 1)
    BY <1>3, <2>1
  <2>3. t < x.clk /\ acc.stamp <= t /\ M[k] = Wait(m, t)
    BY <1>1, <1>3, <2>1, <2>2
  <2>4. PICK w : w = Wait(m, t)
    OBVIOUS
  <2>5. /\ w \in Machines /\ RunsTo(m, w) /\ RunsTo(w, x)
        /\ t <= w.clk /\ (m.clk <= t => w.clk = t) /\ (t < m.clk => w = m)
        /\ (m.clk < ClkMax \/ m.clk <= t => ~Strikes(w))
    BY <2>3, <2>4, WaitRight
  <2>6. w.clk \in Nat
    BY <2>5, MachineFields
  <2>7. ~Strikes(w)
    BY <1>2, <1>4, <2>3, <2>5
  <2>8. RunsTo(M[k - 1], w) /\ t <= M[k - 1].clk + Second /\ (t < m.clk => M[k - 1] = m)
    <3>1. CASE k = 1
      <4>1. M[k - 1] = m /\ t = acc.stamp
        BY <1>1, <1>3, <2>2, <3>1
      <4> QED BY <1>2, <1>4, <2>5, <4>1
    <3>2. CASE k # 1
      <4>1. k - 1 \in 1 .. n /\ (k - 1) - 1 \in Nat /\ ((k - 1) - 1) + 1 = k - 1
            /\ (k - 1) - 1 \in 0 .. n - 1
        BY <3>2
      <4>2. PICK u \in Nat : u = StampAt(acc, (k - 1) - 1)
        BY <1>3, <4>1
      <4>3. t = u + Second /\ u < x.clk /\ M[k - 1] = Wait(m, u)
        BY <1>1, <1>3, <2>2, <4>1, <4>2
      <4>4. u <= t
        BY <1>2, <4>3
      <4>5. RunsTo(Wait(m, u), Wait(m, t))
        BY <2>3, <4>3, <4>4, WaitsOn
      <4>6. PICK v : v = Wait(m, u)
        OBVIOUS
      <4>7. v \in Machines /\ u <= v.clk /\ (u < m.clk => v = m)
        BY <4>3, <4>6, WaitRight
      <4>8. v.clk \in Nat
        BY <4>7, MachineFields
      <4>9. t <= v.clk + Second
        BY <1>2, <4>3, <4>7, <4>8
      <4>10. t < m.clk => v = m
        BY <1>2, <4>4, <4>7
      <4> QED BY <2>4, <4>3, <4>5, <4>6, <4>9, <4>10
    <3> QED BY <3>1, <3>2
  <2>9. Prompt(Event("TIMESTAMP", t), M[k - 1], w)
    <3>1. Event("TIMESTAMP", t).type = "TIMESTAMP" /\ Event("TIMESTAMP", t).clk = t
      BY EventTypes, Zenon
    <3>2. w.clk = t \/ (w = M[k - 1] /\ t < M[k - 1].clk /\ M[k - 1].clk <= t + SubMin)
      <4>1. CASE m.clk <= t
        BY <2>5, <4>1
      <4>2. CASE t < m.clk
        <5>1. w = m /\ M[k - 1] = m
          BY <2>5, <2>8, <4>2
        <5>2. m.clk <= t + SubMin
          BY <1>2, <1>4, <2>3, <4>2
        <5> QED BY <4>2, <5>1, <5>2
      <4> QED BY <1>2, <4>1, <4>2
    <3> QED BY <2>8, <3>1, <3>2 DEF Prompt
  <2>10. M[k] = w
    BY <2>3, <2>4
  <2> QED BY <2>2, <2>5, <2>7, <2>8, <2>9, <2>10
<1>6. M[n] \in Machines /\ RunsTo(M[n], x)
  <2>1. n = 0 \/ n \in 1 .. n
    OBVIOUS
  <2> QED BY <1>1, <1>5, <2>1
<1> QED BY <1>1, <1>5, <1>6 DEF M

LEMMA LoadStepTrail ==
    ASSUME NEW acc, acc.list \in Seq(Events), 1 <= Len(acc.list), acc.stamp \in Clock,
           NEW e \in Events, e.clk <= Top, e.type # "TIMESTAMP",
           NEW start, NEW P, NEW m, LoadTrail(P, acc, start, m), NEW p, Leads(m, e, p)
    PROVE  \E Q : LoadTrail(Q, Stamped(acc, e), start, p)
<1> DEFINE r == Stamped(acc, e)
           n == Stamps(acc, e)
           len == Len(acc.list)
<1>1. /\ n \in Nat /\ len \in Nat
      /\ \A k \in 0 .. n - 1 : StampAt(acc, k) \in Clock /\ StampAt(acc, k) < Until(e)
      /\ StampAt(acc, n) \in Clock /\ Until(e) <= StampAt(acc, n)
      /\ n # 0 => StampAt(acc, n) < Until(e) + Second
      /\ r.list \in Seq(Events) /\ Len(r.list) = len + n + 1
      /\ \A i \in 1 .. len : r.list[i] = acc.list[i]
      /\ \A k \in 1 .. n : r.list[len + k] = Event("TIMESTAMP", StampAt(acc, k - 1))
      /\ r.list[len + n + 1] = e
      /\ r.stamp \in Clock
      /\ e.type = "RESETCPU" => r.stamp = StampAt(acc, n) - e.clk
      /\ e.type = "OVERFLOW" => r.stamp = StampAt(acc, n) - Sub
      /\ e.type \notin {"RESETCPU", "OVERFLOW"} => r.stamp = StampAt(acc, n)
  BY StampedRight
<1>2. Trail(P, acc.list, len, start) /\ Timed(acc.list, P, len) /\ P[len] = m
  BY DEF LoadTrail
<1>3. 1 <= len
  OBVIOUS
<1> HIDE DEF r, n, len
<1>4. /\ \A k \in 0 .. n - 1 : StampAt(acc, k) \in Clock /\ StampAt(acc, k) < Until(e)
      /\ StampAt(acc, n) \in Clock /\ Until(e) <= StampAt(acc, n)
      /\ n # 0 => StampAt(acc, n) < Until(e) + Second
      /\ n \in Nat /\ len \in Nat \ {0} /\ len \in Nat
  BY <1>1, <1>3
<1>5. /\ r.list \in Seq(Events) /\ Len(r.list) = len + n + 1
      /\ \A i \in 1 .. len : r.list[i] = acc.list[i]
      /\ \A k \in 1 .. n : r.list[len + k] = Event("TIMESTAMP", StampAt(acc, k - 1))
      /\ r.list[len + n + 1] = e
  BY <1>1
<1>6. /\ r.stamp \in Clock
      /\ e.type = "RESETCPU" => r.stamp = StampAt(acc, n) - e.clk
      /\ e.type = "OVERFLOW" => r.stamp = StampAt(acc, n) - Sub
      /\ e.type \notin {"RESETCPU", "OVERFLOW"} => r.stamp = StampAt(acc, n)
  BY <1>1
<1>7. /\ Trail(P, acc.list, len, start) /\ Timed(acc.list, P, len) /\ P[len] = m
      /\ StampSane(acc.stamp, m)
  BY <1>2 DEF LoadTrail
<1>8. m \in Machines
  <2>1. len \in 1 .. len
    BY <1>4
  <2> QED BY <1>7, <2>1 DEF Trail
<1>9. PICK x \in Machines : RunsTo(m, x) /\ Takes(x, e, p)
  BY DEF Leads
<1>10. Until(e) \in Nat /\ Until(e) <= x.clk /\ x.clk \in Nat /\ m.clk \in Nat /\ m.clk <= x.clk
  BY <1>8, <1>9, TakesClock, MachineFields, RunsFacts
<1>11. acc.stamp \in Nat /\ \A k \in Nat : StampAt(acc, k) \in Nat
  <2>1. acc.stamp \in Nat
    BY Numbers DEF Clock
  <2> QED BY <2>1, StampAtNext
<1>12. \A k \in 0 .. n - 1 : StampAt(acc, k) < x.clk
  <2>1. ASSUME NEW k \in 0 .. n - 1  PROVE StampAt(acc, k) < x.clk
    <3>1. StampAt(acc, k) < Until(e) /\ k \in Nat
      BY <1>4
    <3>2. StampAt(acc, k) \in Nat
      BY <1>11, <3>1
    <3> QED BY <1>10, <3>1, <3>2
  <2> QED BY <2>1
<1> DEFINE M == Waits(acc, m, n)
<1>13. n \in Nat
  BY <1>4
<1>14. /\ M[0] = m
       /\ \A k \in 1 .. n : /\ M[k] \in Machines /\ ~Strikes(M[k])
                            /\ RunsTo(M[k - 1], M[k]) /\ RunsTo(M[k], x)
                            /\ StampAt(acc, k - 1) <= M[k].clk
                            /\ StampAt(acc, k - 1) <= M[k - 1].clk + Second
                            /\ Prompt(Event("TIMESTAMP", StampAt(acc, k - 1)), M[k - 1], M[k])
       /\ M[n] \in Machines /\ RunsTo(M[n], x)
  <2>1. acc.stamp \in Nat /\ StampSane(acc.stamp, m) /\ RunsTo(m, x)
    BY <1>7, <1>9, <1>11
  <2> QED BY <1>8, <1>12, <1>13, <2>1, WaitsRight
<1> HIDE DEF M
<1>15. \A k \in 1 .. n : r.list[len + k].type = "TIMESTAMP"
  BY <1>5, EventTypes
<1>16. PICK Q : Trail(Q, r.list, len + n, start) /\ Put(Q, P, len, M, n)
  <2>1. \A k \in 1 .. n : M[k] \in Machines /\ ~Strikes(M[k]) /\ RunsTo(M[k - 1], M[k])
    BY <1>14
  <2>2. M[0] = P[len]
    BY <1>7, <1>14
  <2> QED BY <1>4, <1>5, <1>7, <1>15, <2>1, <2>2, TrailWaits
<1>17. /\ \A i \in 1 .. len : Q[i] = P[i]
       /\ \A k \in 0 .. n : Q[len + k] = M[k]
  BY <1>16 DEF Put
<1>18. Until(e) <= M[n].clk + Second
  <2>1. CASE n = 0
    <3>1. Until(e) <= StampAt(acc, 0) /\ StampAt(acc, 0) = acc.stamp
      BY <1>4, <1>11, <2>1, StampAtNext
    <3>2. acc.stamp < m.clk + Second /\ M[n] = m
      BY <1>7, <1>14, <2>1 DEF StampSane
    <3>3. M[n].clk = m.clk
      BY <3>2
    <3>4. Until(e) < m.clk + Second
      <4>1. \A a, b, c \in Nat : \A d \in Nat : a <= b /\ b < c + d => a < c + d
        OBVIOUS
      <4>2. /\ Until(e) \in Nat /\ acc.stamp \in Nat /\ m.clk \in Nat /\ Second \in Nat
            /\ Until(e) <= acc.stamp /\ acc.stamp < m.clk + Second
        BY <1>10, <1>11, <3>1, <3>2, Numbers
      <4> QED BY <4>1, <4>2, Zenon
    <3> QED BY <1>10, <3>3, <3>4, Numbers
  <2>2. CASE n # 0
    <3>1. n \in 1 .. n /\ n - 1 \in Nat /\ (n - 1) + 1 = n
      BY <1>4, <2>2
    <3>2. StampAt(acc, n) = StampAt(acc, n - 1) + Second
      BY <1>11, <3>1, StampAtNext
    <3>3. StampAt(acc, n - 1) <= M[n].clk /\ M[n].clk \in Nat
      BY <1>14, <3>1, MachineFields
    <3>4. StampAt(acc, n - 1) \in Nat
      BY <1>11, <3>1
    <3> QED BY <1>4, <1>10, <3>2, <3>3, <3>4, Numbers
  <2> QED BY <2>1, <2>2
<1>19. Prompt(e, M[n], p)
  BY <1>9, <1>14, <1>18, PromptEvent
<1>20. Timed(r.list, Q, len + n)
  <2>1. ASSUME NEW i \in 2 .. len + n  PROVE Prompt(r.list[i], Q[i - 1], Q[i])
    <3>1. CASE i <= len
      <4>1. i \in 2 .. len /\ i \in 1 .. len /\ i - 1 \in 1 .. len
        BY <1>4, <3>1
      <4>2. Q[i] = P[i] /\ Q[i - 1] = P[i - 1] /\ r.list[i] = acc.list[i]
        BY <1>5, <1>17, <4>1
      <4> QED BY <1>7, <4>1, <4>2 DEF Timed
    <3>2. CASE ~(i <= len)
      <4>1. PICK k \in 1 .. n : i = len + k
        <5>1. i - len \in 1 .. n /\ i = len + (i - len)
          BY <1>4, <3>2
        <5> QED BY <5>1
      <4>2. k \in 0 .. n /\ k - 1 \in 0 .. n /\ i - 1 = len + (k - 1)
        BY <1>4, <4>1
      <4>3. Q[i] = M[k] /\ Q[i - 1] = M[k - 1]
        BY <1>17, <4>1, <4>2
      <4>4. r.list[i] = Event("TIMESTAMP", StampAt(acc, k - 1))
        BY <1>5, <4>1
      <4>5. Prompt(Event("TIMESTAMP", StampAt(acc, k - 1)), M[k - 1], M[k])
        BY <1>14
      <4> QED BY <4>3, <4>4, <4>5
    <3> QED BY <3>1, <3>2
  <2> QED BY <2>1 DEF Timed
<1>21. PICK l \in Nat \ {0} : l = len + n
  BY <1>4
<1>22. Q[l] = M[n] /\ l + 1 = Len(r.list) /\ r.list[l + 1] = e
  <2>1. n \in 0 .. n
    BY <1>4
  <2> QED BY <1>4, <1>5, <1>17, <1>21, <2>1
<1>23. Leads(Q[l], r.list[l + 1], p)
  BY <1>9, <1>14, <1>22 DEF Leads
<1>24. Trail(Q, r.list, l, start) /\ Timed(r.list, Q, l)
  BY <1>16, <1>20, <1>21
<1>25. PICK R : Grown(R, Q, r.list, l, start, p)
  BY <1>23, <1>24, TrailGrows
<1>26. Trail(R, r.list, l + 1, start) /\ R[l + 1] = p /\ \A i \in 1 .. l : R[i] = Q[i]
  BY <1>25 DEF Grown
<1>27. Timed(r.list, R, l + 1)
  <2>1. ASSUME NEW i \in 2 .. l + 1  PROVE Prompt(r.list[i], R[i - 1], R[i])
    <3>1. CASE i <= l
      <4>1. i \in 2 .. l /\ i \in 1 .. l /\ i - 1 \in 1 .. l
        BY <3>1
      <4>2. R[i] = Q[i] /\ R[i - 1] = Q[i - 1]
        BY <1>26, <4>1
      <4> QED BY <1>24, <4>1, <4>2 DEF Timed
    <3>2. CASE ~(i <= l)
      <4>1. i = l + 1 /\ i - 1 = l /\ l \in 1 .. l
        BY <3>2
      <4>2. R[i] = p /\ R[i - 1] = M[n] /\ r.list[i] = e
        BY <1>22, <1>26, <4>1
      <4> QED BY <1>19, <4>2
    <3> QED BY <3>1, <3>2
  <2> QED BY <2>1 DEF Timed
<1>28. StampSane(r.stamp, p)
  <2>1. StampAt(acc, n) < Until(e) + Second \/ StampAt(acc, n) < m.clk + Second
    <3>1. CASE n = 0
      <4>1. StampAt(acc, n) = acc.stamp
        BY <1>11, <3>1, StampAtNext
      <4> QED BY <1>7, <4>1 DEF StampSane
    <3> QED BY <1>4, <3>1
  <2> QED BY <1>4, <1>6, <1>8, <1>9, <2>1, StampKept
<1>29. LoadTrail(R, r, start, p)
  BY <1>22, <1>26, <1>27, <1>28 DEF LoadTrail
<1> QED BY <1>29 DEF r

LEMMA LoadBegins ==
    ASSUME NEW saved, Shaped(saved), NEW start, NEW P, P[1] \in Machines,
           First(saved[1], start, P[1])
    PROVE  LoadTrail(P, LoadStep(Nothing, saved[1]), start, P[1])
<1>1. PICK a : a = LoadStep(Nothing, saved[1])
  OBVIOUS
<1>2. /\ Len(a.list) = 1 /\ a.list[1] = saved[1] /\ a.stamp \in Clock
      /\ a.stamp = IF saved[1].type = "INITIAL_RESET" THEN 0 ELSE saved[1].clk
  BY <1>1, LoadFirst DEF Loaded
<1>3. Trail(P, a.list, 1, start)
  BY <1>2 DEF Trail
<1>4. Timed(a.list, P, 1)
  BY DEF Timed
<1>5. StampSane(a.stamp, P[1])
  <2>1. CASE saved[1].type = "INITIAL_RESET"
    <3>1. P[1] = Begun(ResetClk, 0)
      BY <2>1 DEF First
    <3>2. P[1].clk = ResetClk /\ a.stamp = 0
      BY <1>2, <2>1, <3>1, BegunReset
    <3>3. 0 < P[1].clk + Second /\ P[1].clk < ClkMax /\ P[1].clk <= 0 + SubMin
      BY <3>2, Numbers
    <3> QED BY <1>2, <3>2, <3>3 DEF StampSane
  <2>2. CASE saved[1].type # "INITIAL_RESET"
    <3>1. P[1] = start /\ saved[1].clk = start.clk
      BY <2>2 DEF First
    <3>2. a.stamp = P[1].clk /\ P[1].clk \in Nat
      BY <1>2, <2>2, <3>1, MachineFields
    <3>3. a.stamp < P[1].clk + Second /\ P[1].clk <= a.stamp
      BY <3>2, Numbers
    <3> QED BY <1>2, <3>3 DEF StampSane
  <2> QED BY <2>1, <2>2
<1> QED BY <1>1, <1>2, <1>3, <1>4, <1>5 DEF LoadTrail

LEMMA LoadTrails ==
    ASSUME NEW saved, Shaped(saved),
           \A i \in 1 .. Len(saved) : saved[i].type # "TIMESTAMP",
           NEW acc, LoadingOf(acc, saved), NEW n \in 1 .. EndOf(saved),
           NEW start, NEW P, Trail(P, saved, n, start)
    PROVE  \A i \in 1 .. n : \E Q : LoadTrail(Q, acc[i], start, P[i])
<1>1. EndOf(saved) \in Nat /\ EndOf(saved) <= Len(saved) /\ n \in Nat /\ Len(saved) \in Nat
  BY EndOfShaped, LengthType DEF Shaped
<1>2. \A i \in 1 .. n : P[i] \in Machines
  BY DEF Trail
<1> DEFINE G == {k \in 0 .. n - 1 : \E Q : LoadTrail(Q, acc[k + 1], start, P[k + 1])}
<1>3. 0 \in G
  <2>1. acc[1] = LoadStep(Nothing, saved[1])
    BY DEF LoadingOf
  <2>2. P[1] \in Machines /\ First(saved[1], start, P[1])
    BY <1>1, <1>2 DEF Trail
  <2>3. LoadTrail(P, acc[1], start, P[1])
    BY <2>1, <2>2, LoadBegins
  <2>4. 0 \in 0 .. n - 1 /\ 0 + 1 = 1
    BY <1>1
  <2> QED BY <2>3, <2>4
<1>4. ASSUME NEW k \in 0 .. (n - 1) - 1, k \in G  PROVE k + 1 \in G
  <2>1. PICK i \in 2 .. n : i = k + 2
    BY <1>1
  <2>2. /\ k + 1 = i - 1 /\ (k + 1) + 1 = i /\ k + 1 \in 0 .. n - 1
        /\ i - 1 \in 1 .. EndOf(saved) /\ i \in 2 .. EndOf(saved) /\ i \in 1 .. Len(saved)
        /\ i - 1 >= 1
    BY <1>1, <2>1
  <2>3. PICK Q : LoadTrail(Q, acc[i - 1], start, P[i - 1])
    BY <1>4, <2>2
  <2>4. acc[i] = Stamped(acc[i - 1], saved[i]) /\ Loaded(acc[i - 1], saved, i - 1)
    BY <2>2 DEF LoadingOf
  <2>5. Leads(P[i - 1], saved[i], P[i])
    BY DEF Trail
  <2>6. saved[i] \in Events /\ saved[i].clk <= Top /\ saved[i].type # "TIMESTAMP"
    BY <2>2, LengthType DEF Shaped
  <2>7. PICK a : a = acc[i - 1]
    OBVIOUS
  <2>8. a.list \in Seq(Events) /\ a.stamp \in Clock /\ 1 <= Len(a.list)
    <3>1. a.list \in Seq(Events) /\ a.stamp \in Clock /\ i - 1 <= Len(a.list)
      BY <2>4, <2>7 DEF Loaded
    <3> QED BY <2>2, <3>1, LengthType
  <2>9. PICK m : m = P[i - 1]
    OBVIOUS
  <2>10. \E R : LoadTrail(R, Stamped(a, saved[i]), start, P[i])
    BY <2>3, <2>5, <2>6, <2>7, <2>8, <2>9, LoadStepTrail
  <2> QED BY <2>2, <2>4, <2>7, <2>10
<1> HIDE DEF G
<1>5. \A k \in 0 .. n - 1 : k \in G
  <2>1. n - 1 \in Nat
    BY <1>1
  <2> QED BY <2>1, <1>3, <1>4, Induction
<1>6. ASSUME NEW i \in 1 .. n  PROVE \E Q : LoadTrail(Q, acc[i], start, P[i])
  <2>1. i - 1 \in 0 .. n - 1 /\ (i - 1) + 1 = i
    BY <1>1
  <2> QED BY <1>5, <2>1 DEF G
<1> QED BY <1>6

LEMMA InsertedFirst ==
    ASSUME NEW acc, acc.list \in Seq(Events), acc.stamp \in Clock,
           NEW e \in Events, e.clk <= Top, Stamps(acc, e) # 0
    PROVE  Stamped(acc, e).list[Len(acc.list) + 1].type = "TIMESTAMP"
<1> DEFINE r == Stamped(acc, e)
           n == Stamps(acc, e)
           len == Len(acc.list)
<1>1. n \in Nat /\ \A k \in 1 .. n : r.list[len + k] = Event("TIMESTAMP", StampAt(acc, k - 1))
  BY StampedRight
<1>2. n # 0
  OBVIOUS
<1> HIDE DEF n
<1>3. 1 \in 1 .. n
  BY <1>1, <1>2
<1> HIDE DEF r, len
<1>4. r.list[len + 1] = Event("TIMESTAMP", StampAt(acc, 1 - 1))
  BY <1>1, <1>3
<1>5. Event("TIMESTAMP", StampAt(acc, 1 - 1)).type = "TIMESTAMP"
  BY EventTypes, Zenon
<1> QED BY <1>4, <1>5 DEF r, len

(* A recording that begins with a reset has a timestamp right behind it.    *)
LEMMA LoadSecond ==
    ASSUME NEW saved, Shaped(saved), saved[1].type = "INITIAL_RESET",
           \A i \in 1 .. Len(saved) : saved[i].type # "TIMESTAMP",
           NEW acc, LoadingOf(acc, saved), NEW n \in 2 .. EndOf(saved),
           NEW start, NEW P, Trail(P, saved, n, start)
    PROVE  acc[n].list[2].type = "TIMESTAMP"
<1>1. EndOf(saved) \in Nat /\ EndOf(saved) <= Len(saved) /\ n \in Nat /\ Len(saved) \in Nat
  BY EndOfShaped, LengthType DEF Shaped
<1>2. \A i \in 1 .. EndOf(saved) : /\ acc[i].list \in Seq(Events) /\ acc[i].stamp \in Clock
                                   /\ i <= Len(acc[i].list)
  BY DEF LoadingOf, Loaded
<1>3. \A i \in 2 .. EndOf(saved) : /\ saved[i] \in Events /\ saved[i].clk <= Top
                                   /\ acc[i] = Stamped(acc[i - 1], saved[i])
  <2>1. ASSUME NEW i \in 2 .. EndOf(saved)
        PROVE  saved[i] \in Events /\ saved[i].clk <= Top
    <3>1. i \in 1 .. Len(saved)
      BY <1>1
    <3> QED BY <3>1, LengthType DEF Shaped
  <2> QED BY <2>1 DEF LoadingOf
<1> DEFINE G == {k \in 0 .. n - 2 : acc[k + 2].list[2].type = "TIMESTAMP"}
<1>4. 0 \in G
  <2>1. PICK a : a = acc[1]
    OBVIOUS
  <2>2. a.list \in Seq(Events) /\ a.stamp \in Clock /\ Len(a.list) = 1 /\ a.stamp = 0
    <3>1. a = LoadStep(Nothing, saved[1])
      BY <2>1 DEF LoadingOf
    <3>2. 1 \in 1 .. EndOf(saved)
      BY <1>1
    <3> QED BY <1>2, <2>1, <3>1, <3>2, LoadFirst
  <2>3. PICK e \in Events : e = saved[2] /\ e.clk <= Top /\ acc[2] = Stamped(a, e)
                            /\ e.type # "TIMESTAMP"
    <3>1. 2 \in 2 .. EndOf(saved) /\ 2 \in 1 .. Len(saved) /\ 2 - 1 = 1
      BY <1>1
    <3> QED BY <1>3, <2>1, <3>1
  <2>4. Until(e) \in Nat /\ 1 <= Until(e)
    <3>1. 2 \in 2 .. n /\ 2 - 1 = 1 /\ 1 \in 1 .. n
      BY <1>1
    <3>2. P[1] \in Machines /\ P[1] = Begun(ResetClk, 0) /\ Leads(P[1], e, P[2])
      BY <2>3, <3>1 DEF Trail, First
    <3>3. P[1].clk = ResetClk
      BY <3>2, BegunReset
    <3>4. PICK x \in Machines : RunsTo(P[1], x) /\ Takes(x, e, P[2])
      BY <3>2 DEF Leads
    <3>5. 1 <= x.clk /\ x.clk \in Nat
      <4>1. PICK m \in Machines : m = P[1]
        BY <3>2
      <4>2. m.clk <= x.clk
        BY <3>4, <4>1, RunsFacts
      <4>3. m.clk = ResetClk /\ x.clk \in Nat
        BY <3>3, <4>1, MachineFields
      <4> QED BY <4>2, <4>3, Numbers
    <3>6. Until(e) \in Nat /\ (e.type = "OVERFLOW" => Until(e) = ClkMax)
          /\ (e.type # "OVERFLOW" => Until(e) = x.clk)
      <4>1. Until(e) \in Nat
        BY <2>3, <3>4, TakesClock
      <4>2. e.type = "OVERFLOW" => Until(e) = ClkMax
        BY <2>3, <3>4, TakesClock
      <4>3. e.type # "OVERFLOW" => Until(e) = x.clk
        BY <2>3, <3>4, TakesClock
      <4> QED BY <4>1, <4>2, <4>3
    <3> QED BY <3>5, <3>6, Numbers
  <2>5. PICK k \in Nat : k = Stamps(a, e)
    BY <2>2, <2>3, StampedRight
  <2>6. k # 0
    <3>1. Until(e) <= StampAt(a, Stamps(a, e))
      BY <2>2, <2>3, StampedRight
    <3>2. StampAt(a, 0) = a.stamp
      BY <2>2, StampAtNext
    <3> QED BY <2>2, <2>4, <2>5, <3>1, <3>2
  <2>7. acc[2].list[2].type = "TIMESTAMP"
    <3>1. Stamped(a, e).list[Len(a.list) + 1].type = "TIMESTAMP"
      BY <2>2, <2>3, <2>5, <2>6, InsertedFirst
    <3>2. Len(a.list) + 1 = 2
      BY <2>2
    <3> QED BY <2>3, <3>1, <3>2
  <2> QED BY <1>1, <2>7
<1>5. ASSUME NEW k \in 0 .. (n - 2) - 1, k \in G  PROVE k + 1 \in G
  <2>1. PICK i \in 3 .. n : i = k + 3
    BY <1>1
  <2>2. k + 2 = i - 1 /\ (k + 1) + 2 = i /\ k + 1 \in 0 .. n - 2
        /\ i - 1 \in 1 .. EndOf(saved) /\ i \in 2 .. EndOf(saved) /\ i - 1 >= 2
    BY <1>1, <2>1
  <2>3. PICK a : a = acc[i - 1]
    OBVIOUS
  <2>4. a.list \in Seq(Events) /\ a.stamp \in Clock /\ 2 <= Len(a.list) /\ Len(a.list) \in Nat
    <3>1. a.list \in Seq(Events) /\ a.stamp \in Clock /\ i - 1 <= Len(a.list)
      BY <1>2, <2>2, <2>3
    <3> QED BY <2>2, <3>1, LengthType
  <2>5. PICK e \in Events : e = saved[i] /\ e.clk <= Top /\ acc[i] = Stamped(a, e)
    BY <1>3, <2>2, <2>3
  <2>6. \A j \in 1 .. Len(a.list) : Stamped(a, e).list[j] = a.list[j]
    BY <2>4, <2>5, StampedRight
  <2>7. acc[i].list[2] = a.list[2]
    BY <2>4, <2>5, <2>6
  <2> QED BY <1>5, <2>2, <2>3, <2>7
<1> HIDE DEF G
<1>6. n - 2 \in G
  <2>1. n - 2 \in Nat /\ n - 2 \in 0 .. n - 2
    BY <1>1
  <2> QED BY <2>1, <1>4, <1>5, Induction
<1>7. (n - 2) + 2 = n
  BY <1>1
<1> QED BY <1>6, <1>7 DEF G

(* Trail Q leads to the machine m before the end of the list s.             *)
EndTrail(Q, s, start, m) == Trail(Q, s, Len(s) - 1, start) /\ Q[Len(s) - 1] = m

(* The end of a recording that goes on is no event.                         *)
LEMMA IdleLoad ==
    ASSUME NEW acc, acc.list \in Seq(Events), 1 <= Len(acc.list), acc.stamp \in Clock,
           NEW e \in Events, e.clk <= Top, e.type = "LIST_END",
           NEW start, NEW P, Trail(P, acc.list, Len(acc.list), start),
           NEW m, P[Len(acc.list)] = m, e.clk = 0 \/ ~Strikes(m)
    PROVE  \E Q : EndTrail(Q, Stamped(acc, e).list, start, m)
<1> DEFINE r == Stamped(acc, e)
           n == Stamps(acc, e)
           len == Len(acc.list)
<1>1. /\ n \in Nat /\ len \in Nat
      /\ \A k \in 0 .. n - 1 : StampAt(acc, k) \in Clock /\ StampAt(acc, k) < Until(e)
      /\ r.list \in Seq(Events) /\ Len(r.list) = len + n + 1
      /\ \A i \in 1 .. len : r.list[i] = acc.list[i]
      /\ \A k \in 1 .. n : r.list[len + k] = Event("TIMESTAMP", StampAt(acc, k - 1))
  BY StampedRight
<1>2. len \in Nat \ {0} /\ Trail(P, acc.list, len, start) /\ P[len] = m
  BY LengthType
<1> HIDE DEF r, n, len
<1>3. m \in Machines
  <2>1. len \in 1 .. len
    BY <1>2
  <2> QED BY <1>2, <2>1 DEF Trail
<1>4. n # 0 => ~Strikes(m)
  <2>1. SUFFICES ASSUME n # 0, e.clk = 0  PROVE FALSE
    OBVIOUS
  <2>2. Until(e) = 0
    BY <2>1 DEF Until
  <2>3. 0 \in 0 .. n - 1
    BY <1>1, <2>1
  <2>4. StampAt(acc, 0) \in Nat /\ StampAt(acc, 0) < 0
    BY <1>1, <2>2, <2>3, Numbers DEF Clock
  <2> QED BY <2>4
<1> DEFINE M == [k \in 0 .. n |-> m]
<1>5. M[0] = m /\ M[n] = m /\ \A k \in 1 .. n : M[k] = m /\ M[k - 1] = m
  BY <1>1
<1> HIDE DEF M
<1>6. \A k \in 1 .. n : M[k] \in Machines /\ ~Strikes(M[k]) /\ RunsTo(M[k - 1], M[k])
  <2>1. (\E k \in 1 .. n : TRUE) => n # 0
    BY <1>1
  <2> QED BY <1>3, <1>4, <1>5, <2>1, RunsRefl
<1>7. \A k \in 1 .. n : r.list[len + k].type = "TIMESTAMP"
  BY <1>1, EventTypes
<1>8. PICK Q : Trail(Q, r.list, len + n, start) /\ Put(Q, P, len, M, n)
  BY <1>1, <1>2, <1>5, <1>6, <1>7, TrailWaits
<1>9. Q[len + n] = m
  <2>1. n \in 0 .. n
    BY <1>1
  <2> QED BY <1>5, <1>8, <2>1 DEF Put
<1>10. Len(r.list) - 1 = len + n
  BY <1>1
<1>11. EndTrail(Q, r.list, start, m)
  BY <1>8, <1>9, <1>10 DEF EndTrail
<1> QED BY <1>11 DEF r

(* What is saved can be played back or continued.                           *)
Playable(f, start) ==
    LET n == EndOf(f.list)
    IN  /\ f.machine.time <= Horizon
        /\ IF f.over
           THEN \E P : Trail(P, f.list, n, start) /\ P[n] = f.machine
           ELSE \E P : /\ Trail(P, f.list, n - 1, start) /\ RunsTo(P[n - 1], f.machine)
                       /\ f.list[n].clk = 0 \/ ~Strikes(P[n - 1])

LEMMA LoadFinished ==
    ASSUME NEW f, FileSane(f), NEW start, Playable(f, start), f.over
    PROVE  LET r == Load(f.list)
           IN  /\ \E Q : LoadTrail(Q, r, start, f.machine)
               /\ f.list[1].type = "INITIAL_RESET" => r.list[2].type = "TIMESTAMP"
<1>1. PICK saved : saved = f.list
  OBVIOUS
<1>2. Shaped(saved) /\ \A i \in 1 .. Len(saved) : saved[i].type # "TIMESTAMP"
  BY <1>1 DEF FileSane
<1>3. PICK n \in 2 .. EndOf(saved) : n = EndOf(saved)
  BY <1>2, EndOfShaped
<1>4. n \in 1 .. EndOf(saved) /\ n \in 1 .. n
  BY <1>3
<1>5. PICK P : Trail(P, saved, n, start) /\ P[n] = f.machine
  BY <1>1, <1>3 DEF Playable
<1>6. PICK acc : LoadingOf(acc, saved)
  BY <1>2, ShapedLoading
<1>7. Load(saved) = acc[n]
  BY <1>3, <1>6 DEF LoadingOf
<1>8. \E Q : LoadTrail(Q, acc[n], start, P[n])
  BY <1>2, <1>4, <1>5, <1>6, LoadTrails
<1>9. saved[1].type = "INITIAL_RESET" => acc[n].list[2].type = "TIMESTAMP"
  BY <1>2, <1>5, <1>6, LoadSecond
<1> QED BY <1>1, <1>5, <1>7, <1>8, <1>9

LEMMA LoadToContinue ==
    ASSUME NEW f, FileSane(f), NEW start, Playable(f, start), f.machine \in Machines
    PROVE  LET r == Load(f.list).list
               n == Len(r) - 1
           IN  \E Q : Trail(Q, r, n, start) /\ RunsTo(Q[n], f.machine)
<1>1. PICK saved : saved = f.list
  OBVIOUS
<1>2. Shaped(saved) /\ \A i \in 1 .. Len(saved) : saved[i].type # "TIMESTAMP"
  BY <1>1 DEF FileSane
<1>3. CASE f.over
  <2>1. PICK a : a = Load(saved)
    OBVIOUS
  <2>2. PICK Q : LoadTrail(Q, a, start, f.machine)
    BY <1>1, <1>3, <2>1, LoadFinished
  <2>3. PICK len \in Nat : len = Len(a.list) /\ 2 <= len
    BY <1>2, <2>1, LoadShaped, LengthType DEF Shaped
  <2>4. Trail(Q, a.list, len, start) /\ Q[len] = f.machine
    BY <2>2, <2>3 DEF LoadTrail
  <2>5. a.list[len].type = "LIST_END"
    BY <1>2, <2>1, <2>3, LoadShaped DEF Shaped
  <2>6. len \in 2 .. len /\ len - 1 \in 1 .. len
    BY <2>3
  <2>7. Leads(Q[len - 1], a.list[len], f.machine)
    BY <2>4, <2>6 DEF Trail
  <2>8. RunsTo(Q[len - 1], f.machine)
    BY <2>5, <2>7 DEF Leads, Takes
  <2>9. Trail(Q, a.list, len - 1, start)
    BY <2>4, <2>6, TrailAgrees
  <2> QED BY <1>1, <2>1, <2>3, <2>8, <2>9
<1>4. CASE ~f.over
  <2>1. PICK n \in 2 .. EndOf(saved) : n = EndOf(saved)
    BY <1>2, EndOfShaped
  <2>2. n - 1 \in 1 .. EndOf(saved) /\ n - 1 \in 1 .. n - 1 /\ n \in 2 .. EndOf(saved)
        /\ n \in 1 .. Len(saved)
    BY <1>2, <2>1, EndOfShaped, LengthType DEF Shaped
  <2>3. PICK P : /\ Trail(P, saved, n - 1, start) /\ RunsTo(P[n - 1], f.machine)
                 /\ saved[n].clk = 0 \/ ~Strikes(P[n - 1])
    BY <1>1, <1>4, <2>1 DEF Playable
  <2>4. PICK acc : LoadingOf(acc, saved)
    BY <1>2, ShapedLoading
  <2>5. PICK a : a = acc[n - 1]
    OBVIOUS
  <2>6. PICK Q : LoadTrail(Q, a, start, P[n - 1])
    BY <1>2, <2>2, <2>3, <2>4, <2>5, LoadTrails
  <2>7. a.list \in Seq(Events) /\ a.stamp \in Clock /\ 1 <= Len(a.list)
    <3>1. a.list \in Seq(Events) /\ a.stamp \in Clock /\ n - 1 <= Len(a.list)
      BY <2>2, <2>4, <2>5 DEF LoadingOf, Loaded
    <3> QED BY <2>2, <3>1, LengthType
  <2>8. Load(saved) = acc[n] /\ acc[n] = Stamped(a, saved[n])
    BY <2>1, <2>2, <2>4, <2>5 DEF LoadingOf
  <2>9. saved[n] \in Events /\ saved[n].clk <= Top /\ saved[n].type = "LIST_END"
    BY <1>2, <2>1, <2>2, EndOfShaped, LengthType DEF Shaped
  <2>10. Trail(Q, a.list, Len(a.list), start)
    BY <2>6 DEF LoadTrail
  <2>11. PICK m : m = P[n - 1] /\ Q[Len(a.list)] = m
    BY <2>6 DEF LoadTrail
  <2>12. saved[n].clk = 0 \/ ~Strikes(m)
    BY <2>3, <2>11
  <2>13. PICK s : s = Stamped(a, saved[n]).list
    OBVIOUS
  <2>14. PICK R : EndTrail(R, s, start, m)
    BY <2>7, <2>9, <2>10, <2>11, <2>12, <2>13, IdleLoad
  <2>15. s = Load(f.list).list /\ RunsTo(R[Len(s) - 1], f.machine)
    BY <1>1, <2>3, <2>8, <2>11, <2>13, <2>14 DEF EndTrail
  <2> QED BY <2>14, <2>15 DEF EndTrail
<1> QED BY <1>3, <1>4

-----------------------------------------------------------------------------
(* What playback waits for.                                                 *)

(* Machine m has come from p and waits, with the alarm set to a, for the    *)
(* event e that leaves n.                                                   *)
Awaits(p, m, a, e, n) ==
    /\ RunsTo(p, m)
    /\ \E x \in Machines :
           /\ RunsTo(m, x) /\ Takes(x, e, n)
           /\ a = IF e.type = "OVERFLOW" THEN x.clk ELSE e.clk
           /\ e.type = "TIMESTAMP" => x.clk = e.clk \/ (x = m /\ e.clk < m.clk)

LEMMA AwaitsRuns ==
    ASSUME NEW p \in Machines, NEW m \in Machines, NEW a, NEW e \in Events, NEW n,
           Awaits(p, m, a, e, n), ~Strikes(m), Clocked(m), m.clk < a
    PROVE  Awaits(p, Ran(m, 1), a, e, n)
<1>1. PICK x \in Machines :
           /\ RunsTo(m, x) /\ Takes(x, e, n)
           /\ a = IF e.type = "OVERFLOW" THEN x.clk ELSE e.clk
           /\ e.type = "TIMESTAMP" => x.clk = e.clk \/ (x = m /\ e.clk < m.clk)
  BY DEF Awaits
<1>2. m.clk \in Nat /\ x.clk \in Nat /\ e.clk \in Nat
  BY MachineFields, EventTypes
<1>3. a = x.clk
  <2>1. CASE e.type = "OVERFLOW"
    BY <1>1, <2>1
  <2>2. CASE e.type = "TIMESTAMP"
    BY <1>1, <1>2, <2>2
  <2>3. CASE e.type \notin {"OVERFLOW", "TIMESTAMP"}
    <3>1. x.clk = e.clk
      BY <1>1, <2>3 DEF Takes
    <3> QED BY <1>1, <2>3, <3>1
  <2> QED BY <2>1, <2>2, <2>3
<1>4. PICK q : q = Ran(m, 1)
  OBVIOUS
<1>5. q \in Machines /\ RunsTo(m, q) /\ RunsTo(q, x)
  BY <1>1, <1>3, <1>4, RunsStep
<1>6. RunsTo(p, q)
  BY <1>5, RunsTrans DEF Awaits
<1>7. e.type = "TIMESTAMP" => x.clk = e.clk
  BY <1>1, <1>3
<1>8. Awaits(p, q, a, e, n)
  BY <1>1, <1>5, <1>6, <1>7 DEF Awaits
<1> QED BY <1>4, <1>8

LEMMA AwaitsStrike ==
    ASSUME NEW p, NEW m \in Machines, NEW a, NEW e \in Events, NEW n,
           Awaits(p, m, a, e, n), Strikes(m)
    PROVE  e.type = "OVERFLOW" /\ a = m.clk /\ n = Guarded(m) /\ m.clk <= Top
<1>1. PICK x \in Machines :
           /\ RunsTo(m, x) /\ Takes(x, e, n)
           /\ a = IF e.type = "OVERFLOW" THEN x.clk ELSE e.clk
  BY DEF Awaits
<1>2. x = m
  BY <1>1, RunsFacts
<1>3. Takes(m, e, n)
  BY <1>1, <1>2
<1>4. e.type = "OVERFLOW" /\ n = Guarded(m) /\ m.clk <= Top
  BY <1>3 DEF Takes
<1> QED BY <1>1, <1>2, <1>4

LEMMA AwaitsDue ==
    ASSUME NEW p, NEW m \in Machines, NEW a, NEW e \in Events, NEW n,
           Awaits(p, m, a, e, n), a <= m.clk
    PROVE  Takes(m, e, n)
<1>1. PICK x \in Machines :
           /\ RunsTo(m, x) /\ Takes(x, e, n)
           /\ a = IF e.type = "OVERFLOW" THEN x.clk ELSE e.clk
           /\ e.type = "TIMESTAMP" => x.clk = e.clk \/ (x = m /\ e.clk < m.clk)
  BY DEF Awaits
<1>2. m.clk \in Nat /\ x.clk \in Nat /\ e.clk \in Nat /\ m.clk <= x.clk
  BY <1>1, MachineFields, EventTypes, RunsFacts
<1>3. x.clk <= m.clk \/ x = m
  <2>1. CASE e.type = "OVERFLOW"
    BY <1>1, <2>1
  <2>2. CASE e.type = "TIMESTAMP"
    <3>1. a = e.clk
      BY <1>1, <2>2
    <3> QED BY <1>1, <2>2, <3>1
  <2>3. CASE e.type \notin {"OVERFLOW", "TIMESTAMP"}
    <3>1. x.clk = e.clk /\ a = e.clk
      BY <1>1, <2>3 DEF Takes
    <3> QED BY <3>1
  <2> QED BY <2>1, <2>2, <2>3
<1>4. x = m
  <2>1. x.clk <= m.clk => x.clk = m.clk
    BY <1>2
  <2> QED BY <1>1, <1>3, <2>1, RunsFacts
<1> QED BY <1>1, <1>4

LEMMA AwaitsAfter ==
    ASSUME NEW p, NEW m \in Machines, NEW a, NEW e, NEW n, Awaits(p, m, a, e, n)
    PROVE  n \in Machines /\ After(m, n)
<1>1. PICK x \in Machines : RunsTo(m, x) /\ Takes(x, e, n)
  BY DEF Awaits
<1> QED BY <1>1, TakesRight, AfterRuns, AfterTrans

(* The alarm for an event that is near enough.                              *)
LEMMA NearAlarm ==
    ASSUME NEW e \in Events, NEW clk \in Nat, clk <= e.clk + SubMin
    PROVE  NextAlarm(e, clk) = e.clk
<1>1. e.clk \in Nat /\ SubMin \in Nat
  BY EventTypes, Numbers
<1>2. ~(clk > SubMin /\ e.clk < clk - SubMin)
  BY <1>1
<1> QED BY <1>2 DEF NextAlarm

(* The alarm for an event that seems to lie far back.                       *)
LEMMA FarAlarm ==
    ASSUME NEW e \in Events, NEW clk \in Nat, e.clk + SubMin < clk, e.clk + Sub < Modulus
    PROVE  NextAlarm(e, clk) = e.clk + Sub
<1>1. e.clk \in Nat /\ SubMin \in Nat /\ Sub \in Nat /\ Modulus \in Nat
  BY EventTypes, Numbers
<1>2. clk > SubMin /\ e.clk < clk - SubMin
  BY <1>1
<1>3. e.clk + Sub \in 0 .. Modulus - 1
  BY <1>1
<1>4. (e.clk + Sub) % Modulus = e.clk + Sub
  BY <1>3, ModSmall
<1> QED BY <1>2, <1>4 DEF NextAlarm, Plus

LEMMA WaitsForNext ==
    ASSUME NEW m \in Machines, NEW e \in Events, NEW n,
           Leads(m, e, n), Prompt(e, m, n)
    PROVE  Awaits(m, m, NextAlarm(e, m.clk), e, n)
<1>1. PICK x \in Machines : RunsTo(m, x) /\ Takes(x, e, n)
  BY DEF Leads
<1>2. m.clk \in Nat /\ x.clk \in Nat /\ e.clk \in Nat /\ m.clk <= x.clk
  BY <1>1, MachineFields, EventTypes, RunsFacts
<1>3. RunsTo(m, m)
  BY RunsRefl
<1>4. CASE e.type = "OVERFLOW"
  <2>1. ClkMax <= x.clk /\ x.clk <= Top /\ e.clk = x.clk - Sub /\ n = Guarded(x) /\ n.clk = e.clk
    BY <1>1, <1>4, TakesClock
  <2>2. n.clk + Second + SubMin < ClkMax
    BY <2>1, GuardedType
  <2>3. ClkMax <= m.clk + Second
    BY <1>4 DEF Prompt
  <2>4. e.clk + SubMin < m.clk
    BY <1>2, <2>1, <2>2, <2>3, Numbers
  <2>5. e.clk + Sub = x.clk /\ e.clk + Sub < Modulus
    BY <1>2, <2>1, Numbers
  <2>6. NextAlarm(e, m.clk) = x.clk
    BY <1>2, <2>4, <2>5, FarAlarm
  <2> QED BY <1>1, <1>3, <1>4, <2>6 DEF Awaits
<1>5. CASE e.type = "TIMESTAMP"
  <2>1. n = x
    BY <1>1, <1>5 DEF Takes
  <2>2. x.clk = e.clk \/ (x = m /\ e.clk < m.clk /\ m.clk <= e.clk + SubMin)
    BY <1>5, <2>1 DEF Prompt
  <2>3. m.clk <= e.clk + SubMin
    BY <1>2, <2>2, Numbers
  <2>4. NextAlarm(e, m.clk) = e.clk
    BY <1>2, <2>3, NearAlarm
  <2> QED BY <1>1, <1>3, <1>5, <2>2, <2>4 DEF Awaits
<1>6. CASE e.type \notin {"OVERFLOW", "TIMESTAMP"}
  <2>1. x.clk = e.clk
    BY <1>1, <1>6 DEF Takes
  <2>2. m.clk <= e.clk + SubMin
    BY <1>2, <2>1, Numbers
  <2>3. NextAlarm(e, m.clk) = e.clk
    BY <1>2, <2>2, NearAlarm
  <2> QED BY <1>1, <1>3, <1>6, <2>3 DEF Awaits
<1> QED BY <1>4, <1>5, <1>6

(* The same when the clock guard is about to move the clock.                *)
LEMMA WaitsBehindMove ==
    ASSUME NEW m \in Machines, Strikes(m), m.clk <= Top, NEW e \in Events, NEW n,
           Leads(Guarded(m), e, n), Prompt(e, Guarded(m), n)
    PROVE  LET a == NextAlarm(e, m.clk)
           IN  e.type # "OVERFLOW" /\ a = e.clk + Sub
               /\ Awaits(Guarded(m), Guarded(m), a - Sub, e, n)
<1>1. PICK g : g = Guarded(m)
  OBVIOUS
<1>2. /\ g \in Machines /\ g.clk = m.clk - Sub /\ g.clk + Second + SubMin < ClkMax
      /\ g.clk + SubMin < m.clk /\ ~Strikes(g) /\ ClkMax <= m.clk
  BY <1>1, GuardedType DEF Strikes
<1>3. PICK x \in Machines : RunsTo(g, x) /\ Takes(x, e, n)
  BY <1>1 DEF Leads
<1>4. /\ m.clk \in Nat /\ x.clk \in Nat /\ e.clk \in Nat /\ g.clk \in Nat /\ g.clk <= x.clk
  BY <1>2, <1>3, MachineFields, EventTypes, RunsFacts
<1>5. e.type # "OVERFLOW"
  <2>1. e.type = "OVERFLOW" => ClkMax <= g.clk + Second
    BY <1>1 DEF Prompt
  <2> QED BY <1>2, <1>4, <2>1, Numbers
<1>6. e.clk <= g.clk + Second
  BY <1>1 DEF Prompt
<1>7. e.clk + SubMin < m.clk /\ e.clk + Sub < Modulus
  <2>1. e.clk + SubMin < m.clk
    BY <1>2, <1>4, <1>6, Numbers
  <2>2. e.clk + Sub <= m.clk + Second
    BY <1>2, <1>4, <1>6, Numbers
  <2>3. m.clk + Second < Modulus
    BY <1>4, Numbers
  <2> QED BY <1>4, <2>1, <2>2, <2>3, Numbers
<1>8. NextAlarm(e, m.clk) = e.clk + Sub
  BY <1>4, <1>7, FarAlarm
<1>9. (e.clk + Sub) - Sub = e.clk
  BY <1>4, Numbers
<1>10. RunsTo(g, g)
  BY <1>2, RunsRefl
<1>11. e.type = "TIMESTAMP" => x.clk = e.clk \/ (x = g /\ e.clk < g.clk)
  <2>1. SUFFICES ASSUME e.type = "TIMESTAMP"
                 PROVE  x.clk = e.clk \/ (x = g /\ e.clk < g.clk)
    OBVIOUS
  <2>2. n = x
    BY <1>3, <2>1 DEF Takes
  <2> QED BY <1>1, <2>1, <2>2 DEF Prompt
<1>12. Awaits(g, g, e.clk, e, n)
  BY <1>3, <1>5, <1>10, <1>11 DEF Awaits
<1> QED BY <1>1, <1>5, <1>8, <1>9, <1>12

-----------------------------------------------------------------------------
(* The invariant: a recording, what is saved of it, and its playback have a *)
(* trail.                                                                   *)

(* A reset that is asked for is served before the machine goes on.          *)
Eff == IF resetting THEN Served(machine) ELSE machine

RecTrail(P) ==
    LET n == Len(list)
    IN  /\ Trail(P, list, n - 1, startFile) /\ RunsTo(P[n - 1], Eff)
        /\ list[n].clk = 0 \/ ~Strikes(P[n - 1])
RecInv ==
    record /\ upset = {} =>
        /\ machine.time <= Horizon
        /\ NoEnd(list, Len(list) - 1)
        /\ \E P : RecTrail(P)

FileInv == endFile # NoFile /\ endFile.upset = {} => Playable(endFile, startFile)

(* Playback is between p and n, which event e leaves: the machine m waits   *)
(* for e, or for the clock to be moved back first, or for the alarm after   *)
(* the clock was moved back; or it is to be reset.                          *)
Stage(p, m, a, reset, e, n) ==
    IF reset THEN e.type = "RESETCPU" /\ n = Served(m) /\ a = Unset
    ELSE \/ Awaits(p, m, a, e, n)
         \/ /\ Strikes(m) /\ e.type # "OVERFLOW" /\ Sub <= a
            /\ Awaits(p, Guarded(m), a - Sub, e, n)
         \/ e.type = "OVERFLOW" /\ m = n /\ a = m.clk /\ m.clk < ClkMax

PlayTrail(P) ==
    /\ Trail(P, list, Len(list), startFile) /\ Timed(list, P, Len(list))
    /\ P[Len(list)] = endFile.machine
    /\ Stage(P[current - 1], machine, alarm, resetting, list[current], P[current])
PlayInv ==
    Playing => /\ endFile # NoFile /\ endFile.machine.time <= Horizon
               /\ NoEnd(list, Len(list) - 1)
               /\ \E P : PlayTrail(P)

IInv == TypeOK /\ Shape /\ RecInv /\ FileInv /\ PlayInv

LEMMA EffType ==
    ASSUME TypeOK
    PROVE  Eff \in Machines /\ machine \in Machines
<1>1. machine \in Machines
  BY DEF TypeOK
<1> QED BY <1>1, ServedType DEF Eff

LEMMA RecFacts ==
    ASSUME TypeOK, Shape, RecInv, record, upset = {}
    PROVE  /\ machine.time <= Horizon /\ machine.time \in Nat
           /\ NoEnd(list, Len(list) - 1)
           /\ list # <<>> /\ Len(list) \in Nat /\ 2 <= Len(list)
           /\ \E P : RecTrail(P)
<1>1. list # <<>>
  BY DEF Shape, ListSane
<1>2. Len(list) \in Nat /\ 2 <= Len(list)
  BY <1>1, ListFacts
<1>3. machine.time \in Nat
  BY MachineFields DEF TypeOK
<1> QED BY <1>1, <1>2, <1>3 DEF RecInv

LEMMA RecStays ==
    ASSUME TypeOK, Shape, RecInv, TypeOK', UNCHANGED <<list, startFile>>,
           record' => record, upset' = {} => upset = {},
           record /\ upset = {} => RunsTo(Eff, Eff') /\ machine'.time <= Horizon
    PROVE  RecInv'
<1> SUFFICES ASSUME record, upset = {}  PROVE RecInv'
  BY DEF RecInv
<1>1. machine'.time <= Horizon /\ NoEnd(list', Len(list') - 1)
  BY RecFacts
<1>2. PICK P : RecTrail(P)
  BY RecFacts
<1>3. PICK n \in Nat \ {0} : n = Len(list) - 1
  BY RecFacts
<1>4. Trail(P, list, n, startFile) /\ RunsTo(P[n], Eff) /\ (list[Len(list)].clk = 0 \/ ~Strikes(P[n]))
  BY <1>2, <1>3 DEF RecTrail
<1>5. P[n] \in Machines
  <2>1. n \in 1 .. n
    OBVIOUS
  <2> QED BY <1>4, <2>1 DEF Trail
<1>6. Eff \in Machines
  BY EffType
<1>7. RunsTo(P[n], Eff')
  BY <1>4, <1>5, <1>6, RunsTrans
<1>8. RecTrail(P)'
  BY <1>3, <1>4, <1>7 DEF RecTrail
<1> QED BY <1>1, <1>8 DEF RecInv

LEMMA RecGrows ==
    ASSUME TypeOK, Shape, RecInv, record, upset = {}, ~resetting,
           NEW type \in {"key", "RESETCPU", "OVERFLOW"}, NEW clk \in Clock, clk <= Top,
           list' = Recorded(type, clk), startFile' = startFile,
           Takes(machine, Event(type, clk), Eff'), Eff' \in Machines,
           machine'.time <= Horizon
    PROVE  RecInv'
<1>1. PICK P : RecTrail(P)
  BY RecFacts
<1>2. PICK n \in Nat \ {0} : n = Len(list) - 1
  BY RecFacts
<1>3. Trail(P, list, n, startFile) /\ RunsTo(P[n], machine) /\ NoEnd(list, n)
  BY <1>1, <1>2, RecFacts DEF RecTrail, Eff
<1>4. /\ Len(list') = n + 2
      /\ \A i \in 1 .. n : list'[i] = list[i]
      /\ list'[n + 1] = Event(type, clk) /\ list'[n + 2] = Blank
  <2>1. type \in {"key", "RESETCPU", "OVERFLOW", "LIST_END"}
    OBVIOUS
  <2>2. PICK len \in Nat : len = Len(list) /\ len = n + 1 /\ len - 1 = n /\ len + 1 = n + 2
    BY <1>2, RecFacts
  <2>3. /\ Len(list') = len + 1
        /\ \A i \in 1 .. len - 1 : list'[i] = list[i]
        /\ list'[len] = Event(type, clk) /\ list'[len + 1] = Blank
    BY <2>1, <2>2, RecordedRight
  <2> QED BY <2>2, <2>3
<1>5. machine \in Machines
  BY EffType
<1>6. Leads(P[n], list'[n + 1], Eff')
  BY <1>3, <1>4, <1>5 DEF Leads
<1>7. PICK Q : Grown(Q, P, list', n, startFile, Eff')
  BY <1>3, <1>4, <1>6, TrailGrows
<1>8. Trail(Q, list', n + 1, startFile) /\ Q[n + 1] = Eff'
  BY <1>7 DEF Grown
<1>9. RunsTo(Q[n + 1], Eff')
  BY <1>8, RunsRefl
<1>10. list'[n + 2].clk = 0
  BY <1>4, EventTypes
<1>11. Len(list') - 1 = n + 1
  BY <1>4
<1>12. RecTrail(Q)'
  BY <1>4, <1>8, <1>9, <1>10, <1>11 DEF RecTrail
<1>13. NoEnd(list', Len(list') - 1)
  <2>1. ASSUME NEW i \in 1 .. n + 1  PROVE list'[i].type # "LIST_END"
    <3>1. CASE i \in 1 .. n
      BY <1>3, <1>4, <3>1 DEF NoEnd
    <3>2. CASE i \notin 1 .. n
      <4>1. i = n + 1
        BY <3>2
      <4>2. list'[i].type = type
        BY <1>4, <4>1, EventTypes
      <4> QED BY <4>2
    <3> QED BY <3>1, <3>2
  <2> QED BY <1>11, <2>1 DEF NoEnd
<1> QED BY <1>12, <1>13 DEF RecInv

LEMMA UpsetsNone ==
    ASSUME NEW why, NEW more, why = more \cup Upsets, why = {}
    PROVE  more = {} /\ ~resetting /\ ~GuardDue
<1>1. more = {} /\ Upsets = {}
  OBVIOUS
<1>2. resetting => "hurry" \in Upsets
  BY DEF Upsets
<1>3. GuardDue => "tie" \in Upsets
  BY DEF Upsets
<1> QED BY <1>1, <1>2, <1>3

LEMMA MachineStrikes ==
    ASSUME TypeOK, Shape
    PROVE  /\ machine \in Machines /\ Clocked(machine) /\ (GuardDue <=> Strikes(machine))
           /\ machine.clk \in Clock /\ machine.clk <= Top
BY MachineFields, ClockedTop DEF TypeOK, Shape, GuardDue, Strikes

LEMMA TickRan ==
    ASSUME TypeOK, Shape, Tick
    PROVE  /\ ~Strikes(machine) /\ ~resetting /\ resetting' = FALSE
           /\ (machine.time <= Horizon => machine' = Ran(machine, 1))
<1>1. machine \in Machines /\ ~Strikes(machine) /\ ~resetting /\ Clocked(machine)
  BY MachineStrikes DEF Tick
<1>2. resetting' = FALSE
  BY <1>1 DEF Tick, TypeOK
<1>3. ASSUME machine.time <= Horizon  PROVE machine' = Ran(machine, 1)
  <2> DEFINE clk == machine.clk + 1
             beam == (machine.beam + 1) % FrameLen
             time == machine.time + 1
  <2>1. clk \in Clock /\ Plus(machine.clk, 1) = clk /\ beam \in 0 .. FrameLen - 1
    BY <1>1, Cycle
  <2>2. time \in Nat /\ ~(machine.time > Horizon)
    BY <1>1, <1>3, MachineFields, Numbers
  <2>3. machine' = [machine EXCEPT !.clk = clk, !.beam = beam, !.time = time]
    BY <2>1, <2>2 DEF Tick
  <2> HIDE DEF clk, beam, time
  <2>4. /\ machine' \in Machines /\ machine'.clk = clk /\ machine'.beam = beam
        /\ machine'.time = time /\ machine'.deeds = machine.deeds
    BY <1>1, <2>1, <2>2, <2>3 DEF Machines
  <2>5. machine' = [clk |-> clk, beam |-> beam, time |-> time, deeds |-> machine.deeds]
    <3>1. PICK q \in Machines : q = machine'
      BY <2>4
    <3>2. q = [clk |-> q.clk, beam |-> q.beam, time |-> q.time, deeds |-> q.deeds]
      BY MachineFields
    <3> QED BY <2>4, <3>1, <3>2, Zenon
  <2> QED BY <2>5, Zenon DEF Ran, clk, beam, time
<1> QED BY <1>1, <1>2, <1>3

LEMMA TickRec ==
    ASSUME IInv, TypeOK', Tick
    PROVE  RecInv'
<1>1. TypeOK /\ Shape /\ RecInv
  BY DEF IInv
<1>2. UNCHANGED <<list, startFile>> /\ record' = record /\ upset' = upset
  BY DEF Tick, modes, files
<1>3. ASSUME record, upset = {}  PROVE RunsTo(Eff, Eff') /\ machine'.time <= Horizon
  <2>1. machine.time < Horizon /\ ~resetting
    BY <1>3 DEF Tick
  <2>2. machine \in Machines /\ Clocked(machine) /\ machine.time \in Nat
    BY <1>1, MachineStrikes, MachineFields
  <2>3. machine' = Ran(machine, 1) /\ ~Strikes(machine) /\ resetting' = FALSE
    BY <1>1, <2>1, <2>2, TickRan, Numbers
  <2>4. RunsTo(machine, machine')
    BY <2>2, <2>3, RunsStep
  <2>5. machine'.time = machine.time + 1
    BY <2>2, <2>3, RanFields
  <2> QED BY <2>1, <2>2, <2>3, <2>4, <2>5, Numbers DEF Eff
<1> QED BY <1>1, <1>2, <1>3, RecStays

LEMMA GuardMoves ==
    ASSUME TypeOK, Shape, Guard
    PROVE  /\ machine' = Guarded(machine) /\ machine'.clk = machine.clk - Sub
           /\ machine' \in Machines /\ machine'.time = machine.time
           /\ machine'.deeds = machine.deeds
           /\ machine'.clk \in Clock /\ machine'.clk <= Top
<1>1. machine \in Machines /\ machine.clk >= ClkMax /\ machine.clk <= Top
  BY GuardClock DEF Guard
<1>2. machine' = Guarded(machine)
  <2>1. machine' = [machine EXCEPT !.clk = @ - Sub]
    BY DEF Guard
  <2> QED BY <2>1, Zenon DEF Guarded
<1>3. PICK g : g = Guarded(machine)
  OBVIOUS
<1>4. /\ g \in Machines /\ g.clk = machine.clk - Sub /\ g.time = machine.time
      /\ g.deeds = machine.deeds /\ g.clk \in Clock /\ Clocked(g)
  BY <1>1, <1>3, GuardedType
<1> QED BY <1>2, <1>3, <1>4, ClockedTop

LEMMA GuardRec ==
    ASSUME IInv, TypeOK', Guard
    PROVE  RecInv'
<1>1. TypeOK /\ Shape /\ RecInv
  BY DEF IInv
<1> SUFFICES ASSUME record', upset' = {}  PROVE RecInv'
  BY DEF RecInv
<1>2. record /\ upset = {} /\ ~resetting /\ resetting' = resetting /\ startFile' = startFile
  BY DEF Guard, modes, files
<1>3. /\ machine' = Guarded(machine) /\ machine'.clk = machine.clk - Sub
      /\ machine' \in Machines /\ machine'.time = machine.time
      /\ machine'.clk \in Clock /\ machine'.clk <= Top
  BY <1>1, GuardMoves
<1>4. list' = Recorded("OVERFLOW", machine'.clk)
  BY <1>2 DEF Guard
<1>5. Eff' = machine'
  BY <1>2 DEF Eff
<1>6. Strikes(machine) /\ machine.clk <= Top
  BY <1>1, MachineStrikes DEF Guard
<1>7. PICK c : c = machine'.clk
  OBVIOUS
<1>8. Takes(machine, Event("OVERFLOW", c), Eff')
  <2>1. Event("OVERFLOW", c).type = "OVERFLOW" /\ Event("OVERFLOW", c).clk = c
    BY EventTypes, Zenon
  <2> QED BY <1>3, <1>5, <1>6, <1>7, <2>1 DEF Takes
<1>9. machine'.time <= Horizon
  BY <1>1, <1>2, <1>3, RecFacts
<1> QED BY <1>1, <1>2, <1>3, <1>4, <1>5, <1>7, <1>8, <1>9, RecGrows

LEMMA InputRec ==
    ASSUME IInv, TypeOK', Input
    PROVE  RecInv'
<1>1. TypeOK /\ Shape /\ RecInv
  BY DEF IInv
<1> SUFFICES ASSUME record', upset' = {}  PROVE RecInv'
  BY DEF RecInv
<1>2. record /\ resetting' = resetting /\ startFile' = startFile
  BY DEF Input, modes, files
<1>3. upset = {} /\ ~resetting /\ ~GuardDue
  <2>1. upset' = upset \cup Upsets
    BY <1>2 DEF Input
  <2> QED BY <2>1, UpsetsNone
<1>4. machine \in Machines /\ ~Strikes(machine) /\ machine.clk \in Clock /\ machine.clk <= Top
  BY <1>1, <1>3, MachineStrikes
<1>5. machine' = Done(machine, "key") /\ machine' \in Machines /\ machine'.time = machine.time
  <2>1. machine' = Done(machine, "key")
    BY Zenon DEF Input, Do, Done
  <2> QED BY <1>4, <2>1, DoneType
<1>6. list' = Recorded("key", machine.clk)
  BY <1>2 DEF Input, RecordInList
<1>7. Eff' = machine'
  BY <1>2, <1>3 DEF Eff
<1>8. PICK c : c = machine.clk
  OBVIOUS
<1>9. Takes(machine, Event("key", c), Eff')
  <2>1. Event("key", c).type = "key" /\ Event("key", c).clk = c
    BY EventTypes, Zenon
  <2> QED BY <1>4, <1>5, <1>7, <1>8, <2>1 DEF Takes
<1>10. machine'.time <= Horizon
  BY <1>1, <1>2, <1>3, <1>5, RecFacts
<1> QED BY <1>1, <1>2, <1>3, <1>4, <1>5, <1>6, <1>7, <1>8, <1>9, <1>10, RecGrows

LEMMA TriggerResetRec ==
    ASSUME IInv, TypeOK', TriggerReset
    PROVE  RecInv'
<1>1. TypeOK /\ Shape /\ RecInv
  BY DEF IInv
<1> SUFFICES ASSUME record', upset' = {}  PROVE RecInv'
  BY DEF RecInv
<1>2. record /\ resetting' = TRUE /\ startFile' = startFile /\ machine' = machine
  BY DEF TriggerReset, modes, files
<1>3. upset = {} /\ ~resetting /\ ~GuardDue
  <2>1. upset' = upset \cup Upsets
    BY <1>2 DEF TriggerReset
  <2> QED BY <2>1, UpsetsNone
<1>4. machine \in Machines /\ ~Strikes(machine) /\ machine.clk \in Clock /\ machine.clk <= Top
  BY <1>1, <1>3, MachineStrikes
<1>5. Eff' = Served(machine) /\ Eff' \in Machines
  BY <1>2, <1>4, ServedType DEF Eff
<1>6. list' = Recorded("RESETCPU", machine.clk)
  BY <1>2 DEF TriggerReset, RecordInList
<1>7. PICK c : c = machine.clk
  OBVIOUS
<1>8. Takes(machine, Event("RESETCPU", c), Eff')
  <2>1. Event("RESETCPU", c).type = "RESETCPU" /\ Event("RESETCPU", c).clk = c
    BY EventTypes, Zenon
  <2> QED BY <1>4, <1>5, <1>7, <2>1 DEF Takes
<1>9. machine'.time <= Horizon
  BY <1>1, <1>2, <1>3, RecFacts
<1> QED BY <1>1, <1>2, <1>3, <1>4, <1>5, <1>6, <1>7, <1>8, <1>9, RecGrows

LEMMA ServeMachine ==
    ASSUME ServeReset
    PROVE  machine' = Served(machine) /\ resetting' = FALSE /\ Eff = machine' /\ Eff' = machine'
<1>1. machine' = Served(machine)
  BY Zenon DEF ServeReset, Do, Served, Done
<1>2. resetting /\ resetting' = FALSE
  BY DEF ServeReset
<1> QED BY <1>1, <1>2 DEF Eff

LEMMA ServeResetRec ==
    ASSUME IInv, TypeOK', ServeReset
    PROVE  RecInv'
<1>1. TypeOK /\ Shape /\ RecInv
  BY DEF IInv
<1>2. UNCHANGED <<list, startFile>> /\ record' = record
  BY DEF ServeReset, files
<1>3. upset' = {} => upset = {}
  BY DEF ServeReset
<1>4. ASSUME record, upset = {}  PROVE RunsTo(Eff, Eff') /\ machine'.time <= Horizon
  <2>1. Eff' \in Machines /\ Eff = Eff'
    BY <1>1, ServeMachine, EffType
  <2>2. machine'.time = machine.time
    <3>1. machine \in Machines /\ machine' = Served(machine)
      BY <1>1, EffType, ServeMachine
    <3>2. Served(machine).time = machine.time
      BY <3>1, ServedType
    <3> QED BY <3>1, <3>2, Zenon
  <2>3. machine.time <= Horizon
    BY <1>1, <1>4, RecFacts
  <2> QED BY <2>1, <2>2, <2>3, RunsRefl
<1> QED BY <1>1, <1>2, <1>3, <1>4, RecStays

LEMMA SameRec ==
    ASSUME IInv, TypeOK', UNCHANGED <<machine, resetting, list, startFile>>,
           record' => record, upset' = {} => upset = {}
    PROVE  RecInv'
<1>1. TypeOK /\ Shape /\ RecInv
  BY DEF IInv
<1>2. Eff' = Eff /\ Eff \in Machines
  BY <1>1, EffType DEF Eff
<1>3. record /\ upset = {} => machine'.time <= Horizon
  BY <1>1, RecFacts
<1> QED BY <1>1, <1>2, <1>3, RunsRefl, RecStays

LEMMA BeginsNone ==
    ASSUME NEW why, Begins(why) = {}
    PROVE  why = {} /\ ~resetting
BY DEF Begins

(* A recording that has just begun.                                         *)
LEMMA RecBegins ==
    ASSUME TypeOK', NEW type \in Starts, NEW clk \in Clock, NEW m,
           list' = <<Event(type, clk), Blank>>, machine' = m, resetting' = FALSE,
           m.time = 0, First(Event(type, clk), startFile', m)
    PROVE  RecInv'
<1>1. machine' \in Machines
  BY DEF TypeOK
<1>2. Eff' = m /\ m \in Machines
  BY <1>1 DEF Eff
<1>3. Len(list') = 2 /\ list'[1] = Event(type, clk) /\ list'[2] = Blank
  BY DEF Event, Blank
<1>4. Event(type, clk).type \in Starts /\ Blank.clk = 0
  BY EventTypes
<1>5. 0 <= Horizon
  BY Numbers
<1> DEFINE P == [i \in 1 .. 1 |-> m]
<1>6. P[1] = m
  OBVIOUS
<1> HIDE DEF P
<1>7. Trail(P, list', 1, startFile')
  BY <1>2, <1>3, <1>6 DEF Trail
<1>8. RunsTo(P[1], Eff')
  BY <1>2, <1>6, RunsRefl
<1>9. list'[2].clk = 0
  BY <1>3, <1>4
<1>10. PICK n : n = Len(list') /\ n = 2 /\ n - 1 = 1
  BY <1>3
<1>11. RecTrail(P)'
  BY <1>7, <1>8, <1>9, <1>10 DEF RecTrail
<1>12. NoEnd(list', Len(list') - 1)
  <2>1. list'[1].type # "LIST_END"
    BY <1>3, <1>4 DEF Starts
  <2> QED BY <1>3, <2>1 DEF NoEnd
<1>13. machine'.time <= Horizon
  BY <1>5
<1> QED BY <1>11, <1>12, <1>13 DEF RecInv

LEMMA RecordStartSaveRec ==
    ASSUME IInv, TypeOK', RecordStartSave
    PROVE  RecInv'
<1> SUFFICES ASSUME upset' = {}  PROVE RecInv'
  BY DEF RecInv
<1>1. TypeOK /\ machine \in Machines
  BY DEF IInv, TypeOK
<1> DEFINE m == Begun(machine.clk, machine.beam)
<1>2. machine' = m /\ startFile' = m /\ list' = <<Event("INITIAL_SAVE", m.clk), Blank>>
      /\ upset' = Begins(Both) /\ resetting' = resetting
  BY DEF RecordStartSave
<1>3. m \in Machines /\ m.time = 0 /\ m.clk \in Clock
  BY <1>1, BegunType, MachineFields
<1> HIDE DEF m
<1>4. resetting' = FALSE
  BY <1>1, <1>2, BeginsNone DEF TypeOK
<1>5. PICK c \in Clock : c = m.clk
  BY <1>3
<1>6. First(Event("INITIAL_SAVE", c), startFile', m)
  <2>1. Event("INITIAL_SAVE", c).type = "INITIAL_SAVE" /\ Event("INITIAL_SAVE", c).clk = c
    BY EventTypes, Zenon
  <2> QED BY <1>2, <1>3, <1>5, <2>1 DEF First
<1>7. "INITIAL_SAVE" \in Starts
  BY DEF Starts
<1> QED BY <1>2, <1>3, <1>4, <1>5, <1>6, <1>7, RecBegins

LEMMA RecordStartResetRec ==
    ASSUME IInv, TypeOK', RecordStartReset
    PROVE  RecInv'
<1> SUFFICES ASSUME upset' = {}  PROVE RecInv'
  BY DEF RecInv
<1>1. TypeOK /\ machine \in Machines
  BY DEF IInv, TypeOK
<1>2. upset' = Both /\ ~playback
  BY DEF RecordStartReset, Both
<1> DEFINE m == Begun(ResetClk, 0)
<1>3. machine' = m /\ list' = <<Event("INITIAL_RESET", machine.clk), Blank>>
      /\ resetting' = FALSE
  BY <1>2 DEF RecordStartReset
<1>4. m \in Machines /\ m.time = 0
  BY BegunReset
<1>5. PICK c \in Clock : c = machine.clk
  BY <1>1, MachineFields
<1>6. First(Event("INITIAL_RESET", c), startFile', m)
  <2>1. Event("INITIAL_RESET", c).type = "INITIAL_RESET"
    BY EventTypes, Zenon
  <2> QED BY <2>1 DEF First
<1>7. "INITIAL_RESET" \in Starts
  BY DEF Starts
<1> HIDE DEF m
<1> QED BY <1>3, <1>4, <1>5, <1>6, <1>7, RecBegins

(* A recording that goes on where the saved one ends.                       *)
LEMMA RecContinues ==
    ASSUME IInv, TypeOK', endFile # NoFile, endFile.upset = {},
           list' = WarpEnd(Load(endFile.list).list), machine' = endFile.machine,
           resetting' = FALSE, startFile' = startFile
    PROVE  RecInv'
<1>1. Playable(endFile, startFile) /\ FileSane(endFile) /\ endFile.machine \in Machines
  <2>1. TypeOK /\ Shape /\ FileInv
    BY DEF IInv
  <2> QED BY <2>1, FileFacts DEF FileInv, Shape
<1>2. PICK r : r = Load(endFile.list).list
  OBVIOUS
<1>3. Shaped(r) /\ NoEnd(r, Len(r) - 1) /\ Shaped(endFile.list)
  BY <1>1, <1>2, LoadShaped DEF FileSane
<1>4. PICK n \in Nat \ {0} : n = Len(r) - 1 /\ n + 1 = Len(r)
  <2>1. Len(r) \in Nat /\ 2 <= Len(r)
    BY <1>3, LengthType DEF Shaped
  <2> QED BY <2>1
<1>5. PICK Q : Trail(Q, r, n, startFile) /\ RunsTo(Q[n], endFile.machine)
  BY <1>1, <1>2, <1>4, LoadToContinue
<1>6. /\ Len(list') = n + 1 /\ Len(list') - 1 = n
      /\ \A i \in 1 .. n : list'[i] = r[i]
  <2>1. list' = WarpEnd(r)
    BY <1>2
  <2>2. Len(list') = Len(r) /\ \A i \in 1 .. Len(r) - 1 : list'[i] = r[i]
    BY <1>3, <2>1, WarpEndShaped
  <2> QED BY <1>4, <2>2
<1>7. list'[n + 1] = Blank
  <2>1. list' = Front(r) \o <<Blank>>
    BY <1>2 DEF WarpEnd
  <2>2. r \in Seq(Events) /\ n \in 0 .. Len(r) /\ Blank \in Events
    BY <1>3, <1>4, EventTypes DEF Shaped
  <2>3. Front(r) = SubSeq(r, 1, n)
    BY <1>4 DEF Front
  <2>4. PICK s : s = SubSeq(r, 1, n) \o <<Blank>>
    OBVIOUS
  <2>5. s[n + 1] = Blank
    BY <2>2, <2>4, PrefixAndOne
  <2>6. list' = s
    BY <2>1, <2>3, <2>4
  <2> QED BY <2>5, <2>6
<1>8. Trail(Q, list', n, startFile)
  BY <1>5, <1>6, TrailAgrees
<1>9. Eff' = endFile.machine
  BY DEF Eff
<1>10. list'[n + 1].clk = 0
  BY <1>7, EventTypes
<1>11. RecTrail(Q)'
  BY <1>5, <1>6, <1>8, <1>9, <1>10 DEF RecTrail
<1>12. NoEnd(list', Len(list') - 1)
  BY <1>3, <1>4, <1>6 DEF NoEnd
<1>13. machine'.time <= Horizon
  BY <1>1 DEF Playable
<1> QED BY <1>11, <1>12, <1>13 DEF RecInv

LEMMA RecordStartLoadRec ==
    ASSUME IInv, TypeOK', RecordStartLoad
    PROVE  RecInv'
<1> SUFFICES ASSUME upset' = {}  PROVE RecInv'
  BY DEF RecInv
<1>1. endFile # NoFile /\ list' = WarpEnd(Load(endFile.list).list)
      /\ machine' = endFile.machine /\ startFile' = startFile /\ resetting' = resetting
      /\ upset' = Begins(endFile.upset \cup Both)
  BY DEF RecordStartLoad, files
<1>2. endFile.upset \cup Both = {} /\ ~resetting
  BY <1>1, BeginsNone
<1>3. endFile.upset = {}
  BY <1>2
<1>4. resetting' = FALSE
  BY <1>1, <1>2 DEF IInv, TypeOK
<1> QED BY <1>1, <1>3, <1>4, RecContinues

LEMMA ResetMilestoneRec ==
    ASSUME IInv, TypeOK', ResetMilestone
    PROVE  RecInv'
<1> SUFFICES ASSUME upset' = {}  PROVE RecInv'
  BY DEF RecInv
<1>1. endFile # NoFile /\ list' = WarpEnd(Load(endFile.list).list)
      /\ machine' = endFile.machine /\ startFile' = startFile /\ resetting' = resetting
      /\ upset' = Begins(endFile.upset)
  BY DEF ResetMilestone, files
<1>2. endFile.upset = {} /\ ~resetting
  BY <1>1, BeginsNone
<1>3. resetting' = FALSE
  BY <1>1, <1>2 DEF IInv, TypeOK
<1> QED BY <1>1, <1>2, <1>3, RecContinues

LEMMA FileStays ==
    ASSUME FileInv, UNCHANGED files
    PROVE  FileInv'
BY DEF FileInv, files, Playable

LEMMA RecordStartSaveFile ==
    ASSUME IInv, RecordStartSave
    PROVE  FileInv'
<1>1. CASE endFile = NoFile
  <2>1. endFile' = NoFile
    BY <1>1 DEF RecordStartSave
  <2> QED BY <2>1 DEF FileInv
<1>2. CASE endFile # NoFile
  <2>1. endFile' = [endFile EXCEPT !.upset = @ \cup {"stale"}]
    BY <1>2 DEF RecordStartSave
  <2>2. endFile \in EndFiles
    BY <1>2 DEF IInv, TypeOK
  <2>3. endFile'.upset = endFile.upset \cup {"stale"}
    BY <2>1, <2>2 DEF EndFiles
  <2>4. endFile'.upset # {}
    BY <2>3
  <2> QED BY <2>4 DEF FileInv
<1> QED BY <1>1, <1>2

LEMMA StoppedFile ==
    ASSUME TypeOK, Shape, RecInv, record, upset = {}, ~resetting, ~GuardDue
    PROVE  LET s == Recorded("LIST_END", machine.clk)
           IN  \E Q : Trail(Q, Kept(s), EndOf(Kept(s)), startFile) /\ Q[EndOf(Kept(s))] = machine
<1>1. PICK s, c : s = Recorded("LIST_END", machine.clk) /\ c = machine.clk
  OBVIOUS
<1>2. machine \in Machines /\ ~Strikes(machine) /\ c \in Clock /\ c <= Top
  BY <1>1, MachineStrikes
<1>3. PICK P : RecTrail(P)
  BY RecFacts
<1>4. PICK n \in Nat \ {0} : n = Len(list) - 1
  BY RecFacts
<1>5. Trail(P, list, n, startFile) /\ RunsTo(P[n], machine) /\ NoEnd(list, n)
  BY <1>3, <1>4, RecFacts DEF RecTrail, Eff
<1>6. /\ Shaped(s) /\ Len(s) = n + 2
      /\ \A i \in 1 .. n : s[i] = list[i]
      /\ s[n + 1] = Event("LIST_END", c)
  <2>1. PICK len \in Nat : len = Len(list) /\ len = n + 1 /\ len - 1 = n /\ len + 1 = n + 2
    BY <1>4, RecFacts
  <2>2. /\ Shaped(s) /\ Len(s) = len + 1
        /\ \A i \in 1 .. len - 1 : s[i] = list[i]
        /\ s[len] = Event("LIST_END", c)
    BY <1>1, <1>2, <2>1, RecordedRight
  <2> QED BY <2>1, <2>2
<1>7. Event("LIST_END", c).type = "LIST_END" /\ Event("LIST_END", c).clk = c
  BY EventTypes, Zenon
<1>8. Takes(machine, s[n + 1], machine)
  BY <1>1, <1>2, <1>6, <1>7 DEF Takes
<1>9. Leads(P[n], s[n + 1], machine)
  BY <1>2, <1>5, <1>8 DEF Leads
<1>10. PICK Q : Grown(Q, P, s, n, startFile, machine)
  BY <1>5, <1>6, <1>9, TrailGrows
<1>11. PICK m \in Nat : m = n + 1
  OBVIOUS
<1>12. Trail(Q, s, m, startFile) /\ Q[m] = machine
  BY <1>10, <1>11 DEF Grown
<1>13. m \in 2 .. Len(s) /\ m >= Len(s) - 1 /\ s[m].type = "LIST_END" /\ m - 1 = n
  BY <1>6, <1>7, <1>11
<1>14. NoEnd(s, m - 1)
  BY <1>5, <1>6, <1>13 DEF NoEnd
<1>15. \E R : Trail(R, Kept(s), EndOf(Kept(s)), startFile) /\ R[EndOf(Kept(s))] = Q[m]
  BY <1>6, <1>12, <1>13, <1>14, SavedTrail
<1> QED BY <1>1, <1>12, <1>15

LEMMA RecordStopFile ==
    ASSUME IInv, RecordStop
    PROVE  FileInv'
<1> SUFFICES ASSUME endFile'.upset = {}  PROVE Playable(endFile', startFile')
  BY DEF FileInv
<1>1. TypeOK /\ Shape /\ RecInv /\ record /\ startFile' = startFile
  BY DEF IInv, RecordStop
<1>2. PICK s : s = Recorded("LIST_END", machine.clk)
  OBVIOUS
<1>3. list' = s
  BY <1>2 DEF RecordStop, RecordInList
<1>4. endFile' = Save(s, TRUE, upset \cup Upsets)
  BY <1>3 DEF RecordStop
<1>5. endFile'.list = Kept(s) /\ endFile'.machine = machine /\ endFile'.over = TRUE
      /\ endFile'.upset = upset \cup Upsets
  BY <1>4 DEF Save
<1>6. upset = {} /\ ~resetting /\ ~GuardDue
  BY <1>5, UpsetsNone
<1>7. \E Q : Trail(Q, Kept(s), EndOf(Kept(s)), startFile) /\ Q[EndOf(Kept(s))] = machine
  BY <1>1, <1>2, <1>6, StoppedFile
<1>8. machine.time <= Horizon
  BY <1>1, <1>6, RecFacts
<1> QED BY <1>1, <1>5, <1>7, <1>8 DEF Playable

LEMMA SetMilestoneFile ==
    ASSUME IInv, SetMilestone
    PROVE  FileInv'
<1> SUFFICES ASSUME endFile'.upset = {}  PROVE Playable(endFile', startFile')
  BY DEF FileInv
<1>1. TypeOK /\ Shape /\ RecInv /\ record /\ startFile' = startFile
  BY DEF IInv, SetMilestone
<1>2. endFile' = Save(list, FALSE, Begins(upset))
  BY DEF SetMilestone
<1>3. endFile'.list = Kept(list) /\ endFile'.machine = machine /\ endFile'.over = FALSE
      /\ endFile'.upset = Begins(upset)
  BY <1>2 DEF Save
<1>4. upset = {} /\ ~resetting
  BY <1>3, BeginsNone
<1>5. machine.time <= Horizon /\ NoEnd(list, Len(list) - 1) /\ list # <<>>
  BY <1>1, <1>4, RecFacts
<1>6. Shaped(list)
  BY <1>1, <1>5, ListFacts
<1>7. PICK P : RecTrail(P)
  BY <1>1, <1>4, RecFacts
<1>8. PICK n \in Nat \ {0} : n = Len(list) - 1
  BY <1>1, <1>4, RecFacts
<1>9. /\ Trail(P, list, n, startFile) /\ RunsTo(P[n], machine)
      /\ list[Len(list)].clk = 0 \/ ~Strikes(P[n])
  BY <1>4, <1>7, <1>8 DEF RecTrail, Eff
<1>10. PICK s, e : s = Kept(list) /\ e = EndOf(s)
  OBVIOUS
<1>11. s[e] = list[Len(list)] /\ \E Q : Trail(Q, s, e - 1, startFile) /\ RunsTo(Q[e - 1], P[n])
  <2>1. Trail(P, list, Len(list) - 1, startFile)
    BY <1>8, <1>9
  <2> QED BY <1>5, <1>6, <1>8, <1>10, <2>1, SavedMilestone
<1>12. PICK Q : Trail(Q, s, e - 1, startFile) /\ RunsTo(Q[e - 1], P[n])
  BY <1>11
<1>13. P[n] \in Machines /\ Q[e - 1] \in Machines
  <2>1. n \in 1 .. n
    OBVIOUS
  <2>2. e - 1 \in 1 .. e - 1
    <3>1. Shaped(s)
      BY <1>6, <1>10, KeptShaped
    <3>2. e \in 2 .. Len(s)
      BY <1>10, <3>1, EndOfShaped
    <3> QED BY <3>2
  <2> QED BY <1>9, <1>12, <2>1, <2>2 DEF Trail
<1>14. RunsTo(Q[e - 1], machine)
  BY <1>9, <1>12, <1>13, RunsTrans
<1>15. Strikes(Q[e - 1]) => Strikes(P[n])
  BY <1>12, <1>13, RunsFacts
<1>16. s[e].clk = 0 \/ ~Strikes(Q[e - 1])
  BY <1>9, <1>11, <1>15
<1> QED BY <1>1, <1>3, <1>5, <1>10, <1>12, <1>14, <1>16 DEF Playable

LEMMA StageAfter ==
    ASSUME NEW p, NEW m \in Machines, m.clk <= Top, NEW a, NEW reset, NEW e, NEW n \in Machines,
           Stage(p, m, a, reset, e, n)
    PROVE  After(m, n)
<1>1. CASE n = Served(m)
  BY <1>1, ServedType, AfterDone
<1>2. CASE Awaits(p, m, a, e, n)
  BY <1>2, AwaitsAfter
<1>3. CASE Strikes(m) /\ Awaits(p, Guarded(m), a - Sub, e, n)
  <2>1. PICK g : g = Guarded(m)
    OBVIOUS
  <2>2. g \in Machines /\ g.time = m.time /\ g.deeds = m.deeds
    BY <1>3, <2>1, GuardedType DEF Strikes
  <2>3. After(g, n)
    BY <1>3, <2>1, <2>2, AwaitsAfter
  <2> QED BY <2>2, <2>3 DEF After
<1>4. CASE m = n
  BY <1>4, RunsRefl, AfterRuns
<1> QED BY <1>1, <1>2, <1>3, <1>4 DEF Stage

LEMMA PlayFacts ==
    ASSUME TypeOK, Shape, PlayInv, Playing, NEW P, PlayTrail(P)
    PROVE  /\ endFile # NoFile /\ endFile.machine \in Machines
           /\ list # <<>> /\ Len(list) \in Nat
           /\ current \in 2 .. Len(list) /\ current \in Nat /\ list[current] \in Events
           /\ P[current - 1] \in Machines /\ P[current] \in Machines /\ machine \in Machines
           /\ machine.clk \in Nat /\ machine.clk <= Top
           /\ Stage(P[current - 1], machine, alarm, resetting, list[current], P[current])
           /\ After(machine, endFile.machine)
           /\ machine.time <= Horizon
<1>1. endFile # NoFile /\ endFile.machine.time <= Horizon
  BY DEF PlayInv
<1>2. endFile.machine \in Machines
  BY <1>1, FileFacts
<1>3. list # <<>>
  BY DEF Playing, Shape, ListSane
<1>4. Len(list) \in Nat /\ current \in 2 .. Len(list) /\ list[current] \in Events /\ current \in Nat
  BY <1>3, ListFacts
<1>5. /\ Trail(P, list, Len(list), startFile) /\ P[Len(list)] = endFile.machine
      /\ Stage(P[current - 1], machine, alarm, resetting, list[current], P[current])
  BY DEF PlayTrail
<1>6. current \in 1 .. Len(list) /\ current - 1 \in 1 .. Len(list)
  BY <1>4
<1>7. P[current - 1] \in Machines /\ P[current] \in Machines
  BY <1>5, <1>6 DEF Trail
<1>8. machine \in Machines /\ machine.clk <= Top /\ machine.clk \in Nat
  BY MachineStrikes, MachineFields
<1>9. After(machine, P[current])
  BY <1>5, <1>7, <1>8, StageAfter
<1>10. After(P[current], endFile.machine)
  BY <1>4, <1>5, <1>6, TrailAfter
<1>11. After(machine, endFile.machine)
  BY <1>2, <1>7, <1>8, <1>9, <1>10, AfterTrans
<1>12. machine.time <= Horizon
  <2>1. machine.time <= endFile.machine.time
    BY <1>11 DEF After
  <2>2. machine.time \in Nat /\ endFile.machine.time \in Nat /\ Horizon \in Nat
    BY <1>2, <1>8, MachineFields, Numbers
  <2> QED BY <1>1, <2>1, <2>2
<1> QED BY <1>1, <1>2, <1>3, <1>4, <1>5, <1>7, <1>8, <1>11, <1>12

LEMMA PlayKept ==
    ASSUME PlayInv, Playing, NEW P, PlayTrail(P), UNCHANGED <<list, startFile, endFile>>,
           Stage(P[current' - 1], machine', alarm', resetting', list[current'], P[current'])
    PROVE  PlayInv'
<1>1. /\ Trail(P, list, Len(list), startFile) /\ Timed(list, P, Len(list))
      /\ P[Len(list)] = endFile.machine
  BY DEF PlayTrail
<1>2. PlayTrail(P)'
  BY <1>1 DEF PlayTrail
<1>3. endFile' # NoFile /\ endFile'.machine.time <= Horizon /\ NoEnd(list', Len(list') - 1)
  BY DEF PlayInv
<1> QED BY <1>2, <1>3 DEF PlayInv

(* Playback goes on to event c.                                             *)
LEMMA PlayOn ==
    ASSUME NEW events \in Seq(Events), NEW start, NEW P, NEW k \in Nat,
           Trail(P, events, k, start), Timed(events, P, k),
           k <= Len(events), NEW c \in 2 .. k, NEW m \in Machines,
           m = P[c - 1] \/ (Strikes(m) /\ m.clk <= Top /\ P[c - 1] = Guarded(m))
    PROVE  Stage(P[c - 1], m, NextAlarm(events[c], m.clk), FALSE, events[c], P[c])
<1>1. PICK e \in Events : e = events[c]
  <2>1. c \in 1 .. Len(events)
    BY LengthType
  <2> QED BY <2>1, LengthType
<1>2. PICK n, p : n = P[c] /\ p = P[c - 1]
  OBVIOUS
<1>3. Leads(p, e, n) /\ Prompt(e, p, n)
  BY <1>1, <1>2 DEF Trail, Timed
<1>4. CASE m = p
  <2>1. Awaits(p, m, NextAlarm(e, m.clk), e, n)
    BY <1>3, <1>4, WaitsForNext
  <2> QED BY <1>1, <1>2, <2>1 DEF Stage
<1>5. CASE Strikes(m) /\ m.clk <= Top /\ p = Guarded(m)
  <2>1. PICK a : a = NextAlarm(e, m.clk)
    OBVIOUS
  <2>2. e.type # "OVERFLOW" /\ a = e.clk + Sub /\ Awaits(p, Guarded(m), a - Sub, e, n)
    BY <1>3, <1>5, <2>1, WaitsBehindMove
  <2>3. Sub <= a
    BY <2>2, EventTypes, Numbers
  <2> QED BY <1>1, <1>2, <1>5, <2>1, <2>2, <2>3 DEF Stage
<1> QED BY <1>2, <1>4, <1>5

LEMMA AwaitsAlarm ==
    ASSUME NEW p, NEW m, NEW a, NEW e \in Events, NEW n, Awaits(p, m, a, e, n)
    PROVE  a \in Nat /\ a # Unset
<1>1. PICK x \in Machines : a = IF e.type = "OVERFLOW" THEN x.clk ELSE e.clk
  BY DEF Awaits
<1>2. a \in Nat
  BY <1>1, MachineFields, EventTypes
<1> QED BY <1>2 DEF Unset

LEMMA TickPlay ==
    ASSUME IInv, Tick
    PROVE  PlayInv'
<1>1. TypeOK /\ Shape /\ PlayInv
  BY DEF IInv
<1> SUFFICES ASSUME Playing  PROVE PlayInv'
  BY DEF PlayInv, Playing, Tick, modes
<1>2. PICK P : PlayTrail(P)
  BY <1>1 DEF PlayInv
<1>3. PICK p \in Machines, n \in Machines, e \in Events :
          /\ p = P[current - 1] /\ n = P[current] /\ e = list[current]
          /\ Stage(p, machine, alarm, resetting, e, n)
  BY <1>1, <1>2, PlayFacts
<1>4. machine \in Machines /\ machine.clk \in Nat /\ machine.time <= Horizon
  BY <1>1, <1>2, PlayFacts
<1>5. ~Strikes(machine) /\ ~resetting /\ resetting' = FALSE /\ machine' = Ran(machine, 1)
  BY <1>1, <1>4, TickRan
<1>6. ~Due /\ alarm' = alarm /\ current' = current /\ UNCHANGED <<list, startFile, endFile>>
  BY DEF Tick, files
<1>7. Awaits(p, machine, alarm, e, n) \/ alarm = machine.clk
  BY <1>3, <1>5 DEF Stage
<1>8. alarm \in Nat /\ alarm # Unset
  BY <1>4, <1>7, AwaitsAlarm DEF Unset
<1>9. machine.clk < alarm
  BY <1>4, <1>6, <1>8 DEF Due
<1>10. Awaits(p, Ran(machine, 1), alarm, e, n)
  <2>1. Clocked(machine)
    BY <1>1, MachineStrikes
  <2>2. Awaits(p, machine, alarm, e, n)
    BY <1>4, <1>7, <1>9
  <2> QED BY <1>4, <1>5, <1>9, <2>1, <2>2, AwaitsRuns
<1>11. Stage(p, machine', alarm', resetting', e, n)
  BY <1>5, <1>6, <1>10 DEF Stage
<1> QED BY <1>1, <1>2, <1>3, <1>6, <1>11, PlayKept

(* A move of the clock does not disturb what else is done to the machine.   *)
LEMMA GuardedDone ==
    ASSUME NEW m \in Machines, m.clk >= ClkMax, m.clk <= Top
    PROVE  /\ Served(Guarded(m)) = Served(m)
           /\ Guarded(Done(m, "key")) = Done(Guarded(m), "key")
<1>1. PICK g : g = Guarded(m)
  OBVIOUS
<1>2. g \in Machines /\ g.clk = m.clk - Sub /\ g.beam = m.beam /\ g.time = m.time /\ g.deeds = m.deeds
  BY <1>1, GuardedType
<1>3. Served(g) = Served(m)
  <2>1. PICK a \in Machines : /\ a = Served(g) /\ a.clk = ResetClk /\ a.beam = 0 /\ a.time = g.time
                              /\ a.deeds = Append(g.deeds, [what |-> "reset", time |-> g.time])
    BY <1>2, ServedType
  <2>2. PICK b \in Machines : /\ b = Served(m) /\ b.clk = ResetClk /\ b.beam = 0 /\ b.time = m.time
                              /\ b.deeds = Append(m.deeds, [what |-> "reset", time |-> m.time])
    BY ServedType
  <2>3. a.deeds = b.deeds
    BY <1>2, <2>1, <2>2
  <2>4. a = b
    BY <1>2, <2>1, <2>2, <2>3, MachineFields
  <2> QED BY <2>1, <2>2, <2>4
<1>4. Guarded(Done(m, "key")) = Done(g, "key")
  <2>1. PICK a \in Machines : /\ a = Done(m, "key") /\ a.clk = m.clk /\ a.beam = m.beam
                              /\ a.time = m.time
                              /\ a.deeds = Append(m.deeds, [what |-> "key", time |-> m.time])
    BY DoneType
  <2>2. PICK b \in Machines : /\ b = Guarded(a) /\ b.clk = a.clk - Sub /\ b.beam = a.beam
                              /\ b.time = a.time /\ b.deeds = a.deeds
    BY <2>1, GuardedType
  <2>3. PICK c \in Machines : /\ c = Done(g, "key") /\ c.clk = g.clk /\ c.beam = g.beam
                              /\ c.time = g.time
                              /\ c.deeds = Append(g.deeds, [what |-> "key", time |-> g.time])
    BY <1>2, DoneType
  <2>4. b.deeds = c.deeds
    BY <1>2, <2>1, <2>2, <2>3
  <2>5. b.clk = c.clk /\ b.beam = c.beam /\ b.time = c.time
    BY <1>2, <2>1, <2>2, <2>3
  <2>6. b = c
    BY <2>4, <2>5, MachineFields
  <2> QED BY <2>1, <2>2, <2>3, <2>6
<1> QED BY <1>1, <1>3, <1>4

LEMMA GuardPlay ==
    ASSUME IInv, Guard
    PROVE  PlayInv'
<1>1. TypeOK /\ Shape /\ PlayInv
  BY DEF IInv
<1>2. UNCHANGED <<playback, record, startFile, endFile, resetting>>
  BY DEF Guard, modes, files
<1>3. upset' = {} => upset = {}
  BY DEF Guard
<1> SUFFICES ASSUME Playing  PROVE PlayInv'
  BY <1>2, <1>3 DEF PlayInv, Playing
<1>4. PICK P : PlayTrail(P)
  BY <1>1 DEF PlayInv
<1>5. PICK p \in Machines, n \in Machines, e \in Events :
          /\ p = P[current - 1] /\ n = P[current] /\ e = list[current]
          /\ Stage(p, machine, alarm, resetting, e, n)
  BY <1>1, <1>4, PlayFacts
<1>6. list' = list /\ current' = current
  BY DEF Playing, Guard
<1>7. PICK m \in Machines : m = machine /\ Strikes(m) /\ m.clk >= ClkMax /\ m.clk <= Top /\ m.clk \in Nat
  BY <1>1, GuardClock DEF Guard
<1>8. PICK g \in Machines : /\ g = Guarded(m) /\ machine' = g /\ g.clk = m.clk - Sub
                            /\ g.clk + Second + SubMin < ClkMax /\ g.clk \in Nat
  <2>1. machine' = Guarded(m)
    BY <1>1, <1>7, GuardMoves
  <2>2. Guarded(m) \in Machines /\ Guarded(m).clk = m.clk - Sub
        /\ Guarded(m).clk + Second + SubMin < ClkMax
    BY <1>7, GuardedType
  <2> QED BY <2>1, <2>2, MachineFields
<1>9. alarm' = IF alarm = Unset THEN Unset ELSE Minus(alarm, Sub)
  BY DEF Guard
<1>10. ASSUME alarm \in Nat, Sub <= alarm  PROVE alarm' = alarm - Sub
  <2>1. alarm \in Clock /\ Sub \in Nat
    BY <1>1, <1>10, Numbers DEF TypeOK, Unset
  <2>2. alarm # Unset
    BY <1>10 DEF Unset
  <2> QED BY <1>9, <1>10, <2>1, <2>2, MinusSmall
<1>11. Stage(p, g, alarm', resetting, e, n)
  <2>1. CASE resetting
    <3>1. e.type = "RESETCPU" /\ n = Served(m) /\ alarm = Unset
      BY <1>5, <1>7, <2>1 DEF Stage
    <3>2. Served(g) = Served(m)
      BY <1>7, <1>8, GuardedDone
    <3> QED BY <1>9, <2>1, <3>1, <3>2 DEF Stage
  <2>2. CASE ~resetting /\ Awaits(p, m, alarm, e, n)
    <3>1. e.type = "OVERFLOW" /\ alarm = m.clk /\ n = g
      BY <1>7, <1>8, <2>2, AwaitsStrike
    <3>2. Sub <= m.clk
      BY <1>7, Numbers
    <3>3. alarm' = g.clk
      BY <1>7, <1>8, <1>10, <3>1, <3>2
    <3>4. g.clk < ClkMax
      BY <1>8, Numbers
    <3> QED BY <2>2, <3>1, <3>3, <3>4 DEF Stage
  <2>3. CASE ~resetting /\ Sub <= alarm /\ Awaits(p, g, alarm - Sub, e, n)
    <3>1. alarm - Sub # Unset - Sub
      <4>1. alarm - Sub \in Nat
        BY <2>3, AwaitsAlarm
      <4> QED BY <4>1, Numbers DEF Unset
    <3>2. alarm # Unset
      BY <3>1
    <3>3. alarm \in Nat
      BY <1>1, <3>2, Numbers DEF TypeOK, Clock
    <3>4. alarm' = alarm - Sub
      BY <1>10, <2>3, <3>3
    <3> QED BY <2>3, <3>4 DEF Stage
  <2>4. CASE ~resetting /\ m.clk < ClkMax
    BY <1>7, <2>4, Numbers
  <2> QED BY <1>5, <1>7, <1>8, <2>1, <2>2, <2>3, <2>4 DEF Stage
<1>12. Stage(P[current' - 1], machine', alarm', resetting', list[current'], P[current'])
  BY <1>2, <1>5, <1>6, <1>8, <1>11
<1>13. UNCHANGED <<list, startFile, endFile>>
  BY <1>2, <1>6
<1> QED BY <1>1, <1>4, <1>12, <1>13, PlayKept

(* Playback goes on behind the event that it has reached.                   *)
LEMMA PlayNext ==
    ASSUME TypeOK, Shape, PlayInv, Playing, NEW P, PlayTrail(P),
           UNCHANGED <<list, startFile, endFile>>, list[current].type # "LIST_END",
           NEW m \in Machines, machine' = m, resetting' = FALSE, current' = current + 1,
           m = P[current] \/ (Strikes(m) /\ m.clk <= Top /\ P[current] = Guarded(m)),
           alarm' = NextAlarm(list[current + 1], m.clk)
    PROVE  PlayInv'
<1>1. list # <<>> /\ current \in Nat
  BY PlayFacts
<1>2. PICK c \in 2 .. Len(list) : c = current + 1 /\ c - 1 = current
  <2>1. current + 1 \in 2 .. Len(list)
    BY <1>1, NextEvent
  <2> QED BY <1>1, <2>1
<1>3. list \in Seq(Events) /\ Len(list) \in Nat
  BY <1>1, ListFacts
<1>4. Trail(P, list, Len(list), startFile) /\ Timed(list, P, Len(list))
  BY DEF PlayTrail
<1>5. m = P[c - 1] \/ (Strikes(m) /\ m.clk <= Top /\ P[c - 1] = Guarded(m))
  BY <1>2
<1>6. PICK k \in Nat : k = Len(list)
  BY <1>3
<1>7. Stage(P[c - 1], m, NextAlarm(list[c], m.clk), FALSE, list[c], P[c])
  <2>1. Trail(P, list, k, startFile) /\ Timed(list, P, k) /\ k <= Len(list) /\ c \in 2 .. k
    BY <1>3, <1>4, <1>6
  <2> QED BY <1>3, <1>5, <2>1, PlayOn
<1>8. current' = c /\ alarm' = NextAlarm(list[c], m.clk)
  BY <1>2
<1>9. Stage(P[current' - 1], machine', alarm', resetting', list[current'], P[current'])
  BY <1>7, <1>8
<1> QED BY <1>9, PlayKept

LEMMA ServeResetPlay ==
    ASSUME IInv, ServeReset
    PROVE  PlayInv'
<1>1. TypeOK /\ Shape /\ PlayInv
  BY DEF IInv
<1>2. UNCHANGED <<list, playback, record, startFile, endFile>> /\ resetting /\ resetting' = FALSE
  BY DEF ServeReset, files
<1>3. upset' = {} => upset = {}
  BY DEF ServeReset
<1> SUFFICES ASSUME Playing  PROVE PlayInv'
  BY <1>2, <1>3 DEF PlayInv, Playing
<1>4. PICK P : PlayTrail(P)
  BY <1>1 DEF PlayInv
<1>5. list # <<>> /\ machine \in Machines
  BY <1>1, <1>4, PlayFacts
<1>6. list[current].type = "RESETCPU" /\ P[current] = Served(machine)
  <2>1. Stage(P[current - 1], machine, alarm, resetting, list[current], P[current])
    BY <1>1, <1>4, PlayFacts
  <2> QED BY <1>2, <2>1 DEF Stage
<1>7. machine' = P[current] /\ machine' \in Machines /\ machine'.clk = ResetClk
  <2>1. machine' = Served(machine)
    BY ServeMachine
  <2> QED BY <1>5, <1>6, <2>1, ServedType
<1>8. current' = current + 1
  BY <1>5, <1>6 DEF ServeReset, AckCurrent
<1>9. alarm' = NextAlarm(list[current + 1], ResetClk)
  BY <1>5, <1>6 DEF ServeReset, AckAlarm, Playing
<1> QED BY <1>1, <1>2, <1>4, <1>6, <1>7, <1>8, <1>9, PlayNext

(* At the time of an event the machine has come to it, if need be before a  *)
(* move of the clock that was recorded before it.                           *)
LEMMA DueStage ==
    ASSUME TypeOK, Shape, PlayInv, Playing, Due, NEW P, PlayTrail(P)
    PROVE  LET e == list[current]
               n == P[current]
           IN  /\ ~resetting
               /\ \/ Takes(machine, e, n)
                  \/ /\ Strikes(machine) /\ machine.clk <= Top /\ e.type # "OVERFLOW"
                     /\ Takes(Guarded(machine), e, n)
                  \/ e.type = "OVERFLOW" /\ machine = n
<1>1. PICK p \in Machines, n \in Machines, e \in Events :
          /\ p = P[current - 1] /\ n = P[current] /\ e = list[current]
          /\ Stage(p, machine, alarm, resetting, e, n)
  BY PlayFacts
<1>2. PICK m \in Machines : m = machine /\ m.clk \in Nat /\ m.clk <= Top
  BY PlayFacts
<1>3. alarm # Unset /\ alarm \in Nat /\ alarm <= m.clk
  BY <1>2, DueList, Numbers DEF Clock
<1>4. ~resetting
  BY <1>1, <1>3 DEF Stage
<1>5. CASE Awaits(p, m, alarm, e, n)
  <2>1. Takes(m, e, n)
    BY <1>3, <1>5, AwaitsDue
  <2> QED BY <1>1, <1>2, <1>4, <2>1
<1>6. CASE Strikes(m) /\ e.type # "OVERFLOW" /\ Sub <= alarm /\ Awaits(p, Guarded(m), alarm - Sub, e, n)
  <2>1. PICK g \in Machines : g = Guarded(m) /\ g.clk = m.clk - Sub /\ g.clk \in Nat
    <3>1. Guarded(m) \in Machines /\ Guarded(m).clk = m.clk - Sub
      BY <1>2, <1>6, GuardedType DEF Strikes
    <3> QED BY <3>1, MachineFields
  <2>2. alarm - Sub <= g.clk
    BY <1>2, <1>3, <2>1, Numbers
  <2>3. PICK a : a = alarm - Sub
    OBVIOUS
  <2>4. Takes(g, e, n)
    BY <1>6, <2>1, <2>2, <2>3, AwaitsDue
  <2> QED BY <1>1, <1>2, <1>4, <1>6, <2>1, <2>4
<1>7. CASE e.type = "OVERFLOW" /\ m = n
  BY <1>1, <1>2, <1>4, <1>7
<1> QED BY <1>1, <1>2, <1>4, <1>5, <1>6, <1>7 DEF Stage

LEMMA PlayEventPlay ==
    ASSUME IInv, PlayEvent
    PROVE  PlayInv'
<1>1. TypeOK /\ Shape /\ PlayInv
  BY DEF IInv
<1>2. /\ UNCHANGED <<list, startFile, endFile, playback, record, resetting, upset>>
      /\ Due /\ list[current].type \notin {"RESETCPU", "LIST_END"}
      /\ current' = current + 1 /\ alarm' = NextAlarm(list[current + 1], machine.clk)
  BY DEF PlayEvent, modes, files
<1> SUFFICES ASSUME Playing  PROVE PlayInv'
  BY <1>2 DEF PlayInv, Playing
<1>3. PICK P : PlayTrail(P)
  BY <1>1 DEF PlayInv
<1>4. PICK n \in Machines, e \in Events : n = P[current] /\ e = list[current]
  BY <1>1, <1>3, PlayFacts
<1>5. PICK m \in Machines : m = machine /\ m.clk <= Top
  BY <1>1, <1>3, PlayFacts
<1>6. /\ ~resetting
      /\ \/ Takes(m, e, n)
         \/ Strikes(m) /\ e.type # "OVERFLOW" /\ Takes(Guarded(m), e, n)
         \/ e.type = "OVERFLOW" /\ m = n
  BY <1>1, <1>2, <1>3, <1>4, <1>5, DueStage
<1>7. machine' = IF e.type = "key" THEN Done(m, "key") ELSE m
  BY <1>4, <1>5 DEF PlayEvent, Do, Done
<1>8. PICK r \in Machines : /\ r = machine' /\ r.clk = m.clk
                            /\ n = r \/ (Strikes(r) /\ r.clk <= Top /\ n = Guarded(r))
  <2>1. CASE e.type = "key"
    <3>1. PICK r \in Machines : r = Done(m, "key") /\ r.clk = m.clk /\ r.beam = m.beam
      BY DoneType
    <3>2. n = r \/ (Strikes(m) /\ n = Done(Guarded(m), "key"))
      BY <1>6, <2>1, <3>1 DEF Takes
    <3>3. Strikes(m) => Guarded(r) = Done(Guarded(m), "key")
      BY <1>5, <3>1, GuardedDone DEF Strikes
    <3>4. Strikes(m) => Strikes(r)
      BY <3>1 DEF Strikes
    <3> QED BY <1>5, <1>7, <2>1, <3>1, <3>2, <3>3, <3>4
  <2>2. CASE e.type = "TIMESTAMP"
    <3>1. n = m \/ (Strikes(m) /\ n = Guarded(m))
      BY <1>6, <2>2 DEF Takes
    <3> QED BY <1>5, <1>7, <2>2, <3>1
  <2>3. CASE e.type = "OVERFLOW"
    <3>1. n = m \/ (Strikes(m) /\ n = Guarded(m))
      BY <1>6, <2>3 DEF Takes
    <3> QED BY <1>5, <1>7, <2>3, <3>1
  <2>4. e.type \in {"key", "TIMESTAMP", "OVERFLOW"}
    BY <1>2, <1>4, <1>6 DEF Takes
  <2> QED BY <2>1, <2>2, <2>3, <2>4
<1>9. r = P[current] \/ (Strikes(r) /\ r.clk <= Top /\ P[current] = Guarded(r))
  BY <1>4, <1>8
<1>10. alarm' = NextAlarm(list[current + 1], r.clk) /\ resetting' = FALSE
  BY <1>1, <1>2, <1>5, <1>6, <1>8 DEF TypeOK
<1> QED BY <1>1, <1>2, <1>3, <1>8, <1>9, <1>10, PlayNext

LEMMA PlayResetPlay ==
    ASSUME IInv, PlayReset
    PROVE  PlayInv'
<1>1. TypeOK /\ Shape /\ PlayInv
  BY DEF IInv
<1>2. /\ UNCHANGED <<list, startFile, endFile, playback, record, upset, machine, current>>
      /\ Due /\ list[current].type = "RESETCPU" /\ alarm' = Unset /\ resetting' = TRUE
  BY DEF PlayReset, modes, files
<1> SUFFICES ASSUME Playing  PROVE PlayInv'
  BY <1>2 DEF PlayInv, Playing
<1>3. PICK P : PlayTrail(P)
  BY <1>1 DEF PlayInv
<1>4. machine \in Machines /\ machine.clk <= Top
  BY <1>1, <1>3, PlayFacts
<1>5. \/ Takes(machine, list[current], P[current])
      \/ Strikes(machine) /\ Takes(Guarded(machine), list[current], P[current])
  BY <1>1, <1>2, <1>3, DueStage
<1>6. P[current] = Served(machine) \/ (Strikes(machine) /\ P[current] = Served(Guarded(machine)))
  BY <1>2, <1>5 DEF Takes
<1>7. P[current] = Served(machine)
  BY <1>4, <1>6, GuardedDone DEF Strikes
<1>8. Stage(P[current' - 1], machine', alarm', resetting', list[current'], P[current'])
  BY <1>2, <1>7 DEF Stage
<1> QED BY <1>1, <1>2, <1>3, <1>8, PlayKept

(* The end of the list is the state of the machine when the recording was   *)
(* ended.                                                                   *)
LEMMA PlayEndRight ==
    ASSUME IInv, PlayEnd, Playing
    PROVE  machine.deeds = endFile.machine.deeds /\ machine.time = endFile.machine.time
<1>1. TypeOK /\ Shape /\ PlayInv
  BY DEF IInv
<1>2. Due /\ list[current].type = "LIST_END"
  BY DEF PlayEnd
<1>3. PICK P : PlayTrail(P)
  BY <1>1 DEF PlayInv
<1>4. machine \in Machines /\ machine.clk <= Top /\ current \in 2 .. Len(list) /\ Len(list) \in Nat
  BY <1>1, <1>3, PlayFacts
<1>5. current = Len(list)
  <2>1. NoEnd(list, Len(list) - 1)
    BY <1>1 DEF PlayInv
  <2>2. current \notin 1 .. Len(list) - 1
    BY <1>2, <2>1 DEF NoEnd
  <2> QED BY <1>4, <2>2
<1>6. P[current] = endFile.machine
  BY <1>3, <1>5 DEF PlayTrail
<1>7. \/ Takes(machine, list[current], endFile.machine)
      \/ Strikes(machine) /\ Takes(Guarded(machine), list[current], endFile.machine)
  BY <1>1, <1>2, <1>3, <1>6, DueStage
<1>8. endFile.machine = machine \/ (Strikes(machine) /\ endFile.machine = Guarded(machine))
  BY <1>2, <1>7 DEF Takes
<1> QED BY <1>4, <1>8, GuardedType DEF Strikes

LEMMA PlaybackStartPlay ==
    ASSUME IInv, PlaybackStart
    PROVE  PlayInv'
<1>1. TypeOK /\ Shape /\ FileInv
  BY DEF IInv
<1> DEFINE loaded == Load(endFile.list)
           resets == loaded.list[1].type = "INITIAL_RESET"
<1>2. /\ ~record /\ ~resetting /\ endFile # NoFile
      /\ list' = loaded.list
      /\ machine' = IF resets THEN Begun(ResetClk, 0) ELSE startFile
      /\ current' = IF resets THEN AckCurrent(list', 2) ELSE 2
      /\ alarm' = IF resets THEN AckAlarm(list', 2, TRUE, FALSE, nextStamp', alarm)
                  ELSE NextAlarm(list'[2], machine'.clk)
      /\ upset' = endFile.upset
      /\ resetting' = resetting /\ startFile' = startFile /\ endFile' = endFile
  BY DEF PlaybackStart, files
<1> SUFFICES ASSUME upset' = {}  PROVE PlayInv'
  BY DEF PlayInv, Playing
<1>3. endFile.over /\ endFile.upset = {} /\ Playable(endFile, startFile) /\ FileSane(endFile)
  BY <1>1, <1>2, FileFacts DEF FileInv, Shape
<1>4. PICK r : r = loaded
  OBVIOUS
<1>5. /\ Shaped(r.list) /\ r.list[1] = endFile.list[1] /\ NoEnd(r.list, Len(r.list) - 1)
  <2>1. Shaped(endFile.list)
    BY <1>3 DEF FileSane
  <2> QED BY <1>4, <2>1, LoadShaped
<1>6. /\ \E Q : LoadTrail(Q, r, startFile, endFile.machine)
      /\ endFile.list[1].type = "INITIAL_RESET" => r.list[2].type = "TIMESTAMP"
  BY <1>3, <1>4, LoadFinished
<1>7. list' = r.list /\ (resets <=> r.list[1].type = "INITIAL_RESET")
  BY <1>2, <1>4
<1> HIDE DEF loaded, resets
<1>8. PICK Q : LoadTrail(Q, r, startFile, endFile.machine)
  BY <1>6
<1>9. /\ Trail(Q, list', Len(list'), startFile) /\ Timed(list', Q, Len(list'))
      /\ Q[Len(list')] = endFile.machine
  BY <1>7, <1>8 DEF LoadTrail
<1>10. list' \in Seq(Events) /\ Len(list') \in Nat /\ 2 <= Len(list') /\ list' # <<>>
  <2>1. list' \in Seq(Events) /\ 2 <= Len(list')
    BY <1>5, <1>7 DEF Shaped
  <2> QED BY <2>1, LengthType
<1>11. machine' = Q[1] /\ Q[1] \in Machines
  <2>1. First(list'[1], startFile, Q[1])
    BY <1>9 DEF Trail
  <2>2. 1 \in 1 .. Len(list')
    BY <1>10
  <2>3. Q[1] \in Machines
    BY <1>9, <2>2 DEF Trail
  <2>4. Q[1] = machine'
    BY <1>2, <1>7, <2>1 DEF First
  <2> QED BY <2>3, <2>4
<1>12. current' = 2 /\ alarm' = NextAlarm(list'[2], machine'.clk)
  <2>1. CASE resets
    <3>1. list'[2].type = "TIMESTAMP"
      BY <1>5, <1>6, <1>7, <2>1
    <3>2. current' = AckCurrent(list', 2) /\ alarm' = AckAlarm(list', 2, TRUE, FALSE, nextStamp', alarm)
          /\ machine' = Begun(ResetClk, 0)
      BY <1>2, <2>1
    <3>3. AckCurrent(list', 2) = 2
      BY <3>1 DEF AckCurrent
    <3>4. AckAlarm(list', 2, TRUE, FALSE, nextStamp', alarm) = NextAlarm(list'[2], ResetClk)
      BY <1>10, <3>1 DEF AckAlarm
    <3> QED BY <3>2, <3>3, <3>4, BegunReset
  <2>2. CASE ~resets
    BY <1>2, <2>2
  <2> QED BY <2>1, <2>2
<1>13. resetting' = FALSE
  BY <1>1, <1>2 DEF TypeOK
<1>14. PICK m \in Machines : m = machine' /\ m = Q[1]
  BY <1>11
<1>15. PICK c \in 2 .. Len(list') : c = 2 /\ c - 1 = 1
  BY <1>10
<1>16. Stage(Q[c - 1], m, NextAlarm(list'[c], m.clk), FALSE, list'[c], Q[c])
  <2>1. PICK k \in Nat : k = Len(list')
    BY <1>10
  <2>2. Trail(Q, list', k, startFile) /\ Timed(list', Q, k) /\ k <= Len(list') /\ c \in 2 .. k
    BY <1>9, <2>1
  <2>3. m = Q[c - 1]
    BY <1>14, <1>15
  <2> QED BY <1>10, <2>2, <2>3, PlayOn
<1>17. Stage(Q[current' - 1], machine', alarm', resetting', list'[current'], Q[current'])
  <2>1. c = current'
    BY <1>12, <1>15
  <2> QED BY <1>12, <1>13, <1>14, <1>16, <2>1
<1>18. PlayTrail(Q)'
  BY <1>2, <1>9, <1>17 DEF PlayTrail
<1>19. endFile' # NoFile /\ endFile'.machine.time <= Horizon /\ NoEnd(list', Len(list') - 1)
  BY <1>2, <1>3, <1>5, <1>7 DEF Playable
<1> QED BY <1>18, <1>19 DEF PlayInv

(* What is left of the list when playback is stopped to record.             *)
LEMMA RecordStartPlaybackRec ==
    ASSUME IInv, TypeOK', RecordStartPlayback
    PROVE  RecInv'
<1>1. TypeOK /\ Shape /\ PlayInv
  BY DEF IInv
<1>2. /\ ~record /\ playback
      /\ list' = SubSeq(list, 1, current - 1) \o <<[list[current] EXCEPT !.type = "LIST_END"]>>
      /\ machine' = machine /\ resetting' = resetting /\ startFile' = startFile
      /\ upset' = Begins(upset) \cup
                (IF GuardDue \/ (Due /\ list[current].type = "OVERFLOW") THEN {"tie"} ELSE {})
  BY DEF RecordStartPlayback, files
<1> SUFFICES ASSUME upset' = {}  PROVE RecInv'
  BY DEF RecInv
<1>3. Begins(upset) = {} /\ ~GuardDue /\ ~(Due /\ list[current].type = "OVERFLOW")
  BY <1>2
<1>4. upset = {} /\ ~resetting
  BY <1>3, BeginsNone
<1>5. Playing
  BY <1>2, <1>4 DEF Playing
<1>6. PICK P : PlayTrail(P)
  BY <1>1, <1>5 DEF PlayInv
<1>7. PICK m \in Machines, p \in Machines, n \in Machines, e \in Events :
          /\ m = machine /\ p = P[current - 1] /\ n = P[current] /\ e = list[current]
          /\ Stage(p, m, alarm, resetting, e, n)
  BY <1>1, <1>5, <1>6, PlayFacts
<1>8. ~Strikes(m) /\ m.time <= Horizon
  BY <1>1, <1>3, <1>5, <1>6, <1>7, MachineStrikes, PlayFacts
<1>9. RunsTo(p, m)
  <2>1. CASE e.type = "OVERFLOW" /\ m = n /\ alarm = m.clk
    <3>1. alarm # Unset /\ machine.clk >= alarm
      BY <1>7, <2>1, MachineFields DEF Unset
    <3> QED BY <1>3, <1>7, <2>1, <3>1 DEF Due
  <2>2. Awaits(p, m, alarm, e, n) \/ (e.type = "OVERFLOW" /\ m = n /\ alarm = m.clk)
    BY <1>4, <1>7, <1>8 DEF Stage
  <2> QED BY <2>1, <2>2 DEF Awaits
<1>10. ~Strikes(p)
  <2>1. Strikes(p) => m = p
    BY <1>9, RunsFacts
  <2> QED BY <1>8, <2>1
<1>11. PICK k \in Nat \ {0} : k = current - 1 /\ k <= Len(list) /\ k + 1 <= Len(list)
  <2>1. current \in 2 .. Len(list) /\ Len(list) \in Nat
    BY <1>1, <1>5, <1>6, PlayFacts
  <2> QED BY <2>1
<1>12. list # <<>> /\ list \in Seq(Events) /\ Len(list) \in Nat
  <2>1. list # <<>>
    BY <1>1, <1>5, <1>6, PlayFacts
  <2> QED BY <1>1, <2>1, ListFacts
<1>13. Len(list') = k + 1 /\ Len(list') - 1 = k /\ \A i \in 1 .. k : list'[i] = list[i]
  <2>1. PICK x : x = [e EXCEPT !.type = "LIST_END"]
    OBVIOUS
  <2>2. x \in Events
    BY <2>1 DEF Events
  <2>3. k \in 0 .. Len(list)
    BY <1>11, <1>12
  <2>4. PICK s : s = SubSeq(list, 1, k) \o <<x>>
    OBVIOUS
  <2>5. Len(s) = k + 1 /\ \A i \in 1 .. k : s[i] = list[i]
    BY <1>12, <2>2, <2>3, <2>4, PrefixAndOne
  <2>6. list' = s
    BY <1>2, <1>7, <1>11, <2>1, <2>4
  <2> QED BY <2>5, <2>6
<1>14. Trail(P, list', k, startFile)
  <2>1. PICK l \in Nat : l = Len(list)
    BY <1>12
  <2>2. Trail(P, list, l, startFile)
    BY <1>6, <2>1 DEF PlayTrail
  <2>3. k \in 1 .. l
    <3>1. k \in Nat /\ l \in Nat /\ k # 0 /\ k <= l
      BY <1>11, <2>1
    <3> QED BY <3>1
  <2> QED BY <1>13, <2>2, <2>3, TrailAgrees
<1>15. Eff' = m
  BY <1>2, <1>4, <1>7 DEF Eff
<1>16. RecTrail(P)'
  BY <1>2, <1>7, <1>9, <1>10, <1>11, <1>13, <1>14, <1>15 DEF RecTrail
<1>17. NoEnd(list', Len(list') - 1)
  <2>1. NoEnd(list, Len(list) - 1)
    BY <1>1, <1>5 DEF PlayInv
  <2>2. \A i \in 1 .. k : i \in 1 .. Len(list) - 1
    BY <1>11, <1>12
  <2>3. NoEnd(list', k)
    BY <1>13, <2>1, <2>2 DEF NoEnd
  <2> QED BY <1>13, <2>3
<1>18. machine'.time <= Horizon
  BY <1>2, <1>7, <1>8
<1> QED BY <1>16, <1>17, <1>18 DEF RecInv

LEMMA InitIInv == Init => IInv
<1> SUFFICES ASSUME Init  PROVE IInv
  OBVIOUS
<1>1. TypeOK /\ Shape
  BY InitShape
<1>2. ~record /\ ~playback /\ endFile = NoFile
  BY DEF Init
<1> QED BY <1>1, <1>2 DEF IInv, RecInv, FileInv, PlayInv, Playing

LEMMA NextIInv ==
    ASSUME IInv, [Next]_vars
    PROVE  IInv'
<1>1. TypeOK' /\ Shape'
  BY NextShape DEF IInv
<1>2. TypeOK /\ Shape /\ RecInv /\ FileInv /\ PlayInv
  BY DEF IInv
<1>3. CASE Tick
  <2>1. FileInv'
    BY <1>2, <1>3, FileStays DEF Tick
  <2> QED BY <1>1, <1>3, <2>1, TickRec, TickPlay DEF IInv
<1>4. CASE Guard
  <2>1. FileInv'
    BY <1>2, <1>4, FileStays DEF Guard
  <2> QED BY <1>1, <1>4, <2>1, GuardRec, GuardPlay DEF IInv
<1>5. CASE Input
  <2>1. FileInv'
    BY <1>2, <1>5, FileStays DEF Input
  <2>2. PlayInv'
    BY <1>5 DEF Input, modes, PlayInv, Playing
  <2> QED BY <1>1, <1>5, <2>1, <2>2, InputRec DEF IInv
<1>6. CASE TriggerReset
  <2>1. FileInv'
    BY <1>2, <1>6, FileStays DEF TriggerReset
  <2>2. PlayInv'
    BY <1>6 DEF TriggerReset, modes, PlayInv, Playing
  <2> QED BY <1>1, <1>6, <2>1, <2>2, TriggerResetRec DEF IInv
<1>7. CASE ServeReset
  <2>1. FileInv'
    BY <1>2, <1>7, FileStays DEF ServeReset
  <2> QED BY <1>1, <1>7, <2>1, ServeResetRec, ServeResetPlay DEF IInv
<1>8. CASE StampAlarm
  <2>1. UNCHANGED <<machine, resetting, list, startFile, record, upset>> /\ UNCHANGED files /\ record
    BY <1>8 DEF StampAlarm, modes, files
  <2>2. RecInv'
    BY <1>1, <2>1, SameRec
  <2>3. FileInv'
    BY <1>2, <2>1, FileStays
  <2>4. PlayInv'
    BY <2>1 DEF PlayInv, Playing
  <2> QED BY <1>1, <2>2, <2>3, <2>4 DEF IInv
<1>9. CASE PlayEvent
  <2>1. FileInv'
    BY <1>2, <1>9, FileStays DEF PlayEvent
  <2>2. RecInv'
    BY <1>9 DEF PlayEvent, modes, RecInv
  <2> QED BY <1>1, <1>9, <2>1, <2>2, PlayEventPlay DEF IInv
<1>10. CASE PlayReset
  <2>1. FileInv'
    BY <1>2, <1>10, FileStays DEF PlayReset
  <2>2. RecInv'
    BY <1>10 DEF PlayReset, modes, RecInv
  <2> QED BY <1>1, <1>10, <2>1, <2>2, PlayResetPlay DEF IInv
<1>11. CASE PlayEnd
  <2>1. FileInv'
    BY <1>2, <1>11, FileStays DEF PlayEnd
  <2>2. RecInv' /\ PlayInv'
    BY <1>11 DEF PlayEnd, RecInv, PlayInv, Playing
  <2> QED BY <1>1, <2>1, <2>2 DEF IInv
<1>12. CASE RecordStartSave
  <2>1. PlayInv'
    BY <1>12 DEF RecordStartSave, PlayInv, Playing
  <2> QED BY <1>1, <1>12, <2>1, RecordStartSaveRec, RecordStartSaveFile DEF IInv
<1>13. CASE RecordStartReset
  <2>1. PlayInv'
    BY <1>13 DEF RecordStartReset, PlayInv, Playing
  <2>2. FileInv'
    BY <1>2, <1>13, FileStays DEF RecordStartReset
  <2> QED BY <1>1, <1>13, <2>1, <2>2, RecordStartResetRec DEF IInv
<1>14. CASE RecordStartLoad
  <2>1. PlayInv'
    BY <1>14 DEF RecordStartLoad, PlayInv, Playing
  <2>2. FileInv'
    BY <1>2, <1>14, FileStays DEF RecordStartLoad
  <2> QED BY <1>1, <1>14, <2>1, <2>2, RecordStartLoadRec DEF IInv
<1>15. CASE RecordStartPlayback
  <2>1. PlayInv'
    BY <1>15 DEF RecordStartPlayback, PlayInv, Playing
  <2>2. FileInv'
    BY <1>2, <1>15, FileStays DEF RecordStartPlayback
  <2> QED BY <1>1, <1>15, <2>1, <2>2, RecordStartPlaybackRec DEF IInv
<1>16. CASE RecordStop
  <2>1. record /\ record' = FALSE /\ playback' = playback /\ upset' = upset
    BY <1>16 DEF RecordStop
  <2>2. RecInv'
    BY <2>1 DEF RecInv
  <2>3. PlayInv'
    BY <1>2, <2>1 DEF PlayInv, Playing, Shape
  <2> QED BY <1>1, <1>16, <2>2, <2>3, RecordStopFile DEF IInv
<1>17. CASE SetMilestone
  <2>1. UNCHANGED <<machine, resetting, list, startFile, record, upset>> /\ record
    BY <1>17 DEF SetMilestone, modes
  <2>2. RecInv'
    BY <1>1, <2>1, SameRec
  <2>3. PlayInv'
    BY <2>1 DEF PlayInv, Playing
  <2> QED BY <1>1, <1>17, <2>2, <2>3, SetMilestoneFile DEF IInv
<1>18. CASE ResetMilestone
  <2>1. PlayInv'
    BY <1>18 DEF ResetMilestone, modes, PlayInv, Playing
  <2>2. FileInv'
    BY <1>2, <1>18, FileStays DEF ResetMilestone
  <2> QED BY <1>1, <1>18, <2>1, <2>2, ResetMilestoneRec DEF IInv
<1>19. CASE ResetMilestoneFails
  <2>1. RecInv' /\ PlayInv'
    BY <1>19 DEF ResetMilestoneFails, RecInv, PlayInv, Playing
  <2>2. FileInv'
    BY <1>2, <1>19, FileStays DEF ResetMilestoneFails
  <2> QED BY <1>1, <2>1, <2>2 DEF IInv
<1>20. CASE PlaybackStart
  <2>1. FileInv'
    BY <1>2, <1>20, FileStays DEF PlaybackStart
  <2>2. RecInv'
    BY <1>20 DEF PlaybackStart, RecInv
  <2> QED BY <1>1, <1>20, <2>1, <2>2, PlaybackStartPlay DEF IInv
<1>21. CASE PlaybackStop
  <2>1. UNCHANGED <<machine, resetting, list, startFile, record, upset>> /\ playback' = FALSE
    BY <1>21 DEF PlaybackStop, files
  <2>2. RecInv'
    BY <1>1, <2>1, SameRec
  <2>3. FileInv'
    BY <1>2, <1>21, FileStays DEF PlaybackStop
  <2>4. PlayInv'
    BY <2>1 DEF PlayInv, Playing
  <2> QED BY <1>1, <2>2, <2>3, <2>4 DEF IInv
<1>22. CASE UNCHANGED vars
  <2>1. UNCHANGED <<machine, resetting, list, startFile, endFile, record, playback, upset,
                    current, alarm>>
    BY <1>22 DEF vars
  <2>2. RecInv'
    BY <1>1, <2>1, SameRec
  <2>3. FileInv'
    BY <1>2, <2>1, FileStays DEF files
  <2>4. PlayInv'
    BY <1>2, <2>1 DEF PlayInv, Playing, PlayTrail
  <2> QED BY <1>1, <2>2, <2>3, <2>4 DEF IInv
<1> QED BY <1>3, <1>4, <1>5, <1>6, <1>7, <1>8, <1>9, <1>10, <1>11, <1>12, <1>13, <1>14, <1>15,
           <1>16, <1>17, <1>18, <1>19, <1>20, <1>21, <1>22 DEF Next

LEMMA IInvReplays == IInv => Replays
<1> SUFFICES ASSUME IInv, Playing  PROVE InStep
  BY DEF Replays
<1>1. TypeOK /\ Shape /\ PlayInv
  BY DEF IInv
<1>2. PICK P : PlayTrail(P)
  BY <1>1 DEF PlayInv
<1> QED BY <1>1, <1>2, PlayFacts, AfterInStep

LEMMA Invariance == Spec => []IInv
<1>1. Init => IInv
  BY InitIInv
<1>2. IInv /\ [Next]_vars => IInv'
  BY NextIInv
<1> QED BY <1>1, <1>2, PTL DEF Spec

-----------------------------------------------------------------------------
(* What event.c keeps has its type: the list is never left without a        *)
(* current event, and no clock of an event or an alarm leaves CLOCK.        *)
THEOREM TypeCorrect == Spec => []TypeOK
<1>1. IInv => TypeOK
  BY DEF IInv
<1> QED BY <1>1, Invariance, PTL

(* At any time of playback exactly that has been done to the machine which  *)
(* had been done when it was recorded, over any number of moves of the      *)
(* clock, resets, milestones and continued recordings (event.c:334-422).    *)
THEOREM ReplaysAlways == Spec => []Replays
BY IInvReplays, Invariance, PTL

(* The playback of a recording ends in the cycle in which the recording was *)
(* ended, with everything done (event.c:408).                               *)
THEOREM EndsRight == Spec => EndsWithTheRecording
<1> DEFINE Ends == /\ machine.deeds = endFile.machine.deeds
                   /\ endFile.over => machine.time = endFile.machine.time
<1>1. IInv /\ [Next]_vars => [PlayEnd /\ Playing => Ends]_vars
  BY PlayEndRight
<1>2. Spec => []IInv /\ [][Next]_vars
  BY Invariance, PTL DEF Spec
<1>3. Spec => [][PlayEnd /\ Playing => Ends]_vars
  BY <1>1, <1>2, PTL
<1> QED BY <1>3 DEF EndsWithTheRecording
=============================================================================
