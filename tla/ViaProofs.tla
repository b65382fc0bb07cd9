------------------------------ MODULE ViaProofs ------------------------------
(***************************************************************************)
(* What a program can find out of a VIA's timers is what it would of a chip *)
(* that counts every cycle, and the interrupt line is pulled in the same    *)
(* cycle, for every width of the counters and of CLOCK, every latch and     *)
(* opcodes of any length.                                                   *)
(***************************************************************************)
EXTENDS Via, TLAPS

-----------------------------------------------------------------------------
(* Arithmetic.                                                              *)

LEMMA Products ==
    ASSUME NEW p \in Nat \ {0}, NEW k \in Int, -p < k * p, k * p < p
    PROVE  k = 0
<1>1. k >= 1 => k * p >= p
  OBVIOUS
<1>2. k <= -1 => k * p <= -p
  OBVIOUS
<1> QED BY <1>1, <1>2

(* The remainder of a division is the only one.                             *)
LEMMA Remainder ==
    ASSUME NEW p \in Nat \ {0}, NEW z \in Int
    PROVE  /\ z % p \in 0 .. p - 1
           /\ \E q \in Int : z = q * p + (z % p)
           /\ \A q \in Int, r \in 0 .. p - 1 : z = q * p + r => z % p = r
<1>1. z % p \in 0 .. p - 1
  OBVIOUS
<1>2. PICK q \in Int : z = q * p + (z % p)
  <2>1. z = (z \div p) * p + (z % p) /\ z \div p \in Int
    OBVIOUS
  <2> QED BY <2>1
<1>3. ASSUME NEW n \in Int, NEW r \in 0 .. p - 1, z = n * p + r
      PROVE  z % p = r
  <2>1. PICK m \in 0 .. p - 1 : m = z % p
    BY <1>1
  <2>2. (n - q) * p = m - r
    <3>1. n * p + r = q * p + m
      BY <1>2, <1>3, <2>1
    <3>2. n * p \in Int /\ q * p \in Int /\ (n - q) * p = n * p - q * p
      OBVIOUS
    <3> QED BY <3>1, <3>2
  <2>3. n - q \in Int /\ -p < (n - q) * p /\ (n - q) * p < p
    BY <2>2
  <2>4. n - q = 0
    BY <2>3, Products
  <2>5. (n - q) * p = 0
    BY <2>4
  <2> QED BY <2>1, <2>2, <2>5
<1> QED BY <1>1, <1>2, <1>3

LEMMA RemainderSmall ==
    ASSUME NEW p \in Nat \ {0}, NEW z \in 0 .. p - 1
    PROVE  z % p = z
OBVIOUS

LEMMA RemainderShift ==
    ASSUME NEW p \in Nat \ {0}, NEW z \in Int, NEW k \in Int
    PROVE  (z + k * p) % p = z % p
<1>1. PICK q \in Int : z = q * p + (z % p)
  BY Remainder
<1>2. PICK r \in 0 .. p - 1 : r = z % p
  BY Remainder
<1>3. z + k * p \in Int /\ q + k \in Int /\ z + k * p = (q + k) * p + r
  <2>1. (q + k) * p = q * p + k * p /\ q * p \in Int /\ k * p \in Int
    OBVIOUS
  <2> QED BY <2>1, <1>1, <1>2
<1>4. (z + k * p) % p = r
  <2>1. PICK y \in Int : y = z + k * p
    BY <1>3
  <2>2. PICK m \in Int : m = q + k
    BY <1>3
  <2>3. y = m * p + r
    BY <1>3, <2>1, <2>2
  <2>4. y % p = r
    BY <1>2, <2>3, Remainder
  <2> QED BY <2>1, <2>4
<1> QED BY <1>2, <1>4

(* A cycle less.                                                            *)
LEMMA RemainderStep ==
    ASSUME NEW p \in Nat \ {0}, NEW z \in Int
    PROVE  (z - 1) % p = IF z % p = 0 THEN p - 1 ELSE (z % p) - 1
<1>1. PICK q \in Int : z = q * p + (z % p)
  BY Remainder
<1>2. PICK r \in 0 .. p - 1 : r = z % p
  BY Remainder
<1>3. q * p \in Int /\ (q - 1) * p = q * p - p
  OBVIOUS
<1>4. PICK x \in Int : x = z - 1
  OBVIOUS
<1>5. CASE r = 0
  <2>1. x = (q - 1) * p + (p - 1) /\ q - 1 \in Int /\ p - 1 \in 0 .. p - 1
    BY <1>1, <1>2, <1>3, <1>4, <1>5
  <2>2. x % p = p - 1
    BY <2>1, Remainder
  <2> QED BY <1>2, <1>4, <1>5, <2>2
<1>6. CASE r # 0
  <2>1. x = q * p + (r - 1) /\ r - 1 \in 0 .. p - 1
    BY <1>1, <1>2, <1>3, <1>4, <1>6
  <2>2. PICK k \in 0 .. p - 1 : k = r - 1
    BY <2>1
  <2>3. x = q * p + k
    BY <2>1, <2>2
  <2>4. x % p = k
    BY <2>3, Remainder
  <2> QED BY <1>2, <1>4, <1>6, <2>2, <2>4
<1> QED BY <1>5, <1>6

(* The remainder of a remainder.                                            *)
LEMMA RemainderTwice ==
    ASSUME NEW p \in Nat \ {0}, NEW m \in Nat \ {0}, NEW z \in Int
    PROVE  (z % (m * p)) % p = z % p
<1>1. m * p \in Nat \ {0}
  <2>1. m * p \in Nat /\ m * p >= p
    OBVIOUS
  <2> QED BY <2>1
<1>2. PICK q \in Int : z = q * (m * p) + (z % (m * p))
  BY <1>1, Remainder
<1>3. PICK r \in Int : r = z % (m * p)
  BY <1>1, Remainder
<1>4. PICK k \in Int : k = q * m
  OBVIOUS
<1>5. z = r + k * p
  <2>1. q * (m * p) = k * p
    BY <1>4
  <2>2. k * p \in Int
    OBVIOUS
  <2> QED BY <1>2, <1>3, <2>1, <2>2
<1>6. z % p = r % p
  BY <1>5, RemainderShift
<1> QED BY <1>3, <1>6

(* What the assumptions on the constants amount to.                         *)
LEMMA Constants ==
    /\ Base \in Nat \ {0} /\ 2 <= Base /\ Word \in Nat \ {0} /\ Word = Base * Base
    /\ Base + 2 <= Word
    /\ ClockMax \in Nat \ {0} /\ SubMin \in Nat /\ MaxLag \in Nat
    /\ Word + 3 <= SubMin /\ MaxLag + 2 <= SubMin /\ 2 * SubMin < ClockMax
    /\ GuardMax \in Nat /\ GuardMax = ClockMax - SubMin
    /\ GuardSub \in Nat \ {0} /\ GuardSub = ClockMax - 2 * SubMin
    /\ \E m \in Nat \ {0} : ClockMax + 1 = m * Word
<1>1. Base \in Nat \ {0} /\ 2 <= Base /\ Base * Base >= 2 * Base
  <2>1. Base \in Nat /\ 2 <= Base
    BY ViaAssumption
  <2> QED BY <2>1
<1>2. Word \in Nat \ {0} /\ Base + 2 <= Word /\ Word = Base * Base
  BY <1>1 DEF Word
<1>3. \E m \in Nat \ {0} : ClockMax + 1 = m * Word
  <2>1. ClockMax + 1 \in Nat \ {0} /\ (ClockMax + 1) % Word = 0
    BY ViaAssumption, ClockMaxAssumption DEF Word
  <2>2. PICK n \in Nat \ {0} : n = ClockMax + 1
    BY <2>1
  <2>3. PICK q \in Int : n = q * Word + (n % Word)
    <3>1. n \in Int
      OBVIOUS
    <3> QED BY <1>2, <3>1, Remainder, Zenon
  <2>4. n % Word = 0
    BY <2>1, <2>2
  <2>5. n = q * Word
    BY <1>2, <2>3, <2>4
  <2>6. q >= 1
    BY <1>2, <2>5
  <2> QED BY <2>2, <2>5, <2>6
<1> QED BY <1>1, <1>2, <1>3, ViaAssumption, ClockMaxAssumption DEF GuardMax, GuardSub

(* Clocks that do not wrap.                                                 *)
LEMMA ClockSmall ==
    ASSUME NEW x \in Int
    PROVE  x % (ClockMax + 1) \in Clock /\ (x \in Clock => x % (ClockMax + 1) = x)
<1>1. ClockMax + 1 \in Nat \ {0}
  BY Constants
<1>2. x \in Clock => x % (ClockMax + 1) = x
  BY <1>1, Constants, RemainderSmall DEF Clock
<1>3. x % (ClockMax + 1) \in 0 .. ClockMax
  <2>1. x % (ClockMax + 1) \in 0 .. (ClockMax + 1) - 1
    BY <1>1, Remainder
  <2> QED BY <2>1, Constants
<1> QED BY <1>2, <1>3 DEF Clock

(* The width of CLOCK is a multiple of those of the counters.               *)
LEMMA ClockRemainder ==
    ASSUME NEW z \in Int
    PROVE  /\ (z % (ClockMax + 1)) % Word = z % Word
           /\ (z % (ClockMax + 1)) % Base = z % Base
<1>1. PICK m \in Nat \ {0} : ClockMax + 1 = m * Word
  BY Constants
<1>2. (z % (ClockMax + 1)) % Word = z % Word
  <2>1. (z % (m * Word)) % Word = z % Word
    BY Constants, RemainderTwice
  <2> QED BY <1>1, <2>1, Zenon
<1>3. PICK n \in Nat \ {0} : n = m * Base
  BY Constants
<1>4. ClockMax + 1 = n * Base
  BY <1>1, <1>3, Constants
<1>5. (z % (ClockMax + 1)) % Base = z % Base
  <2>1. (z % (n * Base)) % Base = z % Base
    BY Constants, RemainderTwice
  <2> QED BY <1>4, <2>1, Zenon
<1> QED BY <1>2, <1>5

(* Two bytes make a word.                                                   *)
LEMMA TwoBytes ==
    ASSUME NEW hi \in Bytes, NEW lo \in Bytes
    PROVE  hi * Base + lo \in 0 .. Word - 1 /\ hi * Base \in Nat
<1>1. hi \in Nat /\ lo \in Nat /\ hi <= Base - 1 /\ lo <= Base - 1 /\ Base \in Nat
  BY Constants DEF Bytes
<1>2. hi * Base \in Nat /\ hi * Base <= (Base - 1) * Base
  BY <1>1
<1>3. (Base - 1) * Base = Word - Base
  BY <1>1, Constants
<1> QED BY <1>1, <1>2, <1>3, Constants

LEMMA BytesOf ==
    ASSUME NEW w \in 0 .. Word - 1
    PROVE  /\ w % Base \in Bytes /\ w \div Base \in Bytes
           /\ (w \div Base) * Base + (w % Base) = w
<1>1. Base \in Nat \ {0} /\ w \in Nat
  BY Constants
<1>2. w % Base \in 0 .. Base - 1 /\ w = (w \div Base) * Base + (w % Base) /\ w \div Base \in Nat
  BY <1>1
<1>3. PICK d \in Nat : d = w \div Base
  BY <1>2
<1>4. d * Base \in Nat /\ d * Base <= w
  BY <1>1, <1>2, <1>3
<1>5. d >= Base => d * Base >= Base * Base
  BY <1>1
<1>6. d <= Base - 1
  BY <1>1, <1>4, <1>5, Constants
<1> QED BY <1>2, <1>3, <1>6 DEF Bytes

-----------------------------------------------------------------------------
(* The flags and the interrupt line.                                        *)

Lines == [on : BOOLEAN, clk : Clock]

(* The line of a chip with flags ifr and mask ier that had line irq.        *)
Pulled(ifr, ier, irq, t) ==
    IF ifr \cap ier = {} THEN Released ELSE IF irq.on THEN irq ELSE [on |-> TRUE, clk |-> t]

(* Chip r is chip c but for the flags.                                      *)
FlagsSet(r, c, ifr, ier, irq) ==
    /\ r.latch1 = c.latch1 /\ r.latch2 = c.latch2 /\ r.acr = c.acr /\ r.t1 = c.t1 /\ r.t2 = c.t2
    /\ r.ifr = ifr /\ r.ier = ier /\ r.irq = irq

LEMMA PulledType ==
    ASSUME NEW ifr, NEW ier, NEW irq \in Lines, NEW t \in Clock
    PROVE  Pulled(ifr, ier, irq, t) \in Lines
<1>1. 0 \in Clock
  BY Constants DEF Clock
<1>2. Released \in Lines
  BY <1>1 DEF Released, Lines
<1>3. [on |-> TRUE, clk |-> t] \in Lines
  BY DEF Lines
<1> QED BY <1>2, <1>3 DEF Pulled

LEMMA ChipFields ==
    ASSUME NEW T1, NEW T2, NEW c \in Chips(T1, T2)
    PROVE  /\ c.latch1 \in 0 .. Word - 1 /\ c.latch2 \in Bytes
           /\ c.acr \in SUBSET {"FREE", "PB7", "PULSE"}
           /\ c.ifr \in SUBSET Sources /\ c.ier \in SUBSET Sources /\ c.irq \in Lines
           /\ c.t1 \in T1 /\ c.t2 \in T2
BY DEF Chips, Lines

LEMMA UpdateIrqFields ==
    ASSUME NEW T1, NEW T2, NEW c \in Chips(T1, T2), NEW t \in Clock
    PROVE  /\ UpdateIrq(c, t) \in Chips(T1, T2)
           /\ FlagsSet(UpdateIrq(c, t), c, c.ifr, c.ier, Pulled(c.ifr, c.ier, c.irq, t))
<1>1. PICK irq \in Lines : irq = Pulled(c.ifr, c.ier, c.irq, t)
  BY PulledType, ChipFields
<1>2. UpdateIrq(c, t) = [c EXCEPT !.irq = irq]
  BY <1>1, Zenon DEF UpdateIrq, Pulled
<1>3. PICK d : d = [c EXCEPT !.irq = irq]
  OBVIOUS
<1>4. d \in Chips(T1, T2) /\ FlagsSet(d, c, c.ifr, c.ier, irq)
  BY ONLY <1>3, c \in Chips(T1, T2), irq \in Lines DEF Chips, Lines, FlagsSet
<1> QED BY <1>1, <1>2, <1>3, <1>4, Zenon

LEMMA RaiseFields ==
    ASSUME NEW T1, NEW T2, NEW c \in Chips(T1, T2), NEW s \in Sources, NEW t \in Clock
    PROVE  /\ Raise(c, s, t) \in Chips(T1, T2)
           /\ FlagsSet(Raise(c, s, t), c, c.ifr \cup {s}, c.ier,
                       Pulled(c.ifr \cup {s}, c.ier, c.irq, t))
<1>1. PICK ifr \in SUBSET Sources : ifr = c.ifr \cup {s}
  BY ChipFields
<1>2. PICK d : d = [c EXCEPT !.ifr = ifr]
  OBVIOUS
<1>3. d \in Chips(T1, T2) /\ FlagsSet(d, c, ifr, c.ier, c.irq)
  BY ONLY <1>2, c \in Chips(T1, T2), ifr \in SUBSET Sources DEF Chips, FlagsSet
<1>4. Raise(c, s, t) = UpdateIrq(d, t)
  BY <1>1, <1>2, Zenon DEF Raise
<1>5. UpdateIrq(d, t) \in Chips(T1, T2) /\ FlagsSet(UpdateIrq(d, t), d, d.ifr, d.ier, Pulled(d.ifr, d.ier, d.irq, t))
  BY <1>3, UpdateIrqFields
<1>6. FlagsSet(UpdateIrq(d, t), c, ifr, c.ier, Pulled(ifr, c.ier, c.irq, t))
  BY <1>3, <1>5, Zenon DEF FlagsSet
<1> QED BY <1>1, <1>4, <1>5, <1>6, Zenon

LEMMA ClearFields ==
    ASSUME NEW T1, NEW T2, NEW c \in Chips(T1, T2), NEW S, NEW t \in Clock
    PROVE  /\ Clear(c, S, t) \in Chips(T1, T2)
           /\ FlagsSet(Clear(c, S, t), c, c.ifr \ S, c.ier, Pulled(c.ifr \ S, c.ier, c.irq, t))
<1>1. PICK ifr \in SUBSET Sources : ifr = c.ifr \ S
  BY ChipFields
<1>2. PICK d : d = [c EXCEPT !.ifr = ifr]
  OBVIOUS
<1>3. d \in Chips(T1, T2) /\ FlagsSet(d, c, ifr, c.ier, c.irq)
  BY ONLY <1>2, c \in Chips(T1, T2), ifr \in SUBSET Sources DEF Chips, FlagsSet
<1>4. Clear(c, S, t) = UpdateIrq(d, t)
  BY <1>1, <1>2, Zenon DEF Clear
<1>5. UpdateIrq(d, t) \in Chips(T1, T2) /\ FlagsSet(UpdateIrq(d, t), d, d.ifr, d.ier, Pulled(d.ifr, d.ier, d.irq, t))
  BY <1>3, UpdateIrqFields
<1>6. FlagsSet(UpdateIrq(d, t), c, ifr, c.ier, Pulled(ifr, c.ier, c.irq, t))
  BY <1>3, <1>5, Zenon DEF FlagsSet
<1> QED BY <1>1, <1>4, <1>5, <1>6, Zenon

-----------------------------------------------------------------------------
(* What the operations change of a chip.                                    *)

ViaT1 == [tal : 0 .. Word - 1, tau : Clock, tai : Clock]
ViaT2 == [cl : Bytes, ch : Bytes, tbu : Clock, tbi : Clock]
ExactT1 == [tal : 0 .. Word - 1, cnt : 0 .. Word - 1, out : BOOLEAN,
            load : BOOLEAN, armed : BOOLEAN]
ExactT2 == [cnt : 0 .. Word - 1, load : BOOLEAN, armed : BOOLEAN, pulse : BOOLEAN]

LEMMA ChipSets == ViaChips = Chips(ViaT1, ViaT2) /\ ExactChips = Chips(ExactT1, ExactT2)
BY DEF ViaChips, ExactChips, ViaT1, ViaT2, ExactT1, ExactT2

LEMMA ViaFields ==
    ASSUME NEW c \in ViaChips
    PROVE  /\ c.latch1 \in 0 .. Word - 1 /\ c.latch2 \in Bytes
           /\ c.acr \in SUBSET {"FREE", "PB7", "PULSE"}
           /\ c.ifr \in SUBSET Sources /\ c.ier \in SUBSET Sources /\ c.irq \in Lines
           /\ c.t1 \in ViaT1 /\ c.t2 \in ViaT2
           /\ c.t1.tal \in 0 .. Word - 1 /\ c.t1.tau \in Clock /\ c.t1.tai \in Clock
           /\ c.t2.cl \in Bytes /\ c.t2.ch \in Bytes /\ c.t2.tbu \in Clock /\ c.t2.tbi \in Clock
<1>1. /\ c.latch1 \in 0 .. Word - 1 /\ c.latch2 \in Bytes
      /\ c.acr \in SUBSET {"FREE", "PB7", "PULSE"}
      /\ c.ifr \in SUBSET Sources /\ c.ier \in SUBSET Sources /\ c.irq \in Lines
      /\ c.t1 \in ViaT1 /\ c.t2 \in ViaT2
  BY ChipSets, ChipFields
<1> QED BY <1>1 DEF ViaT1, ViaT2

LEMMA ExactFields ==
    ASSUME NEW x \in ExactChips
    PROVE  /\ x.latch1 \in 0 .. Word - 1 /\ x.latch2 \in Bytes
           /\ x.acr \in SUBSET {"FREE", "PB7", "PULSE"}
           /\ x.ifr \in SUBSET Sources /\ x.ier \in SUBSET Sources /\ x.irq \in Lines
           /\ x.t1 \in ExactT1 /\ x.t2 \in ExactT2
           /\ x.t1.tal \in 0 .. Word - 1 /\ x.t1.cnt \in 0 .. Word - 1 /\ x.t1.out \in BOOLEAN
           /\ x.t1.load \in BOOLEAN /\ x.t1.armed \in BOOLEAN
           /\ x.t2.cnt \in 0 .. Word - 1 /\ x.t2.load \in BOOLEAN /\ x.t2.armed \in BOOLEAN
           /\ x.t2.pulse \in BOOLEAN
<1>1. /\ x.latch1 \in 0 .. Word - 1 /\ x.latch2 \in Bytes
      /\ x.acr \in SUBSET {"FREE", "PB7", "PULSE"}
      /\ x.ifr \in SUBSET Sources /\ x.ier \in SUBSET Sources /\ x.irq \in Lines
      /\ x.t1 \in ExactT1 /\ x.t2 \in ExactT2
  BY ChipSets, ChipFields
<1> QED BY <1>1 DEF ExactT1, ExactT2

(* The registers but the flags.                                             *)
Regs(r, c) == r.latch1 = c.latch1 /\ r.latch2 = c.latch2 /\ r.acr = c.acr /\ r.ier = c.ier

(* Chip r is chip c with timer 1, or timer 2, set.                          *)
Set1(r, c, t1) ==
    Regs(r, c) /\ r.ifr = c.ifr /\ r.irq = c.irq /\ r.t1 = t1 /\ r.t2 = c.t2
Set2(r, c, t2) ==
    Regs(r, c) /\ r.ifr = c.ifr /\ r.irq = c.irq /\ r.t1 = c.t1 /\ r.t2 = t2

LEMMA SetFields ==
    ASSUME NEW T1, NEW T2, NEW c \in Chips(T1, T2), NEW t1 \in T1, NEW t2 \in T2
    PROVE  /\ [c EXCEPT !.t1 = t1] \in Chips(T1, T2) /\ Set1([c EXCEPT !.t1 = t1], c, t1)
           /\ [c EXCEPT !.t2 = t2] \in Chips(T1, T2) /\ Set2([c EXCEPT !.t2 = t2], c, t2)
<1>1. PICK d : d = [c EXCEPT !.t1 = t1]
  OBVIOUS
<1>2. d \in Chips(T1, T2) /\ Set1(d, c, t1)
  BY ONLY <1>1, c \in Chips(T1, T2), t1 \in T1 DEF Chips, Set1, Regs
<1>3. PICK e : e = [c EXCEPT !.t2 = t2]
  OBVIOUS
<1>4. e \in Chips(T1, T2) /\ Set2(e, c, t2)
  BY ONLY <1>3, c \in Chips(T1, T2), t2 \in T2 DEF Chips, Set2, Regs
<1> QED BY <1>1, <1>2, <1>3, <1>4, Zenon

(* viacore_intt1                                                            *)
LEMMA IntT1Fields ==
    ASSUME NEW c \in ViaChips
    PROVE  /\ IntT1(c) \in ViaChips /\ Regs(IntT1(c), c) /\ IntT1(c).t2 = c.t2
           /\ IntT1(c).ifr = c.ifr \cup {"T1"}
           /\ IntT1(c).irq = Pulled(c.ifr \cup {"T1"}, c.ier, c.irq, c.t1.tai)
           /\ IntT1(c).t1.tal = c.t1.tal
           /\ IF "FREE" \in c.acr
              THEN /\ IntT1(c).t1.tai = ClockAdd(c.t1.tai, c.t1.tal + 2)
                   /\ IntT1(c).t1.tau = ClockAdd(c.t1.tau, c.t1.tal + 2)
              ELSE IntT1(c).t1.tai = 0 /\ IntT1(c).t1.tau = c.t1.tau
<1> DEFINE tai == IF "FREE" \in c.acr THEN ClockAdd(c.t1.tai, c.t1.tal + 2) ELSE 0
           tau == IF "FREE" \in c.acr THEN ClockAdd(c.t1.tau, c.t1.tal + 2) ELSE c.t1.tau
           next == IF "FREE" \in c.acr
                   THEN [c EXCEPT !.t1.tai = ClockAdd(@, c.t1.tal + 2),
                                  !.t1.tau = ClockAdd(@, c.t1.tal + 2)]
                   ELSE [c EXCEPT !.t1.tai = 0]
<1>1. tai \in Clock /\ tau \in Clock
  <2>1. c.t1.tai + (c.t1.tal + 2) \in Int /\ c.t1.tau + (c.t1.tal + 2) \in Int
    BY ViaFields, Constants DEF Clock
  <2>2. ClockAdd(c.t1.tai, c.t1.tal + 2) \in Clock /\ ClockAdd(c.t1.tau, c.t1.tal + 2) \in Clock
    BY <2>1, ClockSmall DEF ClockAdd
  <2>3. 0 \in Clock
    BY Constants DEF Clock
  <2> QED BY <2>2, <2>3, ViaFields
<1>2. PICK t1 : t1 = [c.t1 EXCEPT !.tai = tai, !.tau = tau]
  OBVIOUS
<1>3. t1 \in ViaT1 /\ t1.tal = c.t1.tal /\ t1.tai = tai /\ t1.tau = tau
  <2>1. c.t1 \in ViaT1
    BY ViaFields
  <2> HIDE DEF tai, tau
  <2> QED BY ONLY <1>1, <1>2, <2>1 DEF ViaT1
<1>4. next = [c EXCEPT !.t1 = t1]
  <2>1. CASE "FREE" \in c.acr
    <3>1. t1 = [c.t1 EXCEPT !.tai = ClockAdd(c.t1.tai, c.t1.tal + 2),
                            !.tau = ClockAdd(c.t1.tau, c.t1.tal + 2)]
      BY <1>2, <2>1
    <3>2. next = [c EXCEPT !.t1.tai = ClockAdd(@, c.t1.tal + 2),
                           !.t1.tau = ClockAdd(@, c.t1.tal + 2)]
      BY <2>1
    <3> HIDE DEF next
    <3>3. c \in Chips(ViaT1, ViaT2)
      BY ChipSets
    <3> QED BY ONLY <3>1, <3>2, <3>3 DEF Chips, ViaT1
  <2>2. CASE "FREE" \notin c.acr
    <3>1. t1 = [c.t1 EXCEPT !.tai = 0, !.tau = c.t1.tau]
      BY <1>2, <2>2
    <3>2. next = [c EXCEPT !.t1.tai = 0]
      BY <2>2
    <3> HIDE DEF next
    <3>3. c \in Chips(ViaT1, ViaT2)
      BY ChipSets
    <3> QED BY ONLY <3>1, <3>2, <3>3 DEF Chips, ViaT1
  <2> QED BY <2>1, <2>2
<1> HIDE DEF next
<1>5. next \in Chips(ViaT1, ViaT2) /\ Set1(next, c, t1)
  <2>1. c \in Chips(ViaT1, ViaT2) /\ c.t2 \in ViaT2
    BY ChipSets, ViaFields
  <2> QED BY <1>3, <1>4, <2>1, SetFields
<1>6. IntT1(c) = Raise(next, "T1", c.t1.tai)
  BY Zenon DEF IntT1, next
<1>7. /\ Raise(next, "T1", c.t1.tai) \in Chips(ViaT1, ViaT2)
      /\ FlagsSet(Raise(next, "T1", c.t1.tai), next, next.ifr \cup {"T1"}, next.ier,
                  Pulled(next.ifr \cup {"T1"}, next.ier, next.irq, c.t1.tai))
  <2>1. "T1" \in Sources /\ c.t1.tai \in Clock
    BY ViaFields DEF Sources
  <2> QED BY <1>5, <2>1, RaiseFields
<1> DEFINE r == Raise(next, "T1", c.t1.tai)
<1>8. /\ r \in ViaChips /\ Regs(r, c) /\ r.t2 = c.t2 /\ r.ifr = c.ifr \cup {"T1"}
      /\ r.irq = Pulled(c.ifr \cup {"T1"}, c.ier, c.irq, c.t1.tai) /\ r.t1 = t1
  <2> HIDE DEF r
  <2> QED BY <1>5, <1>7, ChipSets DEF FlagsSet, Set1, Regs, r
<1> HIDE DEF r
<1> QED BY <1>3, <1>6, <1>8 DEF r

(* viacore_intt2                                                            *)
LEMMA ByteLess ==
    ASSUME NEW ch \in Bytes
    PROVE  /\ (ch - 1) % Base \in Bytes
           /\ IF ch = 0 THEN (ch - 1) % Base = Base - 1
              ELSE (ch - 1) % Base = ch - 1 /\ (ch - 1) % Base # Base - 1
<1>1. ch \in 0 .. Base - 1 /\ Base \in Nat \ {0} /\ ch % Base = ch
  BY Constants, RemainderSmall DEF Bytes
<1>2. (ch - 1) % Base = IF ch = 0 THEN Base - 1 ELSE ch - 1
  <2>1. ch \in Int
    BY <1>1
  <2>2. (ch - 1) % Base = IF ch % Base = 0 THEN Base - 1 ELSE (ch % Base) - 1
    BY <1>1, <2>1, RemainderStep, Zenon
  <2> QED BY <1>1, <2>2
<1> QED BY <1>1, <1>2 DEF Bytes

LEMMA IntT2Fields ==
    ASSUME NEW c \in ViaChips
    PROVE  /\ IntT2(c) \in ViaChips /\ Regs(IntT2(c), c) /\ IntT2(c).t1 = c.t1
           /\ IF c.t2.ch # 0
              THEN /\ IntT2(c).t2.ch = c.t2.ch - 1
                   /\ IntT2(c).t2.tbi = ClockAdd(c.t2.tbi, Base)
                   /\ IntT2(c).t2.tbu = ClockAdd(c.t2.tbu, Base)
                   /\ IntT2(c).ifr = c.ifr /\ IntT2(c).irq = c.irq
              ELSE /\ IntT2(c).t2.ch = Base - 1
                   /\ IntT2(c).t2.tbi = 0 /\ IntT2(c).t2.tbu = c.t2.tbu
                   /\ IntT2(c).ifr = c.ifr \cup {"T2"}
                   /\ IntT2(c).irq = Pulled(c.ifr \cup {"T2"}, c.ier, c.irq, c.t2.tbi)
<1> DEFINE hi == (c.t2.ch - 1) % Base
           tbi == IF c.t2.ch # 0 THEN ClockAdd(c.t2.tbi, Base) ELSE 0
           tbu == IF c.t2.ch # 0 THEN ClockAdd(c.t2.tbu, Base) ELSE c.t2.tbu
           low == [c EXCEPT !.t2.cl = Base - 1, !.t2.ch = hi]
           next == IF c.t2.ch # 0
                   THEN [low EXCEPT !.t2.tbi = ClockAdd(@, Base), !.t2.tbu = ClockAdd(@, Base)]
                   ELSE [low EXCEPT !.t2.tbi = 0]
<1>1. /\ hi \in Bytes /\ Base - 1 \in Bytes
      /\ IF c.t2.ch = 0 THEN hi = Base - 1 ELSE hi = c.t2.ch - 1 /\ hi # Base - 1
  BY ViaFields, ByteLess, Constants DEF Bytes
<1>2. tbi \in Clock /\ tbu \in Clock
  <2>1. c.t2.tbi + Base \in Int /\ c.t2.tbu + Base \in Int
    BY ViaFields, Constants DEF Clock
  <2>2. ClockAdd(c.t2.tbi, Base) \in Clock /\ ClockAdd(c.t2.tbu, Base) \in Clock
    BY <2>1, ClockSmall DEF ClockAdd
  <2>3. 0 \in Clock
    BY Constants DEF Clock
  <2> QED BY <2>2, <2>3, ViaFields
<1>3. PICK t2 : t2 = [c.t2 EXCEPT !.cl = Base - 1, !.ch = hi, !.tbi = tbi, !.tbu = tbu]
  OBVIOUS
<1>4. t2 \in ViaT2 /\ t2.ch = hi /\ t2.tbi = tbi /\ t2.tbu = tbu
  <2>1. c.t2 \in ViaT2
    BY ViaFields
  <2> HIDE DEF hi, tbi, tbu
  <2> QED BY ONLY <1>1, <1>2, <1>3, <2>1 DEF ViaT2
<1>5. next = [c EXCEPT !.t2 = t2]
  <2>1. c \in Chips(ViaT1, ViaT2)
    BY ChipSets
  <2>2. low = [c EXCEPT !.t2.cl = Base - 1, !.t2.ch = hi]
    OBVIOUS
  <2>3. CASE c.t2.ch # 0
    <3>1. t2 = [c.t2 EXCEPT !.cl = Base - 1, !.ch = hi, !.tbi = ClockAdd(c.t2.tbi, Base),
                            !.tbu = ClockAdd(c.t2.tbu, Base)]
      BY <1>3, <2>3
    <3>2. next = [low EXCEPT !.t2.tbi = ClockAdd(@, Base), !.t2.tbu = ClockAdd(@, Base)]
      BY <2>3
    <3> HIDE DEF next, low, hi
    <3> QED BY ONLY <2>1, <2>2, <3>1, <3>2 DEF Chips, ViaT2
  <2>4. CASE c.t2.ch = 0
    <3>1. t2 = [c.t2 EXCEPT !.cl = Base - 1, !.ch = hi, !.tbi = 0, !.tbu = c.t2.tbu]
      BY <1>3, <2>4
    <3>2. next = [low EXCEPT !.t2.tbi = 0]
      BY <2>4
    <3> HIDE DEF next, low, hi
    <3> QED BY ONLY <2>1, <2>2, <3>1, <3>2 DEF Chips, ViaT2
  <2> QED BY <2>3, <2>4
<1>6. IntT2(c) = IF hi = Base - 1 THEN Raise(next, "T2", c.t2.tbi) ELSE next
  BY Zenon DEF IntT2, next, low, hi
<1> HIDE DEF next, low, hi
<1>7. next \in Chips(ViaT1, ViaT2) /\ Set2(next, c, t2)
  <2>1. c \in Chips(ViaT1, ViaT2) /\ c.t1 \in ViaT1
    BY ChipSets, ViaFields
  <2> QED BY <1>4, <1>5, <2>1, SetFields
<1>8. CASE c.t2.ch # 0
  <2>1. IntT2(c) = next
    BY <1>1, <1>6, <1>8
  <2> QED BY <1>1, <1>4, <1>7, <1>8, <2>1, ChipSets DEF Set2, Regs
<1>9. CASE c.t2.ch = 0
  <2> DEFINE r == Raise(next, "T2", c.t2.tbi)
  <2>1. IntT2(c) = r
    BY <1>1, <1>6, <1>9
  <2>2. /\ r \in Chips(ViaT1, ViaT2)
        /\ FlagsSet(r, next, next.ifr \cup {"T2"}, next.ier,
                    Pulled(next.ifr \cup {"T2"}, next.ier, next.irq, c.t2.tbi))
    <3>1. "T2" \in Sources /\ c.t2.tbi \in Clock
      BY ViaFields DEF Sources
    <3> QED BY <1>7, <3>1, RaiseFields
  <2> HIDE DEF r
  <2>3. /\ r \in ViaChips /\ Regs(r, c) /\ r.t1 = c.t1 /\ r.ifr = c.ifr \cup {"T2"}
        /\ r.irq = Pulled(c.ifr \cup {"T2"}, c.ier, c.irq, c.t2.tbi) /\ r.t2 = t2
    BY <1>7, <2>2, ChipSets DEF FlagsSet, Set2, Regs
  <2>4. t2.ch = Base - 1 /\ t2.tbi = 0 /\ t2.tbu = c.t2.tbu
    BY <1>1, <1>4, <1>9
  <2> QED BY <1>9, <2>1, <2>3, <2>4
<1> QED BY <1>8, <1>9

(* update_myviatal                                                          *)
LEMMA UpdateTalFields ==
    ASSUME NEW c \in ViaChips, NEW clk \in Clock
    PROVE  /\ UpdateTal(c, clk) \in ViaChips /\ Regs(UpdateTal(c, clk), c)
           /\ UpdateTal(c, clk).t2 = c.t2
           /\ UpdateTal(c, clk).ifr = c.ifr /\ UpdateTal(c, clk).irq = c.irq
           /\ UpdateTal(c, clk).t1.tal = c.latch1 /\ UpdateTal(c, clk).t1.tai = c.t1.tai
           /\ UpdateTal(c, clk).t1.tau =
                 IF clk > c.t1.tau
                 THEN ClockAdd(clk - ((clk - c.t1.tau - 1) % (c.t1.tal + 2)), (c.t1.tal + 2) - 1)
                 ELSE c.t1.tau
<1> DEFINE period == c.t1.tal + 2
           end == ClockAdd(clk - ((clk - c.t1.tau - 1) % period), period - 1)
           tau == IF clk > c.t1.tau THEN end ELSE c.t1.tau
<1>1. tau \in Clock
  <2>1. period \in Nat \ {0} /\ clk \in Int /\ clk - c.t1.tau - 1 \in Int
    BY ViaFields, Constants DEF Clock
  <2>2. (clk - c.t1.tau - 1) % period \in Int
    <3> HIDE DEF period
    <3>1. PICK z \in Int : z = clk - c.t1.tau - 1
      BY <2>1
    <3>2. z % period \in Int
      BY <2>1, Remainder
    <3> QED BY <3>1, <3>2
  <2>3. (clk - ((clk - c.t1.tau - 1) % period)) + (period - 1) \in Int
    <3> HIDE DEF period
    <3> QED BY <2>1, <2>2
  <2>4. end \in Clock
    BY <2>3, ClockSmall, Zenon DEF ClockAdd
  <2> HIDE DEF end
  <2> QED BY <2>4, ViaFields
<1>2. PICK t1 : t1 = [c.t1 EXCEPT !.tau = tau, !.tal = c.latch1]
  OBVIOUS
<1>3. UpdateTal(c, clk) = [c EXCEPT !.t1.tau = tau, !.t1.tal = c.latch1]
  BY Zenon DEF UpdateTal
<1> HIDE DEF tau, period, end
<1>4. t1 \in ViaT1 /\ t1.tal = c.latch1 /\ t1.tai = c.t1.tai /\ t1.tau = tau
  <2>1. c.t1 \in ViaT1 /\ c.latch1 \in 0 .. Word - 1
    BY ViaFields
  <2> QED BY ONLY <1>1, <1>2, <2>1 DEF ViaT1
<1>5. UpdateTal(c, clk) = [c EXCEPT !.t1 = t1]
  <2>1. c \in Chips(ViaT1, ViaT2)
    BY ChipSets
  <2>2. PICK r : r = [c EXCEPT !.t1.tau = tau, !.t1.tal = c.latch1]
    OBVIOUS
  <2>3. r = [c EXCEPT !.t1 = t1]
    BY ONLY <1>2, <2>1, <2>2 DEF Chips, ViaT1
  <2> QED BY <1>3, <2>2, <2>3, Zenon
<1>6. UpdateTal(c, clk) \in Chips(ViaT1, ViaT2) /\ Set1(UpdateTal(c, clk), c, t1)
  <2>1. c \in Chips(ViaT1, ViaT2) /\ c.t2 \in ViaT2
    BY ChipSets, ViaFields
  <2>2. [c EXCEPT !.t1 = t1] \in Chips(ViaT1, ViaT2) /\ Set1([c EXCEPT !.t1 = t1], c, t1)
    BY <1>4, <2>1, SetFields
  <2> QED BY <1>5, <2>2, Zenon
<1>7. /\ UpdateTal(c, clk) \in ViaChips /\ Regs(UpdateTal(c, clk), c)
      /\ UpdateTal(c, clk).t2 = c.t2
      /\ UpdateTal(c, clk).ifr = c.ifr /\ UpdateTal(c, clk).irq = c.irq
      /\ UpdateTal(c, clk).t1.tal = c.latch1 /\ UpdateTal(c, clk).t1.tai = c.t1.tai
      /\ UpdateTal(c, clk).t1.tau = tau
  BY <1>4, <1>6, ChipSets DEF Set1
<1> QED BY <1>7, Zenon DEF tau, period, end

LEMMA StartT2Fields ==
    ASSUME NEW c \in ViaChips, NEW clk \in Clock
    PROVE  /\ StartT2(c, clk) \in ViaChips /\ Regs(StartT2(c, clk), c)
           /\ StartT2(c, clk).t1 = c.t1
           /\ StartT2(c, clk).ifr = c.ifr /\ StartT2(c, clk).irq = c.irq
           /\ StartT2(c, clk).t2.cl = c.t2.cl /\ StartT2(c, clk).t2.ch = c.t2.ch
           /\ StartT2(c, clk).t2.tbu = ClockAdd(clk, c.t2.cl + 3)
           /\ StartT2(c, clk).t2.tbi = ClockAdd(clk, c.t2.cl + 1)
<1> DEFINE tbu == ClockAdd(clk, c.t2.cl + 3)
           tbi == ClockAdd(clk, c.t2.cl + 1)
<1>1. tbu \in Clock /\ tbi \in Clock
  <2>1. clk + (c.t2.cl + 3) \in Int /\ clk + (c.t2.cl + 1) \in Int
    BY ViaFields, Constants DEF Clock, Bytes
  <2> QED BY <2>1, ClockSmall DEF ClockAdd
<1>2. PICK t2 : t2 = [c.t2 EXCEPT !.tbu = tbu, !.tbi = tbi]
  OBVIOUS
<1>3. StartT2(c, clk) = [c EXCEPT !.t2.tbu = tbu, !.t2.tbi = tbi]
  BY Zenon DEF StartT2
<1> HIDE DEF tbu, tbi
<1>4. t2 \in ViaT2 /\ t2.cl = c.t2.cl /\ t2.ch = c.t2.ch /\ t2.tbu = tbu /\ t2.tbi = tbi
  <2>1. c.t2 \in ViaT2
    BY ViaFields
  <2> QED BY ONLY <1>1, <1>2, <2>1 DEF ViaT2
<1>5. StartT2(c, clk) = [c EXCEPT !.t2 = t2]
  <2>1. c \in Chips(ViaT1, ViaT2)
    BY ChipSets
  <2>2. PICK r : r = [c EXCEPT !.t2.tbu = tbu, !.t2.tbi = tbi]
    OBVIOUS
  <2>3. r = [c EXCEPT !.t2 = t2]
    BY ONLY <1>2, <2>1, <2>2 DEF Chips, ViaT2
  <2> QED BY <1>3, <2>2, <2>3, Zenon
<1>6. StartT2(c, clk) \in Chips(ViaT1, ViaT2) /\ Set2(StartT2(c, clk), c, t2)
  <2>1. c \in Chips(ViaT1, ViaT2) /\ c.t1 \in ViaT1
    BY ChipSets, ViaFields
  <2>2. [c EXCEPT !.t2 = t2] \in Chips(ViaT1, ViaT2) /\ Set2([c EXCEPT !.t2 = t2], c, t2)
    BY <1>4, <2>1, SetFields
  <2> QED BY <1>5, <2>2, Zenon
<1> QED BY <1>4, <1>6, ChipSets DEF Set2, tbu, tbi

(* A cycle of the chip that counts.                                         *)
LEMMA Count1Fields ==
    ASSUME NEW x \in ExactChips, NEW t \in Clock
    PROVE  /\ Count1(x, t) \in ExactChips /\ Regs(Count1(x, t), x)
           /\ Count1(x, t).t2 = x.t2 /\ Count1(x, t).t1.tal = x.t1.tal
           /\ Count1(x, t).t1.cnt = IF x.t1.load \/ x.t1.out THEN x.t1.tal
                                    ELSE (x.t1.cnt - 1) % Word
           /\ Count1(x, t).t1.out <=> ~x.t1.load /\ ~x.t1.out /\ x.t1.cnt = 0
           /\ ~Count1(x, t).t1.load
           /\ Count1(x, t).t1.armed <=>
                 x.t1.armed /\ (x.t1.out /\ ~x.t1.load => "FREE" \in x.acr)
           /\ IF x.t1.out /\ x.t1.armed /\ ~x.t1.load
              THEN /\ Count1(x, t).ifr = x.ifr \cup {"T1"}
                   /\ Count1(x, t).irq = Pulled(x.ifr \cup {"T1"}, x.ier, x.irq, t)
              ELSE Count1(x, t).ifr = x.ifr /\ Count1(x, t).irq = x.irq
<1>1. PICK cnt \in 0 .. Word - 1 :
          cnt = IF x.t1.load \/ x.t1.out THEN x.t1.tal ELSE (x.t1.cnt - 1) % Word
  <2>1. PICK z \in Int : z = x.t1.cnt - 1
    BY ExactFields, Constants
  <2>2. z % Word \in 0 .. Word - 1
    BY Constants, Remainder
  <2> QED BY <2>1, <2>2, ExactFields
<1>2. PICK out \in BOOLEAN : out = (~(x.t1.load \/ x.t1.out) /\ x.t1.cnt = 0)
  OBVIOUS
<1>3. PICK armed \in BOOLEAN :
          armed = (x.t1.armed /\ (x.t1.out /\ ~x.t1.load => "FREE" \in x.acr))
  BY ExactFields
<1>4. PICK t1 : t1 = [x.t1 EXCEPT !.cnt = cnt, !.out = out, !.load = FALSE, !.armed = armed]
  OBVIOUS
<1>5. t1 \in ExactT1 /\ t1.tal = x.t1.tal /\ t1.cnt = cnt /\ t1.out = out /\ t1.load = FALSE
      /\ t1.armed = armed
  <2>1. x.t1 \in ExactT1 /\ cnt \in 0 .. Word - 1 /\ out \in BOOLEAN /\ armed \in BOOLEAN
    BY ExactFields
  <2> QED BY ONLY <1>4, <2>1 DEF ExactT1
<1> DEFINE counted == [x EXCEPT
            !.t1.cnt = IF x.t1.load \/ x.t1.out THEN x.t1.tal ELSE (@ - 1) % Word,
            !.t1.out = ~(x.t1.load \/ x.t1.out) /\ x.t1.cnt = 0,
            !.t1.load = FALSE,
            !.t1.armed = @ /\ (x.t1.out /\ ~x.t1.load => "FREE" \in x.acr)]
<1>6. Count1(x, t) = IF x.t1.out /\ x.t1.armed /\ ~x.t1.load
                     THEN Raise(counted, "T1", t) ELSE counted
  BY Zenon DEF Count1
<1>7. counted = [x EXCEPT !.t1 = t1]
  <2>1. x \in Chips(ExactT1, ExactT2)
    BY ChipSets
  <2>2. counted = [x EXCEPT !.t1.cnt = cnt, !.t1.out = out, !.t1.load = FALSE,
                            !.t1.armed = armed]
    BY <1>1, <1>2, <1>3, Zenon
  <2>3. PICK r : r = [x EXCEPT !.t1.cnt = cnt, !.t1.out = out, !.t1.load = FALSE,
                               !.t1.armed = armed]
    OBVIOUS
  <2>4. r = [x EXCEPT !.t1 = t1]
    BY ONLY <1>4, <2>1, <2>3 DEF Chips, ExactT1
  <2> QED BY <2>2, <2>3, <2>4, Zenon
<1> HIDE DEF counted
<1>8. counted \in Chips(ExactT1, ExactT2) /\ Set1(counted, x, t1)
  <2>1. x \in Chips(ExactT1, ExactT2) /\ x.t2 \in ExactT2
    BY ChipSets, ExactFields
  <2>2. [x EXCEPT !.t1 = t1] \in Chips(ExactT1, ExactT2) /\ Set1([x EXCEPT !.t1 = t1], x, t1)
    BY <1>5, <2>1, SetFields
  <2> QED BY <1>7, <2>2, Zenon
<1>9. /\ Raise(counted, "T1", t) \in Chips(ExactT1, ExactT2)
      /\ FlagsSet(Raise(counted, "T1", t), counted, counted.ifr \cup {"T1"}, counted.ier,
                  Pulled(counted.ifr \cup {"T1"}, counted.ier, counted.irq, t))
  <2>1. "T1" \in Sources
    BY DEF Sources
  <2> QED BY <1>8, <2>1, RaiseFields
<1>10. PICK r : r = Count1(x, t)
  OBVIOUS
<1>11. /\ r \in Chips(ExactT1, ExactT2) /\ Regs(r, x) /\ r.t2 = x.t2 /\ r.t1 = t1
       /\ IF x.t1.out /\ x.t1.armed /\ ~x.t1.load
          THEN /\ r.ifr = x.ifr \cup {"T1"}
               /\ r.irq = Pulled(x.ifr \cup {"T1"}, x.ier, x.irq, t)
          ELSE r.ifr = x.ifr /\ r.irq = x.irq
  <2>1. CASE x.t1.out /\ x.t1.armed /\ ~x.t1.load
    <3>1. r = Raise(counted, "T1", t)
      BY <1>6, <1>10, <2>1
    <3> QED BY <1>8, <1>9, <2>1, <3>1 DEF FlagsSet, Set1, Regs
  <2>2. CASE ~(x.t1.out /\ x.t1.armed /\ ~x.t1.load)
    <3>1. r = counted
      BY <1>6, <1>10, <2>2
    <3> QED BY <1>8, <2>2, <3>1 DEF Set1, Regs
  <2> QED BY <2>1, <2>2
<1>12. /\ r.t1.cnt = IF x.t1.load \/ x.t1.out THEN x.t1.tal ELSE (x.t1.cnt - 1) % Word
       /\ r.t1.out <=> ~x.t1.load /\ ~x.t1.out /\ x.t1.cnt = 0
       /\ ~r.t1.load /\ r.t1.tal = x.t1.tal
       /\ r.t1.armed <=> x.t1.armed /\ (x.t1.out /\ ~x.t1.load => "FREE" \in x.acr)
  BY <1>1, <1>2, <1>3, <1>5, <1>11
<1> QED BY <1>10, <1>11, <1>12, ChipSets

Counted2(r, x, t) ==
    /\ Regs(r, x) /\ r.t1 = x.t1
    /\ r.t2.cnt = IF x.t2.load \/ x.t2.pulse THEN x.t2.cnt ELSE (x.t2.cnt - 1) % Word
    /\ ~r.t2.load
    /\ r.t2.pulse <=> "PULSE" \in x.acr
    /\ IF x.t2.cnt = 0 /\ x.t2.armed /\ ~x.t2.load /\ ~x.t2.pulse
       THEN /\ ~r.t2.armed /\ r.ifr = x.ifr \cup {"T2"}
            /\ r.irq = Pulled(x.ifr \cup {"T2"}, x.ier, x.irq, t)
       ELSE /\ r.t2.armed <=> x.t2.armed
            /\ r.ifr = x.ifr /\ r.irq = x.irq

LEMMA Count2Fields ==
    ASSUME NEW x \in ExactChips, NEW t \in Clock
    PROVE  Count2(x, t) \in ExactChips /\ Counted2(Count2(x, t), x, t)
<1>1. PICK cnt \in 0 .. Word - 1 :
          cnt = IF x.t2.load \/ x.t2.pulse THEN x.t2.cnt ELSE (x.t2.cnt - 1) % Word
  <2>1. PICK z \in Int : z = x.t2.cnt - 1
    BY ExactFields, Constants
  <2>2. z % Word \in 0 .. Word - 1
    BY Constants, Remainder
  <2> QED BY <2>1, <2>2, ExactFields
<1> DEFINE ends == x.t2.cnt = 0 /\ x.t2.armed /\ ~x.t2.load /\ ~x.t2.pulse
<1>2. PICK armed \in BOOLEAN : armed = (x.t2.armed /\ ~ends)
  BY ExactFields
<1>3. PICK pulse \in BOOLEAN : pulse = ("PULSE" \in x.acr)
  <2>1. ("PULSE" \in x.acr) \in BOOLEAN
    OBVIOUS
  <2> QED BY <2>1, Zenon
<1>4. PICK t2 : t2 = [x.t2 EXCEPT !.cnt = cnt, !.load = FALSE, !.armed = armed, !.pulse = pulse]
  OBVIOUS
<1>5. t2 \in ExactT2 /\ t2.cnt = cnt /\ t2.load = FALSE /\ t2.armed = armed /\ t2.pulse = pulse
  <2>1. x.t2 \in ExactT2 /\ cnt \in 0 .. Word - 1 /\ pulse \in BOOLEAN /\ armed \in BOOLEAN
    BY ExactFields
  <2> QED BY ONLY <1>4, <2>1 DEF ExactT2
<1> DEFINE counted == [x EXCEPT
            !.t2.cnt = IF x.t2.load \/ x.t2.pulse THEN @ ELSE (@ - 1) % Word,
            !.t2.load = FALSE, !.t2.armed = @ /\ ~ends, !.t2.pulse = "PULSE" \in x.acr]
<1>6. Count2(x, t) = IF ends THEN Raise(counted, "T2", t) ELSE counted
  BY Zenon DEF Count2
<1>7. counted = [x EXCEPT !.t2 = t2]
  <2>1. x \in Chips(ExactT1, ExactT2)
    BY ChipSets
  <2>2. counted = [x EXCEPT !.t2.cnt = cnt, !.t2.load = FALSE, !.t2.armed = armed,
                            !.t2.pulse = pulse]
    BY <1>1, <1>2, <1>3, Zenon
  <2>3. PICK r : r = [x EXCEPT !.t2.cnt = cnt, !.t2.load = FALSE, !.t2.armed = armed,
                               !.t2.pulse = pulse]
    OBVIOUS
  <2>4. r = [x EXCEPT !.t2 = t2]
    BY ONLY <1>4, <2>1, <2>3 DEF Chips, ExactT2
  <2> QED BY <2>2, <2>3, <2>4, Zenon
<1> HIDE DEF counted
<1>8. counted \in Chips(ExactT1, ExactT2) /\ Set2(counted, x, t2)
  <2>1. x \in Chips(ExactT1, ExactT2) /\ x.t1 \in ExactT1
    BY ChipSets, ExactFields
  <2>2. [x EXCEPT !.t2 = t2] \in Chips(ExactT1, ExactT2) /\ Set2([x EXCEPT !.t2 = t2], x, t2)
    BY <1>5, <2>1, SetFields
  <2> QED BY <1>7, <2>2, Zenon
<1>9. /\ Raise(counted, "T2", t) \in Chips(ExactT1, ExactT2)
      /\ FlagsSet(Raise(counted, "T2", t), counted, counted.ifr \cup {"T2"}, counted.ier,
                  Pulled(counted.ifr \cup {"T2"}, counted.ier, counted.irq, t))
  <2>1. "T2" \in Sources
    BY DEF Sources
  <2> QED BY <1>8, <2>1, RaiseFields
<1>10. PICK r : r = Count2(x, t)
  OBVIOUS
<1>11. /\ r \in Chips(ExactT1, ExactT2) /\ Regs(r, x) /\ r.t1 = x.t1 /\ r.t2 = t2
       /\ IF ends
          THEN /\ r.ifr = x.ifr \cup {"T2"}
               /\ r.irq = Pulled(x.ifr \cup {"T2"}, x.ier, x.irq, t)
          ELSE r.ifr = x.ifr /\ r.irq = x.irq
  <2> HIDE DEF ends
  <2>1. CASE ends
    <3>1. r = Raise(counted, "T2", t)
      BY <1>6, <1>10, <2>1
    <3> QED BY <1>8, <1>9, <2>1, <3>1 DEF FlagsSet, Set2, Regs
  <2>2. CASE ~ends
    <3>1. r = counted
      BY <1>6, <1>10, <2>2
    <3> QED BY <1>8, <2>2, <3>1 DEF Set2, Regs
  <2> QED BY <2>1, <2>2
<1>12. /\ r.t2.cnt = IF x.t2.load \/ x.t2.pulse THEN x.t2.cnt ELSE (x.t2.cnt - 1) % Word
       /\ ~r.t2.load /\ (r.t2.pulse <=> "PULSE" \in x.acr)
       /\ IF ends THEN ~r.t2.armed ELSE (r.t2.armed <=> x.t2.armed)
  BY <1>1, <1>2, <1>3, <1>5, <1>11
<1>13. Counted2(r, x, t)
  BY <1>11, <1>12, Zenon DEF Counted2
<1> QED BY <1>10, <1>11, <1>13, ChipSets

-----------------------------------------------------------------------------
(* The inductive invariant.  The flags of the chips are the same, or one of *)
(* them has still to set that of a timer's end, in cycle t.                 *)

SameFlags(v, x) == v.ifr = x.ifr /\ v.irq = x.irq
Behind(v, x, s, t) ==
    x.ifr = v.ifr \cup {s} /\ x.irq = Pulled(v.ifr \cup {s}, v.ier, v.irq, t)
WellPulled(c) == (c.irq.on <=> c.ifr \cap c.ier # {}) /\ (~c.irq.on => c.irq = Released)

(* How far timer 1 is from its end: as it counts, and as tau says.          *)
ToEnd1(x) == IF x.t1.load THEN x.t1.tal + 2 ELSE IF x.t1.out THEN 0 ELSE x.t1.cnt + 1
Expected1(tau, tal, t) == IF t <= tau THEN tau - t ELSE (tau - t) % (tal + 2)

Counts1(v, x, t) ==
    /\ v.t1.tau \in 0 .. t + Word + 1
    /\ v.t1.tai # 0 => v.t1.tau = v.t1.tai
    /\ x.t1.out => x.t1.cnt = Word - 1

(* No alarm of timer 1 is overdue.                                          *)
Settled1(v, x, t) ==
    /\ v.t1.tai = 0 \/ v.t1.tai >= t
    /\ ToEnd1(x) = Expected1(v.t1.tau, v.t1.tal, t)
    /\ x.t1.armed <=> v.t1.tai # 0
    /\ SameFlags(v, x)

(* The timer has come to its end and the alarm has not been called.         *)
Lagging1(v, x, t) ==
    /\ v.t1.tai # 0 /\ v.t1.tai < t
    /\ ToEnd1(x) = Expected1(v.t1.tau, v.t1.tal, t)
    /\ x.t1.armed <=> "FREE" \in v.acr
    /\ Behind(v, x, "T1", v.t1.tai)

(* The alarm has been called and the cycle of the end is not over.          *)
Ahead1(v, x, t) ==
    /\ x.t1.armed /\ x.t1.out /\ ~x.t1.load
    /\ Behind(x, v, "T1", t)
    /\ IF "FREE" \in v.acr THEN v.t1.tai = t + (v.t1.tal + 2)
       ELSE v.t1.tai = 0 /\ v.t1.tau = t

InStep1(v, x, t, b) ==
    /\ Counts1(v, x, t)
    /\ Settled1(v, x, t) \/ Lagging1(v, x, t) \/ (b = "fetch" /\ Ahead1(v, x, t))

(* Timer 2 stands still in the cycle of its start, and while it counts      *)
(* pulses.  End2 is the cycle in which both of its bytes are at their end.  *)
Held(x) == x.t2.load \/ x.t2.pulse
Standing(x) == IF Held(x) THEN 1 ELSE 0
End2(v) == v.t2.tbi + v.t2.ch * Base

Pulses(v, x, t) ==
    /\ SameFlags(v, x)
    /\ v.t2.ch * Base + v.t2.cl = IF Held(x) THEN x.t2.cnt ELSE (x.t2.cnt - 1) % Word

Settled2(v, x, t) ==
    /\ v.t2.tbi # 0 /\ x.t2.armed /\ v.t2.tbu = v.t2.tbi + 2
    /\ SameFlags(v, x)
    /\ End2(v) = t + x.t2.cnt + Standing(x)

Lagging2(v, x, t) ==
    /\ v.t2.tbi # 0 /\ ~x.t2.armed /\ v.t2.tbu = v.t2.tbi + 2 /\ ~Held(x)
    /\ End2(v) < t /\ x.t2.cnt = (End2(v) - t) % Word
    /\ Behind(v, x, "T2", End2(v))

Stopped2(v, x, t) ==
    /\ v.t2.tbi = 0 /\ ~x.t2.armed /\ ~Held(x)
    /\ x.t2.cnt = (v.t2.tbu - t - 2) % Word
    /\ SameFlags(v, x)

Ahead2(v, x, t) ==
    /\ v.t2.tbi = 0 /\ x.t2.armed /\ ~Held(x) /\ x.t2.cnt = 0
    /\ (v.t2.tbu - t - 2) % Word = 0
    /\ Behind(x, v, "T2", t)

InStep2(v, x, t, b) ==
    IF "PULSE" \in v.acr THEN Pulses(v, x, t)
    ELSE Settled2(v, x, t) \/ Lagging2(v, x, t) \/ Stopped2(v, x, t) \/ (b = "fetch" /\ Ahead2(v, x, t))

InStep(v, x, t, b) == IF used = "T1" THEN InStep1(v, x, t, b) ELSE InStep2(v, x, t, b)

Agree(v, x) ==
    /\ v.latch1 = x.latch1 /\ v.latch2 = x.latch2 /\ v.acr = x.acr /\ v.ier = x.ier
    /\ v.t1.tal = x.t1.tal

(* The timer that is not used; what only the cycle of a store sees.         *)
Apart(v, x, b) ==
    /\ used = "T1" => "PULSE" \notin v.acr /\ v.t2.tbi = 0 /\ ~x.t2.load /\ ~x.t2.pulse
    /\ used = "T2" => v.t1.tai = 0 /\ ~x.t1.load
    /\ x.t1.load \/ x.t2.load => b = "data"
    /\ b # "data" => (x.t2.pulse <=> "PULSE" \in v.acr)
    /\ "PULSE" \in v.acr => v.t2.tbi = 0 /\ ~x.t2.armed
    /\ x.t1.out => x.t1.cnt = Word - 1

(* Alarms are never far from now.                                           *)
Near(v, t, b) ==
    /\ v.t1.tai # 0 => v.t1.tai \in t - MaxLag - 1 .. t + Word + 1
    /\ v.t2.tbi # 0 => v.t2.tbi \in t - MaxLag - 1 .. t + (IF b = "free" THEN Base - 1 ELSE Base)

IInv ==
    /\ TypeOK
    /\ now \in SubMin .. GuardMax + 1
    /\ Agree(via, exact) /\ WellPulled(via) /\ WellPulled(exact)
    /\ Apart(via, exact, bus) /\ Near(via, now, bus)
    /\ upset = {} => InStep(via, exact, now, bus)

-----------------------------------------------------------------------------
(* The interrupt line.                                                      *)

LEMMA PulledIsWell ==
    ASSUME NEW ifr, NEW ier, NEW irq \in Lines, NEW t \in Clock
    PROVE  /\ Pulled(ifr, ier, irq, t).on <=> ifr \cap ier # {}
           /\ ~Pulled(ifr, ier, irq, t).on => Pulled(ifr, ier, irq, t) = Released
<1>1. CASE ifr \cap ier = {}
  BY <1>1 DEF Pulled, Released
<1>2. CASE ifr \cap ier # {} /\ irq.on
  BY <1>2 DEF Pulled
<1>3. CASE ifr \cap ier # {} /\ ~irq.on
  <2>1. Pulled(ifr, ier, irq, t) = [on |-> TRUE, clk |-> t]
    BY <1>3 DEF Pulled
  <2> QED BY <1>3, <2>1
<1> QED BY <1>1, <1>2, <1>3

(* ForgetPull for line p when the other chip's is q.                        *)
Forgotten(p, q) == IF p = q THEN [p EXCEPT !.clk = 0] ELSE p

LEMMA ForgottenFacts ==
    ASSUME NEW p \in Lines, NEW q
    PROVE  /\ Forgotten(p, q) \in Lines /\ (Forgotten(p, q).on <=> p.on)
           /\ p = Released => Forgotten(p, q) = Released
<1>1. 0 \in Clock
  BY Constants DEF Clock
<1>2. PICK d : d = [p EXCEPT !.clk = 0]
  OBVIOUS
<1>3. d \in Lines /\ d.on = p.on
  BY <1>1, <1>2 DEF Lines
<1>4. p = Released => d = Released
  BY <1>2 DEF Released
<1>5. Forgotten(p, q) = IF p = q THEN d ELSE p
  BY <1>2, Zenon DEF Forgotten
<1> QED BY <1>3, <1>4, <1>5

LEMMA ForgetFields ==
    ASSUME NEW T1, NEW T2, NEW c \in Chips(T1, T2)
    PROVE  /\ ForgetPull(c) \in Chips(T1, T2)
           /\ FlagsSet(ForgetPull(c), c, c.ifr, c.ier,
                       IF via.irq = exact.irq THEN [c.irq EXCEPT !.clk = 0] ELSE c.irq)
<1>1. c.irq \in Lines /\ 0 \in Clock
  BY ChipFields, Constants DEF Clock
<1>2. PICK d : d = [c EXCEPT !.irq.clk = 0]
  OBVIOUS
<1>3. d \in Chips(T1, T2) /\ FlagsSet(d, c, c.ifr, c.ier, [c.irq EXCEPT !.clk = 0])
  BY ONLY <1>1, <1>2, c \in Chips(T1, T2) DEF Chips, Lines, FlagsSet
<1>4. CASE via.irq = exact.irq
  <2>1. ForgetPull(c) = d
    BY <1>2, <1>4 DEF ForgetPull
  <2> QED BY <1>3, <1>4, <2>1
<1>5. CASE via.irq # exact.irq
  <2>1. ForgetPull(c) = c
    BY <1>5 DEF ForgetPull
  <2> QED BY <1>5, <2>1 DEF FlagsSet
<1> QED BY <1>4, <1>5

(* What a cycle does to the lines: both are forgotten, or none.  The line   *)
(* that is behind stays so; a flag that is raised again pulls nothing; and  *)
(* in the cycle of the end the chip that counts comes up with the code.     *)
LEMMA LinesForgotten ==
    ASSUME NEW ifr, NEW ier, NEW p \in Lines, NEW q \in Lines, NEW t \in Clock,
           ~p.on => p = Released, q = Pulled(ifr, ier, p, t)
    PROVE  /\ Forgotten(q, p) = Pulled(ifr, ier, Forgotten(p, q), t)
           /\ \A u \in Clock : Pulled(ifr, ier, Forgotten(q, p), u) = Forgotten(q, p)
           /\ Pulled(ifr, ier, Forgotten(p, q), t) = Forgotten(q, p)
<1>1. PICK f \in Lines : f = Forgotten(p, q)
  BY ForgottenFacts
<1>2. PICK g \in Lines : g = Forgotten(q, p)
  BY ForgottenFacts
<1>3. (f.on <=> p.on) /\ (p = Released => f = Released) /\ (g.on <=> q.on) /\ (q = Released => g = Released)
  BY <1>1, <1>2, ForgottenFacts
<1>4. (q.on <=> ifr \cap ier # {}) /\ (~q.on => q = Released)
  BY PulledIsWell
<1>5. p = q => f = g
  BY <1>1, <1>2
<1>6. p # q => f = p /\ g = q
  BY <1>1, <1>2 DEF Forgotten
<1>7. g = Pulled(ifr, ier, f, t)
  <2>1. CASE ifr \cap ier = {}
    <3>1. g = Released
      BY <1>3, <1>4, <2>1
    <3> QED BY <2>1, <3>1 DEF Pulled
  <2>2. CASE ifr \cap ier # {} /\ p.on
    <3>1. q = p
      BY <2>2 DEF Pulled
    <3>2. f = g /\ f.on
      BY <1>3, <1>5, <2>2, <3>1
    <3> QED BY <2>2, <3>2 DEF Pulled
  <2>3. CASE ifr \cap ier # {} /\ ~p.on
    <3>1. p # q
      BY <1>4, <2>3
    <3>2. f = p /\ g = q
      BY <1>6, <3>1
    <3> QED BY <3>2
  <2> QED BY <2>1, <2>2, <2>3
<1>8. ASSUME NEW u \in Clock
      PROVE  Pulled(ifr, ier, g, u) = g
  <2>1. CASE ifr \cap ier = {}
    BY <1>3, <1>4, <2>1 DEF Pulled
  <2>2. CASE ifr \cap ier # {}
    BY <1>3, <1>4, <2>2 DEF Pulled
  <2> QED BY <2>1, <2>2
<1> QED BY <1>1, <1>2, <1>7, <1>8

(* The line that is moved back by the guard.                                *)
Moved(p) == IF p.clk > GuardSub THEN [p EXCEPT !.clk = @ - GuardSub] ELSE [p EXCEPT !.clk = 0]

LEMMA MovedFacts ==
    ASSUME NEW p \in Lines
    PROVE  /\ Moved(p) \in Lines /\ (Moved(p).on <=> p.on) /\ (p = Released => Moved(p) = Released)
<1>1. 0 \in Clock /\ p.clk \in Clock /\ (p.clk > GuardSub => p.clk - GuardSub \in Clock)
  BY Constants DEF Clock, Lines
<1>2. PICK d : d = [p EXCEPT !.clk = 0]
  OBVIOUS
<1>3. d \in Lines /\ d.on = p.on
  BY <1>1, <1>2 DEF Lines
<1>4. p = Released => d = Released /\ ~(p.clk > GuardSub)
  BY <1>2, Constants DEF Released
<1>5. CASE p.clk > GuardSub
  <2>1. PICK back \in Clock : back = p.clk - GuardSub
    BY <1>1, <1>5
  <2>2. PICK e : e = [p EXCEPT !.clk = back]
    OBVIOUS
  <2>3. e \in Lines /\ e.on = p.on
    BY <2>2 DEF Lines
  <2>4. Moved(p) = e
    BY <1>5, <2>1, <2>2, Zenon DEF Moved
  <2> QED BY <1>4, <1>5, <2>3, <2>4
<1>6. CASE ~(p.clk > GuardSub)
  <2>1. Moved(p) = d
    BY <1>2, <1>6 DEF Moved
  <2> QED BY <1>3, <1>4, <2>1
<1> QED BY <1>5, <1>6

LEMMA PulledMoved ==
    ASSUME NEW ifr, NEW ier, NEW p \in Lines, NEW t \in Clock, t > GuardSub
    PROVE  Moved(Pulled(ifr, ier, p, t)) = Pulled(ifr, ier, Moved(p), t - GuardSub)
<1>1. CASE ifr \cap ier = {}
  <2>1. Released \in Lines
    BY Constants DEF Released, Lines, Clock
  <2>2. Moved(Released) = Released
    BY <2>1, MovedFacts
  <2> QED BY <1>1, <2>2 DEF Pulled
<1>2. CASE ifr \cap ier # {} /\ p.on
  BY <1>2, MovedFacts DEF Pulled
<1>3. CASE ifr \cap ier # {} /\ ~p.on
  <2>1. Moved([on |-> TRUE, clk |-> t]) = [on |-> TRUE, clk |-> t - GuardSub]
    BY DEF Moved
  <2>2. ~Moved(p).on
    BY <1>3, MovedFacts
  <2> QED BY <1>3, <2>1, <2>2 DEF Pulled
<1> QED BY <1>1, <1>2, <1>3

-----------------------------------------------------------------------------
(* Timer 1: how far tau says that the end is.                               *)

LEMMA ExpectedType ==
    ASSUME NEW tal \in 0 .. Word - 1, NEW tau \in Int, NEW t \in Int
    PROVE  /\ Expected1(tau, tal, t) \in Nat
           /\ t > tau => Expected1(tau, tal, t) <= tal + 1
<1>1. tal + 2 \in Nat \ {0} /\ tal \in Nat
  BY Constants
<1>2. PICK p \in Nat \ {0} : p = tal + 2
  BY <1>1
<1>3. PICK z \in Int : z = tau - t
  OBVIOUS
<1>4. z % p \in 0 .. p - 1
  BY Remainder
<1>5. Expected1(tau, tal, t) = IF t <= tau THEN z ELSE z % p
  BY <1>2, <1>3, Zenon DEF Expected1
<1> QED BY <1>1, <1>2, <1>3, <1>4, <1>5

(* A cycle brings the end nearer, or the timer is loaded again.             *)
LEMMA ExpectedTick ==
    ASSUME NEW tal \in 0 .. Word - 1, NEW tau \in Int, NEW t \in Int
    PROVE  Expected1(tau, tal, t + 1) =
               IF Expected1(tau, tal, t) = 0 THEN tal + 1 ELSE Expected1(tau, tal, t) - 1
<1>1. tal + 2 \in Nat \ {0} /\ tal \in Nat
  BY Constants
<1>2. PICK p \in Nat \ {0} : p = tal + 2
  BY <1>1
<1>3. PICK z \in Int : z = tau - t
  OBVIOUS
<1>4. PICK y \in Int : y = z - 1
  OBVIOUS
<1>5. (z - 1) % p = IF z % p = 0 THEN p - 1 ELSE (z % p) - 1
  BY RemainderStep
<1>6. y % p = IF z % p = 0 THEN p - 1 ELSE (z % p) - 1
  BY <1>4, <1>5, Zenon
<1>7. PICK r \in 0 .. p - 1 : r = z % p
  BY Remainder
<1>8. t <= tau => (z = 0 => z % p = 0)
  <2>1. 0 \in 0 .. p - 1
    BY <1>1, <1>2
  <2> QED BY <2>1, RemainderSmall
<1>9. Expected1(tau, tal, t) = IF t <= tau THEN z ELSE z % p
  BY <1>2, <1>3, Zenon DEF Expected1
<1>10. Expected1(tau, tal, t + 1) = IF t + 1 <= tau THEN y ELSE y % p
  <2>1. y = tau - (t + 1)
    BY <1>3, <1>4
  <2> QED BY <1>2, <2>1, Zenon DEF Expected1
<1>11. CASE t < tau
  BY <1>3, <1>4, <1>9, <1>10, <1>11
<1>12. CASE t = tau
  <2>1. z = 0 /\ z % p = 0
    BY <1>3, <1>8, <1>12
  <2>2. y % p = p - 1
    BY <1>6, <2>1
  <2> QED BY <1>2, <1>9, <1>10, <1>12, <2>1, <2>2
<1>13. CASE t > tau
  <2>1. y % p = IF r = 0 THEN p - 1 ELSE r - 1
    BY <1>6, <1>7
  <2>2. Expected1(tau, tal, t) = r /\ Expected1(tau, tal, t + 1) = y % p
    BY <1>7, <1>9, <1>10, <1>13
  <2> QED BY <1>2, <2>1, <2>2
<1> QED BY <1>11, <1>12, <1>13

(* An end that has passed is a period before the next.                      *)
LEMMA ExpectedNext ==
    ASSUME NEW tal \in 0 .. Word - 1, NEW tau \in Int, NEW t \in Int, tau < t
    PROVE  Expected1(tau + (tal + 2), tal, t) = Expected1(tau, tal, t)
<1>1. tal + 2 \in Nat \ {0} /\ tal \in Nat
  BY Constants
<1>2. PICK p \in Nat \ {0} : p = tal + 2
  BY <1>1
<1>3. PICK z \in Int : z = tau - t
  OBVIOUS
<1>4. PICK y \in Int : y = z + p
  OBVIOUS
<1>5. y % p = z % p
  <2>1. PICK k \in Int : k = 1
    OBVIOUS
  <2>2. (z + k * p) % p = z % p
    BY RemainderShift
  <2>3. z + k * p = y
    BY <1>4, <2>1
  <2> QED BY <2>2, <2>3, Zenon
<1>6. Expected1(tau, tal, t) = z % p
  <2>1. ~(t <= tau)
    OBVIOUS
  <2> QED BY <1>2, <1>3, <2>1, Zenon DEF Expected1
<1>7. Expected1(tau + (tal + 2), tal, t) = IF t <= tau + (tal + 2) THEN y ELSE y % p
  <2>1. y = (tau + (tal + 2)) - t
    BY <1>2, <1>3, <1>4
  <2> QED BY <1>2, <2>1, Zenon DEF Expected1
<1>8. CASE t <= tau + (tal + 2)
  <2>1. y \in 0 .. p - 1
    BY <1>2, <1>3, <1>4, <1>8
  <2>2. y % p = y
    BY <2>1, RemainderSmall
  <2> QED BY <1>5, <1>6, <1>7, <1>8, <2>2
<1>9. CASE ~(t <= tau + (tal + 2))
  BY <1>5, <1>6, <1>7, <1>9
<1> QED BY <1>8, <1>9

LEMMA ExpectedMoved ==
    ASSUME NEW tal \in 0 .. Word - 1, NEW tau \in Int, NEW t \in Int, NEW d \in Int
    PROVE  Expected1(tau - d, tal, t - d) = Expected1(tau, tal, t)
<1>1. (tau - d) - (t - d) = tau - t /\ (t - d <= tau - d <=> t <= tau)
  OBVIOUS
<1> QED BY <1>1, Zenon DEF Expected1

(* update_myviatal moves tau to the end that is next.                       *)
LEMMA TauMovedOn ==
    ASSUME NEW tal \in 0 .. Word - 1, NEW tau \in Int, NEW t \in Int, t > tau
    PROVE  (t - ((t - tau - 1) % (tal + 2))) + ((tal + 2) - 1) = t + Expected1(tau, tal, t)
<1>1. tal + 2 \in Nat \ {0} /\ tal \in Nat
  BY Constants
<1>2. PICK p \in Nat \ {0} : p = tal + 2
  BY <1>1
<1>3. PICK y \in Int : y = t - tau - 1
  OBVIOUS
<1>4. PICK r \in 0 .. p - 1 : r = y % p
  BY Remainder
<1>5. PICK q \in Int : y = q * p + r
  <2>1. \E q \in Int : y = q * p + (y % p)
    BY Remainder
  <2> QED BY <1>4, <2>1
<1>6. PICK z \in Int : z = tau - t
  OBVIOUS
<1>7. z % p = p - 1 - r
  <2>1. (-q - 1) * p = -(q * p) - p /\ q * p \in Int
    OBVIOUS
  <2>2. z = (-q - 1) * p + (p - 1 - r) /\ -q - 1 \in Int /\ p - 1 - r \in 0 .. p - 1
    BY <1>3, <1>4, <1>5, <1>6, <2>1
  <2>3. PICK k \in Int, m \in 0 .. p - 1 : k = -q - 1 /\ m = p - 1 - r
    BY <2>2
  <2>4. z = k * p + m
    BY <2>2, <2>3
  <2>5. z % p = m
    <3>1. z \in Int /\ k \in Int /\ m \in 0 .. p - 1 /\ p \in Nat \ {0}
      OBVIOUS
    <3>2. \A i \in Int, r0 \in 0 .. p - 1 : z = i * p + r0 => z % p = r0
      BY ONLY <3>1, Remainder, Zenon
    <3> QED BY ONLY <2>4, <3>1, <3>2, Zenon
  <2> QED BY <2>3, <2>5
<1>8. Expected1(tau, tal, t) = z % p
  <2>1. ~(t <= tau)
    OBVIOUS
  <2> QED BY <1>2, <1>6, <2>1, Zenon DEF Expected1
<1>9. (t - ((t - tau - 1) % (tal + 2))) + ((tal + 2) - 1) = (t - r) + (p - 1)
  BY <1>2, <1>3, <1>4, Zenon
<1>10. t + (z % p) = (t - r) + (p - 1)
  BY <1>7
<1> QED BY <1>8, <1>9, <1>10, Zenon

(* What a read of the counter computes.                                     *)
LEMMA Counter1Reads ==
    ASSUME NEW v \in ViaChips, NEW x \in ExactChips, NEW t \in Nat,
           t <= GuardMax + 1, v.t1.tal = x.t1.tal, ~x.t1.load,
           Counts1(v, x, t), ToEnd1(x) = Expected1(v.t1.tau, v.t1.tal, t)
    PROVE  Counter1(v, t) = x.t1.cnt
<1>1. PICK tal \in 0 .. Word - 1 : tal = v.t1.tal
  BY ViaFields
<1>2. PICK tau \in 0 .. t + Word + 1 : tau = v.t1.tau
  BY DEF Counts1
<1>3. PICK cnt \in 0 .. Word - 1 : cnt = x.t1.cnt
  BY ExactFields
<1> tau \in Int /\ t \in Int
  BY Constants
<1>4. PICK e \in Nat : e = Expected1(tau, tal, t)
  <2>1. Expected1(tau, tal, t) \in Nat
    BY ExpectedType
  <2> QED BY <2>1
<1>5. IF x.t1.out THEN e = 0 /\ cnt = Word - 1 ELSE e = cnt + 1
  BY <1>1, <1>2, <1>3, <1>4 DEF ToEnd1, Counts1
<1>6. (e - 1) % Word = cnt
  <2>1. CASE x.t1.out
    <3>1. 0 \in Int /\ 0 % Word = 0
      BY Constants, RemainderSmall
    <3>2. (0 - 1) % Word = Word - 1
      <4>1. (0 - 1) % Word = IF 0 % Word = 0 THEN Word - 1 ELSE (0 % Word) - 1
        BY <3>1, Constants, RemainderStep, Zenon
      <4> QED BY <3>1, <4>1
    <3>3. e = 0 /\ cnt = Word - 1
      BY <1>5, <2>1
    <3> QED BY <3>2, <3>3, Zenon
  <2>2. CASE ~x.t1.out
    <3>1. e - 1 = cnt
      BY <1>5, <2>2, Constants
    <3>2. cnt % Word = cnt
      BY Constants, RemainderSmall
    <3> QED BY <3>1, <3>2, Zenon
  <2> QED BY <2>1, <2>2
<1>7. ClockAdd(tau, 1) = tau + 1
  <2>1. tau + 1 \in Clock
    BY Constants DEF Clock
  <2> QED BY <2>1, ClockSmall DEF ClockAdd
<1>8. CASE t < tau + 1
  <2>1. t <= tau
    BY <1>8
  <2>2. e = tau - t
    BY <1>4, <2>1 DEF Expected1
  <2>3. tau - 1 - t = e - 1
    BY <2>2
  <2>4. Counter1(v, t) = (tau - 1 - t) % Word
    BY <1>1, <1>2, <1>7, <1>8, Zenon DEF Counter1
  <2> QED BY <1>3, <1>6, <2>3, <2>4, Zenon
<1>9. CASE ~(t < tau + 1)
  <2>1. ClockSub(t, tau + 1) = t - tau - 1
    <3>1. t - (tau + 1) \in Clock /\ t - (tau + 1) = t - tau - 1
      BY <1>9, Constants DEF Clock
    <3> QED BY <3>1, ClockSmall DEF ClockSub
  <2>2. Counter1(v, t) = (tal - ((t - tau - 1) % (tal + 2))) % Word
    BY <1>1, <1>2, <1>7, <1>9, <2>1, Zenon DEF Counter1
  <2>3. (t - ((t - tau - 1) % (tal + 2))) + ((tal + 2) - 1) = t + e
    <3>1. t > tau
      BY <1>9
    <3> QED BY <1>4, <3>1, TauMovedOn, Zenon
  <2>4. tal - ((t - tau - 1) % (tal + 2)) = e - 1
    <3>1. PICK z \in Int : z = t - tau - 1
      OBVIOUS
    <3>2. PICK p \in Nat \ {0} : p = tal + 2
      BY Constants
    <3>3. PICK r \in 0 .. p - 1 : r = z % p
      BY Remainder
    <3>4. r = (t - tau - 1) % (tal + 2)
      BY <3>1, <3>2, <3>3, Zenon
    <3>5. (t - r) + ((tal + 2) - 1) = t + e
      BY <2>3, <3>4, Zenon
    <3>6. tal - r = e - 1
      BY <3>5, Constants
    <3> QED BY <3>4, <3>6, Zenon
  <2> QED BY <1>3, <1>6, <2>2, <2>4, Zenon
<1> QED BY <1>8, <1>9, <1>2

-----------------------------------------------------------------------------
(* Timer 1: the chips stay in step.                                         *)

Times == SubMin .. GuardMax + 1

(* A line that is as its flags say is pulled by nothing but a new flag.     *)
LEMMA PulledAgain ==
    ASSUME NEW ifr, NEW ier, NEW irq, NEW t,
           irq.on <=> ifr \cap ier # {}, ~irq.on => irq = Released
    PROVE  Pulled(ifr, ier, irq, t) = irq
BY DEF Pulled

LEMMA PulledTwice ==
    ASSUME NEW ifr, NEW ier, NEW irq \in Lines, NEW t \in Clock, NEW u
    PROVE  Pulled(ifr, ier, Pulled(ifr, ier, irq, t), u) = Pulled(ifr, ier, irq, t)
<1>1. PICK q : q = Pulled(ifr, ier, irq, t)
  OBVIOUS
<1>2. (q.on <=> ifr \cap ier # {}) /\ (~q.on => q = Released)
  BY <1>1, PulledIsWell
<1>3. Pulled(ifr, ier, q, u) = q
  BY <1>2, PulledAgain
<1> QED BY <1>1, <1>3, Zenon

(* viacore_intt1 for an alarm that is overdue.                              *)
LEMMA IntT1WhenLagging ==
    ASSUME NEW v \in ViaChips, NEW x \in ExactChips, NEW t \in Times,
           Agree(v, x), Counts1(v, x, t), Lagging1(v, x, t)
    PROVE  /\ Counts1(IntT1(v), x, t)
           /\ Settled1(IntT1(v), x, t) \/ Lagging1(IntT1(v), x, t)
<1>1. PICK r \in ViaChips : r = IntT1(v)
  BY IntT1Fields
<1>2. /\ Regs(r, v) /\ r.ifr = v.ifr \cup {"T1"}
      /\ r.irq = Pulled(v.ifr \cup {"T1"}, v.ier, v.irq, v.t1.tai)
      /\ r.t1.tal = v.t1.tal
      /\ IF "FREE" \in v.acr
         THEN /\ r.t1.tai = ClockAdd(v.t1.tai, v.t1.tal + 2)
              /\ r.t1.tau = ClockAdd(v.t1.tau, v.t1.tal + 2)
         ELSE r.t1.tai = 0 /\ r.t1.tau = v.t1.tau
  BY <1>1, IntT1Fields
<1>3. PICK tal \in 0 .. Word - 1 : tal = v.t1.tal
  BY ViaFields
<1>4. PICK tau \in Nat : tau = v.t1.tau /\ tau = v.t1.tai /\ tau # 0 /\ tau < t
  BY ViaFields, Constants DEF Counts1, Lagging1, Clock
<1>5. SameFlags(r, x)
  BY <1>2 DEF SameFlags, Lagging1, Behind
<1>6. ToEnd1(x) = Expected1(tau, tal, t)
  BY <1>3, <1>4, Zenon DEF Lagging1
<1>7. CASE "FREE" \in v.acr
  <2>1. PICK end \in Nat : end = tau + (tal + 2)
    BY Constants
  <2>2. end \in Clock /\ tau + (tal + 2) \in Int /\ end <= t + Word + 1 /\ end \in Int /\ tau \in Int /\ t \in Int
    BY <1>4, <2>1, Constants DEF Clock, Times
  <2>3. r.t1.tai = end /\ r.t1.tau = end /\ end # 0 /\ r.t1.tal = tal
    <3>1. ClockAdd(tau, tal + 2) = end
      BY <2>1, <2>2, ClockSmall DEF ClockAdd
    <3>2. r.t1.tai = end /\ r.t1.tau = end /\ r.t1.tal = tal
      BY <1>2, <1>3, <1>4, <1>7, <3>1, Zenon
    <3> QED BY <2>1, <3>2, Constants
  <2>4. Counts1(r, x, t)
    BY <2>2, <2>3, Constants DEF Counts1, Times
  <2>5. ToEnd1(x) = Expected1(r.t1.tau, r.t1.tal, t)
    <3>1. Expected1(tau + (tal + 2), tal, t) = Expected1(tau, tal, t)
      BY <1>4, <2>2, ExpectedNext
    <3> QED BY <1>6, <2>1, <2>3, <3>1, Zenon
  <2>6. x.t1.armed /\ "FREE" \in r.acr
    BY <1>2, <1>7 DEF Lagging1, Regs
  <2>7. CASE end >= t
    <3>1. Settled1(r, x, t)
      BY <1>5, <2>3, <2>5, <2>6, <2>7, Zenon DEF Settled1
    <3> QED BY <1>1, <2>4, <3>1
  <2>8. CASE end < t
    <3>1. Behind(r, x, "T1", end)
      <4>1. v.ifr \cup {"T1"} = r.ifr \cup {"T1"} /\ v.ier = r.ier
        BY <1>2 DEF Regs
      <4>2. Pulled(r.ifr \cup {"T1"}, r.ier, r.irq, end) = r.irq
        <5>1. v.irq \in Lines /\ v.t1.tai \in Clock
          BY ViaFields
        <5>2. PICK ifr : ifr = r.ifr \cup {"T1"}
          OBVIOUS
        <5>3. PICK irq \in Lines, a \in Clock : irq = v.irq /\ a = v.t1.tai
          BY <5>1
        <5>4. Pulled(ifr, r.ier, Pulled(ifr, r.ier, irq, a), end) = Pulled(ifr, r.ier, irq, a)
          BY PulledTwice
        <5>5. r.irq = Pulled(ifr, r.ier, irq, a)
          BY <1>2, <4>1, <5>2, <5>3
        <5> QED BY <5>2, <5>4, <5>5, Zenon
      <4> QED BY <1>2, <1>5, <4>1, <4>2 DEF Behind, SameFlags
    <3>2. Lagging1(r, x, t)
      BY <2>3, <2>5, <2>6, <2>8, <3>1, Zenon DEF Lagging1
    <3> QED BY <1>1, <2>4, <3>2
  <2> QED BY <2>2, <2>7, <2>8
<1>8. CASE "FREE" \notin v.acr
  <2>1. r.t1.tai = 0 /\ r.t1.tau = tau /\ r.t1.tal = tal
    BY <1>2, <1>3, <1>4, <1>8
  <2>2. Counts1(r, x, t)
    BY <1>4, <2>1 DEF Counts1
  <2>3. ToEnd1(x) = Expected1(r.t1.tau, r.t1.tal, t)
    BY <1>6, <2>1, Zenon
  <2>4. ~x.t1.armed
    BY <1>8 DEF Lagging1
  <2>5. Settled1(r, x, t)
    BY <1>5, <2>1, <2>3, <2>4, Zenon DEF Settled1
  <2> QED BY <1>1, <2>2, <2>5
<1> QED BY <1>7, <1>8

(* viacore_intt1 for an alarm that is due in this cycle.                    *)
LEMMA IntT1WhenDue ==
    ASSUME NEW v \in ViaChips, NEW x \in ExactChips, NEW t \in Times,
           Agree(v, x), Counts1(v, x, t), Settled1(v, x, t), ~x.t1.load, v.t1.tai = t
    PROVE  Counts1(IntT1(v), x, t) /\ Ahead1(IntT1(v), x, t)
<1>1. PICK r \in ViaChips : r = IntT1(v)
  BY IntT1Fields
<1>2. /\ Regs(r, v) /\ r.ifr = v.ifr \cup {"T1"}
      /\ r.irq = Pulled(v.ifr \cup {"T1"}, v.ier, v.irq, v.t1.tai)
      /\ r.t1.tal = v.t1.tal
      /\ IF "FREE" \in v.acr
         THEN /\ r.t1.tai = ClockAdd(v.t1.tai, v.t1.tal + 2)
              /\ r.t1.tau = ClockAdd(v.t1.tau, v.t1.tal + 2)
         ELSE r.t1.tai = 0 /\ r.t1.tau = v.t1.tau
  BY <1>1, IntT1Fields
<1>3. PICK tal \in 0 .. Word - 1 : tal = v.t1.tal
  BY ViaFields
<1>4. t \in Nat /\ t # 0 /\ v.t1.tau = t
  BY Constants DEF Counts1, Times
<1>5. Behind(x, r, "T1", t)
  BY <1>2 DEF Settled1, SameFlags, Behind, Agree
<1>6. x.t1.armed /\ x.t1.out
  <2>1. ToEnd1(x) = 0
    <3>1. ToEnd1(x) = Expected1(t, tal, t)
      BY <1>3, <1>4, Zenon DEF Settled1
    <3>2. Expected1(t, tal, t) = 0
      BY <1>4 DEF Expected1
    <3> QED BY <3>1, <3>2
  <2>2. x.t1.cnt + 1 # 0
    BY ExactFields, Constants
  <2> QED BY <1>4, <2>1, <2>2 DEF ToEnd1, Settled1
<1>7. CASE "FREE" \in v.acr
  <2>1. PICK end \in Nat : end = t + (tal + 2)
    BY <1>4, Constants
  <2>2. end \in Clock /\ t + (tal + 2) \in Int /\ end <= t + Word + 1
    BY <1>4, <2>1, Constants DEF Clock, Times
  <2>3. r.t1.tai = end /\ r.t1.tau = end /\ r.t1.tal = tal
    <3>1. ClockAdd(t, tal + 2) = end
      BY <2>1, <2>2, ClockSmall DEF ClockAdd
    <3> QED BY <1>2, <1>3, <1>4, <1>7, <3>1, Zenon
  <2>4. Counts1(r, x, t)
    BY <2>2, <2>3, Constants DEF Counts1, Times
  <2>5. "FREE" \in r.acr /\ r.t1.tai = t + (r.t1.tal + 2)
    BY <1>2, <1>7, <2>1, <2>3 DEF Regs
  <2>6. Ahead1(r, x, t)
    BY <1>5, <1>6, <2>5, Zenon DEF Ahead1
  <2> QED BY <1>1, <2>4, <2>6
<1>8. CASE "FREE" \notin v.acr
  <2>1. r.t1.tai = 0 /\ r.t1.tau = t /\ "FREE" \notin r.acr
    BY <1>2, <1>4, <1>8 DEF Regs
  <2>2. Counts1(r, x, t)
    BY <1>4, <2>1, Constants DEF Counts1
  <2>3. Ahead1(r, x, t)
    BY <1>5, <1>6, <2>1, Zenon DEF Ahead1
  <2> QED BY <1>1, <2>2, <2>3
<1> QED BY <1>7, <1>8

(* What a cycle does to the flags, when timer s may come to its end.        *)
TickedFlags(w, y, v, x, s, ends, t) ==
    /\ w.ier = v.ier /\ y.ier = x.ier
    /\ w.ifr = v.ifr /\ w.irq = Forgotten(v.irq, x.irq)
    /\ IF ends THEN /\ y.ifr = x.ifr \cup {s}
                    /\ y.irq = Pulled(x.ifr \cup {s}, x.ier, Forgotten(x.irq, v.irq), t)
       ELSE y.ifr = x.ifr /\ y.irq = Forgotten(x.irq, v.irq)

LEMMA FlagsTick ==
    ASSUME NEW v \in ViaChips, NEW x \in ExactChips, NEW w, NEW y, NEW s, NEW ends \in BOOLEAN,
           NEW t \in Clock, v.ier = x.ier, WellPulled(v), WellPulled(x),
           TickedFlags(w, y, v, x, s, ends, t)
    PROVE  /\ SameFlags(v, x) => IF ends THEN Behind(w, y, s, t) ELSE SameFlags(w, y)
           /\ \A a \in Clock : Behind(v, x, s, a) => Behind(w, y, s, a)
           /\ ends /\ Behind(x, v, s, t) => SameFlags(w, y)
<1>1. v.irq \in Lines /\ x.irq \in Lines
  BY ViaFields, ExactFields
<1>2. PICK p \in Lines, q \in Lines : p = v.irq /\ q = x.irq
  BY <1>1
<1>3. (~p.on => p = Released) /\ (~q.on => q = Released)
  BY <1>2 DEF WellPulled
<1>4. PICK f, g : f = Forgotten(p, q) /\ g = Forgotten(q, p)
  OBVIOUS
<1>5. /\ w.ier = v.ier /\ y.ier = v.ier /\ x.ier = v.ier /\ w.ifr = v.ifr /\ w.irq = f
      /\ IF ends THEN y.ifr = x.ifr \cup {s} /\ y.irq = Pulled(x.ifr \cup {s}, v.ier, g, t)
         ELSE y.ifr = x.ifr /\ y.irq = g
  BY <1>2, <1>4, Zenon DEF TickedFlags
<1>6. ASSUME SameFlags(v, x)
      PROVE  IF ends THEN Behind(w, y, s, t) ELSE SameFlags(w, y)
  <2>1. f = g
    BY <1>2, <1>4, <1>6 DEF SameFlags
  <2> QED BY <1>5, <1>6, <2>1 DEF SameFlags, Behind
<1>7. ASSUME NEW a \in Clock, Behind(v, x, s, a)
      PROVE  Behind(w, y, s, a)
  <2>1. PICK ifr : ifr = v.ifr \cup {s}
    OBVIOUS
  <2>2. x.ifr = ifr /\ x.ifr \cup {s} = ifr
    BY <1>7, <2>1 DEF Behind
  <2>3. q = Pulled(ifr, v.ier, p, a)
    BY <1>2, <1>7, <2>1 DEF Behind
  <2>4. g = Pulled(ifr, v.ier, f, a) /\ Pulled(ifr, v.ier, g, t) = g
    BY <1>3, <1>4, <2>3, LinesForgotten
  <2>5. y.ifr = ifr /\ y.irq = g
    BY <1>5, <2>2, <2>4
  <2> QED BY <1>5, <2>1, <2>4, <2>5 DEF Behind
<1>8. ASSUME ends, Behind(x, v, s, t)
      PROVE  SameFlags(w, y)
  <2>1. PICK ifr : ifr = x.ifr \cup {s}
    OBVIOUS
  <2>2. v.ifr = ifr /\ p = Pulled(ifr, v.ier, q, t)
    BY <1>2, <1>5, <1>8, <2>1 DEF Behind
  <2>3. Pulled(ifr, v.ier, g, t) = f
    BY <1>3, <1>4, <2>2, LinesForgotten
  <2> QED BY <1>5, <1>8, <2>1, <2>2, <2>3 DEF SameFlags
<1> QED BY <1>6, <1>7, <1>8

(* The chip counts as tau expects.                                          *)
LEMMA ToEndTick ==
    ASSUME NEW y \in ExactChips, NEW t \in Clock
    PROVE  /\ ToEnd1(y) = 0 <=> y.t1.out /\ ~y.t1.load
           /\ ToEnd1(Count1(y, t)) = IF ToEnd1(y) = 0 THEN y.t1.tal + 1 ELSE ToEnd1(y) - 1
           /\ Count1(y, t).t1.out => Count1(y, t).t1.cnt = Word - 1
<1>1. PICK r : r = Count1(y, t)
  OBVIOUS
<1>2. PICK cnt \in 0 .. Word - 1, tal \in 0 .. Word - 1 : cnt = y.t1.cnt /\ tal = y.t1.tal
  BY ExactFields
<1>3. /\ r.t1.tal = tal /\ ~r.t1.load
      /\ r.t1.cnt = IF y.t1.load \/ y.t1.out THEN tal ELSE (cnt - 1) % Word
      /\ r.t1.out <=> ~y.t1.load /\ ~y.t1.out /\ cnt = 0
  BY <1>1, <1>2, Count1Fields
<1>4. (cnt - 1) % Word = IF cnt = 0 THEN Word - 1 ELSE cnt - 1
  <2>1. cnt \in Int /\ Word \in Nat \ {0} /\ cnt % Word = cnt
    BY Constants, RemainderSmall
  <2>2. (cnt - 1) % Word = IF cnt % Word = 0 THEN Word - 1 ELSE (cnt % Word) - 1
    BY <2>1, RemainderStep, Zenon
  <2> QED BY <2>1, <2>2
<1>5. /\ cnt \in Nat /\ tal \in Nat
      /\ ToEnd1(y) = IF y.t1.load THEN tal + 2 ELSE IF y.t1.out THEN 0 ELSE cnt + 1
  BY <1>2, Constants DEF ToEnd1
<1>6. ToEnd1(r) = IF r.t1.out THEN 0 ELSE r.t1.cnt + 1
  BY <1>3 DEF ToEnd1
<1>7. CASE y.t1.load
  BY <1>1, <1>2, <1>3, <1>5, <1>6, <1>7
<1>8. CASE ~y.t1.load /\ y.t1.out
  BY <1>1, <1>2, <1>3, <1>5, <1>6, <1>8
<1>9. CASE ~y.t1.load /\ ~y.t1.out
  <2>1. r.t1.cnt = IF cnt = 0 THEN Word - 1 ELSE cnt - 1
    BY <1>3, <1>4, <1>9
  <2> QED BY <1>1, <1>2, <1>3, <1>5, <1>6, <1>9, <2>1
<1> QED BY <1>7, <1>8, <1>9

(* A cycle.                                                                 *)
LEMMA Tick1 ==
    ASSUME NEW v \in ViaChips, NEW x \in ExactChips, NEW w \in ViaChips, NEW y \in ExactChips,
           NEW t \in Times, NEW b, Agree(v, x), WellPulled(v), WellPulled(x),
           InStep1(v, x, t, b),
           FlagsSet(w, v, v.ifr, v.ier, Forgotten(v.irq, x.irq)),
           FlagsSet(y, x, x.ifr, x.ier, Forgotten(x.irq, v.irq))
    PROVE  InStep1(w, Count1(y, t), t + 1, "free")
<1> DEFINE ends == x.t1.out /\ x.t1.armed /\ ~x.t1.load
<1> t \in Clock
  BY Constants DEF Times, Clock
<1>1. PICK r \in ExactChips : r = Count1(y, t)
  BY Count1Fields
<1>2. PICK tal \in 0 .. Word - 1, tau \in Nat : tal = v.t1.tal /\ tau = v.t1.tau
  BY ViaFields, Constants DEF Clock
<1>3. /\ t \in Clock /\ t \in Nat /\ t # 0
      /\ w.t1 = v.t1 /\ w.acr = v.acr /\ v.acr = x.acr /\ y.acr = x.acr /\ x.t1.tal = tal
      /\ y.t1 = x.t1
  BY <1>2, Constants DEF Times, Clock, FlagsSet, Agree
<1>4. TickedFlags(w, r, v, x, "T1", ends, t)
  <2>1. /\ Regs(r, y)
        /\ IF y.t1.out /\ y.t1.armed /\ ~y.t1.load
           THEN r.ifr = y.ifr \cup {"T1"} /\ r.irq = Pulled(y.ifr \cup {"T1"}, y.ier, y.irq, t)
           ELSE r.ifr = y.ifr /\ r.irq = y.irq
    BY <1>1, Count1Fields, ZenonT(60)
  <2>2. y.ier = x.ier /\ y.ifr = x.ifr /\ y.irq = Forgotten(x.irq, v.irq)
        /\ w.ier = v.ier /\ w.ifr = v.ifr /\ w.irq = Forgotten(v.irq, x.irq)
    BY DEF FlagsSet
  <2> QED BY <1>3, <2>1, <2>2 DEF TickedFlags, Regs
<1>5. r.t1.armed <=> x.t1.armed /\ (x.t1.out /\ ~x.t1.load => "FREE" \in v.acr)
  <2>1. r.t1.armed <=> y.t1.armed /\ (y.t1.out /\ ~y.t1.load => "FREE" \in y.acr)
    BY <1>1, Count1Fields, Zenon
  <2> QED BY <1>3, <2>1, Zenon
<1>6. /\ ToEnd1(x) = 0 <=> x.t1.out /\ ~x.t1.load
      /\ ToEnd1(r) = IF ToEnd1(x) = 0 THEN tal + 1 ELSE ToEnd1(x) - 1
      /\ r.t1.out => r.t1.cnt = Word - 1
  <2>1. ToEnd1(y) = ToEnd1(x)
    BY <1>3, Zenon DEF ToEnd1
  <2> QED BY <1>1, <1>3, <2>1, ToEndTick
<1>7. Counts1(w, r, t + 1)
  BY <1>2, <1>3, <1>6, Constants DEF Counts1, InStep1
<1>8. ToEnd1(x) = Expected1(tau, tal, t) => ToEnd1(r) = Expected1(w.t1.tau, w.t1.tal, t + 1)
  <2>1. tau \in Int /\ t \in Int
    BY <1>3
  <2>2. Expected1(tau, tal, t + 1) =
            IF Expected1(tau, tal, t) = 0 THEN tal + 1 ELSE Expected1(tau, tal, t) - 1
    BY <2>1, ExpectedTick
  <2> QED BY <1>2, <1>3, <1>6, <2>2, Zenon
<1>9. /\ SameFlags(v, x) => IF ends THEN Behind(w, r, "T1", t) ELSE SameFlags(w, r)
      /\ \A a \in Clock : Behind(v, x, "T1", a) => Behind(w, r, "T1", a)
      /\ ends /\ Behind(x, v, "T1", t) => SameFlags(w, r)
  <2>1. v.ier = x.ier /\ ends \in BOOLEAN
    BY ExactFields DEF Agree
  <2> HIDE DEF ends
  <2> QED BY <1>3, <1>4, <2>1, FlagsTick
<1>10. ASSUME Settled1(v, x, t)
       PROVE  InStep1(w, r, t + 1, "free")
  <2>1. ToEnd1(r) = Expected1(w.t1.tau, w.t1.tal, t + 1)
    BY <1>2, <1>8, <1>10, Zenon DEF Settled1
  <2>2. CASE v.t1.tai = 0
    <3>1. ~ends /\ ~r.t1.armed
      BY <1>5, <1>10, <2>2 DEF Settled1
    <3>2. SameFlags(w, r)
      BY <1>9, <1>10, <3>1 DEF Settled1
    <3> QED BY <1>3, <1>7, <2>1, <2>2, <3>1, <3>2, Zenon DEF InStep1, Settled1
  <2>3. CASE v.t1.tai = t
    <3>1. tau = t /\ x.t1.armed /\ SameFlags(v, x) /\ ToEnd1(x) = Expected1(tau, tal, t)
      BY <1>2, <1>3, <1>10, <2>3 DEF Settled1, InStep1, Counts1
    <3>2. ToEnd1(x) = 0
      BY <1>3, <3>1 DEF Expected1
    <3>3. ends /\ (r.t1.armed <=> "FREE" \in v.acr)
      BY <1>5, <1>6, <3>1, <3>2
    <3>4. Behind(w, r, "T1", t)
      BY <1>9, <3>1, <3>3
    <3>5. t < t + 1
      BY <1>3
    <3> QED BY <1>3, <1>7, <2>1, <2>3, <3>3, <3>4, <3>5, Zenon DEF InStep1, Lagging1
  <2>4. CASE v.t1.tai # 0 /\ v.t1.tai # t
    <3>1. tau = v.t1.tai /\ tau > t /\ x.t1.armed /\ ToEnd1(x) = Expected1(tau, tal, t)
      BY <1>2, <1>3, <1>10, <2>4 DEF Settled1, InStep1, Counts1
    <3>2. ToEnd1(x) # 0
      BY <1>3, <3>1 DEF Expected1
    <3>3. ~ends /\ r.t1.armed
      BY <1>5, <1>6, <3>1, <3>2
    <3>4. SameFlags(w, r)
      BY <1>9, <1>10, <3>3 DEF Settled1
    <3>5. w.t1.tai >= t + 1
      BY <1>3, <3>1
    <3> QED BY <1>3, <1>7, <2>1, <2>4, <3>3, <3>4, <3>5, Zenon DEF InStep1, Settled1
  <2> QED BY <2>2, <2>3, <2>4
<1>11. ASSUME Lagging1(v, x, t)
       PROVE  InStep1(w, r, t + 1, "free")
  <2>1. ToEnd1(r) = Expected1(w.t1.tau, w.t1.tal, t + 1)
    BY <1>2, <1>8, <1>11, Zenon DEF Lagging1
  <2>2. Behind(w, r, "T1", w.t1.tai)
    BY <1>3, <1>9, <1>11, ViaFields DEF Lagging1
  <2>3. r.t1.armed <=> "FREE" \in w.acr
    BY <1>3, <1>5, <1>11 DEF Lagging1
  <2>4. w.t1.tai # 0 /\ w.t1.tai < t + 1
    BY <1>3, <1>11, ViaFields, Constants DEF Lagging1, Clock
  <2> QED BY <1>7, <2>1, <2>2, <2>3, <2>4, Zenon DEF InStep1, Lagging1
<1>12. ASSUME Ahead1(v, x, t)
       PROVE  InStep1(w, r, t + 1, "free")
  <2>1. ends /\ SameFlags(w, r) /\ (r.t1.armed <=> "FREE" \in v.acr) /\ ToEnd1(x) = 0
    BY <1>5, <1>6, <1>9, <1>12 DEF Ahead1
  <2>2. CASE "FREE" \in v.acr
    <3>1. v.t1.tai = t + (tal + 2) /\ v.t1.tai # 0 /\ tau = t + (tal + 2)
      BY <1>2, <1>3, <1>12, <2>2, Constants DEF Ahead1, InStep1, Counts1
    <3>2. Expected1(tau, tal, t + 1) = tal + 1
      BY <1>3, <3>1, Constants DEF Expected1
    <3>3. ToEnd1(r) = Expected1(w.t1.tau, w.t1.tal, t + 1)
      BY <1>2, <1>3, <1>6, <2>1, <3>2, Zenon
    <3>4. w.t1.tai # 0 /\ w.t1.tai >= t + 1 /\ r.t1.armed
      BY <1>3, <2>1, <2>2, <3>1, Constants
    <3> QED BY <1>7, <2>1, <3>3, <3>4, Zenon DEF InStep1, Settled1
  <2>3. CASE "FREE" \notin v.acr
    <3>1. v.t1.tai = 0 /\ tau = t
      BY <1>2, <1>12, <2>3 DEF Ahead1
    <3>2. Expected1(tau, tal, t) = 0
      BY <1>3, <3>1 DEF Expected1
    <3>3. ToEnd1(r) = Expected1(w.t1.tau, w.t1.tal, t + 1)
      BY <1>8, <2>1, <3>2, Zenon
    <3>4. w.t1.tai = 0 /\ ~r.t1.armed
      BY <1>3, <2>1, <2>3, <3>1
    <3> QED BY <1>7, <2>1, <3>3, <3>4, Zenon DEF InStep1, Settled1
  <2> QED BY <2>2, <2>3
<1> QED BY <1>1, <1>10, <1>11, <1>12 DEF InStep1

(* Nothing is late: the chips show the same.                                *)
LEMMA NotLate1 ==
    ASSUME NEW v \in ViaChips, NEW x \in ExactChips, NEW t \in Times,
           InStep1(v, x, t, "free"), ~Overdue(v.t1.tai, t)
    PROVE  Counts1(v, x, t) /\ Settled1(v, x, t)
BY DEF InStep1, Lagging1, Overdue

(* A store leaves the count alone.                                          *)
LEMMA TalUpdated ==
    ASSUME NEW v \in ViaChips, NEW x \in ExactChips, NEW t \in Times,
           Counts1(v, x, t), Settled1(v, x, t), ~x.t1.load,
           NEW w \in ViaChips, NEW y \in ExactChips,
           w.t1.tai = v.t1.tai,
           w.t1.tau = IF t > v.t1.tau
                      THEN ClockAdd(t - ((t - v.t1.tau - 1) % (v.t1.tal + 2)), (v.t1.tal + 2) - 1)
                      ELSE v.t1.tau,
           y.t1.cnt = x.t1.cnt, y.t1.out = x.t1.out, y.t1.load = x.t1.load,
           y.t1.armed = x.t1.armed, SameFlags(w, y)
    PROVE  Counts1(w, y, t) /\ Settled1(w, y, t)
<1>1. PICK tal \in 0 .. Word - 1, tau \in Nat : tal = v.t1.tal /\ tau = v.t1.tau
  BY ViaFields, Constants DEF Clock
<1>2. PICK e \in Nat : e = Expected1(tau, tal, t)
  <2>1. tau \in Int /\ t \in Int
    BY Constants DEF Times
  <2>2. Expected1(tau, tal, t) \in Nat
    BY <2>1, ExpectedType
  <2> QED BY <2>2
<1>3. ToEnd1(y) = e
  <2>1. ToEnd1(x) = e
    BY <1>1, <1>2, Zenon DEF Settled1
  <2>2. ToEnd1(y) = ToEnd1(x)
    BY DEF ToEnd1
  <2> QED BY <2>1, <2>2
<1>4. CASE t > tau
  <2>1. PICK end \in Nat : end = t + e
    BY Constants DEF Times
  <2>2. end <= t + Word /\ end \in Clock
    <3>1. tau \in Int /\ t \in Int
      BY Constants DEF Times
    <3>2. e <= tal + 1
      BY <1>2, <1>4, <3>1, ExpectedType
    <3> QED BY <2>1, <3>2, Constants DEF Times, Clock
  <2>3. w.t1.tau = end
    <3>1. tau \in Int /\ t \in Int
      BY Constants DEF Times
    <3>2. (t - ((t - tau - 1) % (tal + 2))) + ((tal + 2) - 1) = t + e
      BY <1>2, <1>4, <3>1, TauMovedOn, Zenon
    <3>3. ClockAdd(t - ((t - tau - 1) % (tal + 2)), (tal + 2) - 1) = end % (ClockMax + 1)
      BY <2>1, <3>2, Zenon DEF ClockAdd
    <3>4. end % (ClockMax + 1) = end
      BY <2>2, ClockSmall
    <3> QED BY <1>1, <1>4, <3>3, <3>4, Zenon
  <2>4. w.t1.tai = 0
    BY <1>1, <1>4, Constants DEF Counts1, Settled1, Times
  <2>5. Counts1(w, y, t)
    BY <2>2, <2>3, <2>4, Constants DEF Counts1, Times
  <2>6. Expected1(w.t1.tau, w.t1.tal, t) = e
    <3>1. t <= end /\ end - t = e
      BY <2>1, Constants DEF Times
    <3> QED BY <2>3, <3>1, Zenon DEF Expected1
  <2> QED BY <1>3, <2>4, <2>5, <2>6, Zenon DEF Settled1
<1>5. CASE ~(t > tau)
  <2>1. w.t1.tau = tau
    BY <1>1, <1>5
  <2>2. Counts1(w, y, t)
    BY <1>1, <2>1, Constants DEF Counts1, Times
  <2>3. t <= tau
    BY <1>5, Constants DEF Times
  <2>4. Expected1(w.t1.tau, w.t1.tal, t) = e
    BY <1>2, <2>1, <2>3, Zenon DEF Expected1
  <2> QED BY <1>3, <2>2, <2>4, Zenon DEF Settled1
<1> QED BY <1>4, <1>5

(* A start.                                                                 *)
LEMMA Started1 ==
    ASSUME NEW w \in ViaChips, NEW y \in ExactChips, NEW t \in Times, SameFlags(w, y),
           y.t1.load, y.t1.armed, y.t1.out => y.t1.cnt = Word - 1, w.t1.tal = y.t1.tal,
           w.t1.tai = w.t1.tau, w.t1.tau = ClockAdd(t, w.t1.tal + 2)
    PROVE  Counts1(w, y, t) /\ Settled1(w, y, t) /\ w.t1.tai \in t .. t + Word + 1
<1>1. PICK tal \in 0 .. Word - 1 : tal = w.t1.tal
  BY ViaFields
<1>2. PICK end \in Nat : end = t + (tal + 2)
  BY Constants DEF Times
<1>3. end \in Clock /\ t + (tal + 2) \in Int /\ end <= t + Word + 1 /\ end # 0 /\ t <= end
      /\ end - t = tal + 2
  BY <1>2, Constants DEF Times, Clock
<1>4. w.t1.tau = end
  <2>1. ClockAdd(t, tal + 2) = end
    BY <1>2, <1>3, ClockSmall DEF ClockAdd
  <2> QED BY <1>1, <2>1, Zenon
<1>5. ToEnd1(y) = tal + 2
  BY <1>1, Zenon DEF ToEnd1
<1>6. Expected1(w.t1.tau, w.t1.tal, t) = tal + 2
  BY <1>3, <1>4, Zenon DEF Expected1
<1>7. Counts1(w, y, t)
  BY <1>3, <1>4, Constants DEF Counts1, Times
<1>8. w.t1.tai # 0 /\ w.t1.tai >= t /\ w.t1.tai \in t .. t + Word + 1
  BY <1>3, <1>4, Constants DEF Times
<1> QED BY <1>5, <1>6, <1>7, <1>8, Zenon DEF Settled1

-----------------------------------------------------------------------------
(* Timer 2.                                                                 *)

LEMMA WordStep ==
    ASSUME NEW c \in 0 .. Word - 1, NEW z \in Int, c = z % Word
    PROVE  /\ (c - 1) % Word = (z - 1) % Word
           /\ (c - 1) % Word = IF c = 0 THEN Word - 1 ELSE c - 1
<1>1. c \in Int /\ Word \in Nat \ {0} /\ c % Word = c
  BY Constants, RemainderSmall
<1>2. (c - 1) % Word = IF c % Word = 0 THEN Word - 1 ELSE (c % Word) - 1
  BY <1>1, RemainderStep, Zenon
<1>3. (z - 1) % Word = IF z % Word = 0 THEN Word - 1 ELSE (z % Word) - 1
  BY <1>1, RemainderStep, Zenon
<1>4. (c - 1) % Word = IF c = 0 THEN Word - 1 ELSE c - 1
  BY <1>1, <1>2, Zenon
<1>5. (z - 1) % Word = IF c = 0 THEN Word - 1 ELSE c - 1
  BY <1>3, Zenon
<1> QED BY <1>4, <1>5

LEMMA CountLess ==
    ASSUME NEW c \in 0 .. Word - 1
    PROVE  (c - 1) % Word = (IF c = 0 THEN Word - 1 ELSE c - 1) /\ (c - 1) % Word \in 0 .. Word - 1
<1>1. c \in Int /\ c = c % Word
  BY Constants, RemainderSmall
<1>2. (c - 1) % Word = IF c = 0 THEN Word - 1 ELSE c - 1
  BY <1>1, WordStep
<1> QED BY <1>2, Constants

(* Where both bytes end, and that no clock wraps there.                     *)
LEMMA End2Type ==
    ASSUME NEW v \in ViaChips, NEW t \in Times, NEW b, Near(v, t, b), v.t2.tbi # 0
    PROVE  /\ v.t2.tbi \in Nat /\ v.t2.tbi <= t + Base /\ v.t2.ch * Base \in Nat
           /\ End2(v) \in Nat /\ End2(v) = v.t2.tbi + v.t2.ch * Base
           /\ v.t2.ch = 0 => End2(v) = v.t2.tbi
           /\ v.t2.tbi + Base \in Clock /\ v.t2.tbi + 2 + Base \in Clock
<1>1. v.t2.tbi \in Nat /\ v.t2.tbi <= t + Base
  BY ViaFields, Constants DEF Near, Clock, Times
<1>2. v.t2.ch * Base \in Nat
  BY ViaFields, TwoBytes
<1>3. v.t2.ch = 0 => v.t2.ch * Base = 0
  BY Constants
<1>4. v.t2.tbi + Base \in Clock /\ v.t2.tbi + 2 + Base \in Clock
  BY <1>1, Constants DEF Clock, Times
<1> QED BY <1>1, <1>2, <1>3, <1>4 DEF End2

(* viacore_intt2 when only the low byte is at its end.                      *)
LEMMA IntT2Low ==
    ASSUME NEW v \in ViaChips, NEW x \in ExactChips, NEW t \in Times, NEW b, Near(v, t, b),
           v.t2.tbi # 0, v.t2.ch # 0, v.t2.tbu = v.t2.tbi + 2
    PROVE  /\ Settled2(v, x, t) => Settled2(IntT2(v), x, t)
           /\ Lagging2(v, x, t) => Lagging2(IntT2(v), x, t)
<1>1. PICK r \in ViaChips : r = IntT2(v)
  BY IntT2Fields
<1>2. /\ Regs(r, v) /\ r.t2.ch = v.t2.ch - 1
      /\ r.t2.tbi = ClockAdd(v.t2.tbi, Base) /\ r.t2.tbu = ClockAdd(v.t2.tbu, Base)
      /\ r.ifr = v.ifr /\ r.irq = v.irq
  <2>1. /\ Regs(IntT2(v), v) /\ IntT2(v).t2.ch = v.t2.ch - 1
        /\ IntT2(v).t2.tbi = ClockAdd(v.t2.tbi, Base) /\ IntT2(v).t2.tbu = ClockAdd(v.t2.tbu, Base)
        /\ IntT2(v).ifr = v.ifr /\ IntT2(v).irq = v.irq
    BY IntT2Fields, Zenon
  <2> QED BY <1>1, <2>1, Zenon
<1>3. PICK tbi \in Nat, ch \in Bytes : tbi = v.t2.tbi /\ ch = v.t2.ch
  BY End2Type, ViaFields
<1>4. /\ tbi + Base \in Clock /\ tbi + 2 + Base \in Clock /\ End2(v) = tbi + ch * Base
      /\ ch * Base \in Nat /\ tbi # 0
  BY <1>3, End2Type
<1>5. r.t2.tbi = tbi + Base /\ r.t2.tbu = tbi + 2 + Base
  <2>1. tbi + Base \in Int /\ tbi + 2 + Base \in Int /\ tbi + 2 = v.t2.tbu
    BY <1>3, Constants
  <2>2. ClockAdd(tbi, Base) = tbi + Base /\ ClockAdd(tbi + 2, Base) = tbi + 2 + Base
    BY <1>4, <2>1, ClockSmall, Zenon DEF ClockAdd
  <2> QED BY <1>2, <1>3, <2>1, <2>2, Zenon
<1>6. r.t2.tbi # 0 /\ r.t2.tbu = r.t2.tbi + 2
  BY <1>4, <1>5, Constants
<1>7. End2(r) = End2(v)
  <2>1. (ch - 1) * Base = ch * Base - Base
    BY Constants DEF Bytes
  <2>2. End2(r) = (tbi + Base) + (ch - 1) * Base
    BY <1>2, <1>3, <1>5, Zenon DEF End2
  <2> QED BY <1>3, <1>4, <2>1, <2>2, Constants
<1>8. Settled2(v, x, t) => Settled2(r, x, t)
  BY <1>2, <1>6, <1>7, Zenon DEF Settled2, SameFlags
<1>9. Lagging2(v, x, t) => Lagging2(r, x, t)
  BY <1>2, <1>6, <1>7, Zenon DEF Lagging2, Behind, Regs
<1> QED BY <1>1, <1>8, <1>9

(* viacore_intt2 when both bytes are.                                       *)
LEMMA IntT2Both ==
    ASSUME NEW v \in ViaChips, NEW x \in ExactChips, NEW t \in Times, NEW b, Near(v, t, b),
           Agree(v, x), v.t2.tbi # 0, v.t2.ch = 0, v.t2.tbu = v.t2.tbi + 2
    PROVE  /\ Settled2(v, x, t) /\ v.t2.tbi <= t => v.t2.tbi = t /\ Ahead2(IntT2(v), x, t)
           /\ Lagging2(v, x, t) => Stopped2(IntT2(v), x, t)
<1>1. PICK r \in ViaChips : r = IntT2(v)
  BY IntT2Fields
<1>2. /\ Regs(r, v) /\ r.t2.tbi = 0 /\ r.t2.tbu = v.t2.tbu
      /\ r.ifr = v.ifr \cup {"T2"}
      /\ r.irq = Pulled(v.ifr \cup {"T2"}, v.ier, v.irq, v.t2.tbi)
  <2>1. /\ Regs(IntT2(v), v) /\ IntT2(v).t2.tbi = 0 /\ IntT2(v).t2.tbu = v.t2.tbu
        /\ IntT2(v).ifr = v.ifr \cup {"T2"}
        /\ IntT2(v).irq = Pulled(v.ifr \cup {"T2"}, v.ier, v.irq, v.t2.tbi)
    BY IntT2Fields, Zenon
  <2> QED BY <1>1, <2>1, Zenon
<1>3. PICK tbi \in Nat : tbi = v.t2.tbi /\ tbi = End2(v)
  BY End2Type
<1>4. r.t2.tbu - t - 2 = tbi - t /\ t \in Nat
  BY <1>2, <1>3, Constants DEF Times
<1>5. ASSUME Settled2(v, x, t), tbi <= t
      PROVE  tbi = t /\ Ahead2(r, x, t)
  <2>1. PICK cnt \in 0 .. Word - 1, s \in {0, 1} : cnt = x.t2.cnt /\ s = Standing(x)
    BY ExactFields DEF Standing
  <2>2. tbi = t + cnt + s
    BY <1>3, <1>5, <2>1, Zenon DEF Settled2
  <2>3. tbi = t /\ cnt = 0 /\ s = 0
    BY <1>4, <1>5, <2>2, Constants
  <2>4. ~Held(x)
    BY <2>1, <2>3 DEF Standing
  <2>5. (r.t2.tbu - t - 2) % Word = 0
    <3>1. r.t2.tbu - t - 2 = 0
      <4>1. tbi - t = 0
        BY <1>4, <2>3
      <4> QED BY <1>4, <4>1, Zenon
    <3>2. 0 % Word = 0
      BY Constants, RemainderSmall
    <3> QED BY <3>1, <3>2, Zenon
  <2>6. Behind(x, r, "T2", t)
    <3>1. v.ifr = x.ifr /\ v.irq = x.irq /\ v.ier = x.ier
      BY <1>5 DEF Settled2, SameFlags, Agree
    <3>2. v.t2.tbi = t
      BY <1>3, <2>3
    <3> QED BY <1>2, <3>1, <3>2, Zenon DEF Behind
  <2>7. x.t2.armed /\ x.t2.cnt = 0
    BY <1>5, <2>1, <2>3 DEF Settled2
  <2> QED BY <1>2, <2>3, <2>4, <2>5, <2>6, <2>7, Zenon DEF Ahead2
<1>6. ASSUME Lagging2(v, x, t)
      PROVE  Stopped2(r, x, t)
  <2>1. SameFlags(r, x)
    <3>1. Behind(v, x, "T2", tbi)
      BY <1>3, <1>6, Zenon DEF Lagging2
    <3> QED BY <1>2, <1>3, <3>1, Zenon DEF SameFlags, Behind
  <2>2. x.t2.cnt = (tbi - t) % Word
    BY <1>3, <1>6, Zenon DEF Lagging2
  <2>3. x.t2.cnt = (r.t2.tbu - t - 2) % Word
    BY <1>4, <2>2, Zenon
  <2> QED BY <1>2, <1>6, <2>1, <2>3, Zenon DEF Stopped2, Lagging2
<1> QED BY <1>1, <1>3, <1>5, <1>6

LEMMA InStep2Tick ==
    ASSUME NEW v \in ViaChips, NEW x \in ExactChips, NEW w \in ViaChips, NEW y \in ExactChips,
           NEW t \in Times, NEW b, Agree(v, x), WellPulled(v), WellPulled(x), Near(v, t, b),
           "PULSE" \in v.acr => ~x.t2.armed, InStep2(v, x, t, b),
           FlagsSet(w, v, v.ifr, v.ier, Forgotten(v.irq, x.irq)),
           FlagsSet(y, x, x.ifr, x.ier, Forgotten(x.irq, v.irq))
    PROVE  InStep2(w, Count2(y, t), t + 1, "free")
<1> DEFINE ends == x.t2.cnt = 0 /\ x.t2.armed /\ ~Held(x)
<1> t \in Clock
  BY Constants DEF Times, Clock
<1>1. PICK r \in ExactChips : r = Count2(y, t)
  BY Count2Fields
<1> DEFINE yends == y.t2.cnt = 0 /\ y.t2.armed /\ ~y.t2.load /\ ~y.t2.pulse
<1>0. Counted2(r, y, t)
  BY <1>1, Count2Fields, Zenon
<1>2. PICK cnt \in 0 .. Word - 1 : cnt = x.t2.cnt
  BY ExactFields
<1>3. /\ w.t2 = v.t2 /\ w.acr = v.acr /\ v.acr = x.acr /\ y.acr = x.acr /\ y.t2 = x.t2
      /\ t \in Nat /\ End2(w) = End2(v)
  BY Constants DEF Times, FlagsSet, Agree, End2
<1>4. TickedFlags(w, r, v, x, "T2", ends, t)
  <2>1. /\ Regs(r, y)
        /\ IF yends
           THEN r.ifr = y.ifr \cup {"T2"} /\ r.irq = Pulled(y.ifr \cup {"T2"}, y.ier, y.irq, t)
           ELSE r.ifr = y.ifr /\ r.irq = y.irq
    BY <1>0 DEF Counted2
  <2>2. y.ier = x.ier /\ y.ifr = x.ifr /\ y.irq = Forgotten(x.irq, v.irq)
        /\ w.ier = v.ier /\ w.ifr = v.ifr /\ w.irq = Forgotten(v.irq, x.irq)
    BY DEF FlagsSet
  <2> QED BY <1>3, <2>1, <2>2 DEF TickedFlags, Regs, Held
<1>5. /\ r.t2.cnt = IF Held(x) THEN cnt ELSE (cnt - 1) % Word
      /\ ~r.t2.load /\ (r.t2.pulse <=> "PULSE" \in v.acr)
      /\ IF ends THEN ~r.t2.armed ELSE (r.t2.armed <=> x.t2.armed)
  <2>1. /\ r.t2.cnt = IF y.t2.load \/ y.t2.pulse THEN y.t2.cnt ELSE (y.t2.cnt - 1) % Word
        /\ ~r.t2.load /\ (r.t2.pulse <=> "PULSE" \in y.acr)
        /\ IF yends THEN ~r.t2.armed ELSE (r.t2.armed <=> y.t2.armed)
    BY <1>0 DEF Counted2
  <2> QED BY <1>2, <1>3, <2>1 DEF Held
<1>6. /\ SameFlags(v, x) => IF ends THEN Behind(w, r, "T2", t) ELSE SameFlags(w, r)
      /\ \A a \in Clock : Behind(v, x, "T2", a) => Behind(w, r, "T2", a)
      /\ ends /\ Behind(x, v, "T2", t) => SameFlags(w, r)
  <2>1. v.ier = x.ier /\ ends \in BOOLEAN
    BY ExactFields DEF Agree, Held
  <2> HIDE DEF ends
  <2> QED BY <1>4, <2>1, FlagsTick
<1>7. (cnt - 1) % Word = (IF cnt = 0 THEN Word - 1 ELSE cnt - 1) /\ (cnt - 1) % Word \in 0 .. Word - 1
  BY CountLess
<1>8. CASE "PULSE" \in v.acr
  <2>1. ~ends /\ SameFlags(v, x) /\ Held(r)
    BY <1>5, <1>8 DEF InStep2, Pulses, Held
  <2>2. SameFlags(w, r)
    BY <1>6, <2>1
  <2>3. w.t2.ch * Base + w.t2.cl = r.t2.cnt
    BY <1>2, <1>3, <1>5, <1>8, Zenon DEF InStep2, Pulses
  <2> QED BY <1>1, <1>3, <1>8, <2>1, <2>2, <2>3, Zenon DEF InStep2, Pulses
<1>9. CASE "PULSE" \notin v.acr
  <2>1. ~Held(r) /\ "PULSE" \notin w.acr
    BY <1>3, <1>5, <1>9 DEF Held
  <2>2. Standing(r) = 0
    BY <2>1 DEF Standing
  <2>3. ASSUME Settled2(v, x, t)
        PROVE  InStep2(w, r, t + 1, "free")
    <3>1. PICK e \in Nat : e = End2(v)
      BY <2>3, End2Type DEF Settled2
    <3>2. CASE ends
      <4>1. cnt = 0 /\ ~Held(x) /\ ~r.t2.armed /\ r.t2.cnt = Word - 1
        BY <1>2, <1>5, <1>7, <3>2
      <4>2. e = t
        BY <1>2, <1>3, <2>3, <3>1, <4>1 DEF Settled2, Standing
      <4>3. Behind(w, r, "T2", End2(w))
        BY <1>3, <1>6, <2>3, <3>1, <3>2, <4>2 DEF Settled2
      <4>4. r.t2.cnt = (End2(w) - (t + 1)) % Word
        <5>1. PICK m \in Int : m = 0 - 1
          OBVIOUS
        <5>2. m % Word = Word - 1
          <6>1. 0 \in Int /\ 0 % Word = 0 /\ Word \in Nat \ {0}
            BY Constants, RemainderSmall
          <6>2. (0 - 1) % Word = IF 0 % Word = 0 THEN Word - 1 ELSE (0 % Word) - 1
            BY <6>1, RemainderStep, Zenon
          <6> QED BY <5>1, <6>1, <6>2, Zenon
        <5>3. End2(w) - (t + 1) = m
          BY <1>3, <3>1, <4>2, <5>1
        <5> QED BY <4>1, <5>2, <5>3, Zenon
      <4>5. End2(w) < t + 1
        BY <1>3, <3>1, <4>2
      <4>6. w.t2.tbi # 0 /\ w.t2.tbu = w.t2.tbi + 2
        BY <1>3, <2>3 DEF Settled2
      <4>7. Lagging2(w, r, t + 1)
        BY <2>1, <4>1, <4>3, <4>4, <4>5, <4>6, Zenon DEF Lagging2
      <4> QED BY <2>1, <4>7 DEF InStep2
    <3>3. CASE ~ends
      <4>1. r.t2.armed /\ SameFlags(w, r)
        BY <1>5, <1>6, <2>3, <3>3 DEF Settled2
      <4>2. w.t2.tbi # 0 /\ w.t2.tbu = w.t2.tbi + 2
        BY <1>3, <2>3 DEF Settled2
      <4>3. e = t + cnt + Standing(x)
        BY <1>2, <2>3, <3>1 DEF Settled2
      <4>4. e = (t + 1) + r.t2.cnt
        <5>1. CASE Held(x)
          <6>1. Standing(x) = 1 /\ r.t2.cnt = cnt
            BY <1>5, <5>1 DEF Standing
          <6> QED BY <1>3, <4>3, <6>1, Constants
        <5>2. CASE ~Held(x)
          <6>1. Standing(x) = 0 /\ cnt # 0
            BY <1>2, <2>3, <3>3, <5>2 DEF Standing, Settled2
          <6>2. r.t2.cnt = cnt - 1
            BY <1>5, <1>7, <5>2, <6>1
          <6> QED BY <1>3, <4>3, <6>1, <6>2, Constants
        <5> QED BY <5>1, <5>2
      <4>5. End2(w) = t + 1 + r.t2.cnt + Standing(r)
        <5>1. r.t2.cnt \in Nat
          BY ExactFields, Constants
        <5> QED BY <1>3, <2>2, <3>1, <4>4, <5>1
      <4>6. Settled2(w, r, t + 1)
        BY <4>1, <4>2, <4>5, Zenon DEF Settled2
      <4> QED BY <2>1, <4>6 DEF InStep2
    <3> QED BY <3>2, <3>3
  <2>4. ASSUME Lagging2(v, x, t)
        PROVE  InStep2(w, r, t + 1, "free")
    <3>1. PICK e \in Nat : e = End2(v)
      BY <2>4, End2Type DEF Lagging2
    <3>2. ~ends /\ ~r.t2.armed /\ e < t /\ ~Held(x)
      BY <1>5, <2>4, <3>1 DEF Lagging2
    <3>3. e \in Clock
      BY <3>1, <3>2, Constants DEF Clock, Times
    <3>4. Behind(w, r, "T2", End2(w))
      BY <1>3, <1>6, <2>4, <3>1, <3>3, Zenon DEF Lagging2
    <3>5. r.t2.cnt = (End2(w) - (t + 1)) % Word
      <4>1. PICK z \in Int : z = e - t
        BY <1>3
      <4>2. cnt = z % Word
        BY <1>2, <2>4, <3>1, <4>1, Zenon DEF Lagging2
      <4>3. (cnt - 1) % Word = (z - 1) % Word
        BY <4>2, WordStep
      <4>4. z - 1 = e - (t + 1)
        BY <1>3, <4>1
      <4> QED BY <1>3, <1>5, <3>1, <3>2, <4>3, <4>4, Zenon
    <3>6. w.t2.tbi # 0 /\ w.t2.tbu = w.t2.tbi + 2 /\ End2(w) < t + 1
      <4>1. End2(w) = e /\ e < t + 1
        BY <1>3, <3>1, <3>2
      <4> QED BY <1>3, <2>4, <4>1 DEF Lagging2
    <3>7. Lagging2(w, r, t + 1)
      BY <2>1, <3>2, <3>4, <3>5, <3>6, Zenon DEF Lagging2
    <3> QED BY <2>1, <3>7 DEF InStep2
  <2>5. ASSUME (v.t2.tbu - t - 2) % Word = cnt, ~Held(x)
        PROVE  r.t2.cnt = (w.t2.tbu - (t + 1) - 2) % Word
    <3>1. PICK tbu \in Nat : tbu = v.t2.tbu
      BY ViaFields, Constants DEF Clock
    <3>2. PICK z \in Int : z = tbu - t - 2
      BY <1>3
    <3>3. cnt = z % Word
      BY <2>5, <3>1, <3>2, Zenon
    <3>4. (cnt - 1) % Word = (z - 1) % Word
      BY <3>3, WordStep
    <3>5. z - 1 = tbu - (t + 1) - 2
      BY <1>3, <3>2
    <3> QED BY <1>3, <1>5, <2>5, <3>1, <3>4, <3>5, Zenon
  <2>6. ASSUME Stopped2(v, x, t)
        PROVE  InStep2(w, r, t + 1, "free")
    <3>1. ~ends /\ ~r.t2.armed /\ w.t2.tbi = 0
      BY <1>3, <1>5, <2>6 DEF Stopped2
    <3>2. SameFlags(w, r)
      BY <1>6, <2>6, <3>1 DEF Stopped2
    <3>3. r.t2.cnt = (w.t2.tbu - (t + 1) - 2) % Word
      BY <1>2, <2>5, <2>6 DEF Stopped2
    <3>4. Stopped2(w, r, t + 1)
      BY <2>1, <3>1, <3>2, <3>3, Zenon DEF Stopped2
    <3> QED BY <2>1, <3>4 DEF InStep2
  <2>7. ASSUME Ahead2(v, x, t)
        PROVE  InStep2(w, r, t + 1, "free")
    <3>1. ends /\ ~r.t2.armed /\ w.t2.tbi = 0
      BY <1>2, <1>3, <1>5, <2>7 DEF Ahead2
    <3>2. SameFlags(w, r)
      BY <1>6, <2>7, <3>1 DEF Ahead2
    <3>3. r.t2.cnt = (w.t2.tbu - (t + 1) - 2) % Word
      BY <1>2, <2>5, <2>7 DEF Ahead2
    <3>4. Stopped2(w, r, t + 1)
      BY <2>1, <3>1, <3>2, <3>3, Zenon DEF Stopped2
    <3> QED BY <2>1, <3>4 DEF InStep2
  <2>8. Settled2(v, x, t) \/ Lagging2(v, x, t) \/ Stopped2(v, x, t) \/ Ahead2(v, x, t)
    BY <1>9 DEF InStep2
  <2> QED BY <1>1, <2>3, <2>4, <2>6, <2>7, <2>8, Zenon
<1> QED BY <1>8, <1>9

LEMMA NotLate2 ==
    ASSUME NEW v \in ViaChips, NEW x \in ExactChips, NEW t \in Times,
           InStep2(v, x, t, "free"), Near(v, t, "free"), ~Overdue(v.t2.tbi, t)
    PROVE  IF "PULSE" \in v.acr THEN Pulses(v, x, t)
           ELSE \/ Settled2(v, x, t) /\ v.t2.tbi \in t .. t + Base - 1
                \/ Stopped2(v, x, t)
<1>1. CASE "PULSE" \in v.acr
  BY <1>1 DEF InStep2
<1>2. CASE "PULSE" \notin v.acr
  <2>1. ~Lagging2(v, x, t)
    <3>1. ASSUME Lagging2(v, x, t)
          PROVE  FALSE
      <4>1. v.t2.tbi # 0 /\ End2(v) < t
        BY <3>1 DEF Lagging2
      <4>2. v.t2.tbi < t
        BY <4>1, End2Type DEF Times
      <4> QED BY <4>1, <4>2 DEF Overdue
    <3> QED BY <3>1
  <2>2. Settled2(v, x, t) => v.t2.tbi \in t .. t + Base - 1
    <3>1. ASSUME Settled2(v, x, t)
          PROVE  v.t2.tbi \in t .. t + Base - 1
      <4>1. v.t2.tbi # 0
        BY <3>1 DEF Settled2
      <4>2. v.t2.tbi \in t - MaxLag - 1 .. t + (Base - 1)
        BY <4>1 DEF Near
      <4>3. ~(v.t2.tbi < t)
        BY <4>1 DEF Overdue
      <4> QED BY <4>2, <4>3, Constants DEF Times
    <3> QED BY <3>1
  <2> QED BY <1>2, <2>1, <2>2, Zenon DEF InStep2
<1> QED BY <1>1, <1>2

(* The counter of pulses is kept, and so is the counter that has stopped.   *)
LEMMA StoppedCounts ==
    ASSUME NEW v \in ViaChips, NEW t \in Times, "PULSE" \notin v.acr, v.t2.tbi = 0, NEW d \in {0, 1}
    PROVE  Counter2(v, t + d) = (v.t2.tbu - t - 2 - d) % Word
<1>1. PICK z \in Int : z = v.t2.tbu - t - 2 - d
  BY ViaFields, Constants DEF Clock, Times
<1>2. v.t2.tbu - ((t + d) + 2) = z
  BY <1>1, ViaFields, Constants DEF Clock, Times
<1>3. Counter2(v, t + d) = ClockSub(v.t2.tbu, (t + d) + 2) % Word
  BY Zenon DEF Counter2
<1>4. ClockSub(v.t2.tbu, (t + d) + 2) = z % (ClockMax + 1)
  BY <1>2, Zenon DEF ClockSub
<1>5. (z % (ClockMax + 1)) % Word = z % Word
  BY ClockRemainder
<1> QED BY <1>1, <1>3, <1>4, <1>5, Zenon

(* A counter that has k cycles of its low byte to go, d cycles later.       *)
LEMMA RunningCounts ==
    ASSUME NEW v \in ViaChips, NEW t \in Times, "PULSE" \notin v.acr, v.t2.tbi # 0,
           v.t2.tbu = v.t2.tbi + 2, v.t2.tbi \in t .. t + Base - 1,
           NEW cnt \in 0 .. Word - 1, cnt = End2(v) - t
    PROVE  Counter2(v, t) = cnt /\ Counter2(v, t + 1) = (cnt - 1) % Word
<1>1. PICK ch \in Bytes : ch = v.t2.ch
  BY ViaFields
<1>2. PICK k \in 0 .. Base - 1 : v.t2.tbi = t + k
  <2>1. v.t2.tbi - t \in 0 .. Base - 1 /\ v.t2.tbi = t + (v.t2.tbi - t)
    BY Constants DEF Times
  <2> QED BY <2>1
<1>3. t \in Nat /\ k \in Nat /\ ch * Base \in Nat /\ cnt = ch * Base + k
  BY <1>1, <1>2, TwoBytes, Constants DEF Times, End2
<1>4. v.t2.tbu - (t + 2) = k /\ v.t2.tbu - (t + 1 + 2) = k - 1 /\ t # v.t2.tbi + 1
      /\ (t + 1 = v.t2.tbi + 1 <=> k = 0)
  <2>1. v.t2.tbu = t + k + 2
    BY <1>2, <1>3
  <2> QED BY <1>2, <1>3, <2>1
<1>5. Counter2(v, t) = cnt
  <2>1. Counter2(v, t) = ch * Base + (ClockSub(v.t2.tbu, t + 2) % Base)
    BY <1>1, <1>4, Zenon DEF Counter2
  <2>2. ClockSub(v.t2.tbu, t + 2) = k % (ClockMax + 1)
    BY <1>4, Zenon DEF ClockSub
  <2>3. (k % (ClockMax + 1)) % Base = k % Base
    BY <1>3, ClockRemainder
  <2>4. k % Base = k
    BY Constants, RemainderSmall
  <2> QED BY <1>3, <2>1, <2>2, <2>3, <2>4, Zenon
<1>6. (cnt - 1) % Word = IF cnt = 0 THEN Word - 1 ELSE cnt - 1
  BY CountLess
<1>7. Counter2(v, t + 1) = (IF k = 0 THEN (ch - 1) % Base ELSE ch) * Base + ((k - 1) % Base)
  <2>1. Counter2(v, t + 1) = (IF k = 0 THEN (ch - 1) % Base ELSE ch) * Base
                             + (ClockSub(v.t2.tbu, t + 1 + 2) % Base)
    <3>1. CASE k = 0
      BY <1>1, <1>4, <3>1, Zenon DEF Counter2
    <3>2. CASE k # 0
      BY <1>1, <1>4, <3>2, Zenon DEF Counter2
    <3> QED BY <3>1, <3>2
  <2>2. PICK z \in Int : z = k - 1
    BY <1>3
  <2>3. ClockSub(v.t2.tbu, t + 1 + 2) = z % (ClockMax + 1)
    BY <1>4, <2>2, Zenon DEF ClockSub
  <2>4. (z % (ClockMax + 1)) % Base = z % Base
    BY ClockRemainder
  <2> QED BY <2>1, <2>2, <2>3, <2>4, Zenon
<1>8. (k - 1) % Base = IF k = 0 THEN Base - 1 ELSE k - 1
  <2>1. k \in Bytes
    BY DEF Bytes
  <2> QED BY <2>1, ByteLess
<1>9. Counter2(v, t + 1) = (cnt - 1) % Word
  <2>1. CASE k # 0
    <3>1. Counter2(v, t + 1) = ch * Base + (k - 1)
      BY <1>7, <1>8, <2>1, Zenon
    <3>2. ch * Base + (k - 1) = cnt - 1 /\ cnt # 0
      BY <1>3, <2>1
    <3> QED BY <1>6, <3>1, <3>2, Zenon
  <2>2. CASE k = 0
    <3>1. Counter2(v, t + 1) = ((ch - 1) % Base) * Base + (Base - 1)
      BY <1>7, <1>8, <2>2, Zenon
    <3>2. CASE ch = 0
      <4>1. (ch - 1) % Base = Base - 1
        BY <3>2, ByteLess
      <4>2. (Base - 1) * Base + (Base - 1) = Word - 1
        BY Constants
      <4>3. cnt = 0
        BY <1>3, <2>2, <3>2, Constants
      <4> QED BY <1>6, <3>1, <4>1, <4>2, <4>3, Zenon
    <3>3. CASE ch # 0
      <4>1. (ch - 1) % Base = ch - 1
        BY <3>3, ByteLess
      <4>2. (ch - 1) * Base + (Base - 1) = ch * Base - 1
        BY Constants DEF Bytes
      <4>3. ch >= 1
        BY <3>3, Constants DEF Bytes
      <4>4. ch * Base >= Base
        BY <4>3, Constants DEF Bytes
      <4>5. cnt # 0 /\ ch * Base - 1 = cnt - 1
        BY <1>3, <2>2, <4>4, Constants
      <4> QED BY <1>6, <3>1, <4>1, <4>2, <4>5, Zenon
    <3> QED BY <3>2, <3>3
  <2> QED BY <2>1, <2>2
<1> QED BY <1>5, <1>9

(* What a read of the counter computes, and a store to ACR.                 *)
LEMMA Counter2Reads ==
    ASSUME NEW v \in ViaChips, NEW x \in ExactChips, NEW t \in Times,
           InStep2(v, x, t, "free"), Near(v, t, "free"), ~Overdue(v.t2.tbi, t),
           ~x.t2.load, x.t2.pulse <=> "PULSE" \in v.acr
    PROVE  /\ Counter2(v, t) = x.t2.cnt
           /\ "PULSE" \notin v.acr => Counter2(v, t + 1) = (x.t2.cnt - 1) % Word
<1>1. PICK cnt \in 0 .. Word - 1 : cnt = x.t2.cnt
  BY ExactFields
<1>2. CASE "PULSE" \in v.acr
  <2>1. v.t2.ch * Base + v.t2.cl = cnt
    BY <1>1, <1>2, NotLate2 DEF Pulses, Held
  <2>2. Counter2(v, t) = v.t2.ch * Base + v.t2.cl
    BY <1>2, Zenon DEF Counter2
  <2> QED BY <1>1, <1>2, <2>1, <2>2
<1>3. CASE "PULSE" \notin v.acr
  <2>1. \/ Settled2(v, x, t) /\ v.t2.tbi \in t .. t + Base - 1
        \/ Stopped2(v, x, t)
    BY <1>3, NotLate2
  <2>2. ASSUME Settled2(v, x, t), v.t2.tbi \in t .. t + Base - 1
        PROVE  Counter2(v, t) = cnt /\ Counter2(v, t + 1) = (cnt - 1) % Word
    <3>1. Standing(x) = 0
      BY <1>3 DEF Standing, Held
    <3>2. cnt = End2(v) - t
      BY <1>1, <2>2, <3>1, Constants DEF Settled2, Times
    <3>3. v.t2.tbi # 0 /\ v.t2.tbu = v.t2.tbi + 2
      BY <2>2 DEF Settled2
    <3> QED BY <1>3, <2>2, <3>2, <3>3, RunningCounts
  <2>3. ASSUME Stopped2(v, x, t)
        PROVE  Counter2(v, t) = cnt /\ Counter2(v, t + 1) = (cnt - 1) % Word
    <3>1. PICK tbu \in Nat : tbu = v.t2.tbu
      BY ViaFields, Constants DEF Clock
    <3>2. PICK z \in Int : z = tbu - t - 2
      BY Constants DEF Times
    <3>3. cnt = z % Word
      BY <1>1, <2>3, <3>1, <3>2, Zenon DEF Stopped2
    <3>4. (cnt - 1) % Word = (z - 1) % Word
      BY <3>3, WordStep
    <3>5. Counter2(v, t + 0) = (tbu - t - 2 - 0) % Word
          /\ Counter2(v, t + 1) = (tbu - t - 2 - 1) % Word
      BY <1>3, <2>3, <3>1, StoppedCounts DEF Stopped2
    <3>6. t + 0 = t /\ tbu - t - 2 - 0 = z /\ tbu - t - 2 - 1 = z - 1
      BY <3>2, Constants DEF Times
    <3> QED BY <3>3, <3>4, <3>5, <3>6, Zenon
  <2> QED BY <1>1, <2>1, <2>2, <2>3
<1> QED BY <1>2, <1>3

LEMMA Started2 ==
    ASSUME NEW w \in ViaChips, NEW y \in ExactChips, NEW t \in Times,
           Held(y), y.t2.armed, y.t2.cnt = w.t2.ch * Base + w.t2.cl,
           w.t2.tbu = ClockAdd(t, w.t2.cl + 3), w.t2.tbi = ClockAdd(t, w.t2.cl + 1)
    PROVE  (SameFlags(w, y) => Settled2(w, y, t)) /\ w.t2.tbi \in t .. t + Base
<1>1. PICK cl \in 0 .. Base - 1, n \in Nat : cl = w.t2.cl /\ n = w.t2.ch * Base
  BY ViaFields, TwoBytes DEF Bytes
<1>2. t \in Nat /\ cl \in Nat /\ cl <= Base - 1 /\ t + (cl + 1) \in Clock /\ t + (cl + 3) \in Clock
      /\ t + (cl + 1) \in Int /\ t + (cl + 3) \in Int
  BY Constants DEF Times, Clock
<1>3. w.t2.tbi = t + (cl + 1) /\ w.t2.tbu = t + (cl + 3)
  <2>1. ClockAdd(t, cl + 1) = t + (cl + 1) /\ ClockAdd(t, cl + 3) = t + (cl + 3)
    BY <1>2, ClockSmall DEF ClockAdd
  <2> QED BY <1>1, <2>1, Zenon
<1>4. End2(w) = t + (cl + 1) + n /\ y.t2.cnt = n + cl
  BY <1>1, <1>3, Zenon DEF End2
<1>5. Standing(y) = 1
  BY DEF Standing
<1>6. End2(w) = t + y.t2.cnt + Standing(y)
  BY <1>2, <1>4, <1>5
<1>7. w.t2.tbi # 0 /\ w.t2.tbu = w.t2.tbi + 2 /\ w.t2.tbi \in t .. t + Base
  BY <1>2, <1>3, Constants
<1> QED BY <1>6, <1>7, Zenon DEF Settled2

-----------------------------------------------------------------------------
(* The clock guard moves every time by the same.                            *)

LEMMA FlagsMoved ==
    ASSUME NEW v, NEW x, NEW w, NEW y, NEW s, v.irq \in Lines, x.irq \in Lines,
           w.ifr = v.ifr, w.ier = v.ier, w.irq = Moved(v.irq),
           y.ifr = x.ifr, y.irq = Moved(x.irq)
    PROVE  /\ SameFlags(v, x) => SameFlags(w, y)
           /\ \A a \in Clock : a > GuardSub /\ Behind(v, x, s, a) => Behind(w, y, s, a - GuardSub)
<1>1. SameFlags(v, x) => SameFlags(w, y)
  BY DEF SameFlags
<1>2. ASSUME NEW a \in Clock, a > GuardSub, Behind(v, x, s, a)
      PROVE  Behind(w, y, s, a - GuardSub)
  <2>0. PICK ifr : ifr = v.ifr \cup {s}
    OBVIOUS
  <2>1. PICK p \in Lines : ifr = v.ifr \cup {s} /\ p = v.irq
    BY <2>0
  <2>2. x.irq = Pulled(ifr, v.ier, p, a)
    BY <1>2, <2>1, Zenon DEF Behind
  <2>3. Moved(Pulled(ifr, v.ier, p, a)) = Pulled(ifr, v.ier, Moved(p), a - GuardSub)
    BY <1>2, PulledMoved
  <2>4. y.irq = Pulled(w.ifr \cup {s}, w.ier, w.irq, a - GuardSub)
    BY <2>1, <2>2, <2>3, Zenon
  <2>5. y.ifr = w.ifr \cup {s}
    BY <1>2, Zenon DEF Behind
  <2> QED BY <2>4, <2>5, Zenon DEF Behind
<1> QED BY <1>1, <1>2

LEMMA AlarmMoved ==
    ASSUME NEW alarm \in Clock, NEW t \in Times, t >= GuardMax, alarm >= t - MaxLag - 1
    PROVE  /\ alarm > GuardSub /\ ClockSub(alarm, GuardSub) = alarm - GuardSub
           /\ alarm - GuardSub \in Clock /\ alarm - GuardSub # 0
<1>1. alarm - GuardSub \in Clock /\ alarm > GuardSub /\ alarm - GuardSub # 0
  BY Constants DEF Clock, Times
<1>2. ClockSub(alarm, GuardSub) = alarm - GuardSub
  BY <1>1, ClockSmall DEF ClockSub, Clock
<1> QED BY <1>1, <1>2

LEMMA InStep1Moved ==
    ASSUME NEW v \in ViaChips, NEW x \in ExactChips, NEW w \in ViaChips, NEW y \in ExactChips,
           NEW t \in Times, NEW b, t >= GuardMax, Near(v, t, b), InStep1(v, x, t, b),
           v.t1.tau >= GuardSub,
           w.ifr = v.ifr, w.ier = v.ier, w.irq = Moved(v.irq), w.acr = v.acr,
           y.ifr = x.ifr, y.ier = x.ier, y.irq = Moved(x.irq), y.t1 = x.t1,
           w.t1.tal = v.t1.tal, w.t1.tau = ClockSub(v.t1.tau, GuardSub),
           w.t1.tai = IF v.t1.tai = 0 THEN 0 ELSE ClockSub(v.t1.tai, GuardSub)
    PROVE  InStep1(w, y, t - GuardSub, b)
<1>1. PICK tal \in 0 .. Word - 1, tau \in Nat, tai \in Clock :
          tal = v.t1.tal /\ tau = v.t1.tau /\ tai = v.t1.tai
  BY ViaFields, Constants DEF Clock
<1>2. PICK u \in Nat : u = t - GuardSub
  BY Constants DEF Times
<1>3. t \in Nat /\ t > GuardSub /\ t \in Clock /\ tai \in Nat
  BY Constants DEF Times, Clock
<1>4. w.t1.tau = tau - GuardSub
  <2>1. tau - GuardSub \in Clock
    BY <1>1, Constants, ViaFields DEF Clock
  <2>2. ClockSub(tau, GuardSub) = tau - GuardSub
    BY <2>1, ClockSmall DEF ClockSub, Clock
  <2> QED BY <1>1, <2>2, Zenon
<1>5. tai # 0 => /\ tai > GuardSub /\ tai >= t - MaxLag - 1
                 /\ w.t1.tai = tai - GuardSub /\ w.t1.tai # 0
  <2>1. tai # 0 => tai >= t - MaxLag - 1
    BY <1>1 DEF Near
  <2>2. ASSUME tai # 0
        PROVE  tai > GuardSub /\ w.t1.tai = tai - GuardSub /\ w.t1.tai # 0
    <3>1. tai > GuardSub /\ ClockSub(tai, GuardSub) = tai - GuardSub /\ tai - GuardSub # 0
      BY <2>1, <2>2, AlarmMoved
    <3>2. w.t1.tai = ClockSub(tai, GuardSub)
      BY <1>1, <2>2
    <3> QED BY <3>1, <3>2
  <2> QED BY <2>1, <2>2
<1>6. tai = 0 => w.t1.tai = 0
  BY <1>1
<1>7. Counts1(w, y, u)
  <2>1. tau - GuardSub \in 0 .. u + Word + 1
    BY <1>1, <1>2, <1>3, Constants DEF InStep1, Counts1
  <2>2. tai # 0 => tau = tai
    BY <1>1 DEF InStep1, Counts1
  <2>3. y.t1.out => y.t1.cnt = Word - 1
    BY DEF InStep1, Counts1
  <2> QED BY <1>4, <1>5, <1>6, <2>1, <2>2, <2>3 DEF Counts1
<1>8. ToEnd1(x) = Expected1(tau, tal, t) => ToEnd1(y) = Expected1(w.t1.tau, w.t1.tal, u)
  <2>1. tau \in Int /\ t \in Int /\ GuardSub \in Int
    BY <1>3, Constants
  <2>2. Expected1(tau - GuardSub, tal, t - GuardSub) = Expected1(tau, tal, t)
    BY <2>1, ExpectedMoved
  <2>3. ToEnd1(y) = ToEnd1(x)
    BY DEF ToEnd1
  <2> QED BY <1>1, <1>2, <1>4, <2>2, <2>3, Zenon
<1>9. v.irq \in Lines /\ x.irq \in Lines
  BY ViaFields, ExactFields
<1>10. /\ SameFlags(v, x) => SameFlags(w, y)
       /\ \A a \in Clock : a > GuardSub /\ Behind(v, x, "T1", a) => Behind(w, y, "T1", a - GuardSub)
  BY <1>9, FlagsMoved
<1>11. Behind(x, v, "T1", t) => Behind(y, w, "T1", u)
  <2>1. \A a \in Clock : a > GuardSub /\ Behind(x, v, "T1", a) => Behind(y, w, "T1", a - GuardSub)
    BY <1>9, FlagsMoved
  <2> QED BY <1>2, <1>3, <2>1
<1>12. ASSUME Settled1(v, x, t)
       PROVE  Settled1(w, y, u)
  <2>1. ToEnd1(y) = Expected1(w.t1.tau, w.t1.tal, u)
    BY <1>1, <1>8, <1>12, Zenon DEF Settled1
  <2>2. w.t1.tai = 0 \/ w.t1.tai >= u
    BY <1>1, <1>2, <1>3, <1>5, <1>6, <1>12, Constants DEF Settled1
  <2>3. y.t1.armed <=> w.t1.tai # 0
    BY <1>1, <1>5, <1>6, <1>12 DEF Settled1
  <2>4. SameFlags(w, y)
    BY <1>10, <1>12 DEF Settled1
  <2> QED BY <2>1, <2>2, <2>3, <2>4, Zenon DEF Settled1
<1>13. ASSUME Lagging1(v, x, t)
       PROVE  Lagging1(w, y, u)
  <2>1. ToEnd1(y) = Expected1(w.t1.tau, w.t1.tal, u)
    BY <1>1, <1>8, <1>13, Zenon DEF Lagging1
  <2>2. tai # 0 /\ tai < t
    BY <1>1, <1>13 DEF Lagging1
  <2>3. w.t1.tai # 0 /\ w.t1.tai < u
    BY <1>2, <1>3, <1>5, <2>2, Constants
  <2>4. Behind(w, y, "T1", w.t1.tai)
    BY <1>1, <1>5, <1>10, <1>13, <2>2 DEF Lagging1
  <2>5. y.t1.armed <=> "FREE" \in w.acr
    BY <1>13 DEF Lagging1
  <2> QED BY <2>1, <2>3, <2>4, <2>5, Zenon DEF Lagging1
<1>14. ASSUME Ahead1(v, x, t)
       PROVE  Ahead1(w, y, u)
  <2>1. y.t1.armed /\ y.t1.out /\ ~y.t1.load /\ Behind(y, w, "T1", u)
    BY <1>11, <1>14 DEF Ahead1
  <2>2. CASE "FREE" \in v.acr
    <3>1. tai = t + (tal + 2)
      BY <1>1, <1>14, <2>2 DEF Ahead1
    <3>2. w.t1.tai = u + (tal + 2)
      BY <1>2, <1>3, <1>5, <3>1, Constants
    <3> QED BY <1>1, <2>1, <2>2, <3>2, Zenon DEF Ahead1
  <2>3. CASE "FREE" \notin v.acr
    <3>1. tai = 0 /\ tau = t
      BY <1>1, <1>14, <2>3 DEF Ahead1
    <3>2. w.t1.tai = 0 /\ w.t1.tau = u
      BY <1>2, <1>4, <1>6, <3>1
    <3> QED BY <2>1, <2>3, <3>2, Zenon DEF Ahead1
  <2> QED BY <2>2, <2>3
<1> QED BY <1>2, <1>7, <1>12, <1>13, <1>14, Zenon DEF InStep1

LEMMA InStep2Moved ==
    ASSUME NEW v \in ViaChips, NEW x \in ExactChips, NEW w \in ViaChips, NEW y \in ExactChips,
           NEW t \in Times, NEW b, t >= GuardMax, Near(v, t, b), InStep2(v, x, t, b),
           w.ifr = v.ifr, w.ier = v.ier, w.irq = Moved(v.irq), w.acr = v.acr,
           y.ifr = x.ifr, y.ier = x.ier, y.irq = Moved(x.irq), y.t2 = x.t2,
           w.t2.cl = v.t2.cl, w.t2.ch = v.t2.ch, w.t2.tbu = ClockSub(v.t2.tbu, GuardSub),
           w.t2.tbi = IF v.t2.tbi = 0 THEN 0 ELSE ClockSub(v.t2.tbi, GuardSub)
    PROVE  InStep2(w, y, t - GuardSub, b)
<1>1. PICK tbi \in Clock, tbu \in Clock : tbi = v.t2.tbi /\ tbu = v.t2.tbu
  BY ViaFields
<1>2. PICK u \in Nat : u = t - GuardSub
  BY Constants DEF Times
<1>3. t \in Nat /\ t > GuardSub /\ t \in Clock /\ tbi \in Nat /\ tbu \in Nat
  BY Constants DEF Times, Clock
<1>4. v.irq \in Lines /\ x.irq \in Lines
  BY ViaFields, ExactFields
<1>5. /\ SameFlags(v, x) => SameFlags(w, y)
      /\ \A a \in Clock : a > GuardSub /\ Behind(v, x, "T2", a) => Behind(w, y, "T2", a - GuardSub)
  BY <1>4, FlagsMoved
<1>6. Behind(x, v, "T2", t) => Behind(y, w, "T2", u)
  <2>1. \A a \in Clock : a > GuardSub /\ Behind(x, v, "T2", a) => Behind(y, w, "T2", a - GuardSub)
    BY <1>4, FlagsMoved
  <2> QED BY <1>2, <1>3, <2>1
<1>7. (Held(y) <=> Held(x)) /\ Standing(y) = Standing(x)
  BY DEF Held, Standing
<1>8. CASE "PULSE" \in v.acr
  BY <1>2, <1>5, <1>7, <1>8, Zenon DEF InStep2, Pulses
<1>9. CASE "PULSE" \notin v.acr
  <2>1. ASSUME tbi # 0, tbu = tbi + 2
        PROVE  /\ w.t2.tbi = tbi - GuardSub /\ w.t2.tbi # 0 /\ w.t2.tbu = w.t2.tbi + 2
               /\ End2(w) = End2(v) - GuardSub /\ End2(v) \in Nat /\ End2(v) >= tbi /\ tbi > GuardSub
    <3>1. tbi >= t - MaxLag - 1 /\ tbi <= t + Base
      BY <1>1, <1>3, <2>1, Constants DEF Near
    <3>2. tbi > GuardSub /\ ClockSub(tbi, GuardSub) = tbi - GuardSub /\ tbi - GuardSub # 0
      BY <2>1, <3>1, AlarmMoved
    <3>3. ClockSub(tbu, GuardSub) = tbu - GuardSub
      <4>1. tbu - GuardSub \in Clock
        BY <1>3, <2>1, <3>1, <3>2, Constants DEF Clock, Times
      <4> QED BY <4>1, ClockSmall DEF ClockSub, Clock
    <3>4. w.t2.tbi = tbi - GuardSub /\ w.t2.tbu = tbu - GuardSub
      BY <1>1, <2>1, <3>2, <3>3, Zenon
    <3>5. PICK n \in Nat : n = v.t2.ch * Base
      BY ViaFields, TwoBytes
    <3>6. End2(v) = tbi + n /\ End2(w) = (tbi - GuardSub) + n
      BY <1>1, <3>4, <3>5, Zenon DEF End2
    <3> QED BY <1>3, <2>1, <3>2, <3>4, <3>6, Constants
  <2>2. ASSUME Settled2(v, x, t)
        PROVE  Settled2(w, y, u)
    <3>1. /\ w.t2.tbi # 0 /\ w.t2.tbu = w.t2.tbi + 2
          /\ End2(w) = End2(v) - GuardSub /\ End2(v) \in Nat
      BY <1>1, <2>1, <2>2 DEF Settled2
    <3>2. PICK c \in Nat, s \in Nat : c = x.t2.cnt /\ s = Standing(x)
      BY ExactFields, Constants DEF Standing
    <3>3. End2(v) = t + c + s
      BY <2>2, <3>2, Zenon DEF Settled2
    <3>4. End2(w) = u + c + s
      BY <1>2, <1>3, <3>1, <3>3, Constants
    <3>5. SameFlags(w, y) /\ y.t2.armed /\ y.t2.cnt = c
      BY <1>5, <2>2, <3>2 DEF Settled2
    <3> QED BY <1>7, <3>1, <3>2, <3>4, <3>5, Zenon DEF Settled2
  <2>3. ASSUME Lagging2(v, x, t)
        PROVE  Lagging2(w, y, u)
    <3>1. /\ w.t2.tbi # 0 /\ w.t2.tbu = w.t2.tbi + 2
          /\ End2(w) = End2(v) - GuardSub /\ End2(v) \in Nat /\ End2(v) > GuardSub
      BY <1>1, <1>3, <2>1, <2>3, Constants DEF Lagging2
    <3>2. PICK e \in Nat : e = End2(v) /\ e > GuardSub
      BY <3>1
    <3>3. e < t /\ e \in Clock
      BY <1>3, <2>3, <3>2, Constants DEF Lagging2, Clock
    <3>4. PICK d \in Nat : d = e - GuardSub
      BY <3>2, Constants
    <3>5. End2(w) = d
      BY <3>1, <3>2, <3>4
    <3>6. d < u /\ d - u = e - t
      BY <1>2, <1>3, <3>3, <3>4, Constants
    <3>7. Behind(w, y, "T2", d)
      BY <1>5, <2>3, <3>2, <3>3, <3>4 DEF Lagging2
    <3>8. y.t2.cnt = (d - u) % Word
      BY <2>3, <3>2, <3>6, Zenon DEF Lagging2
    <3>9. ~y.t2.armed /\ ~Held(y)
      BY <1>7, <2>3 DEF Lagging2
    <3> QED BY <3>1, <3>5, <3>6, <3>7, <3>8, <3>9, Zenon DEF Lagging2
  <2>4. tbi = 0 => w.t2.tbi = 0
    BY <1>1
  <2>5. (w.t2.tbu - u - 2) % Word = (v.t2.tbu - t - 2) % Word
    <3>1. PICK z \in Int : z = tbu - GuardSub
      BY <1>3, Constants
    <3>2. PICK d \in Nat : d = w.t2.tbu
      BY ViaFields, Constants DEF Clock
    <3>3. d = z % (ClockMax + 1)
      BY <1>1, <3>1, <3>2, Zenon DEF ClockSub
    <3>4. PICK m \in Nat \ {0} : ClockMax + 1 = m * Word
      BY Constants
    <3>5. PICK q \in Int : z = q * (ClockMax + 1) + d
      <4>1. ClockMax + 1 \in Nat \ {0}
        BY Constants
      <4> QED BY <3>3, <4>1, Remainder
    <3>6. PICK k \in Int : k = -(q * m)
      OBVIOUS
    <3>7. q * (m * Word) = -(k * Word) /\ k * Word \in Int
      <4>1. Word \in Int
        BY Constants
      <4> QED BY <3>6, <4>1
    <3>8. z = d - k * Word
      <4>1. z = q * (m * Word) + d
        BY <3>4, <3>5, Zenon
      <4> QED BY <3>7, <4>1
    <3>9. PICK a \in Int, c \in Int : a = tbu - t - 2 /\ c = d - u - 2
      BY <1>3
    <3>10. c = a + k * Word
      BY <1>2, <1>3, <3>1, <3>7, <3>8, <3>9, Constants
    <3>11. (a + k * Word) % Word = a % Word
      BY Constants, RemainderShift
    <3> QED BY <1>1, <3>2, <3>9, <3>10, <3>11, Zenon
  <2>6. ASSUME Stopped2(v, x, t)
        PROVE  Stopped2(w, y, u)
    <3>1. w.t2.tbi = 0 /\ ~y.t2.armed /\ ~Held(y) /\ SameFlags(w, y)
      BY <1>1, <1>5, <1>7, <2>4, <2>6 DEF Stopped2
    <3>2. y.t2.cnt = (w.t2.tbu - u - 2) % Word
      BY <2>5, <2>6, Zenon DEF Stopped2
    <3> QED BY <3>1, <3>2, Zenon DEF Stopped2
  <2>7. ASSUME Ahead2(v, x, t)
        PROVE  Ahead2(w, y, u)
    <3>1. w.t2.tbi = 0 /\ y.t2.armed /\ ~Held(y) /\ y.t2.cnt = 0 /\ Behind(y, w, "T2", u)
      BY <1>1, <1>6, <1>7, <2>4, <2>7 DEF Ahead2
    <3>2. (w.t2.tbu - u - 2) % Word = 0
      BY <2>5, <2>7, Zenon DEF Ahead2
    <3> QED BY <3>1, <3>2, Zenon DEF Ahead2
  <2> QED BY <1>2, <1>9, <2>2, <2>3, <2>6, <2>7, Zenon DEF InStep2
<1> QED BY <1>8, <1>9

-----------------------------------------------------------------------------
(* The actions.                                                             *)

LEMMA Here ==
    ASSUME IInv
    PROVE  /\ via \in ViaChips /\ exact \in ExactChips /\ now \in Times
           /\ now \in Clock /\ now \in Nat /\ now + 1 \in Clock
           /\ used \in {"T1", "T2"} /\ bus \in {"free", "fetch", "data"}
           /\ upset \subseteq {"late", "stale"}
           /\ Agree(via, exact) /\ WellPulled(via) /\ WellPulled(exact)
           /\ Apart(via, exact, bus) /\ Near(via, now, bus)
           /\ upset = {} => InStep(via, exact, now, bus)
BY Constants DEF IInv, TypeOK, Times, Clock

(* The invariant of a state with chips w and y at time t.                   *)
Good(w, y, t, b, up) ==
    /\ w \in ViaChips /\ y \in ExactChips /\ t \in Times
    /\ b \in {"free", "fetch", "data"} /\ up \subseteq {"late", "stale"}
    /\ Agree(w, y) /\ WellPulled(w) /\ WellPulled(y)
    /\ Apart(w, y, b) /\ Near(w, t, b)
    /\ up = {} => InStep(w, y, t, b)

LEMMA GoodNext ==
    ASSUME used \in {"T1", "T2"}, used' = used, Good(via', exact', now', bus', upset')
    PROVE  IInv'
<1>1. now' \in Clock /\ now' \in SubMin .. GuardMax + 1
  BY Constants DEF Good, Times, Clock
<1>2. TypeOK'
  BY <1>1 DEF TypeOK, Good
<1>3. Apart(via, exact, bus)'
  BY DEF Good, Apart
<1>4. (upset = {} => InStep(via, exact, now, bus))'
  <2>1. upset' = {} => InStep(via', exact', now', bus')
    BY DEF Good
  <2>2. upset' = {} => InStep(via, exact, now, bus)'
    BY <2>1, Zenon DEF InStep, InStep1, InStep2, Ahead1, Ahead2, Settled1, Settled2,
       Lagging1, Lagging2, Stopped2, Pulses
  <2> QED BY <2>2
<1>5. (Agree(via, exact) /\ WellPulled(via) /\ WellPulled(exact) /\ Near(via, now, bus))'
  BY DEF Good, Agree, WellPulled, Near
<1> QED BY <1>1, <1>2, <1>3, <1>4, <1>5 DEF IInv

LEMMA ForgottenChips ==
    ASSUME via \in ViaChips, exact \in ExactChips
    PROVE  /\ ForgetPull(via) \in ViaChips /\ ForgetPull(exact) \in ExactChips
           /\ FlagsSet(ForgetPull(via), via, via.ifr, via.ier, Forgotten(via.irq, exact.irq))
           /\ FlagsSet(ForgetPull(exact), exact, exact.ifr, exact.ier,
                       Forgotten(exact.irq, via.irq))
<1>1. via \in Chips(ViaT1, ViaT2) /\ exact \in Chips(ExactT1, ExactT2)
  BY ChipSets
<1>2. /\ ForgetPull(via) \in Chips(ViaT1, ViaT2)
      /\ FlagsSet(ForgetPull(via), via, via.ifr, via.ier,
                  IF via.irq = exact.irq THEN [via.irq EXCEPT !.clk = 0] ELSE via.irq)
  BY <1>1, ForgetFields
<1>3. /\ ForgetPull(exact) \in Chips(ExactT1, ExactT2)
      /\ FlagsSet(ForgetPull(exact), exact, exact.ifr, exact.ier,
                  IF via.irq = exact.irq THEN [exact.irq EXCEPT !.clk = 0] ELSE exact.irq)
  BY <1>1, ForgetFields
<1>4. FlagsSet(ForgetPull(via), via, via.ifr, via.ier, Forgotten(via.irq, exact.irq))
  BY <1>2, Zenon DEF Forgotten
<1>5. FlagsSet(ForgetPull(exact), exact, exact.ifr, exact.ier, Forgotten(exact.irq, via.irq))
  BY <1>3, Zenon DEF Forgotten
<1> QED BY <1>2, <1>3, <1>4, <1>5, ChipSets

LEMMA TickKeeps ==
    ASSUME IInv, Tick
    PROVE  IInv'
<1>1. PICK w \in ViaChips, y \in ExactChips :
        /\ w = ForgetPull(via) /\ y = ForgetPull(exact)
        /\ FlagsSet(w, via, via.ifr, via.ier, Forgotten(via.irq, exact.irq))
        /\ FlagsSet(y, exact, exact.ifr, exact.ier, Forgotten(exact.irq, via.irq))
  <2>1. via \in ViaChips /\ exact \in ExactChips
    BY Here
  <2> QED BY <2>1, ForgottenChips
<1>2. /\ via' = w /\ now' = now + 1 /\ bus' = "free" /\ used' = used /\ upset' = upset
      /\ exact' = IF used = "T1" THEN Count1(y, now) ELSE Count2(y, now)
  BY <1>1, Zenon DEF Tick
<1>3. via.irq \in Lines /\ exact.irq \in Lines /\ now \in Clock /\ now \in Times
      /\ via \in ViaChips /\ exact \in ExactChips /\ now \in Nat
  BY Here, ViaFields, ExactFields
<1>4. WellPulled(w) /\ WellPulled(y)
  <2>1. WellPulled(via) /\ WellPulled(exact)
    BY Here
  <2>2. /\ Forgotten(via.irq, exact.irq).on <=> via.irq.on
        /\ via.irq = Released => Forgotten(via.irq, exact.irq) = Released
        /\ Forgotten(exact.irq, via.irq).on <=> exact.irq.on
        /\ exact.irq = Released => Forgotten(exact.irq, via.irq) = Released
    BY <1>3, ForgottenFacts
  <2> QED BY <1>1, <2>1, <2>2 DEF WellPulled, FlagsSet
<1>5. /\ Agree(w, y) /\ w.t1 = via.t1 /\ w.t2 = via.t2 /\ y.t1 = exact.t1 /\ y.t2 = exact.t2
      /\ w.acr = via.acr /\ y.acr = w.acr
  BY <1>1, Here DEF Agree, FlagsSet
<1>6. PICK z \in ExactChips : z = exact'
  <2>1. Count1(y, now) \in ExactChips /\ Count2(y, now) \in ExactChips
    BY <1>3, Count1Fields, Count2Fields
  <2> QED BY <1>2, <2>1
<1>7. /\ z.t1.out => z.t1.cnt = Word - 1
      /\ Agree(w, z) /\ WellPulled(z) /\ (used = "T1" => ~z.t1.load) /\ (used = "T2" => ~z.t2.load)
      /\ used = "T1" => z.t2 = y.t2
      /\ used = "T2" => z.t1 = y.t1 /\ (z.t2.pulse <=> "PULSE" \in y.acr)
                        /\ (z.t2.armed => y.t2.armed)
  <2>1. CASE used = "T1"
    <3>1. z = Count1(y, now)
      BY <1>2, <1>6, <2>1
    <3>2. /\ Regs(z, y) /\ z.t1.tal = y.t1.tal /\ z.t2 = y.t2 /\ ~z.t1.load
          /\ \/ z.ifr = y.ifr /\ z.irq = y.irq
             \/ /\ z.ifr = y.ifr \cup {"T1"}
                /\ z.irq = Pulled(y.ifr \cup {"T1"}, y.ier, y.irq, now)
      BY <1>3, <3>1, Count1Fields, ZenonT(60)
    <3>3. WellPulled(z)
      <4>1. y.irq \in Lines
        BY ExactFields
      <4>2. z.ifr = y.ifr /\ z.irq = y.irq => WellPulled(z)
        BY <1>4, <3>2 DEF WellPulled, Regs
      <4>3. z.irq = Pulled(z.ifr, z.ier, y.irq, now) => WellPulled(z)
        BY <1>3, <4>1, PulledIsWell DEF WellPulled
      <4> QED BY <3>2, <4>2, <4>3 DEF Regs
    <3>4. z.t1.out => z.t1.cnt = Word - 1
      BY <1>3, <3>1, ToEndTick
    <3> QED BY <1>5, <2>1, <3>2, <3>3, <3>4 DEF Agree, Regs
  <2>2. CASE used = "T2"
    <3>1. z = Count2(y, now)
      BY <1>2, <1>6, <2>2
    <3>2. Counted2(z, y, now)
      BY <1>3, <3>1, Count2Fields
    <3>3. WellPulled(z)
      <4>1. y.irq \in Lines
        BY ExactFields
      <4>2. z.ifr = y.ifr /\ z.irq = y.irq => WellPulled(z)
        BY <1>4, <3>2 DEF WellPulled, Regs, Counted2
      <4>3. z.irq = Pulled(z.ifr, z.ier, y.irq, now) => WellPulled(z)
        BY <1>3, <4>1, PulledIsWell DEF WellPulled
      <4> QED BY <3>2, <4>2, <4>3 DEF Regs, Counted2
    <3>4. z.t1.out => z.t1.cnt = Word - 1
      BY <1>5, <3>2, Here DEF Counted2, Apart
    <3> QED BY <1>5, <2>2, <3>2, <3>3, <3>4 DEF Agree, Regs, Counted2
  <2> QED BY <2>1, <2>2, Here
<1>8. Apart(w, z, "free")
  BY <1>5, <1>7, Here DEF Apart
<1>9. Near(w, now + 1, "free")
  <2>1. PICK tai \in Nat, tbi \in Nat : tai = via.t1.tai /\ tbi = via.t2.tbi
    BY <1>3, ViaFields, Constants DEF Clock
  <2>2. (tai # 0 => ~(tai < now - MaxLag)) /\ (tbi # 0 => ~(tbi < now - MaxLag))
    BY <2>1, Zenon DEF Tick, AnyOverdue, Overdue
  <2>3. /\ tai # 0 => tai <= now + Word + 1
        /\ tbi # 0 => tbi <= now + Base
    BY <1>3, <2>1, Here, Constants DEF Near
  <2>4. /\ tai # 0 => tai \in (now + 1) - MaxLag - 1 .. (now + 1) + Word + 1
        /\ tbi # 0 => tbi \in (now + 1) - MaxLag - 1 .. (now + 1) + (Base - 1)
    BY <1>3, <2>2, <2>3, Constants
  <2> QED BY <1>5, <2>1, <2>4 DEF Near
<1>10. upset = {} => InStep(w, z, now + 1, "free")
  <2>1. ASSUME upset = {}, used = "T1"
        PROVE  InStep1(w, Count1(y, now), now + 1, "free")
    BY <1>1, <1>3, <2>1, Here, Tick1 DEF InStep
  <2>2. ASSUME upset = {}, used = "T2"
        PROVE  InStep2(w, Count2(y, now), now + 1, "free")
    BY <1>1, <1>3, <2>2, Here, InStep2Tick DEF InStep, Apart
  <2> QED BY <1>2, <1>6, <2>1, <2>2, Here DEF InStep
<1>11. now + 1 \in Times
  BY <1>3, Constants DEF Tick, Times
<1>12. Good(w, z, now + 1, "free", upset)
  BY <1>4, <1>7, <1>8, <1>9, <1>10, <1>11, Here DEF Good
<1>13. Good(via', exact', now', bus', upset')
  BY <1>2, <1>6, <1>12
<1> QED BY <1>2, <1>13, GoodNext, Here

(* What a call of an alarm leaves true, whatever the timers have met.       *)
Sound(v, x, t, b) ==
    Agree(v, x) /\ WellPulled(v) /\ Apart(v, x, b) /\ Near(v, t, b)

LEMMA IntT1Sound ==
    ASSUME NEW v \in ViaChips, NEW x \in ExactChips, NEW t \in Times, NEW b,
           used \in {"T1", "T2"}, Sound(v, x, t, b), v.t1.tai # 0, v.t1.tai <= t
    PROVE  IntT1(v) \in ViaChips /\ Sound(IntT1(v), x, t, b) /\ used = "T1"
<1>1. PICK r \in ViaChips : r = IntT1(v)
  BY IntT1Fields
<1>2. /\ Regs(r, v) /\ r.t2 = v.t2 /\ r.ifr = v.ifr \cup {"T1"}
      /\ r.irq = Pulled(v.ifr \cup {"T1"}, v.ier, v.irq, v.t1.tai)
      /\ r.t1.tal = v.t1.tal
      /\ \/ r.t1.tai = 0
         \/ r.t1.tai = ClockAdd(v.t1.tai, v.t1.tal + 2)
  BY <1>1, IntT1Fields
<1>3. Agree(r, x)
  BY <1>2 DEF Agree, Regs, Sound
<1>4. WellPulled(r)
  <2>1. r.irq = Pulled(r.ifr, r.ier, v.irq, v.t1.tai) /\ v.irq \in Lines /\ v.t1.tai \in Clock
    BY <1>2, ViaFields DEF Regs
  <2> QED BY <2>1, PulledIsWell DEF WellPulled
<1>5. used = "T1"
  BY DEF Sound, Apart
<1>6. Apart(r, x, b)
  BY <1>2, <1>5 DEF Apart, Regs, Sound
<1>7. Near(r, t, b)
  <2>1. PICK tal \in 0 .. Word - 1, tai \in Nat : tal = v.t1.tal /\ tai = v.t1.tai
    BY ViaFields, Constants DEF Clock
  <2>2. tai >= t - MaxLag - 1 /\ tai <= t /\ t \in Nat
    BY <2>1, Constants DEF Near, Sound, Times
  <2>3. ClockAdd(tai, tal + 2) = tai + (tal + 2)
    <3>1. tai + (tal + 2) \in Clock /\ tai + (tal + 2) \in Int
      BY <2>1, <2>2, Constants DEF Clock, Times
    <3> QED BY <3>1, ClockSmall DEF ClockAdd
  <2>4. r.t1.tai # 0 => r.t1.tai = tai + (tal + 2)
    BY <1>2, <2>1, <2>3, Zenon
  <2>5. r.t1.tai # 0 => r.t1.tai \in t - MaxLag - 1 .. t + Word + 1
    BY <2>1, <2>2, <2>4, Constants
  <2>6. r.t2.tbi = v.t2.tbi /\ v.t2.tbi = 0
    BY <1>2, <1>5 DEF Sound, Apart
  <2> QED BY <2>5, <2>6 DEF Near
<1> QED BY <1>1, <1>3, <1>4, <1>5, <1>6, <1>7 DEF Sound

LEMMA IntT2Sound ==
    ASSUME NEW v \in ViaChips, NEW x \in ExactChips, NEW t \in Times, NEW b, NEW d,
           used \in {"T1", "T2"}, Sound(v, x, t, b), v.t2.tbi # 0, v.t2.tbi <= t,
           v.t2.tbi = t => d = "fetch", Apart(v, x, d)
    PROVE  IntT2(v) \in ViaChips /\ Sound(IntT2(v), x, t, d) /\ used = "T2" /\ "PULSE" \notin v.acr
<1>1. PICK r \in ViaChips : r = IntT2(v)
  BY IntT2Fields
<1>2. /\ Regs(r, v) /\ r.t1 = v.t1
      /\ \/ r.t2.tbi = 0
         \/ r.t2.tbi = ClockAdd(v.t2.tbi, Base)
      /\ \/ r.ifr = v.ifr /\ r.irq = v.irq
         \/ /\ r.ifr = v.ifr \cup {"T2"}
            /\ r.irq = Pulled(v.ifr \cup {"T2"}, v.ier, v.irq, v.t2.tbi)
  BY <1>1, IntT2Fields
<1>3. Agree(r, x)
  BY <1>2 DEF Agree, Regs, Sound
<1>4. WellPulled(r)
  <2>1. v.irq \in Lines /\ v.t2.tbi \in Clock
    BY ViaFields
  <2>2. CASE r.ifr = v.ifr /\ r.irq = v.irq
    BY <1>2, <2>2 DEF WellPulled, Regs, Sound
  <2>3. CASE r.irq = Pulled(r.ifr, r.ier, v.irq, v.t2.tbi)
    BY <2>1, <2>3, PulledIsWell DEF WellPulled
  <2> QED BY <1>2, <2>2, <2>3 DEF Regs
<1>5. used = "T2" /\ "PULSE" \notin v.acr
  BY DEF Sound, Apart
<1>6. Apart(r, x, d)
  BY <1>2, <1>5 DEF Apart, Regs
<1>7. Near(r, t, d)
  <2>1. PICK tbi \in Nat : tbi = v.t2.tbi
    BY ViaFields, Constants DEF Clock
  <2>2. tbi >= t - MaxLag - 1 /\ tbi <= t /\ t \in Nat
    BY <2>1, Constants DEF Near, Sound, Times
  <2>3. ClockAdd(tbi, Base) = tbi + Base
    <3>1. tbi + Base \in Clock /\ tbi + Base \in Int
      BY <2>1, <2>2, Constants DEF Clock, Times
    <3> QED BY <3>1, ClockSmall DEF ClockAdd
  <2>4. r.t2.tbi # 0 => r.t2.tbi = tbi + Base
    BY <1>2, <2>1, <2>3, Zenon
  <2>5. tbi = t => d # "free"
    BY <2>1
  <2>6. r.t2.tbi # 0 =>
            r.t2.tbi \in t - MaxLag - 1 .. t + (IF d = "free" THEN Base - 1 ELSE Base)
    <3>1. CASE d = "free"
      <4>1. tbi < t
        BY <2>2, <2>5, <3>1
      <4> QED BY <2>2, <2>4, <3>1, <4>1, Constants
    <3>2. CASE d # "free"
      BY <2>2, <2>4, <3>2, Constants
    <3> QED BY <3>1, <3>2
  <2>7. r.t1.tai = v.t1.tai /\ v.t1.tai = 0
    BY <1>2, <1>5 DEF Sound, Apart
  <2> QED BY <2>6, <2>7 DEF Near
<1> QED BY <1>1, <1>3, <1>4, <1>5, <1>6, <1>7 DEF Sound

(* A call of the alarm of timer 1 keeps the chips in step.                  *)
LEMMA IntT1Step ==
    ASSUME NEW v \in ViaChips, NEW x \in ExactChips, NEW t \in Times, NEW b,
           Agree(v, x), InStep1(v, x, t, b), ~x.t1.load, v.t1.tai # 0, v.t1.tai <= t
    PROVE  /\ Counts1(IntT1(v), x, t)
           /\ IF v.t1.tai = t THEN Ahead1(IntT1(v), x, t)
              ELSE Settled1(IntT1(v), x, t) \/ Lagging1(IntT1(v), x, t)
<1>1. ~Ahead1(v, x, t)
  <2>1. v.t1.tal \in Nat /\ t \in Nat
    BY ViaFields, Constants DEF Times
  <2>2. v.t1.tai # t + (v.t1.tal + 2)
    BY <2>1
  <2> QED BY <2>2 DEF Ahead1
<1>2. Counts1(v, x, t) /\ (Settled1(v, x, t) \/ Lagging1(v, x, t))
  BY <1>1 DEF InStep1
<1>3. CASE v.t1.tai = t
  <2>1. ~Lagging1(v, x, t)
    BY <1>3, Constants DEF Lagging1, Times
  <2> QED BY <1>2, <1>3, <2>1, IntT1WhenDue
<1>4. CASE v.t1.tai # t
  <2>1. ~Settled1(v, x, t)
    <3>1. ~(v.t1.tai >= t)
      BY <1>4, ViaFields, Constants DEF Times, Clock
    <3> QED BY <3>1 DEF Settled1
  <2> QED BY <1>2, <1>4, <2>1, IntT1WhenLagging
<1> QED BY <1>3, <1>4

(* And so does that of timer 2.                                             *)
LEMMA IntT2Step ==
    ASSUME NEW v \in ViaChips, NEW x \in ExactChips, NEW t \in Times, NEW b,
           Agree(v, x), Near(v, t, b), InStep2(v, x, t, b), "PULSE" \notin v.acr,
           v.t2.tbi # 0, v.t2.tbi <= t
    PROVE  /\ "PULSE" \notin IntT2(v).acr
           /\ \/ Settled2(IntT2(v), x, t) \/ Lagging2(IntT2(v), x, t) \/ Stopped2(IntT2(v), x, t)
              \/ v.t2.tbi = t /\ Ahead2(IntT2(v), x, t)
<1>1. "PULSE" \notin IntT2(v).acr
  <2>1. Regs(IntT2(v), v)
    BY IntT2Fields, Zenon
  <2> QED BY <2>1 DEF Regs
<1>2. (Settled2(v, x, t) \/ Lagging2(v, x, t)) /\ v.t2.tbu = v.t2.tbi + 2
  BY DEF InStep2, Settled2, Lagging2, Stopped2, Ahead2
<1>3. CASE v.t2.ch # 0
  <2>1. Settled2(IntT2(v), x, t) \/ Lagging2(IntT2(v), x, t)
    BY <1>2, <1>3, IntT2Low
  <2> QED BY <1>1, <2>1
<1>4. CASE v.t2.ch = 0
  <2>1. Settled2(v, x, t) => v.t2.tbi = t /\ Ahead2(IntT2(v), x, t)
    BY <1>2, <1>4, IntT2Both
  <2>2. Lagging2(v, x, t) => Stopped2(IntT2(v), x, t)
    BY <1>2, <1>4, IntT2Both
  <2> QED BY <1>1, <1>2, <2>1, <2>2
<1> QED BY <1>3, <1>4

LEMMA DispatchKeeps ==
    ASSUME IInv, Dispatch
    PROVE  IInv'
<1>1. /\ bus # "data" /\ bus' = "fetch" /\ now' = now /\ exact' = exact /\ used' = used
      /\ upset' = upset
  BY DEF Dispatch
<1>2. Sound(via, exact, now, bus) /\ Sound(via, exact, now, "fetch") /\ Apart(via, exact, "fetch")
      /\ ~exact.t1.load
  <2>1. Apart(via, exact, "fetch") /\ ~exact.t1.load
    BY <1>1, Here DEF Apart
  <2>2. Near(via, now, "fetch")
    BY Here, Constants, ViaFields DEF Near, Clock
  <2> QED BY <2>1, <2>2, Here DEF Sound
<1>3. CASE via.t1.tai \in 1 .. now /\ via' = IntT1(via)
  <2>1. via.t1.tai # 0 /\ via.t1.tai <= now
    BY <1>3, Here
  <2>2. IntT1(via) \in ViaChips /\ Sound(IntT1(via), exact, now, "fetch") /\ used = "T1"
    BY <1>2, <2>1, Here, IntT1Sound
  <2>3. ASSUME upset = {}
        PROVE  InStep(IntT1(via), exact, now, "fetch")
    <3>1. InStep1(via, exact, now, bus)
      BY <2>2, <2>3, Here DEF InStep
    <3>2. /\ Counts1(IntT1(via), exact, now)
          /\ IF via.t1.tai = now THEN Ahead1(IntT1(via), exact, now)
             ELSE Settled1(IntT1(via), exact, now) \/ Lagging1(IntT1(via), exact, now)
      BY <1>2, <2>1, <3>1, Here, IntT1Step
    <3> QED BY <2>2, <3>2 DEF InStep, InStep1
  <2>4. Good(IntT1(via), exact, now, "fetch", upset)
    BY <2>2, <2>3, Here DEF Good, Sound
  <2>5. Good(via', exact', now', bus', upset')
    BY <1>1, <1>3, <2>4
  <2> QED BY <1>1, <2>5, GoodNext, Here
<1>4. CASE via.t2.tbi \in 1 .. now /\ via' = IntT2(via)
  <2>1. via.t2.tbi # 0 /\ via.t2.tbi <= now
    BY <1>4, Here
  <2>2. /\ IntT2(via) \in ViaChips /\ Sound(IntT2(via), exact, now, "fetch")
        /\ used = "T2" /\ "PULSE" \notin via.acr
    BY <1>2, <2>1, Here, IntT2Sound
  <2>3. ASSUME upset = {}
        PROVE  InStep(IntT2(via), exact, now, "fetch")
    <3>1. InStep2(via, exact, now, bus)
      BY <2>2, <2>3, Here DEF InStep
    <3>2. InStep2(IntT2(via), exact, now, "fetch")
      BY <2>1, <2>2, <3>1, Here, IntT2Step DEF InStep2
    <3> QED BY <2>2, <3>2 DEF InStep
  <2>4. Good(IntT2(via), exact, now, "fetch", upset)
    BY <2>2, <2>3, Here DEF Good, Sound
  <2>5. Good(via', exact', now', bus', upset')
    BY <1>1, <1>4, <2>4
  <2> QED BY <1>1, <2>5, GoodNext, Here
<1> QED BY <1>3, <1>4 DEF Dispatch

-----------------------------------------------------------------------------
(* The accesses.                                                            *)

LEMMA NothingLate ==
    ASSUME IInv, NEW v \in ViaChips, Near(v, now, "free"), InStep(v, exact, now, "free"),
           ~AnyOverdue(v, now)
    PROVE  /\ used = "T1" => Counts1(v, exact, now) /\ Settled1(v, exact, now)
           /\ used = "T2" => IF "PULSE" \in v.acr THEN Pulses(v, exact, now)
                             ELSE \/ /\ Settled2(v, exact, now)
                                     /\ v.t2.tbi \in now .. now + Base - 1
                                  \/ Stopped2(v, exact, now)
           /\ SameFlags(v, exact)
<1>1. ~Overdue(v.t1.tai, now) /\ ~Overdue(v.t2.tbi, now)
  BY DEF AnyOverdue
<1>2. used = "T1" => Counts1(v, exact, now) /\ Settled1(v, exact, now)
  BY <1>1, Here, NotLate1 DEF InStep
<1>3. used = "T2" => IF "PULSE" \in v.acr THEN Pulses(v, exact, now)
                     ELSE \/ /\ Settled2(v, exact, now)
                             /\ v.t2.tbi \in now .. now + Base - 1
                          \/ Stopped2(v, exact, now)
  BY <1>1, Here, NotLate2 DEF InStep
<1>4. SameFlags(v, exact)
  <2>1. Settled1(v, exact, now) => SameFlags(v, exact)
    BY DEF Settled1
  <2>2. Pulses(v, exact, now) \/ Settled2(v, exact, now) \/ Stopped2(v, exact, now)
            => SameFlags(v, exact)
    BY DEF Pulses, Settled2, Stopped2
  <2> QED BY <1>2, <1>3, <2>1, <2>2, Here, Zenon
<1> QED BY <1>2, <1>3, <1>4

LEMMA ViaNotLate ==
    ASSUME IInv, bus = "free", upset = {}, ~AnyOverdue(via, now)
    PROVE  /\ used = "T1" => Counts1(via, exact, now) /\ Settled1(via, exact, now)
           /\ used = "T2" => IF "PULSE" \in via.acr THEN Pulses(via, exact, now)
                             ELSE \/ /\ Settled2(via, exact, now)
                                     /\ via.t2.tbi \in now .. now + Base - 1
                                  \/ Stopped2(via, exact, now)
           /\ SameFlags(via, exact)
<1>1. via \in ViaChips /\ Near(via, now, "free") /\ InStep(via, exact, now, "free")
  BY Here
<1> QED BY <1>1, NothingLate

LEMMA MeetsNothing ==
    ASSUME NEW c, upset \subseteq {"late", "stale"}
    PROVE  /\ Meets(c) \subseteq {"late", "stale"}
           /\ Meets(c) = {} => upset = {} /\ ~AnyOverdue(c, now)
BY DEF Meets

(* Timer 1 of w is that of v, as update_myviatal leaves it.                 *)
TauMoved(w, v, t) ==
    /\ w.t1.tai = v.t1.tai
    /\ w.t1.tau = IF t > v.t1.tau
                  THEN ClockAdd(t - ((t - v.t1.tau - 1) % (v.t1.tal + 2)), (v.t1.tal + 2) - 1)
                  ELSE v.t1.tau

(* An access that leaves the count of both timers alone, of a chip that is  *)
(* in step when no alarm of it is overdue.                                  *)
LEMMA AccessGood ==
    ASSUME IInv, bus = "free", NEW v \in ViaChips, Sound(v, exact, now, "free"),
           upset = {} /\ ~AnyOverdue(v, now) => InStep(v, exact, now, "free"),
           NEW w \in ViaChips, NEW y \in ExactChips,
           w.t2 = v.t2, y.t2 = exact.t2,
           y.t1.cnt = exact.t1.cnt, y.t1.out = exact.t1.out, y.t1.load = exact.t1.load,
           y.t1.armed = exact.t1.armed,
           TauMoved(w, v, now) \/ (w.t1 = v.t1 /\ y.t1 = exact.t1),
           Agree(w, y), WellPulled(w), WellPulled(y),
           "PULSE" \in w.acr <=> "PULSE" \in v.acr,
           SameFlags(v, exact) => SameFlags(w, y)
    PROVE  Good(w, y, now, "data", Meets(v))
<1>1. w.t1.tai = v.t1.tai /\ ~exact.t1.load
  BY Here DEF TauMoved, Apart
<1>2. Apart(w, y, "data")
  BY <1>1 DEF Apart, Sound
<1>3. Near(w, now, "data")
  BY <1>1, Here, Constants, ViaFields DEF Near, Clock, Sound
<1>4. ASSUME Meets(v) = {}
      PROVE  InStep(w, y, now, "data")
  <2>1. upset = {} /\ ~AnyOverdue(v, now)
    BY <1>4, Here, MeetsNothing
  <2>0. Near(v, now, "free") /\ InStep(v, exact, now, "free") /\ Agree(v, exact)
    BY <2>1 DEF Sound
  <2>2. SameFlags(w, y)
    BY <2>0, <2>1, NothingLate
  <2>3. ASSUME used = "T1"
        PROVE  InStep1(w, y, now, "data")
    <3>1. Counts1(v, exact, now) /\ Settled1(v, exact, now)
      BY <2>0, <2>1, <2>3, NothingLate
    <3>2. CASE TauMoved(w, v, now)
      <4>1. Counts1(w, y, now) /\ Settled1(w, y, now)
        BY <1>1, <2>2, <3>1, <3>2, Here, TalUpdated DEF TauMoved
      <4> QED BY <4>1 DEF InStep1
    <3>3. CASE w.t1 = v.t1 /\ y.t1 = exact.t1
      <4>1. Counts1(w, y, now)
        BY <3>1, <3>3 DEF Counts1
      <4>2. Settled1(w, y, now)
        BY <2>2, <3>1, <3>3, Zenon DEF Settled1, ToEnd1
      <4> QED BY <4>1, <4>2 DEF InStep1
    <3> QED BY <3>2, <3>3
  <2>4. ASSUME used = "T2"
        PROVE  InStep2(w, y, now, "data")
    <3>1. End2(w) = End2(v) /\ (Held(y) <=> Held(exact)) /\ Standing(y) = Standing(exact)
      BY DEF End2, Held, Standing
    <3>2. CASE "PULSE" \in v.acr
      <4>1. Pulses(v, exact, now)
        BY <2>0, <2>1, <2>4, <3>2, NothingLate
      <4>2. Pulses(w, y, now)
        BY <2>2, <3>1, <4>1, Zenon DEF Pulses
      <4> QED BY <3>2, <4>2 DEF InStep2
    <3>3. CASE "PULSE" \notin v.acr
      <4>1. Settled2(v, exact, now) \/ Stopped2(v, exact, now)
        BY <2>0, <2>1, <2>4, <3>3, NothingLate
      <4>2. Settled2(v, exact, now) => Settled2(w, y, now)
        BY <2>2, <3>1, Zenon DEF Settled2
      <4>3. Stopped2(v, exact, now) => Stopped2(w, y, now)
        BY <2>2, <3>1, Zenon DEF Stopped2
      <4> QED BY <3>3, <4>1, <4>2, <4>3 DEF InStep2
    <3> QED BY <3>2, <3>3
  <2> QED BY <2>3, <2>4, Here DEF InStep
<1> QED BY <1>2, <1>3, <1>4, Here, MeetsNothing DEF Good

LEMMA StoreGood ==
    ASSUME IInv, bus = "free", NEW w \in ViaChips, NEW y \in ExactChips,
           w.t2 = via.t2, y.t2 = exact.t2,
           y.t1.cnt = exact.t1.cnt, y.t1.out = exact.t1.out, y.t1.load = exact.t1.load,
           y.t1.armed = exact.t1.armed,
           TauMoved(w, via, now) \/ (w.t1 = via.t1 /\ y.t1 = exact.t1),
           Agree(w, y), WellPulled(w), WellPulled(y),
           "PULSE" \in w.acr <=> "PULSE" \in via.acr,
           SameFlags(via, exact) => SameFlags(w, y)
    PROVE  Good(w, y, now, "data", Meets(via))
<1>1. via \in ViaChips /\ Sound(via, exact, now, "free")
  BY Here DEF Sound
<1>2. upset = {} => InStep(via, exact, now, "free")
  BY Here
<1> QED BY <1>1, <1>2, AccessGood

LEMMA WellPulledAfter ==
    ASSUME NEW c, NEW irq \in Lines, NEW t \in Clock, c.irq = Pulled(c.ifr, c.ier, irq, t)
    PROVE  WellPulled(c)
BY PulledIsWell DEF WellPulled

(* What the stores write into the chips.                                    *)
LatchSet(r, c, latch1, latch2) ==
    /\ r.latch1 = latch1 /\ r.latch2 = latch2 /\ r.acr = c.acr /\ r.ier = c.ier
    /\ r.ifr = c.ifr /\ r.irq = c.irq /\ r.t1 = c.t1 /\ r.t2 = c.t2

LEMMA LatchFields ==
    ASSUME NEW T1, NEW T2, NEW c \in Chips(T1, T2), NEW latch1 \in 0 .. Word - 1, NEW latch2 \in Bytes
    PROVE  /\ [c EXCEPT !.latch1 = latch1] \in Chips(T1, T2)
           /\ LatchSet([c EXCEPT !.latch1 = latch1], c, latch1, c.latch2)
           /\ [c EXCEPT !.latch2 = latch2] \in Chips(T1, T2)
           /\ LatchSet([c EXCEPT !.latch2 = latch2], c, c.latch1, latch2)
<1>1. PICK d, e : d = [c EXCEPT !.latch1 = latch1] /\ e = [c EXCEPT !.latch2 = latch2]
  OBVIOUS
<1>2. d \in Chips(T1, T2) /\ LatchSet(d, c, latch1, c.latch2)
  BY ONLY <1>1, c \in Chips(T1, T2), latch1 \in 0 .. Word - 1 DEF Chips, LatchSet
<1>3. e \in Chips(T1, T2) /\ LatchSet(e, c, c.latch1, latch2)
  BY ONLY <1>1, c \in Chips(T1, T2), latch2 \in Bytes DEF Chips, LatchSet
<1> QED BY <1>1, <1>2, <1>3, Zenon

(* Timer 1 of the chip that counts, with its latch and its start.           *)
Latched1(r, x, latch, load, armed) ==
    /\ r.latch1 = latch /\ r.latch2 = x.latch2 /\ r.acr = x.acr /\ r.ier = x.ier
    /\ r.ifr = x.ifr /\ r.irq = x.irq /\ r.t2 = x.t2
    /\ r.t1.tal = latch /\ r.t1.cnt = x.t1.cnt /\ r.t1.out = x.t1.out
    /\ r.t1.load = load /\ r.t1.armed = armed

LEMMA Latched1Fields ==
    ASSUME NEW x \in ExactChips, NEW latch \in 0 .. Word - 1
    PROVE  /\ [x EXCEPT !.latch1 = latch, !.t1.tal = latch] \in ExactChips
           /\ Latched1([x EXCEPT !.latch1 = latch, !.t1.tal = latch], x, latch,
                       x.t1.load, x.t1.armed)
           /\ [x EXCEPT !.latch1 = latch, !.t1.tal = latch, !.t1.load = TRUE, !.t1.armed = TRUE]
                  \in ExactChips
           /\ Latched1([x EXCEPT !.latch1 = latch, !.t1.tal = latch, !.t1.load = TRUE,
                                 !.t1.armed = TRUE], x, latch, TRUE, TRUE)
<1>1. x \in Chips(ExactT1, ExactT2)
  BY ChipSets
<1>2. PICK d, e : /\ d = [x EXCEPT !.latch1 = latch, !.t1.tal = latch]
                  /\ e = [x EXCEPT !.latch1 = latch, !.t1.tal = latch, !.t1.load = TRUE,
                                   !.t1.armed = TRUE]
  OBVIOUS
<1>3. d \in Chips(ExactT1, ExactT2) /\ Latched1(d, x, latch, x.t1.load, x.t1.armed)
  BY ONLY <1>1, <1>2, latch \in 0 .. Word - 1 DEF Chips, ExactT1, Latched1
<1>4. e \in Chips(ExactT1, ExactT2) /\ Latched1(e, x, latch, TRUE, TRUE)
  BY ONLY <1>1, <1>2, latch \in 0 .. Word - 1 DEF Chips, ExactT1, Latched1
<1> QED BY <1>2, <1>3, <1>4, ChipSets, Zenon

LEMMA LatchBytes ==
    ASSUME NEW latch \in 0 .. Word - 1, NEW b \in Bytes
    PROVE  /\ ((latch \div Base) * Base) + b \in 0 .. Word - 1
           /\ (b * Base) + (latch % Base) \in 0 .. Word - 1
<1>1. PICK hi \in Bytes, lo \in Bytes : hi = latch \div Base /\ lo = latch % Base
  BY BytesOf
<1>2. hi * Base + b \in 0 .. Word - 1 /\ b * Base + lo \in 0 .. Word - 1
  BY TwoBytes
<1> QED BY <1>1, <1>2, Zenon

(* A store to the latch of timer 1.                                         *)
LEMMA TalStored ==
    ASSUME IInv, NEW latch \in 0 .. Word - 1
    PROVE  \E w \in ViaChips, y \in ExactChips :
             /\ w = UpdateTal([via EXCEPT !.latch1 = latch], now)
             /\ y = [exact EXCEPT !.latch1 = latch, !.t1.tal = latch]
             /\ Agree(w, y) /\ TauMoved(w, via, now) /\ w.t1.tal = latch
             /\ w.latch1 = latch /\ w.latch2 = via.latch2 /\ w.acr = via.acr /\ w.ier = via.ier
             /\ w.ifr = via.ifr /\ w.irq = via.irq /\ w.t2 = via.t2
             /\ Latched1(y, exact, latch, exact.t1.load, exact.t1.armed)
<1>1. via \in ViaChips /\ exact \in ExactChips /\ now \in Clock /\ Agree(via, exact)
  BY Here
<1>2. PICK v \in ViaChips : v = [via EXCEPT !.latch1 = latch] /\ LatchSet(v, via, latch, via.latch2)
  <2>1. via \in Chips(ViaT1, ViaT2) /\ via.latch2 \in Bytes
    BY <1>1, ChipSets, ViaFields
  <2>2. /\ [via EXCEPT !.latch1 = latch] \in Chips(ViaT1, ViaT2)
        /\ LatchSet([via EXCEPT !.latch1 = latch], via, latch, via.latch2)
    BY <2>1, LatchFields
  <2> QED BY <2>2, ChipSets
<1>3. PICK w \in ViaChips : w = UpdateTal(v, now)
  BY <1>1, UpdateTalFields
<1>4. /\ Regs(w, v) /\ w.t2 = v.t2 /\ w.ifr = v.ifr /\ w.irq = v.irq
      /\ w.t1.tal = v.latch1 /\ w.t1.tai = v.t1.tai
      /\ w.t1.tau = IF now > v.t1.tau
                    THEN ClockAdd(now - ((now - v.t1.tau - 1) % (v.t1.tal + 2)), (v.t1.tal + 2) - 1)
                    ELSE v.t1.tau
  <2>1. /\ Regs(UpdateTal(v, now), v) /\ UpdateTal(v, now).t2 = v.t2
        /\ UpdateTal(v, now).ifr = v.ifr /\ UpdateTal(v, now).irq = v.irq
        /\ UpdateTal(v, now).t1.tal = v.latch1 /\ UpdateTal(v, now).t1.tai = v.t1.tai
        /\ UpdateTal(v, now).t1.tau =
              IF now > v.t1.tau
              THEN ClockAdd(now - ((now - v.t1.tau - 1) % (v.t1.tal + 2)), (v.t1.tal + 2) - 1)
              ELSE v.t1.tau
    BY <1>1, UpdateTalFields, Zenon
  <2> QED BY <1>3, <2>1, Zenon
<1>5. PICK y \in ExactChips : /\ y = [exact EXCEPT !.latch1 = latch, !.t1.tal = latch]
                              /\ Latched1(y, exact, latch, exact.t1.load, exact.t1.armed)
  BY <1>1, Latched1Fields
<1>6. TauMoved(w, via, now)
  BY <1>2, <1>4, Zenon DEF TauMoved, LatchSet
<1>7. Agree(w, y)
  BY <1>1, <1>2, <1>4, <1>5 DEF Agree, LatchSet, Regs, Latched1
<1>8. w = UpdateTal([via EXCEPT !.latch1 = latch], now)
  BY <1>2, <1>3, Zenon
<1> QED BY <1>2, <1>4, <1>5, <1>6, <1>7, <1>8 DEF LatchSet, Regs

(* Flags cleared in both chips.                                             *)
TimersKept(r, c) ==
    /\ r.latch1 = c.latch1 /\ r.latch2 = c.latch2 /\ r.acr = c.acr /\ r.ier = c.ier
    /\ r.t1 = c.t1 /\ r.t2 = c.t2

LEMMA ClearBoth ==
    ASSUME NEW w \in ViaChips, NEW y \in ExactChips, Agree(w, y), NEW S, NEW t \in Clock
    PROVE  \E v \in ViaChips, x \in ExactChips :
             /\ v = Clear(w, S, t) /\ x = Clear(y, S, t)
             /\ TimersKept(v, w) /\ TimersKept(x, y)
             /\ Agree(v, x) /\ WellPulled(v) /\ WellPulled(x)
             /\ SameFlags(w, y) => SameFlags(v, x)
<1>1. w \in Chips(ViaT1, ViaT2) /\ y \in Chips(ExactT1, ExactT2)
      /\ w.irq \in Lines /\ y.irq \in Lines
  BY ChipSets, ViaFields, ExactFields
<1>2. /\ Clear(w, S, t) \in Chips(ViaT1, ViaT2)
      /\ FlagsSet(Clear(w, S, t), w, w.ifr \ S, w.ier, Pulled(w.ifr \ S, w.ier, w.irq, t))
      /\ Clear(y, S, t) \in Chips(ExactT1, ExactT2)
      /\ FlagsSet(Clear(y, S, t), y, y.ifr \ S, y.ier, Pulled(y.ifr \ S, y.ier, y.irq, t))
  BY <1>1, ClearFields
<1>3. PICK v \in ViaChips, x \in ExactChips : v = Clear(w, S, t) /\ x = Clear(y, S, t)
  BY <1>2, ChipSets
<1>4. /\ FlagsSet(v, w, w.ifr \ S, w.ier, Pulled(w.ifr \ S, w.ier, w.irq, t))
      /\ FlagsSet(x, y, y.ifr \ S, y.ier, Pulled(y.ifr \ S, y.ier, y.irq, t))
  BY <1>2, <1>3, Zenon
<1>5. TimersKept(v, w) /\ TimersKept(x, y)
  BY <1>4 DEF FlagsSet, TimersKept
<1>6. Agree(v, x)
  BY <1>5 DEF Agree, TimersKept
<1>7. WellPulled(v) /\ WellPulled(x)
  <2>1. v.irq = Pulled(v.ifr, v.ier, w.irq, t) /\ x.irq = Pulled(x.ifr, x.ier, y.irq, t)
    BY <1>4, Zenon DEF FlagsSet
  <2> QED BY <1>1, <2>1, WellPulledAfter
<1>8. SameFlags(w, y) => SameFlags(v, x)
  <2>1. w.ier = y.ier
    BY DEF Agree
  <2> QED BY <1>4, <2>1, Zenon DEF SameFlags, FlagsSet
<1> QED BY <1>3, <1>5, <1>6, <1>7, <1>8

LEMMA StoreT1LKeeps ==
    ASSUME IInv, NEW lo \in Bytes, StoreT1L(lo)
    PROVE  IInv'
<1> DEFINE latch == ((via.latch1 \div Base) * Base) + lo
<1>1. latch \in 0 .. Word - 1
  BY Here, ViaFields, LatchBytes
<1>2. /\ bus = "free" /\ bus' = "data" /\ now' = now /\ used' = used /\ upset' = Meets(via)
      /\ via' = UpdateTal([via EXCEPT !.latch1 = latch], now)
      /\ exact' = [exact EXCEPT !.latch1 = latch, !.t1.tal = latch]
  BY Zenon DEF StoreT1L, Accesses, UsesBus
<1> HIDE DEF latch
<1>3. PICK w \in ViaChips, y \in ExactChips :
        /\ w = UpdateTal([via EXCEPT !.latch1 = latch], now)
        /\ y = [exact EXCEPT !.latch1 = latch, !.t1.tal = latch]
        /\ Agree(w, y) /\ TauMoved(w, via, now) /\ w.t1.tal = latch
        /\ w.latch1 = latch /\ w.latch2 = via.latch2 /\ w.acr = via.acr /\ w.ier = via.ier
        /\ w.ifr = via.ifr /\ w.irq = via.irq /\ w.t2 = via.t2
        /\ Latched1(y, exact, latch, exact.t1.load, exact.t1.armed)
  BY <1>1, TalStored
<1>4. WellPulled(w) /\ WellPulled(y) /\ (SameFlags(via, exact) => SameFlags(w, y))
  BY <1>3, Here DEF WellPulled, Latched1, SameFlags
<1>5. Good(w, y, now, "data", Meets(via))
  <2>1. /\ y.t2 = exact.t2 /\ y.t1.cnt = exact.t1.cnt /\ y.t1.out = exact.t1.out
        /\ y.t1.load = exact.t1.load /\ y.t1.armed = exact.t1.armed
    BY <1>3 DEF Latched1
  <2> QED BY <1>2, <1>3, <1>4, <2>1, StoreGood
<1>6. Good(via', exact', now', bus', upset')
  BY <1>2, <1>3, <1>5, Zenon
<1> QED BY <1>2, <1>6, GoodNext, Here

LEMMA StoreT1LHKeeps ==
    ASSUME IInv, NEW hi \in Bytes, StoreT1LH(hi)
    PROVE  IInv'
<1> DEFINE latch == (hi * Base) + (via.latch1 % Base)
<1>1. latch \in 0 .. Word - 1 /\ now + 1 \in Clock
  BY Here, ViaFields, LatchBytes
<1>2. /\ bus = "free" /\ bus' = "data" /\ now' = now /\ used' = used /\ upset' = Meets(via)
      /\ via' = Clear(UpdateTal([via EXCEPT !.latch1 = latch], now), {"T1"}, now + 1)
      /\ exact' = Clear([exact EXCEPT !.latch1 = latch, !.t1.tal = latch], {"T1"}, now + 1)
  BY Zenon DEF StoreT1LH, Accesses, UsesBus
<1> HIDE DEF latch
<1>3. PICK v \in ViaChips, x \in ExactChips :
        /\ v = UpdateTal([via EXCEPT !.latch1 = latch], now)
        /\ x = [exact EXCEPT !.latch1 = latch, !.t1.tal = latch]
        /\ Agree(v, x) /\ TauMoved(v, via, now) /\ v.t1.tal = latch
        /\ v.latch1 = latch /\ v.latch2 = via.latch2 /\ v.acr = via.acr /\ v.ier = via.ier
        /\ v.ifr = via.ifr /\ v.irq = via.irq /\ v.t2 = via.t2
        /\ Latched1(x, exact, latch, exact.t1.load, exact.t1.armed)
  BY <1>1, TalStored
<1>4. PICK w \in ViaChips, y \in ExactChips :
        /\ w = Clear(v, {"T1"}, now + 1) /\ y = Clear(x, {"T1"}, now + 1)
        /\ TimersKept(w, v) /\ TimersKept(y, x)
        /\ Agree(w, y) /\ WellPulled(w) /\ WellPulled(y)
        /\ SameFlags(v, x) => SameFlags(w, y)
  BY <1>1, <1>3, ClearBoth
<1>5. SameFlags(via, exact) => SameFlags(w, y)
  BY <1>3, <1>4 DEF Latched1, SameFlags
<1>6. Good(w, y, now, "data", Meets(via))
  <2>1. /\ y.t2 = exact.t2 /\ y.t1.cnt = exact.t1.cnt /\ y.t1.out = exact.t1.out
        /\ y.t1.load = exact.t1.load /\ y.t1.armed = exact.t1.armed
        /\ w.t2 = via.t2 /\ w.acr = via.acr
    BY <1>3, <1>4 DEF Latched1, TimersKept
  <2>2. TauMoved(w, via, now)
    BY <1>3, <1>4, Zenon DEF TauMoved, TimersKept
  <2> QED BY <1>2, <1>4, <1>5, <2>1, <2>2, StoreGood
<1>7. via' = w /\ exact' = y
  BY <1>2, <1>3, <1>4, Zenon
<1>8. Good(via', exact', now', bus', upset')
  BY <1>2, <1>6, <1>7, Zenon
<1> QED BY <1>2, <1>8, GoodNext, Here

(* After a start the chips show the same, or it is not forgiven.            *)
LEMMA RestartedFlags ==
    ASSUME IInv, bus = "free", Restarted, upset' = {},
           SameFlags(via, exact) => SameFlags(via', exact')
    PROVE  SameFlags(via', exact')
<1>1. CASE via'.ifr = exact'.ifr /\ via'.irq = exact'.irq
  BY <1>1 DEF SameFlags
<1>2. CASE ~(via'.ifr = exact'.ifr /\ via'.irq = exact'.irq)
  <2>1. Meets(via) = {}
    BY <1>2 DEF Restarted
  <2>2. upset = {} /\ ~AnyOverdue(via, now)
    BY <2>1, Here, MeetsNothing
  <2> QED BY <2>2, ViaNotLate
<1> QED BY <1>1, <1>2

LEMMA StoreT1CHKeeps ==
    ASSUME IInv, NEW hi \in Bytes, StoreT1CH(hi)
    PROVE  IInv'
<1> DEFINE latch == (hi * Base) + (via.latch1 % Base)
           end == ClockAdd(now, latch + 2)
           updated == UpdateTal([via EXCEPT !.latch1 = latch], now)
           started == [exact EXCEPT !.latch1 = latch, !.t1.tal = latch, !.t1.load = TRUE,
                                    !.t1.armed = TRUE]
<1>1. latch \in 0 .. Word - 1 /\ now + 1 \in Clock
  BY Here, ViaFields, LatchBytes
<1>2. end \in Clock
  <2>1. now + (latch + 2) \in Int
    <3> HIDE DEF latch
    <3> QED BY <1>1, Here, Constants
  <2> HIDE DEF latch
  <2> QED BY <2>1, ClockSmall DEF ClockAdd
<1>3. /\ bus = "free" /\ bus' = "data" /\ now' = now /\ used' = used /\ Restarted /\ used = "T1"
      /\ via' = Clear([updated EXCEPT !.t1.tau = end, !.t1.tai = end], {"T1"}, now + 1)
      /\ exact' = Clear(started, {"T1"}, now + 1)
  BY Zenon DEF StoreT1CH, UsesBus
<1> HIDE DEF latch
<1>4. PICK u \in ViaChips :
        /\ u = updated /\ u.t1.tal = latch /\ u.latch1 = latch /\ u.latch2 = via.latch2
        /\ u.acr = via.acr /\ u.ier = via.ier /\ u.ifr = via.ifr /\ u.irq = via.irq
        /\ u.t2 = via.t2
  BY <1>1, TalStored
<1>5. PICK x \in ExactChips : x = started /\ Latched1(x, exact, latch, TRUE, TRUE)
  BY <1>1, Here, Latched1Fields
<1> HIDE DEF updated, started
<1>6. PICK v \in ViaChips :
        /\ v = [u EXCEPT !.t1.tau = end, !.t1.tai = end]
        /\ v.t1.tal = latch /\ v.t1.tau = end /\ v.t1.tai = end
        /\ v.latch1 = latch /\ v.latch2 = via.latch2 /\ v.acr = via.acr /\ v.ier = via.ier
        /\ v.ifr = via.ifr /\ v.irq = via.irq /\ v.t2 = via.t2
  <2> HIDE DEF end
  <2>1. u \in Chips(ViaT1, ViaT2)
    BY ChipSets
  <2>2. PICK v : v = [u EXCEPT !.t1.tau = end, !.t1.tai = end]
    OBVIOUS
  <2>3. /\ v \in Chips(ViaT1, ViaT2)
        /\ v.t1.tal = u.t1.tal /\ v.t1.tau = end /\ v.t1.tai = end
        /\ v.latch1 = u.latch1 /\ v.latch2 = u.latch2 /\ v.acr = u.acr /\ v.ier = u.ier
        /\ v.ifr = u.ifr /\ v.irq = u.irq /\ v.t2 = u.t2
    BY ONLY <1>2, <2>1, <2>2 DEF Chips, ViaT1
  <2> QED BY <1>4, <2>2, <2>3, ChipSets
<1>7. Agree(v, x)
  BY <1>5, <1>6, Here DEF Agree, Latched1
<1>8. PICK w \in ViaChips, y \in ExactChips :
        /\ w = Clear(v, {"T1"}, now + 1) /\ y = Clear(x, {"T1"}, now + 1)
        /\ TimersKept(w, v) /\ TimersKept(y, x)
        /\ Agree(w, y) /\ WellPulled(w) /\ WellPulled(y)
        /\ SameFlags(v, x) => SameFlags(w, y)
  BY <1>1, <1>7, ClearBoth
<1>9. via' = w /\ exact' = y
  BY <1>3, <1>4, <1>5, <1>6, <1>8, Zenon
<1>10. /\ w.t1.tal = latch /\ w.t1.tau = end /\ w.t1.tai = end /\ w.t2 = via.t2 /\ w.acr = via.acr
       /\ y.t1.tal = latch /\ y.t1.load /\ y.t1.armed /\ y.t1.cnt = exact.t1.cnt
       /\ y.t1.out = exact.t1.out /\ y.t2 = exact.t2
  BY <1>5, <1>6, <1>8 DEF TimersKept, Latched1
<1>11. Apart(w, y, "data")
  BY <1>3, <1>10, Here DEF Apart
<1>12. w.t1.tai \in now .. now + Word + 1
  <2> HIDE DEF end
  <2>1. PICK z \in Nat : z = now + (latch + 2)
    BY <1>1, Here, Constants
  <2>2. z \in Clock /\ z \in now .. now + Word + 1
    BY <1>1, <2>1, Here, Constants DEF Clock, Times
  <2>3. z % (ClockMax + 1) = z
    BY <2>2, ClockSmall
  <2>4. end = z
    BY <2>1, <2>3, Zenon DEF ClockAdd, end
  <2> QED BY <1>10, <2>2, <2>4
<1> HIDE DEF end
<1>13. Near(w, now, "data")
  <2>1. w.t2.tbi = 0
    BY <1>3, <1>10, Here DEF Apart
  <2>2. w.t1.tai \in now - MaxLag - 1 .. now + Word + 1
    BY <1>12, Here, Constants
  <2> QED BY <2>1, <2>2 DEF Near
<1>14. upset' \subseteq {"late", "stale"}
  BY <1>3, Here, MeetsNothing DEF Restarted
<1>15. ASSUME upset' = {}
       PROVE  InStep1(w, y, now, "data")
  <2>1. SameFlags(via, exact) => SameFlags(w, y)
    BY <1>5, <1>6, <1>8 DEF Latched1, SameFlags
  <2>2. SameFlags(via', exact')
    BY <1>3, <1>9, <1>15, <2>1, RestartedFlags
  <2>3. SameFlags(w, y)
    BY <1>9, <2>2
  <2>4. y.t1.out => y.t1.cnt = Word - 1
    BY <1>11 DEF Apart
  <2>5. w.t1.tau = ClockAdd(now, w.t1.tal + 2)
    BY <1>10 DEF end
  <2>6. now \in Times
    BY Here
  <2>7. Counts1(w, y, now) /\ Settled1(w, y, now)
    BY <1>10, <2>3, <2>4, <2>5, <2>6, Started1
  <2> QED BY <2>7 DEF InStep1
<1>16. Good(w, y, now, "data", upset')
  BY <1>3, <1>8, <1>11, <1>13, <1>14, <1>15, Here DEF Good, InStep
<1>17. Good(via', exact', now', bus', upset')
  BY <1>3, <1>9, <1>16, Zenon
<1> QED BY <1>3, <1>17, GoodNext, Here

LEMMA StoreT2LLKeeps ==
    ASSUME IInv, NEW lo \in Bytes, StoreT2LL(lo)
    PROVE  IInv'
<1>1. /\ bus = "free" /\ bus' = "data" /\ now' = now /\ used' = used /\ upset' = upset /\ upset = {}
      /\ used = "T2"
      /\ via' = [via EXCEPT !.latch2 = lo] /\ exact' = [exact EXCEPT !.latch2 = lo]
  BY Zenon DEF StoreT2LL, Accesses, UsesBus
<1>2. PICK w \in ViaChips, y \in ExactChips :
        /\ w = [via EXCEPT !.latch2 = lo] /\ y = [exact EXCEPT !.latch2 = lo]
        /\ LatchSet(w, via, via.latch1, lo) /\ LatchSet(y, exact, exact.latch1, lo)
  <2>1. /\ via \in Chips(ViaT1, ViaT2) /\ exact \in Chips(ExactT1, ExactT2)
        /\ via.latch1 \in 0 .. Word - 1 /\ exact.latch1 \in 0 .. Word - 1
    BY Here, ChipSets, ViaFields, ExactFields
  <2>2. /\ [via EXCEPT !.latch2 = lo] \in Chips(ViaT1, ViaT2)
        /\ LatchSet([via EXCEPT !.latch2 = lo], via, via.latch1, lo)
    BY <2>1, LatchFields
  <2>3. /\ [exact EXCEPT !.latch2 = lo] \in Chips(ExactT1, ExactT2)
        /\ LatchSet([exact EXCEPT !.latch2 = lo], exact, exact.latch1, lo)
    BY <2>1, LatchFields
  <2> QED BY <2>2, <2>3, ChipSets
<1>3. Agree(w, y) /\ WellPulled(w) /\ WellPulled(y)
  BY <1>2, Here DEF Agree, WellPulled, LatchSet
<1>4. Apart(w, y, "data") /\ Near(w, now, "data")
  <2>1. Apart(w, y, "data")
    BY <1>2, Here DEF Apart, LatchSet
  <2>2. Near(w, now, "data")
    BY <1>1, <1>2, Here, Constants, ViaFields DEF Near, Clock, LatchSet
  <2> QED BY <2>1, <2>2
<1>5. InStep2(w, y, now, "data")
  <2>1. InStep2(via, exact, now, "free")
    BY <1>1, Here DEF InStep
  <2>2. /\ w.t2 = via.t2 /\ y.t2 = exact.t2 /\ w.acr = via.acr /\ w.ifr = via.ifr /\ w.ier = via.ier
        /\ w.irq = via.irq /\ y.ifr = exact.ifr /\ y.irq = exact.irq
    BY <1>2 DEF LatchSet
  <2>3. End2(w) = End2(via) /\ (Held(y) <=> Held(exact)) /\ Standing(y) = Standing(exact)
    BY <2>2 DEF End2, Held, Standing
  <2>4. Pulses(via, exact, now) => Pulses(w, y, now)
    BY <2>2, <2>3, Zenon DEF Pulses, SameFlags
  <2>5. Settled2(via, exact, now) => Settled2(w, y, now)
    BY <2>2, <2>3, Zenon DEF Settled2, SameFlags
  <2>6. Lagging2(via, exact, now) => Lagging2(w, y, now)
    BY <2>2, <2>3, Zenon DEF Lagging2, Behind
  <2>7. Stopped2(via, exact, now) => Stopped2(w, y, now)
    BY <2>2, <2>3, Zenon DEF Stopped2, SameFlags
  <2> QED BY <2>1, <2>2, <2>4, <2>5, <2>6, <2>7, Zenon DEF InStep2
<1>6. Good(w, y, now, "data", upset)
  BY <1>1, <1>3, <1>4, <1>5, Here DEF Good, InStep
<1>7. Good(via', exact', now', bus', upset')
  BY <1>1, <1>2, <1>6, Zenon
<1> QED BY <1>1, <1>7, GoodNext, Here

(* A store that clears flags, or enables them.                              *)
LEMMA StoreIfrKeeps ==
    ASSUME IInv, NEW mask, StoreIfr(mask)
    PROVE  IInv'
<1>1. /\ bus = "free" /\ bus' = "data" /\ now' = now /\ used' = used /\ upset' = Meets(via)
      /\ via' = Clear(via, mask, now + 1) /\ exact' = Clear(exact, mask, now + 1)
  BY Zenon DEF StoreIfr, Accesses, UsesBus
<1>2. PICK w \in ViaChips, y \in ExactChips :
        /\ w = Clear(via, mask, now + 1) /\ y = Clear(exact, mask, now + 1)
        /\ TimersKept(w, via) /\ TimersKept(y, exact)
        /\ Agree(w, y) /\ WellPulled(w) /\ WellPulled(y)
        /\ SameFlags(via, exact) => SameFlags(w, y)
  BY Here, ClearBoth
<1>3. Good(w, y, now, "data", Meets(via))
  <2>1. w.t1 = via.t1 /\ y.t1 = exact.t1 /\ w.t2 = via.t2 /\ y.t2 = exact.t2 /\ w.acr = via.acr
    BY <1>2 DEF TimersKept
  <2>2. /\ y.t1.cnt = exact.t1.cnt /\ y.t1.out = exact.t1.out
        /\ y.t1.load = exact.t1.load /\ y.t1.armed = exact.t1.armed
        /\ "PULSE" \in w.acr <=> "PULSE" \in via.acr
    BY <2>1
  <2> QED BY <1>1, <1>2, <2>1, <2>2, StoreGood
<1>4. Good(via', exact', now', bus', upset')
  BY <1>1, <1>2, <1>3, Zenon
<1> QED BY <1>1, <1>4, GoodNext, Here

LEMMA EnabledFields ==
    ASSUME NEW T1, NEW T2, NEW c \in Chips(T1, T2), NEW ier \in SUBSET Sources, NEW t \in Clock
    PROVE  /\ UpdateIrq([c EXCEPT !.ier = ier], t) \in Chips(T1, T2)
           /\ FlagsSet(UpdateIrq([c EXCEPT !.ier = ier], t), c, c.ifr, ier,
                       Pulled(c.ifr, ier, c.irq, t))
<1>1. PICK d : d = [c EXCEPT !.ier = ier]
  OBVIOUS
<1>2. d \in Chips(T1, T2) /\ FlagsSet(d, c, c.ifr, ier, c.irq)
  BY ONLY <1>1, c \in Chips(T1, T2), ier \in SUBSET Sources DEF Chips, FlagsSet
<1>3. /\ UpdateIrq(d, t) \in Chips(T1, T2)
      /\ FlagsSet(UpdateIrq(d, t), d, d.ifr, d.ier, Pulled(d.ifr, d.ier, d.irq, t))
  BY <1>2, UpdateIrqFields
<1>4. FlagsSet(UpdateIrq(d, t), c, c.ifr, ier, Pulled(c.ifr, ier, c.irq, t))
  BY <1>2, <1>3, Zenon DEF FlagsSet
<1> QED BY <1>1, <1>3, <1>4, Zenon

LEMMA StoreIerKeeps ==
    ASSUME IInv, NEW mask, NEW on \in BOOLEAN, mask \subseteq Sources, StoreIer(mask, on)
    PROVE  IInv'
<1>1. PICK ier \in SUBSET Sources : ier = IF on THEN via.ier \cup mask ELSE via.ier \ mask
  BY Here, ViaFields
<1>2. /\ bus = "free" /\ bus' = "data" /\ now' = now /\ used' = used /\ upset' = Meets(via)
      /\ via' = UpdateIrq([via EXCEPT !.ier = ier], now + 1)
      /\ exact' = UpdateIrq([exact EXCEPT !.ier = ier], now + 1)
  <2>1. via.ier = exact.ier
    BY Here DEF Agree
  <2> QED BY <1>1, <2>1, Zenon DEF StoreIer, Accesses, UsesBus
<1>3. PICK w \in ViaChips, y \in ExactChips :
        /\ w = UpdateIrq([via EXCEPT !.ier = ier], now + 1)
        /\ y = UpdateIrq([exact EXCEPT !.ier = ier], now + 1)
        /\ FlagsSet(w, via, via.ifr, ier, Pulled(via.ifr, ier, via.irq, now + 1))
        /\ FlagsSet(y, exact, exact.ifr, ier, Pulled(exact.ifr, ier, exact.irq, now + 1))
  <2>1. via \in Chips(ViaT1, ViaT2) /\ exact \in Chips(ExactT1, ExactT2) /\ now + 1 \in Clock
    BY Here, ChipSets
  <2>2. /\ UpdateIrq([via EXCEPT !.ier = ier], now + 1) \in Chips(ViaT1, ViaT2)
        /\ FlagsSet(UpdateIrq([via EXCEPT !.ier = ier], now + 1), via, via.ifr, ier,
                    Pulled(via.ifr, ier, via.irq, now + 1))
    BY <2>1, EnabledFields
  <2>3. /\ UpdateIrq([exact EXCEPT !.ier = ier], now + 1) \in Chips(ExactT1, ExactT2)
        /\ FlagsSet(UpdateIrq([exact EXCEPT !.ier = ier], now + 1), exact, exact.ifr, ier,
                    Pulled(exact.ifr, ier, exact.irq, now + 1))
    BY <2>1, EnabledFields
  <2> QED BY <2>2, <2>3, ChipSets
<1>4. Agree(w, y)
  BY <1>3, Here DEF Agree, FlagsSet
<1>5. WellPulled(w) /\ WellPulled(y)
  <2>1. w.irq = Pulled(w.ifr, w.ier, via.irq, now + 1) /\ y.irq = Pulled(y.ifr, y.ier, exact.irq, now + 1)
    BY <1>3, Zenon DEF FlagsSet
  <2> QED BY <2>1, Here, ViaFields, ExactFields, WellPulledAfter
<1>6. SameFlags(via, exact) => SameFlags(w, y)
  BY <1>3, Zenon DEF SameFlags, FlagsSet
<1>7. Good(w, y, now, "data", Meets(via))
  <2>1. w.t1 = via.t1 /\ y.t1 = exact.t1 /\ w.t2 = via.t2 /\ y.t2 = exact.t2 /\ w.acr = via.acr
    BY <1>3 DEF FlagsSet
  <2>2. /\ y.t1.cnt = exact.t1.cnt /\ y.t1.out = exact.t1.out
        /\ y.t1.load = exact.t1.load /\ y.t1.armed = exact.t1.armed
        /\ "PULSE" \in w.acr <=> "PULSE" \in via.acr
    BY <2>1
  <2> QED BY <1>2, <1>4, <1>5, <1>6, <2>1, <2>2, StoreGood
<1>8. Good(via', exact', now', bus', upset')
  BY <1>2, <1>3, <1>7, Zenon
<1> QED BY <1>2, <1>8, GoodNext, Here

(* A read calls an overdue alarm of each timer first.                       *)
LEMMA CatchUpSound ==
    ASSUME IInv, bus = "free"
    PROVE  /\ CatchUp(via, now) \in ViaChips
           /\ Sound(CatchUp(via, now), exact, now, "free")
           /\ upset = {} /\ ~AnyOverdue(CatchUp(via, now), now)
                => InStep(CatchUp(via, now), exact, now, "free")
<1>1. Sound(via, exact, now, "free")
  BY Here DEF Sound
<1>2. PICK first : first = IF Overdue(via.t1.tai, now) THEN IntT1(via) ELSE via
  OBVIOUS
<1>3. PICK c : c = IF Overdue(first.t2.tbi, now) THEN IntT2(first) ELSE first
  OBVIOUS
<1>4. c = CatchUp(via, now)
  BY <1>2, <1>3, Zenon DEF CatchUp
<1>5. CASE Overdue(via.t1.tai, now)
  <2>1. via.t1.tai # 0 /\ via.t1.tai < now /\ via.t1.tai <= now /\ via.t1.tai # now
    BY <1>5, Here, ViaFields, Constants DEF Overdue, Clock
  <2>2. IntT1(via) \in ViaChips /\ Sound(IntT1(via), exact, now, "free") /\ used = "T1"
    BY <1>1, <2>1, Here, IntT1Sound
  <2>3. first = IntT1(via)
    BY <1>2, <1>5
  <2>4. c = first
    <3>1. first.t2.tbi = 0
      BY <2>2, <2>3 DEF Sound, Apart
    <3> QED BY <1>3, <3>1 DEF Overdue
  <2>5. ASSUME upset = {}
        PROVE  InStep(c, exact, now, "free")
    <3>1. InStep1(via, exact, now, "free") /\ ~exact.t1.load /\ Agree(via, exact) /\ now \in Times
      BY <2>2, <2>5, Here DEF InStep, Apart
    <3>2. /\ Counts1(IntT1(via), exact, now)
          /\ Settled1(IntT1(via), exact, now) \/ Lagging1(IntT1(via), exact, now)
      BY <2>1, <3>1, Here, IntT1Step
    <3> QED BY <2>2, <2>3, <2>4, <3>2 DEF InStep, InStep1
  <2> QED BY <1>4, <2>2, <2>3, <2>4, <2>5
<1>6. CASE ~Overdue(via.t1.tai, now)
  <2>1. first = via
    BY <1>2, <1>6
  <2>2. CASE Overdue(via.t2.tbi, now)
    <3>1. via.t2.tbi # 0 /\ via.t2.tbi < now /\ via.t2.tbi <= now /\ via.t2.tbi # now
      BY <2>2, Here, ViaFields, Constants DEF Overdue, Clock
    <3>2. /\ IntT2(via) \in ViaChips /\ Sound(IntT2(via), exact, now, "free")
          /\ used = "T2" /\ "PULSE" \notin via.acr
      BY <1>1, <3>1, Here, IntT2Sound DEF Sound
    <3>3. c = IntT2(via)
      BY <1>3, <2>1, <2>2
    <3>4. ASSUME upset = {}
          PROVE  InStep(c, exact, now, "free")
      <4>1. InStep2(via, exact, now, "free")
        BY <3>2, <3>4, Here DEF InStep
      <4>2. /\ "PULSE" \notin IntT2(via).acr
            /\ \/ Settled2(IntT2(via), exact, now) \/ Lagging2(IntT2(via), exact, now)
               \/ Stopped2(IntT2(via), exact, now)
        BY <3>1, <3>2, <4>1, Here, IntT2Step
      <4>3. InStep2(IntT2(via), exact, now, "free")
        BY <4>2 DEF InStep2
      <4> QED BY <3>2, <3>3, <4>3 DEF InStep
    <3> QED BY <1>4, <3>2, <3>3, <3>4
  <2>3. CASE ~Overdue(via.t2.tbi, now)
    <3>1. c = via
      BY <1>3, <2>1, <2>3
    <3> QED BY <1>1, <1>4, <3>1, Here
  <2> QED BY <2>2, <2>3
<1> QED BY <1>5, <1>6

LEMMA ReadsKeeps ==
    ASSUME IInv, NEW cleared, Reads(cleared)
    PROVE  IInv'
<1>1. PICK c : c = CatchUp(via, now)
  OBVIOUS
<1>2. /\ bus = "free" /\ bus' = "data" /\ now' = now /\ used' = used /\ upset' = Meets(c)
      /\ via' = Clear(c, cleared, now) /\ exact' = Clear(exact, cleared, now)
  BY <1>1, Zenon DEF Reads, Accesses, UsesBus
<1>3. /\ c \in ViaChips /\ Sound(c, exact, now, "free")
      /\ upset = {} /\ ~AnyOverdue(c, now) => InStep(c, exact, now, "free")
  BY <1>1, <1>2, CatchUpSound, Zenon
<1>4. Agree(c, exact)
  BY <1>3 DEF Sound
<1>5. PICK w \in ViaChips, y \in ExactChips :
        /\ w = Clear(c, cleared, now) /\ y = Clear(exact, cleared, now)
        /\ TimersKept(w, c) /\ TimersKept(y, exact)
        /\ Agree(w, y) /\ WellPulled(w) /\ WellPulled(y)
        /\ SameFlags(c, exact) => SameFlags(w, y)
  BY <1>3, <1>4, Here, ClearBoth
<1>6. Good(w, y, now, "data", Meets(c))
  <2>1. w.t1 = c.t1 /\ y.t1 = exact.t1 /\ w.t2 = c.t2 /\ y.t2 = exact.t2 /\ w.acr = c.acr
    BY <1>5 DEF TimersKept
  <2>2. /\ y.t1.cnt = exact.t1.cnt /\ y.t1.out = exact.t1.out
        /\ y.t1.load = exact.t1.load /\ y.t1.armed = exact.t1.armed
        /\ "PULSE" \in w.acr <=> "PULSE" \in c.acr
    BY <2>1
  <2> QED BY <1>2, <1>3, <1>5, <2>1, <2>2, AccessGood
<1>7. Good(via', exact', now', bus', upset')
  BY <1>2, <1>5, <1>6, Zenon
<1> QED BY <1>2, <1>7, GoodNext, Here

(* A read of port B looks at timer 1 for PB7.                               *)
LEMMA ReadPrbKeeps ==
    ASSUME IInv, ReadPrb
    PROVE  IInv'
<1>1. /\ bus = "free" /\ bus' = "data" /\ now' = now /\ used' = used /\ upset' = Meets(via)
      /\ via' = UpdateTal(via, now) /\ exact' = [exact EXCEPT !.t1.tal = exact.latch1]
  BY Zenon DEF ReadPrb, Accesses, UsesBus
<1>2. PICK w \in ViaChips :
        /\ w = UpdateTal(via, now) /\ Regs(w, via) /\ w.t2 = via.t2
        /\ w.ifr = via.ifr /\ w.irq = via.irq /\ w.t1.tal = via.latch1 /\ TauMoved(w, via, now)
  <2>1. /\ UpdateTal(via, now) \in ViaChips /\ Regs(UpdateTal(via, now), via)
        /\ UpdateTal(via, now).t2 = via.t2
        /\ UpdateTal(via, now).ifr = via.ifr /\ UpdateTal(via, now).irq = via.irq
        /\ UpdateTal(via, now).t1.tal = via.latch1
        /\ TauMoved(UpdateTal(via, now), via, now)
    BY Here, UpdateTalFields, Zenon DEF TauMoved
  <2> QED BY <2>1
<1>3. PICK y \in ExactChips :
        /\ y = [exact EXCEPT !.t1.tal = exact.latch1]
        /\ y.latch1 = exact.latch1 /\ y.latch2 = exact.latch2 /\ y.acr = exact.acr
        /\ y.ier = exact.ier /\ y.ifr = exact.ifr /\ y.irq = exact.irq /\ y.t2 = exact.t2
        /\ y.t1.tal = exact.latch1 /\ y.t1.cnt = exact.t1.cnt /\ y.t1.out = exact.t1.out
        /\ y.t1.load = exact.t1.load /\ y.t1.armed = exact.t1.armed
  <2>1. exact \in Chips(ExactT1, ExactT2) /\ exact.latch1 \in 0 .. Word - 1
    BY Here, ChipSets, ExactFields
  <2>2. PICK y : y = [exact EXCEPT !.t1.tal = exact.latch1]
    OBVIOUS
  <2>3. /\ y \in Chips(ExactT1, ExactT2)
        /\ y.latch1 = exact.latch1 /\ y.latch2 = exact.latch2 /\ y.acr = exact.acr
        /\ y.ier = exact.ier /\ y.ifr = exact.ifr /\ y.irq = exact.irq /\ y.t2 = exact.t2
        /\ y.t1.tal = exact.latch1 /\ y.t1.cnt = exact.t1.cnt /\ y.t1.out = exact.t1.out
        /\ y.t1.load = exact.t1.load /\ y.t1.armed = exact.t1.armed
    BY ONLY <2>1, <2>2 DEF Chips, ExactT1
  <2> QED BY <2>2, <2>3, ChipSets
<1>4. Agree(w, y) /\ WellPulled(w) /\ WellPulled(y) /\ (SameFlags(via, exact) => SameFlags(w, y))
      /\ w.acr = via.acr
  BY <1>2, <1>3, Here DEF Agree, Regs, WellPulled, SameFlags
<1>5. Good(w, y, now, "data", Meets(via))
  BY <1>1, <1>2, <1>3, <1>4, StoreGood
<1>6. Good(via', exact', now', bus', upset')
  BY <1>1, <1>2, <1>3, <1>5, Zenon
<1> QED BY <1>1, <1>6, GoodNext, Here

(* Timer 2 is started, or the count of the pulses is set.                   *)
ByteSet2(w, v, lo, hi) ==
    /\ Regs(w, v) /\ w.ifr = v.ifr /\ w.irq = v.irq /\ w.t1 = v.t1
    /\ w.t2.cl = lo /\ w.t2.ch = hi /\ w.t2.tbi = v.t2.tbi /\ w.t2.tbu = v.t2.tbu

CountSet2(y, x, cnt) ==
    /\ Regs(y, x) /\ y.ifr = x.ifr /\ y.irq = x.irq /\ y.t1 = x.t1
    /\ y.t2.cnt = cnt /\ y.t2.load /\ (y.t2.armed <=> "PULSE" \notin x.acr)

LEMMA LoadFields ==
    ASSUME NEW v \in ViaChips, NEW x \in ExactChips, NEW hi \in Bytes, NEW lo \in Bytes,
           NEW cnt \in 0 .. Word - 1
    PROVE  /\ [v EXCEPT !.t2.cl = lo, !.t2.ch = hi] \in ViaChips
           /\ ByteSet2([v EXCEPT !.t2.cl = lo, !.t2.ch = hi], v, lo, hi)
           /\ [x EXCEPT !.t2.cnt = cnt, !.t2.load = TRUE, !.t2.armed = "PULSE" \notin x.acr]
                  \in ExactChips
           /\ CountSet2([x EXCEPT !.t2.cnt = cnt, !.t2.load = TRUE,
                                  !.t2.armed = "PULSE" \notin x.acr], x, cnt)
<1>1. v \in Chips(ViaT1, ViaT2) /\ x \in Chips(ExactT1, ExactT2)
  BY ChipSets
<1>2. PICK armed \in BOOLEAN : armed = ("PULSE" \notin x.acr)
  <2>1. ("PULSE" \notin x.acr) \in BOOLEAN
    OBVIOUS
  <2> QED BY <2>1, Zenon
<1>3. PICK w, y : /\ w = [v EXCEPT !.t2.cl = lo, !.t2.ch = hi]
                  /\ y = [x EXCEPT !.t2.cnt = cnt, !.t2.load = TRUE, !.t2.armed = armed]
  OBVIOUS
<1>4. w \in Chips(ViaT1, ViaT2) /\ ByteSet2(w, v, lo, hi)
  BY ONLY <1>1, <1>3, hi \in Bytes, lo \in Bytes DEF Chips, ViaT2, Regs, ByteSet2
<1>5. /\ y \in Chips(ExactT1, ExactT2)
      /\ Regs(y, x) /\ y.ifr = x.ifr /\ y.irq = x.irq /\ y.t1 = x.t1
      /\ y.t2.cnt = cnt /\ y.t2.load /\ y.t2.armed = armed
  BY ONLY <1>1, <1>3, cnt \in 0 .. Word - 1, armed \in BOOLEAN DEF Chips, ExactT2, Regs
<1>6. CountSet2(y, x, cnt)
  BY <1>2, <1>5, Zenon DEF CountSet2
<1>7. y = [x EXCEPT !.t2.cnt = cnt, !.t2.load = TRUE, !.t2.armed = "PULSE" \notin x.acr]
  BY <1>2, <1>3, Zenon
<1> QED BY <1>3, <1>4, <1>5, <1>6, <1>7, ChipSets, Zenon

LEMMA StoreT2CHKeeps ==
    ASSUME IInv, NEW hi \in Bytes, StoreT2CH(hi)
    PROVE  IInv'
<1> DEFINE loaded == [via EXCEPT !.t2.cl = via.latch2, !.t2.ch = hi]
           started == IF "PULSE" \in via.acr THEN loaded ELSE StartT2(loaded, now)
           set == [exact EXCEPT !.t2.cnt = hi * Base + exact.latch2, !.t2.load = TRUE,
                                !.t2.armed = "PULSE" \notin exact.acr]
<1>1. /\ bus = "free" /\ bus' = "data" /\ now' = now /\ used' = used /\ Restarted /\ used = "T2"
      /\ via' = Clear(started, {"T2"}, now + 1) /\ exact' = Clear(set, {"T2"}, now + 1)
  BY Zenon DEF StoreT2CH, UsesBus
<1>2. /\ via \in ViaChips /\ exact \in ExactChips /\ now \in Times /\ now \in Clock
      /\ now + 1 \in Clock /\ Agree(via, exact)
  BY Here
<1>3. PICK lo \in Bytes : lo = via.latch2 /\ lo = exact.latch2
  BY <1>2, ViaFields DEF Agree
<1>4. PICK cnt \in 0 .. Word - 1 : cnt = hi * Base + lo
  BY TwoBytes
<1>5. PICK v \in ViaChips : v = loaded /\ ByteSet2(v, via, lo, hi)
  <2>1. /\ [via EXCEPT !.t2.cl = lo, !.t2.ch = hi] \in ViaChips
        /\ ByteSet2([via EXCEPT !.t2.cl = lo, !.t2.ch = hi], via, lo, hi)
    BY <1>2, <1>4, LoadFields, Zenon
  <2> QED BY <1>3, <2>1, Zenon
<1>6. PICK x \in ExactChips : x = set /\ CountSet2(x, exact, cnt)
  <2>1. /\ [exact EXCEPT !.t2.cnt = cnt, !.t2.load = TRUE, !.t2.armed = "PULSE" \notin exact.acr]
               \in ExactChips
        /\ CountSet2([exact EXCEPT !.t2.cnt = cnt, !.t2.load = TRUE,
                                   !.t2.armed = "PULSE" \notin exact.acr], exact, cnt)
    BY <1>2, <1>3, LoadFields, Zenon
  <2> QED BY <1>3, <1>4, <2>1, Zenon
<1>7. /\ Regs(v, via) /\ v.ifr = via.ifr /\ v.irq = via.irq /\ v.t1 = via.t1
      /\ v.t2.cl = lo /\ v.t2.ch = hi /\ v.t2.tbi = via.t2.tbi
      /\ Regs(x, exact) /\ x.ifr = exact.ifr /\ x.irq = exact.irq /\ x.t1 = exact.t1
      /\ x.t2.cnt = cnt /\ x.t2.load /\ (x.t2.armed <=> "PULSE" \notin exact.acr)
  BY <1>5, <1>6, Zenon DEF ByteSet2, CountSet2
<1>8. started = IF "PULSE" \in via.acr THEN v ELSE StartT2(v, now)
  <2> HIDE DEF loaded
  <2> QED BY <1>5, Zenon
<1> HIDE DEF started, set, loaded
<1>9. PICK u \in ViaChips :
        /\ u = started /\ Regs(u, via) /\ u.ifr = via.ifr /\ u.irq = via.irq /\ u.t1 = via.t1
        /\ u.t2.cl = lo /\ u.t2.ch = hi
        /\ IF "PULSE" \in via.acr THEN u.t2.tbi = via.t2.tbi
           ELSE u.t2.tbu = ClockAdd(now, lo + 3) /\ u.t2.tbi = ClockAdd(now, lo + 1)
  <2>1. CASE "PULSE" \in via.acr
    BY <1>7, <1>8, <2>1
  <2>2. CASE "PULSE" \notin via.acr
    <3>1. PICK u \in ViaChips :
            /\ u = StartT2(v, now) /\ Regs(u, v) /\ u.t1 = v.t1
            /\ u.ifr = v.ifr /\ u.irq = v.irq
            /\ u.t2.cl = v.t2.cl /\ u.t2.ch = v.t2.ch
            /\ u.t2.tbu = ClockAdd(now, v.t2.cl + 3) /\ u.t2.tbi = ClockAdd(now, v.t2.cl + 1)
      BY <1>2, StartT2Fields
    <3>2. Regs(u, via)
      BY <1>7, <3>1 DEF Regs
    <3>3. u.t2.tbu = ClockAdd(now, lo + 3) /\ u.t2.tbi = ClockAdd(now, lo + 1)
      BY <1>7, <3>1, Zenon
    <3> QED BY <1>7, <1>8, <2>2, <3>1, <3>2, <3>3
  <2> QED BY <2>1, <2>2
<1>10. Agree(u, x)
  BY <1>2, <1>7, <1>9 DEF Agree, Regs
<1>11. PICK w \in ViaChips, y \in ExactChips :
        /\ w = Clear(u, {"T2"}, now + 1) /\ y = Clear(x, {"T2"}, now + 1)
        /\ TimersKept(w, u) /\ TimersKept(y, x)
        /\ Agree(w, y) /\ WellPulled(w) /\ WellPulled(y)
        /\ SameFlags(u, x) => SameFlags(w, y)
  BY <1>2, <1>10, ClearBoth
<1>12. via' = w /\ exact' = y
  BY <1>1, <1>6, <1>9, <1>11, Zenon
<1>13. /\ w.acr = via.acr /\ w.t1 = via.t1 /\ y.t1 = exact.t1
       /\ w.t2.cl = lo /\ w.t2.ch = hi /\ y.t2.cnt = cnt /\ y.t2.load
       /\ y.t2.armed <=> "PULSE" \notin via.acr
       /\ IF "PULSE" \in via.acr THEN w.t2.tbi = via.t2.tbi
          ELSE w.t2.tbu = ClockAdd(now, lo + 3) /\ w.t2.tbi = ClockAdd(now, lo + 1)
  <2>1. w.acr = u.acr /\ w.t1 = u.t1 /\ w.t2 = u.t2 /\ y.t1 = x.t1 /\ y.t2 = x.t2
    BY <1>11 DEF TimersKept
  <2>2. u.acr = via.acr /\ via.acr = exact.acr
    BY <1>2, <1>9 DEF Regs, Agree
  <2>3. y.t2.armed <=> "PULSE" \notin via.acr
    BY <1>7, <2>1, <2>2, Zenon
  <2> QED BY <1>7, <1>9, <2>1, <2>2, <2>3, Zenon
<1>14. Held(y) /\ y.t2.cnt = w.t2.ch * Base + w.t2.cl
  BY <1>4, <1>13, Zenon DEF Held
<1>15. "PULSE" \notin via.acr =>
           (SameFlags(w, y) => Settled2(w, y, now)) /\ w.t2.tbi \in now .. now + Base
  <2>1. ASSUME "PULSE" \notin via.acr
        PROVE  w.t2.tbu = ClockAdd(now, w.t2.cl + 3) /\ w.t2.tbi = ClockAdd(now, w.t2.cl + 1)
    BY <1>13, <2>1, Zenon
  <2> QED BY <1>2, <1>13, <1>14, <2>1, Started2
<1>16. "PULSE" \in via.acr => w.t2.tbi = 0
  BY <1>13, Here DEF Apart
<1>17. Apart(w, y, "data")
  BY <1>1, <1>13, <1>16, Here DEF Apart
<1>18. Near(w, now, "data")
  <2>1. w.t1.tai = 0
    BY <1>1, <1>13, Here DEF Apart
  <2>2. w.t2.tbi # 0 => w.t2.tbi \in now - MaxLag - 1 .. now + Base
    BY <1>2, <1>15, <1>16, Constants DEF Times
  <2> QED BY <2>1, <2>2 DEF Near
<1>19. upset' \subseteq {"late", "stale"}
  BY <1>1, Here, MeetsNothing DEF Restarted
<1>20. ASSUME upset' = {}
       PROVE  InStep2(w, y, now, "data")
  <2>1. SameFlags(via, exact) => SameFlags(w, y)
    BY <1>7, <1>9, <1>11 DEF SameFlags
  <2>2. SameFlags(via', exact')
    BY <1>1, <1>12, <1>20, <2>1, RestartedFlags
  <2>3. SameFlags(w, y)
    BY <1>12, <2>2
  <2>4. CASE "PULSE" \in via.acr
    <3>1. Pulses(w, y, now)
      BY <1>14, <2>3, Zenon DEF Pulses
    <3> QED BY <1>13, <2>4, <3>1 DEF InStep2
  <2>5. CASE "PULSE" \notin via.acr
    BY <1>13, <1>15, <2>3, <2>5 DEF InStep2
  <2> QED BY <2>4, <2>5
<1>21. Good(w, y, now, "data", upset')
  BY <1>1, <1>2, <1>11, <1>17, <1>18, <1>19, <1>20 DEF Good, InStep
<1>22. Good(via', exact', now', bus', upset')
  BY <1>1, <1>12, <1>21, Zenon
<1> QED BY <1>1, <1>22, GoodNext, Here

(* What a store to ACR leaves in both chips.                                *)
AcrSet(w, u, acr) ==
    /\ w.latch1 = u.latch1 /\ w.latch2 = u.latch2 /\ w.acr = acr /\ w.ier = u.ier
    /\ w.ifr = u.ifr /\ w.irq = u.irq /\ w.t1 = u.t1 /\ w.t2 = u.t2

AcrCounted(y, x, acr) ==
    /\ y.latch1 = x.latch1 /\ y.latch2 = x.latch2 /\ y.acr = acr /\ y.ier = x.ier
    /\ y.ifr = x.ifr /\ y.irq = x.irq
    /\ y.t1.tal = x.latch1 /\ y.t1.cnt = x.t1.cnt /\ y.t1.out = x.t1.out
    /\ y.t1.load = x.t1.load /\ y.t1.armed = x.t1.armed
    /\ y.t2.cnt = x.t2.cnt /\ y.t2.load = x.t2.load /\ y.t2.pulse = x.t2.pulse

LEMMA AcrFields ==
    ASSUME NEW u \in ViaChips, NEW acr \in SUBSET {"FREE", "PB7", "PULSE"}
    PROVE  [u EXCEPT !.acr = acr] \in ViaChips /\ AcrSet([u EXCEPT !.acr = acr], u, acr)
<1>1. u \in Chips(ViaT1, ViaT2)
  BY ChipSets
<1>2. PICK w : w = [u EXCEPT !.acr = acr]
  OBVIOUS
<1>3. w \in Chips(ViaT1, ViaT2) /\ AcrSet(w, u, acr)
  BY ONLY <1>1, <1>2, acr \in SUBSET {"FREE", "PB7", "PULSE"} DEF Chips, AcrSet
<1> QED BY <1>2, <1>3, ChipSets, Zenon

LEMMA Counter2Type ==
    ASSUME NEW v \in ViaChips, NEW clk \in Int
    PROVE  Counter2(v, clk) \in 0 .. Word - 1
<1>1. PICK t \in Int : t = ClockSub(v.t2.tbu, clk + 2)
  <2>1. PICK z \in Int : z = v.t2.tbu - (clk + 2)
    BY ViaFields, Constants DEF Clock
  <2>2. z % (ClockMax + 1) \in Int
    BY ClockSmall, Constants DEF Clock
  <2> QED BY <2>1, <2>2, Zenon DEF ClockSub
<1>2. t % Word \in 0 .. Word - 1 /\ t % Base \in Bytes
  BY Constants, Remainder DEF Bytes
<1>3. PICK hi \in Bytes : hi = IF clk = v.t2.tbi + 1 THEN (v.t2.ch - 1) % Base ELSE v.t2.ch
  BY ViaFields, ByteLess
<1>4. Counter2(v, clk) = IF "PULSE" \in v.acr THEN v.t2.ch * Base + v.t2.cl
                         ELSE IF v.t2.tbi # 0 THEN hi * Base + (t % Base) ELSE t % Word
  BY <1>1, <1>3, Zenon DEF Counter2
<1>5. v.t2.ch * Base + v.t2.cl \in 0 .. Word - 1
  BY ViaFields, TwoBytes
<1>6. hi * Base + (t % Base) \in 0 .. Word - 1
  BY <1>2, TwoBytes
<1> QED BY <1>2, <1>4, <1>5, <1>6

LEMMA StoreAcrKeeps ==
    ASSUME IInv, NEW byte, StoreAcr(byte)
    PROVE  IInv'
<1> DEFINE changed == ("PULSE" \in via.acr) # ("PULSE" \in byte)
           updated == UpdateTal(via, now)
           stop == Counter2(via, now + 1)
           starts == changed /\ "PULSE" \notin byte
           stops == changed /\ "PULSE" \in byte
           stopped == [updated EXCEPT !.t2.cl = stop % Base, !.t2.ch = stop \div Base, !.t2.tbi = 0]
           switched == CASE ~changed -> updated
                         [] changed /\ "PULSE" \in byte -> stopped
                         [] OTHER -> StartT2(updated, now)
<1>1. /\ bus = "free" /\ bus' = "data" /\ now' = now /\ used' = used /\ upset' = Meets(via)
      /\ byte \subseteq (IF used = "T1" THEN {"FREE", "PB7"} ELSE {"PULSE"})
      /\ via' = [switched EXCEPT !.acr = byte]
      /\ exact' = [exact EXCEPT !.acr = byte, !.t1.tal = exact.latch1,
                                !.t2.armed = (@ \/ starts) /\ ~stops]
  BY Zenon DEF StoreAcr, Accesses, UsesBus
<1>2. switched = IF ~changed THEN updated
                 ELSE IF "PULSE" \in byte THEN stopped ELSE StartT2(updated, now)
  <2> HIDE DEF updated, stopped
  <2> QED OBVIOUS
<1> HIDE DEF switched, updated, stopped, stop
<1>3. /\ via \in ViaChips /\ exact \in ExactChips /\ now \in Times /\ now \in Clock /\ now + 1 \in Int
      /\ Agree(via, exact) /\ WellPulled(via) /\ WellPulled(exact)
      /\ byte \in SUBSET {"FREE", "PB7", "PULSE"}
  BY <1>1, Here, Constants DEF Times
<1>4. PICK u \in ViaChips :
        /\ u = updated /\ Regs(u, via) /\ u.t2 = via.t2
        /\ u.ifr = via.ifr /\ u.irq = via.irq /\ u.t1.tal = via.latch1 /\ u.t1.tai = via.t1.tai
        /\ TauMoved(u, via, now)
  <2>1. /\ updated \in ViaChips /\ Regs(updated, via)
        /\ updated.t2 = via.t2
        /\ updated.ifr = via.ifr /\ updated.irq = via.irq
        /\ updated.t1.tal = via.latch1 /\ updated.t1.tai = via.t1.tai
        /\ TauMoved(updated, via, now)
    BY <1>3, UpdateTalFields, Zenon DEF TauMoved, updated
  <2> QED BY <2>1
<1>5. PICK y \in ExactChips :
        /\ y = exact' /\ AcrCounted(y, exact, byte)
        /\ y.t2.armed <=> (exact.t2.armed \/ starts) /\ ~stops
        /\ ~starts /\ ~stops => y.t2 = exact.t2
  <2>1. exact \in Chips(ExactT1, ExactT2) /\ exact.latch1 \in 0 .. Word - 1
        /\ exact.t2.armed \in BOOLEAN /\ byte \in SUBSET {"FREE", "PB7", "PULSE"}
    BY <1>3, ChipSets, ExactFields
  <2>2. PICK armed \in BOOLEAN : armed = ((exact.t2.armed \/ starts) /\ ~stops)
    <3>1. ((exact.t2.armed \/ starts) /\ ~stops) \in BOOLEAN
      OBVIOUS
    <3> QED BY <3>1, Zenon
  <2>3. PICK y : y = [exact EXCEPT !.acr = byte, !.t1.tal = exact.latch1, !.t2.armed = armed]
    OBVIOUS
  <2>4. y \in Chips(ExactT1, ExactT2) /\ AcrCounted(y, exact, byte) /\ y.t2.armed = armed
    BY ONLY <2>1, <2>3, armed \in BOOLEAN DEF Chips, ExactT1, ExactT2, AcrCounted
  <2>5. armed = exact.t2.armed => y.t2 = exact.t2
    BY ONLY <2>1, <2>3, armed \in BOOLEAN DEF Chips, ExactT1, ExactT2
  <2> HIDE DEF starts, stops
  <2>6. ~starts /\ ~stops => armed = exact.t2.armed
    BY <2>1, <2>2, Zenon
  <2>7. y = exact'
    BY <1>1, <2>2, <2>3, Zenon
  <2>8. y.t2.armed <=> (exact.t2.armed \/ starts) /\ ~stops
    BY <2>2, <2>4, Zenon
  <2> QED BY <2>4, <2>5, <2>6, <2>7, <2>8, ChipSets, Zenon
<1>6. WellPulled(y) /\ y.ifr = exact.ifr /\ y.irq = exact.irq
  BY <1>3, <1>5 DEF WellPulled, AcrCounted
<1>7. ASSUME NEW v \in ViaChips, Regs(v, u), v.ifr = u.ifr, v.irq = u.irq, v.t1 = u.t1, v = switched
      PROVE  \E w \in ViaChips :
                /\ w = via' /\ AcrSet(w, v, byte) /\ Agree(w, y) /\ WellPulled(w)
                /\ SameFlags(via, exact) => SameFlags(w, y)
  <2>1. PICK w \in ViaChips : w = [v EXCEPT !.acr = byte] /\ AcrSet(w, v, byte)
    BY <1>3, AcrFields
  <2>2. w = via'
    BY <1>1, <1>7, <2>1, Zenon
  <2>3. Agree(w, y)
    BY <1>3, <1>4, <1>5, <1>7, <2>1 DEF Agree, AcrSet, Regs, AcrCounted
  <2>4. WellPulled(w) /\ (SameFlags(via, exact) => SameFlags(w, y))
    BY <1>3, <1>4, <1>6, <1>7, <2>1 DEF WellPulled, SameFlags, AcrSet, Regs
  <2> QED BY <2>1, <2>2, <2>3, <2>4
<1>8. CASE ~changed
  <2>1. switched = u /\ ~starts /\ ~stops
    BY <1>2, <1>4, <1>8
  <2>2. Regs(u, u)
    BY DEF Regs
  <2>3. PICK w \in ViaChips :
          /\ w = via' /\ AcrSet(w, u, byte) /\ Agree(w, y) /\ WellPulled(w)
          /\ SameFlags(via, exact) => SameFlags(w, y)
    BY <1>7, <2>1, <2>2
  <2>4. w.t1 = u.t1 /\ w.t2 = via.t2 /\ w.acr = byte /\ y.t2 = exact.t2
    BY <1>4, <1>5, <2>1, <2>3 DEF AcrSet
  <2>5. TauMoved(w, via, now)
    BY <1>4, <2>4, Zenon DEF TauMoved
  <2>6. "PULSE" \in w.acr <=> "PULSE" \in via.acr
    BY <1>8, <2>4
  <2>7. Good(w, y, now, "data", Meets(via))
    BY <1>1, <1>5, <1>6, <2>3, <2>4, <2>5, <2>6, StoreGood DEF AcrCounted
  <2> QED BY <1>1, <1>5, <2>3, <2>7, GoodNext, Here
<1>9. ASSUME changed
      PROVE  /\ used = "T2" /\ via.t1.tai = 0 /\ ~exact.t1.load /\ ~exact.t2.load
             /\ exact.t2.pulse <=> "PULSE" \in via.acr
             /\ "PULSE" \in byte <=> "PULSE" \notin via.acr
             /\ exact.t1.out => exact.t1.cnt = Word - 1
  BY <1>1, <1>9, Here DEF Apart
<1>10. ASSUME NEW w \in ViaChips, w = via', changed, w.t1 = u.t1, w.acr = byte,
              Agree(w, y), WellPulled(w),
              w.t2.tbi # 0 => w.t2.tbi \in now .. now + Base,
              "PULSE" \in byte => w.t2.tbi = 0,
              Meets(via) = {} => InStep2(w, y, now, "data")
       PROVE  IInv'
  <2>1. w.t1 = u.t1 /\ w.acr = byte
    BY <1>10
  <2>2. used = "T2" /\ w.t1.tai = 0
    BY <1>4, <1>9, <1>10, <2>1
  <2>3. Apart(w, y, "data")
    <3>1. /\ y.t1.load = exact.t1.load /\ y.t1.out = exact.t1.out /\ y.t1.cnt = exact.t1.cnt
      BY <1>5 DEF AcrCounted
    <3>2. "PULSE" \in byte => ~y.t2.armed
      BY <1>5, <1>10
    <3> QED BY <1>9, <1>10, <2>1, <2>2, <3>1, <3>2 DEF Apart
  <2>4. Near(w, now, "data")
    <3>1. w.t2.tbi # 0 => w.t2.tbi \in now - MaxLag - 1 .. now + Base
      BY <1>3, <1>10, Constants DEF Times
    <3> QED BY <2>2, <3>1 DEF Near
  <2>5. Good(w, y, now, "data", Meets(via))
    BY <1>3, <1>6, <1>10, <2>2, <2>3, <2>4, Here, MeetsNothing DEF Good, InStep
  <2> QED BY <1>1, <1>5, <1>10, <2>5, GoodNext, Here
<1>11. Meets(via) = {} => upset = {} /\ ~AnyOverdue(via, now)
  BY Here, MeetsNothing
<1>12. CASE changed /\ "PULSE" \in byte
  <2>1. stop \in 0 .. Word - 1
    BY <1>3, Counter2Type DEF stop
  <2>2. PICK lo \in Bytes, hi \in Bytes :
          lo = stop % Base /\ hi = stop \div Base /\ hi * Base + lo = stop
    BY <2>1, BytesOf
  <2>3. PICK v \in ViaChips :
          /\ v = switched /\ Regs(v, u) /\ v.ifr = u.ifr /\ v.irq = u.irq /\ v.t1 = u.t1
          /\ v.t2.cl = lo /\ v.t2.ch = hi /\ v.t2.tbi = 0
    <3>1. switched = [u EXCEPT !.t2.cl = lo, !.t2.ch = hi, !.t2.tbi = 0]
      <4>1. switched = stopped
        BY <1>2, <1>12
      <4> QED BY <1>4, <2>2, <4>1, Zenon DEF stopped
    <3>2. PICK v : v = [u EXCEPT !.t2.cl = lo, !.t2.ch = hi, !.t2.tbi = 0]
      OBVIOUS
    <3>3. /\ v \in ViaChips /\ Regs(v, u) /\ v.ifr = u.ifr /\ v.irq = u.irq /\ v.t1 = u.t1
          /\ v.t2.cl = lo /\ v.t2.ch = hi /\ v.t2.tbi = 0
      <4>1. u \in Chips(ViaT1, ViaT2) /\ 0 \in Clock
        BY ChipSets, Constants DEF Clock
      <4>2. /\ v \in Chips(ViaT1, ViaT2) /\ Regs(v, u) /\ v.ifr = u.ifr /\ v.irq = u.irq
            /\ v.t1 = u.t1 /\ v.t2.cl = lo /\ v.t2.ch = hi /\ v.t2.tbi = 0
        BY ONLY <4>1, <3>2, lo \in Bytes, hi \in Bytes DEF Chips, ViaT2, Regs
      <4> QED BY <4>2, ChipSets
    <3> QED BY <3>1, <3>2, <3>3, Zenon
  <2>4. PICK w \in ViaChips :
          /\ w = via' /\ AcrSet(w, v, byte) /\ Agree(w, y) /\ WellPulled(w)
          /\ SameFlags(via, exact) => SameFlags(w, y)
    BY <1>7, <2>3
  <2>5. w.t1 = u.t1 /\ w.acr = byte /\ w.t2.cl = lo /\ w.t2.ch = hi /\ w.t2.tbi = 0
    BY <2>3, <2>4 DEF AcrSet
  <2>6. ASSUME Meets(via) = {}
        PROVE  InStep2(w, y, now, "data")
    <3>1. InStep2(via, exact, now, "free") /\ Near(via, now, "free") /\ ~Overdue(via.t2.tbi, now)
      BY <1>1, <1>9, <1>11, <1>12, <2>6, Here DEF InStep, AnyOverdue
    <3>2. Counter2(via, now + 1) = (exact.t2.cnt - 1) % Word
      BY <1>3, <1>9, <1>12, <3>1, Counter2Reads
    <3>3. SameFlags(w, y)
      BY <1>1, <1>11, <2>4, <2>6, ViaNotLate
    <3>4. ~Held(y) /\ y.t2.cnt = exact.t2.cnt
      BY <1>5, <1>9, <1>12 DEF Held, AcrCounted
    <3>5. w.t2.ch * Base + w.t2.cl = (y.t2.cnt - 1) % Word
      BY <2>2, <2>5, <3>2, <3>4, Zenon DEF stop
    <3>6. Pulses(w, y, now)
      BY <3>3, <3>4, <3>5, Zenon DEF Pulses
    <3> QED BY <1>12, <2>5, <3>6 DEF InStep2
  <2> QED BY <1>10, <1>12, <2>4, <2>5, <2>6
<1>13. CASE changed /\ "PULSE" \notin byte
  <2>1. PICK v \in ViaChips :
          /\ v = switched /\ Regs(v, u) /\ v.ifr = u.ifr /\ v.irq = u.irq /\ v.t1 = u.t1
          /\ v.t2.cl = u.t2.cl /\ v.t2.ch = u.t2.ch
          /\ v.t2.tbu = ClockAdd(now, u.t2.cl + 3) /\ v.t2.tbi = ClockAdd(now, u.t2.cl + 1)
    <3>1. switched = StartT2(u, now)
      BY <1>2, <1>4, <1>13
    <3>2. PICK v \in ViaChips :
            /\ v = StartT2(u, now) /\ Regs(v, u) /\ v.ifr = u.ifr /\ v.irq = u.irq /\ v.t1 = u.t1
            /\ v.t2.cl = u.t2.cl /\ v.t2.ch = u.t2.ch
            /\ v.t2.tbu = ClockAdd(now, u.t2.cl + 3) /\ v.t2.tbi = ClockAdd(now, u.t2.cl + 1)
      BY <1>3, StartT2Fields
    <3> QED BY <3>1, <3>2
  <2>2. PICK w \in ViaChips :
          /\ w = via' /\ AcrSet(w, v, byte) /\ Agree(w, y) /\ WellPulled(w)
          /\ SameFlags(via, exact) => SameFlags(w, y)
    BY <1>7, <2>1
  <2>3. /\ w.t1 = u.t1 /\ w.acr = byte /\ w.t2.cl = via.t2.cl /\ w.t2.ch = via.t2.ch
        /\ w.t2.tbu = ClockAdd(now, w.t2.cl + 3) /\ w.t2.tbi = ClockAdd(now, w.t2.cl + 1)
    <3>1. w.t2 = v.t2 /\ w.t1 = v.t1 /\ w.acr = byte
      BY <2>2 DEF AcrSet
    <3>2. v.t2.cl = via.t2.cl /\ v.t2.ch = via.t2.ch /\ u.t2.cl = via.t2.cl
      BY <1>4, <2>1
    <3> QED BY <2>1, <3>1, <3>2, Zenon
  <2>4. Held(y) /\ y.t2.armed /\ y.t2.cnt = exact.t2.cnt
    BY <1>5, <1>9, <1>13 DEF Held, AcrCounted
  <2>5. PICK tbi \in Clock : tbi = w.t2.tbi /\ tbi \in now .. now + Base
    <3>1. now + (w.t2.cl + 1) \in now .. now + Base /\ now + (w.t2.cl + 1) \in Clock
      BY <1>3, ViaFields, Constants DEF Times, Clock, Bytes
    <3>2. PICK z \in Int : z = now + (w.t2.cl + 1)
      BY <1>3, <3>1
    <3>3. z % (ClockMax + 1) = z
      BY <3>1, <3>2, ClockSmall
    <3>4. w.t2.tbi = z
      BY <2>3, <3>2, <3>3, Zenon DEF ClockAdd
    <3> QED BY <3>1, <3>2, <3>4
  <2>6. ASSUME Meets(via) = {}
        PROVE  InStep2(w, y, now, "data")
    <3>1. Pulses(via, exact, now) /\ Held(exact)
      BY <1>1, <1>9, <1>11, <1>13, <2>6, ViaNotLate DEF Held
    <3>2. SameFlags(w, y)
      BY <2>2, <3>1 DEF Pulses
    <3>3. y.t2.cnt = w.t2.ch * Base + w.t2.cl
      BY <2>3, <2>4, <3>1, Zenon DEF Pulses
    <3>4. Settled2(w, y, now)
      BY <1>3, <2>3, <2>4, <3>2, <3>3, Started2
    <3> QED BY <1>13, <2>3, <3>4 DEF InStep2
  <2> QED BY <1>10, <1>13, <2>2, <2>3, <2>5, <2>6
<1> QED BY <1>8, <1>12, <1>13

-----------------------------------------------------------------------------
(* The reset, the beginning and the clock guard.                            *)

LEMMA ResetGood ==
    ASSUME NEW latch1 \in 0 .. Word - 1, NEW latch2 \in Bytes, NEW t \in Times,
           NEW b \in {"free", "fetch", "data"}, used \in {"T1", "T2"}
    PROVE  Good(ViaReset(latch1, latch2, t), ExactReset(latch1, latch2), t, b, {})
<1>1. PICK w, y : w = ViaReset(latch1, latch2, t) /\ y = ExactReset(latch1, latch2)
  OBVIOUS
<1>2. /\ w.latch1 = latch1 /\ w.latch2 = latch2 /\ w.acr = {} /\ w.ifr = {} /\ w.ier = {}
      /\ w.irq = Released
      /\ w.t1 = [tal |-> Word - 1, tau |-> t, tai |-> 0]
      /\ w.t2 = [cl |-> Base - 1, ch |-> Base - 1, tbu |-> t, tbi |-> 0]
  BY <1>1 DEF ViaReset, ChipReset
<1>3. /\ y.latch1 = latch1 /\ y.latch2 = latch2 /\ y.acr = {} /\ y.ifr = {} /\ y.ier = {}
      /\ y.irq = Released
      /\ y.t1 = [tal |-> Word - 1, cnt |-> Word - 1, out |-> TRUE, load |-> FALSE, armed |-> FALSE]
      /\ y.t2 = [cnt |-> Word - 2, load |-> FALSE, armed |-> FALSE, pulse |-> FALSE]
  BY <1>1 DEF ExactReset, ChipReset
<1>4. t \in Clock /\ t \in Nat /\ 0 \in Clock /\ Word - 1 \in 0 .. Word - 1
      /\ Word - 2 \in 0 .. Word - 1 /\ Base - 1 \in Bytes /\ Released \in Lines
  BY Constants DEF Times, Clock, Bytes, Released, Lines
<1>5. w \in ViaChips
  <2>1. w.t1 \in ViaT1 /\ w.t2 \in ViaT2
    BY <1>2, <1>4 DEF ViaT1, ViaT2
  <2>2. w = [latch1 |-> latch1, latch2 |-> latch2, acr |-> {}, ifr |-> {}, ier |-> {},
             irq |-> Released, t1 |-> w.t1, t2 |-> w.t2]
    BY <1>1 DEF ViaReset, ChipReset
  <2>3. w \in Chips(ViaT1, ViaT2)
    BY <1>4, <2>1, <2>2 DEF Chips, Lines
  <2> QED BY <2>3, ChipSets
<1>6. y \in ExactChips
  <2>1. y.t1 \in ExactT1 /\ y.t2 \in ExactT2
    BY <1>3, <1>4 DEF ExactT1, ExactT2
  <2>2. y = [latch1 |-> latch1, latch2 |-> latch2, acr |-> {}, ifr |-> {}, ier |-> {},
             irq |-> Released, t1 |-> y.t1, t2 |-> y.t2]
    BY <1>1 DEF ExactReset, ChipReset
  <2>3. y \in Chips(ExactT1, ExactT2)
    BY <1>4, <2>1, <2>2 DEF Chips, Lines
  <2> QED BY <2>3, ChipSets
<1>7. Agree(w, y) /\ WellPulled(w) /\ WellPulled(y) /\ SameFlags(w, y)
  BY <1>2, <1>3 DEF Agree, WellPulled, SameFlags, Released
<1>8. Apart(w, y, b) /\ Near(w, t, b)
  BY <1>2, <1>3 DEF Apart, Near
<1>9. used = "T1" => InStep1(w, y, t, b)
  <2>1. Counts1(w, y, t)
    BY <1>2, <1>3, <1>4, Constants DEF Counts1
  <2>2. ToEnd1(y) = 0
    BY <1>3 DEF ToEnd1
  <2>3. Expected1(w.t1.tau, w.t1.tal, t) = 0
    BY <1>2, <1>4 DEF Expected1
  <2>4. w.t1.tai = 0 /\ ~y.t1.armed
    BY <1>2, <1>3
  <2> QED BY <1>7, <2>1, <2>2, <2>3, <2>4 DEF InStep1, Settled1
<1>10. used = "T2" => InStep2(w, y, t, b)
  <2>1. PICK z \in Int : z = w.t2.tbu - t - 2
    BY <1>2, <1>4
  <2>2. z % Word = Word - 2
    <3>1. PICK q \in Int, r \in 0 .. Word - 1 : q = -1 /\ r = Word - 2
      BY <1>4
    <3>2. z = q * Word + r
      BY <1>2, <1>4, <2>1, <3>1, Constants
    <3>3. z % Word = r
      BY <3>2, Constants, Remainder
    <3> QED BY <3>1, <3>3
  <2>3. w.t2.tbi = 0 /\ ~y.t2.armed /\ ~Held(y) /\ y.t2.cnt = Word - 2
    BY <1>2, <1>3 DEF Held
  <2>4. Stopped2(w, y, t)
    BY <1>7, <2>1, <2>2, <2>3, Zenon DEF Stopped2
  <2> QED BY <1>2, <2>4 DEF InStep2
<1>11. Good(w, y, t, b, {})
  BY <1>5, <1>6, <1>7, <1>8, <1>9, <1>10 DEF Good, InStep
<1> QED BY <1>1, <1>11, Zenon

LEMMA ResetKeeps ==
    ASSUME IInv, Reset
    PROVE  IInv'
<1>1. /\ via' = ViaReset(via.latch1, via.latch2, now)
      /\ exact' = ExactReset(via.latch1, via.latch2)
      /\ upset' = {} /\ now' = now /\ used' = used /\ bus' = bus
  BY Zenon DEF Reset
<1>2. via.latch1 \in 0 .. Word - 1 /\ via.latch2 \in Bytes
  BY Here, ViaFields
<1>3. Good(ViaReset(via.latch1, via.latch2, now), ExactReset(via.latch1, via.latch2), now, bus, {})
  BY <1>2, Here, ResetGood
<1>4. Good(via', exact', now', bus', upset')
  BY <1>1, <1>3, Zenon
<1> QED BY <1>1, <1>4, GoodNext, Here

LEMMA InitHolds ==
    ASSUME Init
    PROVE  IInv
<1>1. /\ via = ViaReset(Word - 1, Base - 1, now) /\ exact = ExactReset(Word - 1, Base - 1)
      /\ upset = {} /\ now = SubMin /\ used \in {"T1", "T2"} /\ bus = "free"
  BY Zenon DEF Init
<1>2. now \in Times /\ Word - 1 \in 0 .. Word - 1 /\ Base - 1 \in Bytes /\ now \in Clock
  BY <1>1, Constants DEF Times, Bytes, Clock
<1>3. Good(ViaReset(Word - 1, Base - 1, now), ExactReset(Word - 1, Base - 1), now, "free", {})
  BY <1>1, <1>2, ResetGood
<1>4. Good(via, exact, now, bus, upset)
  BY <1>1, <1>3, Zenon
<1> QED BY <1>1, <1>2, <1>4 DEF Good, IInv, TypeOK, Times

(* The line moved back.                                                     *)
LineBack(c) == IF c.irq.clk > GuardSub THEN [c EXCEPT !.irq.clk = @ - GuardSub]
               ELSE [c EXCEPT !.irq.clk = 0]

LEMMA LineBackFields ==
    ASSUME NEW T1, NEW T2, NEW c \in Chips(T1, T2)
    PROVE  /\ LineBack(c) \in Chips(T1, T2)
           /\ FlagsSet(LineBack(c), c, c.ifr, c.ier, Moved(c.irq))
<1>1. c.irq \in Lines /\ Moved(c.irq) \in Lines
  BY ChipFields, MovedFacts
<1>2. PICK irq \in Lines : irq = Moved(c.irq)
  BY <1>1
<1>3. PICK d : d = [c EXCEPT !.irq = irq]
  OBVIOUS
<1>4. d \in Chips(T1, T2) /\ FlagsSet(d, c, c.ifr, c.ier, irq)
  BY ONLY <1>3, c \in Chips(T1, T2), irq \in Lines DEF Chips, Lines, FlagsSet
<1>5. LineBack(c) = d
  <2>1. CASE c.irq.clk > GuardSub
    <3>1. PICK clk : clk = c.irq.clk - GuardSub
      OBVIOUS
    <3>2. irq = [c.irq EXCEPT !.clk = clk]
      BY <1>2, <2>1, <3>1, Zenon DEF Moved
    <3>3. LineBack(c) = [c EXCEPT !.irq.clk = clk]
      BY <2>1, <3>1, Zenon DEF LineBack
    <3>4. PICK e : e = [c EXCEPT !.irq.clk = clk]
      OBVIOUS
    <3>5. e = d
      BY ONLY <1>1, <1>3, <3>2, <3>4, c \in Chips(T1, T2) DEF Chips, Lines
    <3> QED BY <3>3, <3>4, <3>5, Zenon
  <2>2. CASE ~(c.irq.clk > GuardSub)
    <3>1. irq = [c.irq EXCEPT !.clk = 0]
      BY <1>2, <2>2, Zenon DEF Moved
    <3>2. LineBack(c) = [c EXCEPT !.irq.clk = 0]
      BY <2>2, Zenon DEF LineBack
    <3>3. PICK e : e = [c EXCEPT !.irq.clk = 0]
      OBVIOUS
    <3>4. e = d
      BY ONLY <1>1, <1>3, <3>1, <3>3, c \in Chips(T1, T2) DEF Chips, Lines
    <3> QED BY <3>2, <3>3, <3>4, Zenon
  <2> QED BY <2>1, <2>2
<1> QED BY <1>2, <1>4, <1>5, Zenon

(* An alarm, or the time of a timer, moved back.                            *)
AlarmBack(alarm) == IF alarm = 0 THEN 0 ELSE ClockSub(alarm, GuardSub)

LEMMA AlarmBackType ==
    ASSUME NEW a \in Clock
    PROVE  AlarmBack(a) \in Clock /\ ClockSub(a, GuardSub) \in Clock
<1>1. a - GuardSub \in Int /\ 0 \in Clock
  BY Constants DEF Clock
<1> QED BY <1>1, ClockSmall DEF AlarmBack, ClockSub

LEMMA NearMoved ==
    ASSUME NEW alarm \in Clock, NEW t \in Times, t >= GuardMax, NEW n \in Nat,
           alarm # 0 => alarm \in t - MaxLag - 1 .. t + n
    PROVE  /\ AlarmBack(alarm) # 0 <=> alarm # 0
           /\ AlarmBack(alarm) # 0 =>
                 AlarmBack(alarm) \in (t - GuardSub) - MaxLag - 1 .. (t - GuardSub) + n
<1>1. CASE alarm = 0
  BY <1>1 DEF AlarmBack
<1>2. CASE alarm # 0
  <2>1. alarm >= t - MaxLag - 1 /\ alarm \in Int /\ alarm <= t + n /\ t \in Int
    BY <1>2, Constants DEF Clock, Times
  <2>2. ClockSub(alarm, GuardSub) = alarm - GuardSub /\ alarm - GuardSub # 0
    BY <2>1, AlarmMoved
  <2>3. AlarmBack(alarm) = alarm - GuardSub
    BY <1>2, <2>2 DEF AlarmBack
  <2> QED BY <1>2, <2>1, <2>2, <2>3, Constants
<1> QED BY <1>1, <1>2

LEMMA GuardKeeps ==
    ASSUME IInv, Guard
    PROVE  IInv'
<1>1. /\ now >= GuardMax /\ now' = now - GuardSub /\ used' = used /\ bus' = bus
      /\ upset' = IF used = "T1" /\ via.t1.tau < GuardSub THEN upset \cup {"stale"} ELSE upset
      /\ exact' = LineBack(exact)
      /\ \/ /\ used = "T1"
            /\ via' = [LineBack(via) EXCEPT !.t1.tau = ClockSub(@, GuardSub), !.t1.tai = AlarmBack(@)]
         \/ /\ used = "T2"
            /\ via' = [LineBack(via) EXCEPT !.t2.tbu = ClockSub(@, GuardSub), !.t2.tbi = AlarmBack(@)]
  BY Zenon DEF Guard, LineBack, AlarmBack
<1>2. /\ via \in ViaChips /\ exact \in ExactChips /\ now \in Times /\ Agree(via, exact)
      /\ WellPulled(via) /\ WellPulled(exact) /\ Apart(via, exact, bus) /\ Near(via, now, bus)
      /\ via.irq \in Lines /\ exact.irq \in Lines
  BY Here, ViaFields, ExactFields
<1>3. PICK t \in Times : t = now - GuardSub
  BY <1>1, <1>2, Constants DEF Times
<1>4. PICK v \in ViaChips, y \in ExactChips :
        /\ v = LineBack(via) /\ FlagsSet(v, via, via.ifr, via.ier, Moved(via.irq))
        /\ y = LineBack(exact) /\ FlagsSet(y, exact, exact.ifr, exact.ier, Moved(exact.irq))
  <2>1. via \in Chips(ViaT1, ViaT2) /\ exact \in Chips(ExactT1, ExactT2)
    BY <1>2, ChipSets
  <2>2. /\ LineBack(via) \in Chips(ViaT1, ViaT2)
        /\ FlagsSet(LineBack(via), via, via.ifr, via.ier, Moved(via.irq))
        /\ LineBack(exact) \in Chips(ExactT1, ExactT2)
        /\ FlagsSet(LineBack(exact), exact, exact.ifr, exact.ier, Moved(exact.irq))
    BY <2>1, LineBackFields
  <2> QED BY <2>2, ChipSets
<1>5. PICK tau \in Clock, tai \in Clock, tbu \in Clock, tbi \in Clock :
        /\ tau = ClockSub(v.t1.tau, GuardSub) /\ tai = AlarmBack(v.t1.tai)
        /\ tbu = ClockSub(v.t2.tbu, GuardSub) /\ tbi = AlarmBack(v.t2.tbi)
  BY ViaFields, AlarmBackType
<1>6. PICK w \in ViaChips :
        /\ w = via' /\ Regs(w, v) /\ w.ifr = v.ifr /\ w.irq = v.irq /\ w.t1.tal = v.t1.tal
        /\ w.t2.cl = v.t2.cl /\ w.t2.ch = v.t2.ch
        /\ used = "T1" => w.t1.tau = tau /\ w.t1.tai = tai /\ w.t2 = v.t2
        /\ used = "T2" => w.t2.tbu = tbu /\ w.t2.tbi = tbi /\ w.t1 = v.t1
  <2>1. v \in Chips(ViaT1, ViaT2)
    BY ChipSets
  <2>2. CASE used = "T1"
    <3>1. PICK w : w = [v EXCEPT !.t1.tau = tau, !.t1.tai = tai]
      OBVIOUS
    <3>2. via' = w
      <4>1. via' = [v EXCEPT !.t1.tau = ClockSub(@, GuardSub), !.t1.tai = AlarmBack(@)]
        BY <1>1, <1>4, <2>2
      <4>2. w = [v EXCEPT !.t1.tau = ClockSub(v.t1.tau, GuardSub), !.t1.tai = AlarmBack(v.t1.tai)]
        BY <1>5, <3>1, Zenon
      <4>3. PICK d : d = [v EXCEPT !.t1.tau = ClockSub(@, GuardSub), !.t1.tai = AlarmBack(@)]
        OBVIOUS
      <4>4. d = w
        BY ONLY <2>1, <4>2, <4>3 DEF Chips, ViaT1
      <4> QED BY <4>1, <4>3, <4>4, Zenon
    <3>3. /\ w \in Chips(ViaT1, ViaT2) /\ Regs(w, v) /\ w.ifr = v.ifr /\ w.irq = v.irq
          /\ w.t1.tal = v.t1.tal /\ w.t1.tau = tau /\ w.t1.tai = tai /\ w.t2 = v.t2
      BY ONLY <2>1, <3>1, tau \in Clock, tai \in Clock DEF Chips, ViaT1, Regs
    <3> QED BY <2>2, <3>2, <3>3, ChipSets
  <2>3. CASE used = "T2"
    <3>1. PICK w : w = [v EXCEPT !.t2.tbu = tbu, !.t2.tbi = tbi]
      OBVIOUS
    <3>2. via' = w
      <4>1. via' = [v EXCEPT !.t2.tbu = ClockSub(@, GuardSub), !.t2.tbi = AlarmBack(@)]
        BY <1>1, <1>4, <2>3
      <4>2. w = [v EXCEPT !.t2.tbu = ClockSub(v.t2.tbu, GuardSub), !.t2.tbi = AlarmBack(v.t2.tbi)]
        BY <1>5, <3>1, Zenon
      <4>3. PICK d : d = [v EXCEPT !.t2.tbu = ClockSub(@, GuardSub), !.t2.tbi = AlarmBack(@)]
        OBVIOUS
      <4>4. d = w
        BY ONLY <2>1, <4>2, <4>3 DEF Chips, ViaT2
      <4> QED BY <4>1, <4>3, <4>4, Zenon
    <3>3. /\ w \in Chips(ViaT1, ViaT2) /\ Regs(w, v) /\ w.ifr = v.ifr /\ w.irq = v.irq
          /\ w.t2.cl = v.t2.cl /\ w.t2.ch = v.t2.ch
          /\ w.t2.tbu = tbu /\ w.t2.tbi = tbi /\ w.t1 = v.t1
      BY ONLY <2>1, <3>1, tbu \in Clock, tbi \in Clock DEF Chips, ViaT2, Regs
    <3> QED BY <2>3, <3>2, <3>3, ChipSets
  <2> QED BY <2>2, <2>3, Here
<1>7. /\ w.latch1 = via.latch1 /\ w.latch2 = via.latch2 /\ w.acr = via.acr /\ w.ier = via.ier
      /\ w.ifr = via.ifr /\ w.irq = Moved(via.irq) /\ w.t1.tal = via.t1.tal
      /\ w.t2.cl = via.t2.cl /\ w.t2.ch = via.t2.ch
      /\ y.latch1 = exact.latch1 /\ y.latch2 = exact.latch2 /\ y.acr = exact.acr
      /\ y.ier = exact.ier /\ y.ifr = exact.ifr /\ y.irq = Moved(exact.irq)
      /\ y.t1 = exact.t1 /\ y.t2 = exact.t2 /\ v.t1 = via.t1 /\ v.t2 = via.t2
  BY <1>4, <1>6 DEF FlagsSet, Regs
<1>8. /\ used = "T1" => /\ w.t1.tau = ClockSub(via.t1.tau, GuardSub)
                        /\ w.t1.tai = AlarmBack(via.t1.tai) /\ w.t2 = via.t2
      /\ used = "T2" => /\ w.t2.tbu = ClockSub(via.t2.tbu, GuardSub)
                        /\ w.t2.tbi = AlarmBack(via.t2.tbi) /\ w.t1 = via.t1
  BY <1>5, <1>6, <1>7, Zenon
<1>9. Agree(w, y) /\ WellPulled(w) /\ WellPulled(y)
  <2>1. /\ (Moved(via.irq).on <=> via.irq.on) /\ (via.irq = Released => Moved(via.irq) = Released)
        /\ (Moved(exact.irq).on <=> exact.irq.on)
        /\ (exact.irq = Released => Moved(exact.irq) = Released)
    BY <1>2, MovedFacts
  <2> QED BY <1>2, <1>7, <2>1 DEF Agree, WellPulled
<1>10. Apart(w, y, bus) /\ Near(w, t, bus)
  <2>1. used = "T1" => via.t2.tbi = 0 /\ w.t2.tbi = 0
    BY <1>2, <1>8 DEF Apart
  <2>2. used = "T2" => via.t1.tai = 0 /\ w.t1.tai = 0
    BY <1>2, <1>8 DEF Apart
  <2>3. w.t2.tbi = AlarmBack(via.t2.tbi) /\ w.t1.tai = AlarmBack(via.t1.tai)
    BY <1>8, <2>1, <2>2, Here DEF AlarmBack
  <2>4. PICK n \in Nat : n = Word + 1
    BY Constants
  <2>5. PICK m \in Nat : m = IF bus = "free" THEN Base - 1 ELSE Base
    BY Constants
  <2>6. /\ via.t1.tai # 0 => via.t1.tai \in now - MaxLag - 1 .. now + n
        /\ via.t2.tbi # 0 => via.t2.tbi \in now - MaxLag - 1 .. now + m
    <3>1. now + Word + 1 = now + n /\ now + (IF bus = "free" THEN Base - 1 ELSE Base) = now + m
      BY <1>2, <2>4, <2>5, Constants DEF Times
    <3> QED BY <1>2, <3>1 DEF Near
  <2>7. /\ w.t1.tai # 0 => w.t1.tai \in t - MaxLag - 1 .. t + n
        /\ w.t2.tbi # 0 => w.t2.tbi \in t - MaxLag - 1 .. t + m
        /\ w.t2.tbi # 0 <=> via.t2.tbi # 0
    <3>1. via.t1.tai \in Clock /\ via.t2.tbi \in Clock
      BY <1>2, ViaFields
    <3>2. /\ AlarmBack(via.t1.tai) # 0 => AlarmBack(via.t1.tai) \in t - MaxLag - 1 .. t + n
          /\ AlarmBack(via.t2.tbi) # 0 => AlarmBack(via.t2.tbi) \in t - MaxLag - 1 .. t + m
          /\ AlarmBack(via.t2.tbi) # 0 <=> via.t2.tbi # 0
      BY <1>1, <1>2, <1>3, <2>6, <3>1, NearMoved
    <3> QED BY <2>3, <3>2
  <2>8. Near(w, t, bus)
    <3>1. t + Word + 1 = t + n /\ t + (IF bus = "free" THEN Base - 1 ELSE Base) = t + m
      BY <2>4, <2>5, Constants DEF Times
    <3> QED BY <2>7, <3>1 DEF Near
  <2>9. Apart(w, y, bus)
    BY <1>2, <1>7, <2>1, <2>2, <2>7 DEF Apart
  <2> QED BY <2>8, <2>9
<1>11. upset' \subseteq {"late", "stale"}
  BY <1>1, Here
<1>12. ASSUME upset' = {}
       PROVE  InStep(w, y, t, bus)
  <2>1. upset = {} /\ (used = "T1" => ~(via.t1.tau < GuardSub)) /\ InStep(via, exact, now, bus)
    BY <1>1, <1>12, Here
  <2>2. ASSUME used = "T1"
        PROVE  InStep1(w, y, t, bus)
    <3>1. via.t1.tau >= GuardSub
      BY <1>2, <2>1, <2>2, ViaFields, Constants DEF Clock
    <3>2. w.t1.tai = IF via.t1.tai = 0 THEN 0 ELSE ClockSub(via.t1.tai, GuardSub)
      BY <1>8, <2>2 DEF AlarmBack
    <3>3. InStep1(w, y, now - GuardSub, bus)
      BY <1>1, <1>2, <1>7, <1>8, <2>1, <2>2, <3>1, <3>2, InStep1Moved DEF InStep
    <3> QED BY <1>3, <3>3
  <2>3. ASSUME used = "T2"
        PROVE  InStep2(w, y, t, bus)
    <3>1. w.t2.tbi = IF via.t2.tbi = 0 THEN 0 ELSE ClockSub(via.t2.tbi, GuardSub)
      BY <1>8, <2>3 DEF AlarmBack
    <3>2. InStep2(w, y, now - GuardSub, bus)
      BY <1>1, <1>2, <1>7, <1>8, <2>1, <2>3, <3>1, InStep2Moved DEF InStep
    <3> QED BY <1>3, <3>2
  <2> QED BY <2>2, <2>3, Here DEF InStep
<1>13. Good(w, y, t, bus, upset')
  BY <1>9, <1>10, <1>11, <1>12, Here DEF Good
<1>14. Good(via', exact', now', bus', upset')
  BY <1>1, <1>3, <1>4, <1>6, <1>13, Zenon
<1> QED BY <1>1, <1>14, GoodNext, Here

-----------------------------------------------------------------------------
(* The theorems.                                                            *)

LEMMA NextKeeps ==
    ASSUME IInv, [Next]_vars
    PROVE  IInv'
<1>1. CASE Tick
  BY <1>1, TickKeeps
<1>2. CASE Dispatch
  BY <1>2, DispatchKeeps
<1>3. ASSUME NEW b \in Bytes, StoreT1L(b) \/ StoreT1LH(b) \/ StoreT1CH(b) \/ StoreT2LL(b) \/ StoreT2CH(b)
      PROVE  IInv'
  <2>1. CASE StoreT1L(b)
    BY <2>1, StoreT1LKeeps
  <2>2. CASE StoreT1LH(b)
    BY <2>2, StoreT1LHKeeps
  <2>3. CASE StoreT1CH(b)
    BY <2>3, StoreT1CHKeeps
  <2>4. CASE StoreT2LL(b)
    BY <2>4, StoreT2LLKeeps
  <2>5. CASE StoreT2CH(b)
    BY <2>5, StoreT2CHKeeps
  <2> QED BY <1>3, <2>1, <2>2, <2>3, <2>4, <2>5
<1>4. ASSUME NEW byte \in Controls, StoreAcr(byte)
      PROVE  IInv'
  BY <1>4, StoreAcrKeeps
<1>5. CASE StoreIfr({used})
  BY <1>5, StoreIfrKeeps
<1>6. ASSUME NEW on \in BOOLEAN, StoreIer({used}, on)
      PROVE  IInv'
  <2>1. {used} \subseteq Sources
    BY Here DEF Sources
  <2> QED BY <1>6, <2>1, StoreIerKeeps
<1>7. CASE ReadTimer \/ ReadIfr
  BY <1>7, ReadsKeeps DEF ReadTimer, ReadIfr
<1>8. CASE ReadPrb
  BY <1>8, ReadPrbKeeps
<1>9. CASE Reset
  BY <1>9, ResetKeeps
<1>10. CASE Guard
  BY <1>10, GuardKeeps
<1>11. CASE UNCHANGED vars
  <2>1. /\ via' = via /\ exact' = exact /\ now' = now /\ bus' = bus /\ upset' = upset /\ used' = used
    BY <1>11 DEF vars
  <2>2. Good(via, exact, now, bus, upset)
    BY Here DEF Good
  <2>3. Good(via', exact', now', bus', upset')
    BY <2>1, <2>2, Zenon
  <2> QED BY <2>1, <2>3, GoodNext, Here
<1> QED BY <1>1, <1>2, <1>3, <1>4, <1>5, <1>6, <1>7, <1>8, <1>9, <1>10, <1>11 DEF Next

LEMMA Invariance == Spec => []IInv
<1>1. Init => IInv
  BY InitHolds
<1>2. IInv /\ [Next]_vars => IInv'
  BY NextKeeps
<1> QED BY <1>1, <1>2, PTL DEF Spec

(* The state is always of its type: no clock of an alarm or of the line     *)
(* wraps, whatever is stored and whenever the guard moves the clocks back   *)
(* (viacore.c, viacore_clk_overflow_callback).                              *)
THEOREM ViaTypes == Spec => []TypeOK
<1>1. IInv => TypeOK
  BY DEF IInv
<1> QED BY <1>1, Invariance, PTL

(* What viacore_read computes for T1CL, T1CH, T2CL, T2CH and IFR is what a  *)
(* chip that counts every cycle would show, whenever the one call of an     *)
(* overdue alarm of each timer leaves none overdue (viacore.c: myviata,     *)
(* myviatb and the beginning of viacore_read).                              *)
THEOREM CountersAreExact == Spec => []LazyIsExact
<1>1. ASSUME IInv
      PROVE  LazyIsExact
  <2>1. PICK read : read = CatchUp(via, now)
    OBVIOUS
  <2>2. ASSUME bus = "free", upset = {}, ~AnyOverdue(read, now)
        PROVE  Seen(read, now) = Counted
    <3>1. /\ read \in ViaChips /\ Sound(read, exact, now, "free")
          /\ InStep(read, exact, now, "free")
      BY <1>1, <2>1, <2>2, CatchUpSound
    <3>2. Near(read, now, "free") /\ read.t1.tal = exact.t1.tal
      BY <3>1 DEF Sound, Agree
    <3>3. /\ ~exact.t1.load /\ ~exact.t2.load /\ (exact.t2.pulse <=> "PULSE" \in read.acr)
      BY <3>1 DEF Sound, Apart
    <3>4. SameFlags(read, exact)
      BY <1>1, <2>2, <3>1, <3>2, NothingLate
    <3>5. /\ exact \in ExactChips /\ now \in Times /\ now \in Nat /\ now <= GuardMax + 1
          /\ used \in {"T1", "T2"}
      BY <1>1, Here, Constants DEF Times
    <3>6. ASSUME used = "T1"
          PROVE  Counter1(read, now) = exact.t1.cnt
      <4>1. Counts1(read, exact, now) /\ Settled1(read, exact, now)
        BY <1>1, <2>2, <3>1, <3>2, <3>6, NothingLate
      <4>2. ToEnd1(exact) = Expected1(read.t1.tau, read.t1.tal, now)
        BY <4>1, Zenon DEF Settled1
      <4> QED BY <3>1, <3>2, <3>3, <3>5, <4>1, <4>2, Counter1Reads
    <3>7. ASSUME used = "T2"
          PROVE  Counter2(read, now) = exact.t2.cnt
      <4>1. InStep2(read, exact, now, "free") /\ ~Overdue(read.t2.tbi, now)
        BY <2>2, <3>1, <3>7 DEF InStep, AnyOverdue
      <4> QED BY <3>1, <3>2, <3>3, <3>5, <4>1, Counter2Reads
    <3>8. read.ifr = exact.ifr
      BY <3>4 DEF SameFlags
    <3> QED BY <3>5, <3>6, <3>7, <3>8, Zenon DEF Seen, Counted
  <2> QED BY <2>1, <2>2, Zenon DEF LazyIsExact
<1> QED BY <1>1, Invariance, PTL

(* When no alarm is overdue the interrupt line is pulled if that chip pulls *)
(* it, and since the same cycle (viacore.c: viacore_intt1, viacore_intt2    *)
(* and update_myviairq_rclk, that pull it with the clock of the alarm).     *)
THEOREM LineOnTime == Spec => []IrqOnTime
<1>1. ASSUME IInv
      PROVE  IrqOnTime
  <2>1. ASSUME bus = "free", upset = {}, ~AnyOverdue(via, now)
        PROVE  via.irq = exact.irq
    BY <1>1, <2>1, ViaNotLate DEF SameFlags
  <2> QED BY <2>1 DEF IrqOnTime
<1> QED BY <1>1, Invariance, PTL
=============================================================================
