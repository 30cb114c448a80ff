----------------------------- MODULE PitProofs ------------------------------
(***************************************************************************)
(* How exact the calibration of start_timer is, for every divisor, counter *)
(* width and rate of the APIC timer (module Pit), the kernel's own 11931,  *)
(* two bytes and any rate below 2^32 counts per second among them.         *)
(***************************************************************************)
EXTENDS Pit, Integers, TLAPS

(* Values of the counter.                                                  *)
W == Base * Base

(* When the counter holds c, t periods after it was loaded.                *)
CountAt(c, t) == \E k \in Nat : c + t = Divisor + k * W

(* The wait ended when the high byte was 0.                                *)
WaitEnded == \E c \in 0..(Base - 1) : CountAt(c, waited)

PitInv ==
  /\ count \in 0..(W - 1)
  /\ {elapsed, since, waited, stopped, lo, init_count} \subseteq Nat
  /\ pc \in {"start", "apic", "lo", "hi", "done", "ticking", "panicked"}
  /\ pc # "start" => CountAt(count, elapsed)
  /\ pc = "apic" => elapsed <= MaxStart
  /\ since <= MaxStart
  /\ pc \in {"lo", "hi", "done"} => since <= elapsed /\ init_count = WordSize - 1
  /\ pc = "done" => waited <= elapsed /\ WaitEnded
  /\ CalibrationRight

-----------------------------------------------------------------------------
(* Arithmetic.                                                             *)

(* The remainder of what is a multiple of b away from c.                   *)
LEMMA ModUnique ==
  ASSUME NEW b \in Nat, b > 0, NEW c \in 0..(b - 1), NEW m \in Int
  PROVE  (c + m * b) % b = c
BY SMT

(* What division of naturals rounds.                                       *)
LEMMA DivBounds ==
  ASSUME NEW b \in Nat, b > 0, NEW x \in Nat
  PROVE  /\ x \div b \in Nat
         /\ (x \div b) * b <= x
         /\ x < ((x \div b) + 1) * b
BY SMT

(* Multiplication by a natural keeps the order.                            *)
LEMMA TimesMonotone ==
  ASSUME NEW a \in Nat, NEW x \in Int, NEW y \in Int, x <= y
  PROVE  a * x <= a * y
BY SMT

(* The counter can hold the divisor.                                       *)
LEMMA CounterValues == W \in Nat /\ W >= 4 /\ W > Base /\ Divisor \in 1..(W - 1)
BY PitAssumption DEF W

(* One period takes the counter to the next lower value, or from 0 to the  *)
(* largest.                                                                *)
LEMMA OnePeriod ==
  ASSUME NEW c \in 0..(W - 1), NEW t \in Nat, CountAt(c, t)
  PROVE  /\ (c + Base * Base - 1) % (Base * Base) \in 0..(W - 1)
         /\ CountAt((c + Base * Base - 1) % (Base * Base), t + 1)
<1>. USE CounterValues
<1>0. PICK k \in Nat : c + t = Divisor + k * W
  BY DEF CountAt
<1>1. CASE c = 0
  <2>1. (W - 1 + 0 * W) % W = W - 1
    BY ModUnique
  <2>2. (c + W - 1) % W = W - 1
    BY <1>1, <2>1
  <2>3. (W - 1) + (t + 1) = Divisor + (k + 1) * W
    BY <1>0, <1>1
  <2>. QED  BY <2>2, <2>3 DEF CountAt, W
<1>2. CASE c # 0
  <2>1. (c - 1 + 1 * W) % W = c - 1
    BY <1>2, ModUnique
  <2>2. (c + W - 1) % W = c - 1
    BY <2>1
  <2>3. (c - 1) + (t + 1) = Divisor + k * W
    BY <1>0
  <2>4. (c + Base * Base - 1) % (Base * Base) = c - 1
    BY <2>2 DEF W
  <2>5. CountAt(c - 1, t + 1) /\ c - 1 \in 0..(W - 1)
    BY <1>2, <2>3 DEF CountAt
  <2>. QED  BY <2>4, <2>5
<1>. QED  BY <1>1, <1>2

(* get_count can only make up a 0 when the high byte it reads is 0.        *)
LEMMA ReadsZero ==
  ASSUME NEW c \in 0..(W - 1), NEW l \in Nat,
         Base * (c \div Base) + l = 0
  PROVE  c \in 0..(Base - 1)
<1>1. Base \in Nat /\ Base > 0 /\ c \in Nat
  BY PitAssumption, CounterValues
<1>2. c \div Base \in Nat /\ c < ((c \div Base) + 1) * Base
  BY <1>1, DivBounds
<1> DEFINE q == c \div Base
<1>3. q \in Nat /\ Base * q + l = 0 /\ c < (q + 1) * Base
  BY <1>2
<1> HIDE DEF q
<1>4. q = 0
  BY <1>1, <1>3
<1>. QED  BY <1>1, <1>3, <1>4

(* The product of start_timer fits its u32 and the period of the tick is   *)
(* right, if the APIC timer ran for s periods, at most Divisor of them and *)
(* less than Base + MaxStart fewer.                                        *)
LEMMA PeriodRight ==
  ASSUME NEW s \in Nat, NEW d \in Nat, d <= MaxStart,
         s <= Divisor, s >= Divisor - Base - d
  PROVE  LET x == Rate * s * Hz
         IN  /\ x \in Nat /\ Rate * s <= x /\ x < WordSize
             /\ x \div TICK_FREQ > 0
             /\ (x \div TICK_FREQ) * TICK_FREQ <= Rate * Hz * Divisor
             /\ (x \div TICK_FREQ + 1) * TICK_FREQ > Rate * Hz * (Divisor - Base - d)
<1> DEFINE a == Rate * Hz
           x == Rate * s * Hz
           q == x \div TICK_FREQ
<1>0. /\ Rate \in Nat /\ Rate > 0 /\ Hz \in Nat /\ Hz > 0
      /\ TICK_FREQ \in Nat /\ TICK_FREQ > 0 /\ WordSize \in Nat
      /\ Divisor \in Nat /\ Base \in Nat /\ MaxStart \in Nat
      /\ Divisor - Base - MaxStart \in Int
      /\ a * Divisor < WordSize
      /\ a * (Divisor - Base - MaxStart) >= TICK_FREQ
  BY PitAssumption, CounterValues
<1>1. a \in Nat /\ x = a * s /\ x \in Nat
  BY <1>0
<1>2. Rate * s \in Nat /\ x = (Rate * s) * Hz
  BY <1>0
<1>3. Rate * s <= x
  <2>1. (Rate * s) * 1 <= (Rate * s) * Hz
    BY <1>0, <1>2, TimesMonotone
  <2>. QED  BY <1>2, <2>1
<1> HIDE DEF a, x
<1>4. x <= a * Divisor
  BY <1>0, <1>1, TimesMonotone
<1>5. x >= a * (Divisor - Base - d)
  BY <1>0, <1>1, TimesMonotone
<1>6. a * (Divisor - Base - d) >= a * (Divisor - Base - MaxStart)
  BY <1>0, <1>1, TimesMonotone
<1>7. q \in Nat /\ q * TICK_FREQ <= x /\ x < (q + 1) * TICK_FREQ
  BY <1>0, <1>1, DivBounds
<1>8. /\ a * Divisor \in Int /\ a * (Divisor - Base - d) \in Int
      /\ a * (Divisor - Base - MaxStart) \in Int
      /\ q * TICK_FREQ \in Int /\ (q + 1) * TICK_FREQ \in Int
  BY <1>0, <1>1, <1>7
<1>9. q > 0
  <2>. SUFFICES ASSUME q = 0 PROVE FALSE
    BY <1>7
  <2>1. x < TICK_FREQ
    BY <1>0, <1>1, <1>7
  <2>. QED  BY <1>0, <1>1, <1>5, <1>6, <1>8, <2>1
<1>10. x < WordSize
  BY <1>0, <1>1, <1>4, <1>8
<1>11. q * TICK_FREQ <= a * Divisor
  BY <1>1, <1>4, <1>7, <1>8
<1>12. (q + 1) * TICK_FREQ > a * (Divisor - Base - d)
  BY <1>1, <1>5, <1>7, <1>8
<1>. QED  BY <1>1, <1>3, <1>9, <1>10, <1>11, <1>12 DEF a, x

-----------------------------------------------------------------------------
(* The wait and the calibration.                                           *)

(* Where the counter is follows from the time since it was loaded, and so  *)
(* does, in the end, what start_timer measures.                            *)
THEOREM PitInvariance == Spec => []PitInv
<1>. USE PitAssumption
<1>1. Init => PitInv
  BY CounterValues DEF Init, PitInv, CalibrationRight
<1>2. ASSUME PitInv, [Next]_vars PROVE PitInv'
  <2>. USE <1>2
  <2>1. CASE start_timer
    <3>1. CountAt(Divisor, 0) /\ Divisor \in 0..(W - 1)
      <4>1. 0 \in Nat /\ Divisor + 0 = Divisor + 0 * W
        BY CounterValues
      <4>2. CountAt(Divisor, 0)
        BY <4>1, Zenon DEF CountAt
      <4>. QED  BY <4>2, CounterValues
    <3>2. CountAt(count, elapsed)'
      BY <2>1, <3>1 DEF start_timer, CountAt
    <3>. QED  BY <2>1, <3>1, <3>2 DEF start_timer, PitInv, CalibrationRight
  <2>2. CASE start_apic
    <3>1. CountAt(count, elapsed)'
      BY <2>2 DEF start_apic, PitInv, CountAt
    <3>. QED  BY <2>2, <3>1 DEF start_apic, PitInv, CalibrationRight
  <2>3. CASE get_count_lo
    <3>1. CountAt(count, elapsed)'
      BY <2>3 DEF get_count_lo, PitInv, CountAt
    <3>2. count % Base \in Nat
      BY CounterValues DEF PitInv
    <3>. QED  BY <2>3, <3>1, <3>2 DEF get_count_lo, PitInv, CalibrationRight
  <2>4. CASE get_count_hi
    <3>1. CountAt(count, elapsed)'
      BY <2>4 DEF get_count_hi, PitInv, CountAt
    <3>2. CASE Base * (count \div Base) + lo = 0
      <4>1. count \in 0..(Base - 1) /\ CountAt(count, elapsed)
        BY <2>4, <3>2, ReadsZero DEF get_count_hi, PitInv
      <4>2. WaitEnded'
        BY <2>4, <3>2, <4>1 DEF get_count_hi, WaitEnded, CountAt
      <4>. QED  BY <2>4, <3>1, <3>2, <4>2
                DEF get_count_hi, PitInv, CalibrationRight
    <3>3. CASE ~ (Base * (count \div Base) + lo = 0)
      BY <2>4, <3>1, <3>3 DEF get_count_hi, PitInv, CalibrationRight
    <3>. QED  BY <3>2, <3>3
  <2>5. CASE set_periodic
    <3>0. /\ pc = "done" /\ stopped' = elapsed /\ since' = since
          /\ UNCHANGED <<count, elapsed, lo, waited>>
          /\ pc' \in {"ticking", "panicked"}
      BY <2>5 DEF set_periodic
    <3>1. CountAt(count, elapsed)'
      BY <3>0 DEF PitInv, CountAt
    <3> DEFINE s == elapsed - since
               x == (WordSize - 1 - CURRENT_COUNT) * Hz
    <3>2. /\ s \in Nat /\ since \in Nat /\ since <= MaxStart
          /\ init_count = WordSize - 1
      BY <3>0 DEF PitInv
    <3>3. CURRENT_COUNT \in 0..(WordSize - 1)
      <4>1. Rate * s \in Nat
        BY <3>2
      <4>. QED  BY <3>2, <4>1 DEF CURRENT_COUNT
    <3>4. x \in Nat /\ (x % WordSize) \div TICK_FREQ \in Nat
      <4>1. x \in Nat
        BY <3>3
      <4>2. x % WordSize \in Nat
        BY <4>1
      <4>. QED  BY <4>1, <4>2, DivBounds
    <3>5. init_count' \in Nat
      BY <2>5, <3>2, <3>4 DEF set_periodic
    <3>6. CalibrationRight'
      <4>. SUFFICES ASSUME elapsed <= Divisor
                    PROVE  CalibrationRight'
        BY <3>0 DEF CalibrationRight
      <4>1. PICK c \in 0..(Base - 1), k \in Nat : c + waited = Divisor + k * W
        BY <3>0 DEF PitInv, WaitEnded, CountAt
      <4>2. waited \in Nat /\ elapsed \in Nat /\ waited <= elapsed
        BY <3>0 DEF PitInv
      <4>3. k * W >= 0 /\ k * W \in Int
        BY CounterValues
      <4>4. s <= Divisor /\ s >= Divisor - Base - since
        BY <3>2, <4>1, <4>2, <4>3, CounterValues
      <4> DEFINE y == Rate * s * Hz
      <4>5. /\ y \in Nat /\ Rate * s <= y /\ y < WordSize
            /\ y \div TICK_FREQ > 0
            /\ (y \div TICK_FREQ) * TICK_FREQ <= Rate * Hz * Divisor
            /\ (y \div TICK_FREQ + 1) * TICK_FREQ
                 > Rate * Hz * (Divisor - Base - since)
        BY <3>2, <4>4, PeriodRight
      <4>6. Rate * s \in Nat
        BY <3>2
      <4>7. CURRENT_COUNT = WordSize - 1 - Rate * s
        BY <3>2, <4>5, <4>6 DEF CURRENT_COUNT
      <4>8. x = y
        BY <4>6, <4>7
      <4>9. x % WordSize = x
        <5>1. (x + 0 * WordSize) % WordSize = x
          BY <4>5, <4>8, ModUnique
        <5>. QED  BY <3>4, <5>1
      <4>10. pc' = "ticking" /\ init_count' = y \div TICK_FREQ
        BY <2>5, <4>5, <4>8, <4>9 DEF set_periodic
      <4>. QED  BY <3>0, <4>5, <4>10 DEF CalibrationRight
    <3>. QED  BY <3>0, <3>1, <3>5, <3>6 DEF PitInv
  <2>6. CASE CountDown
    <3>1. /\ count' \in 0..(W - 1) /\ elapsed' = elapsed + 1
          /\ CountAt(count', elapsed + 1)
      BY <2>6, OnePeriod DEF CountDown, PitInv
    <3>2. CountAt(count, elapsed)'
      BY <3>1 DEF CountAt
    <3>3. WaitEnded => WaitEnded'
      BY <2>6 DEF CountDown, WaitEnded, CountAt
    <3>. QED  BY <2>6, <3>1, <3>2, <3>3 DEF CountDown, PitInv, CalibrationRight
  <2>7. CASE UNCHANGED vars
    BY <2>7 DEF vars, PitInv, CountAt, WaitEnded, CalibrationRight
  <2>. QED  BY <2>1, <2>2, <2>3, <2>4, <2>5, <2>6, <2>7 DEF Next
<1>. QED  BY <1>1, <1>2, PTL DEF Spec

(* Torn reads of the counter end the wait of start_timer less than Base    *)
(* periods before a pass of the counter through 0, and not before the      *)
(* first.                                                                  *)
THEOREM WaitExact == Spec => []WaitAlmostExact
<1>1. ASSUME PitInv PROVE WaitAlmostExact
  <2>. SUFFICES ASSUME pc = "done" PROVE WaitAlmostExact
    BY DEF WaitAlmostExact
  <2>. USE PitAssumption, CounterValues
  <2>1. PICK c \in 0..(Base - 1), k \in Nat : c + waited = Divisor + k * W
    BY <1>1 DEF PitInv, WaitEnded, CountAt
  <2>2. waited \in Nat /\ k * W \in Nat
    BY <1>1 DEF PitInv
  <2>3. waited + Base > Divisor
    BY <2>1, <2>2
  <2> DEFINE m == MaxElapsed + 1 - k
  <2>4. (MaxElapsed + 1) * W = k * W + m * W /\ m \in Int /\ m * W \in Int
    OBVIOUS
  <2>5. Divisor + (MaxElapsed + 1) * W - waited = c + m * W
    BY <2>1, <2>2, <2>4
  <2>6. c \in 0..(W - 1)
    OBVIOUS
  <2>7. (Divisor + (MaxElapsed + 1) * W - waited) % W = c
    <3>0. W \in Nat /\ W > 0 /\ m \in Int
      BY <2>4
    <3>. HIDE PitAssumption, CounterValues DEF m
    <3>1. (c + m * W) % W = c
      BY <2>6, <3>0, ModUnique, Zenon
    <3>. QED  BY <2>5, <3>1, Zenon
  <2>8. (MaxElapsed + 1) * Base * Base = (MaxElapsed + 1) * W
    BY DEF W
  <2>. QED  BY <2>3, <2>7, <2>8 DEF WaitAlmostExact, W
<1>. QED  BY <1>1, PitInvariance, PTL

(* A wait caught on the first pass programs the APIC timer with a period   *)
(* that is not 0, not too long, and short by no more than the torn read    *)
(* and the late start.                                                     *)
THEOREM CalibrationExact == Spec => []CalibrationRight
<1>1. PitInv => CalibrationRight
  BY DEF PitInv
<1>. QED  BY <1>1, PitInvariance, PTL
=============================================================================
