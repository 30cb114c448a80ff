-------------------------------- MODULE Pit ---------------------------------
(***************************************************************************)
(* Calibration of the APIC timer against the interval timer: start_timer   *)
(* of kernel/src/time.rs and ProgrammableIntervalTimer of                  *)
(* kernel/src/pit.rs.  calc_cpu_freq (kernel/src/apic.rs) waits for 10 ms  *)
(* in the same way.                                                        *)
(*                                                                         *)
(* The count has two digits of base Base (bytes) and get_count reads them  *)
(* one after the other, without latching, while the timer counts on.  Both *)
(* callers have interrupts off and hold PIT0's lock for each read.         *)
(***************************************************************************)
EXTENDS Naturals

CONSTANTS
  Base,      \* 256
  Divisor,   \* TIMER_FREQUENCY / Hz
  Hz,        \* 100: the wait is 1/Hz s
  TICK_FREQ, \* ticks wanted per second
  Rate,      \* counts of the APIC timer in one period of the interval timer
  WordSize,  \* 2^32
  MaxStart,  \* bound: periods until the APIC timer is started
  MaxElapsed \* bound: timer periods followed

(* divisor fits in a u16, or start_timer returns TryFromIntError.  The     *)
(* APIC timer is slow enough for a second of its counts to fit in a u32,   *)
(* and fast enough for the wait to see TICK_FREQ of them per second.       *)
ASSUME PitAssumption ==
  /\ Base \in Nat /\ Base >= 2
  /\ Divisor \in 1..(Base * Base - 1)
  /\ {Hz, TICK_FREQ, Rate, WordSize} \subseteq Nat \ {0}
  /\ {MaxStart, MaxElapsed} \subseteq Nat
  /\ Rate * Hz * Divisor < WordSize
  /\ Divisor > Base + MaxStart
  /\ Rate * Hz * (Divisor - Base - MaxStart) >= TICK_FREQ

VARIABLES
  count,     \* the channel's counter
  elapsed,   \* periods since it was loaded
  pc,        \* where start_timer is
  lo,        \* the low byte read
  since,     \* elapsed when the APIC timer was started...
  waited,    \* ...when the wait ended...
  stopped,   \* ...and when the APIC timer's count was read
  init_count \* what was written to XAPIC_TIMER_INIT_COUNT last

vars == <<count, elapsed, pc, lo, since, waited, stopped, init_count>>

Init ==
  /\ count = 0 /\ elapsed = 0
  /\ pc = "start" /\ lo = 0 /\ since = 0 /\ waited = 0 /\ stopped = 0
  /\ init_count = 0

start_timer ==
  /\ pc = "start"
  /\ count' = Divisor /\ elapsed' = 0
  /\ pc' = "apic"
  /\ UNCHANGED <<lo, since, waited, stopped, init_count>>

start_apic ==
  /\ pc = "apic"
  /\ init_count' = WordSize - 1 /\ since' = elapsed
  /\ pc' = "lo"
  /\ UNCHANGED <<count, elapsed, lo, waited, stopped>>

get_count_lo ==
  /\ pc = "lo"
  /\ lo' = count % Base
  /\ pc' = "hi"
  /\ UNCHANGED <<count, elapsed, since, waited, stopped, init_count>>

(* Mutant: only the low byte is looked at.                                 *)
get_count_low_byte_only ==
  /\ pc = "hi"
  /\ IF lo = 0
     THEN pc' = "done" /\ waited' = elapsed
     ELSE pc' = "lo" /\ UNCHANGED waited
  /\ UNCHANGED <<count, elapsed, lo, since, stopped, init_count>>

(* while get_count() != 0 {}                                               *)
get_count_hi ==
  /\ pc = "hi"
  /\ IF Base * (count \div Base) + lo = 0
     THEN pc' = "done" /\ waited' = elapsed
     ELSE pc' = "lo" /\ UNCHANGED waited
  /\ UNCHANGED <<count, elapsed, lo, since, stopped, init_count>>

(* The APIC timer counts down to 0 and stays there.                        *)
CURRENT_COUNT ==
  IF Rate * (elapsed - since) > init_count
  THEN 0
  ELSE init_count - Rate * (elapsed - since)

(* Mutant: what is left of the count is taken for what has gone by.        *)
set_periodic_remaining ==
  /\ pc = "done"
  /\ stopped' = elapsed
  /\ pc' = "ticking"
  /\ init_count' = ((CURRENT_COUNT * Hz) % WordSize) \div TICK_FREQ
  /\ UNCHANGED <<count, elapsed, lo, since, waited>>

(* The end of start_timer.  ticks_per_10ms * 100 is a u32 product: above   *)
(* its range it panics with overflow checks on, and wraps without them.    *)
set_periodic ==
  /\ pc = "done"
  /\ stopped' = elapsed
  /\ LET ticks_per_10ms == WordSize - 1 - CURRENT_COUNT
         ticks_per_s == ticks_per_10ms * Hz
     IN  \/ /\ pc' = "ticking"
            /\ init_count' = (ticks_per_s % WordSize) \div TICK_FREQ
         \/ /\ ticks_per_s >= WordSize
            /\ pc' = "panicked" /\ UNCHANGED init_count
  /\ UNCHANGED <<count, elapsed, lo, since, waited>>

(* In mode 0 the counter goes on from 0 to its largest value.              *)
CountDown ==
  /\ pc \in {"apic", "lo", "hi", "done"}
  /\ elapsed < IF pc = "apic" THEN MaxStart ELSE MaxElapsed
  /\ elapsed' = elapsed + 1
  /\ count' = (count + Base * Base - 1) % (Base * Base)
  /\ UNCHANGED <<pc, lo, since, waited, stopped, init_count>>

Next ==
  \/ start_timer \/ start_apic \/ get_count_lo \/ get_count_hi \/ set_periodic
  \/ CountDown

Spec == Init /\ [][Next]_vars

-----------------------------------------------------------------------------
(* Properties.                                                             *)

(* However the two reads of get_count are torn, the wait ends less than    *)
(* Base periods early (256 of 11931, 2%), or as much before a later pass   *)
(* of the counter through 0.                                               *)
WaitAlmostExact ==
  pc = "done" =>
    /\ waited + Base > Divisor
    /\ (Divisor + (MaxElapsed + 1) * Base * Base - waited) % (Base * Base) < Base

(* When the counter is caught on its first pass the calibration succeeds,  *)
(* and the period of the tick is never longer than 1/TICK_FREQ s and never *)
(* shorter by more than the torn read and the late start account for; in   *)
(* particular the periodic count is not 0, which would stop the timer.     *)
CalibrationRight ==
  pc \in {"ticking", "panicked"} /\ stopped <= Divisor =>
    /\ pc = "ticking" /\ init_count > 0
    /\ init_count * TICK_FREQ <= Rate * Hz * Divisor
    /\ (init_count + 1) * TICK_FREQ > Rate * Hz * (Divisor - Base - since)
=============================================================================
