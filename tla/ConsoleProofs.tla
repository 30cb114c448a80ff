---------------------------- MODULE ConsoleProofs ---------------------------
(***************************************************************************)
(* Locks, interrupt handlers and counters of the console (module Console), *)
(* for any number and length of lines, any buffer of the UART, and faults  *)
(* at any place.                                                           *)
(*                                                                         *)
(* The argument: kmain holds LAPIC only while interrupts are off and COM1  *)
(* only while it writes a line, so a handler that runs meets a taken lock  *)
(* only in the middle of a line; a panic keeps interrupts off for good.    *)
(***************************************************************************)
EXTENDS Console, SequenceTheorems, WellFoundedInduction, TLAPS

(* A non-empty set of naturals has a least element.                        *)
LEMMA LeastNat ==
  ASSUME NEW S \in SUBSET Nat, S # {}
  PROVE  \E n \in S : \A m \in S : n <= m
<1> DEFINE less == OpToRel(<, Nat)
<1>1. \E x \in S : \A y \in S : ~ (<<y, x>> \in less)
  BY NatLessThanWellFounded, WFMin
<1>2. \A x, y \in Nat : x < y => <<x, y>> \in less
  BY DEF OpToRel
<1>3. \E x \in S : \A y \in S : ~ (y < x)
  BY <1>1, <1>2, Zenon
<1> QED
  BY <1>3

(* Where kmain can be when interrupts are on, or a handler runs.           *)
Control ==
  /\ panicked => ~ iflag /\ handler = "none" /\ pc \in {"print", "write", "halted"}
  /\ iflag => handler = "none"
  /\ iflag \/ handler # "none" => pc \in {"print", "write", "hlt"}

(* Who can have the locks.                                                 *)
Locks ==
  /\ lapic = "kmain" => pc = "calibrate" \/ panicked
  /\ com1 = "kmain" => pc \in {"enable", "write"} \/ panicked
  /\ com1 = "handler" <=> handler = "drain"

(* There is a line to print, and a byte of it to write.                    *)
Counters ==
  /\ pc \notin {"hlt", "halted"} => lines >= 1
  /\ pc = "write" => left >= 1

ConsoleInv == TypeOK /\ Control /\ Locks /\ Counters /\ TicksCounted

(* The console is not busy with input before kmain is idle.                *)
IdleInput ==
  rx # <<>> \/ "com1" \in irr \/ handler \in {"com1", "drain"} => pc = "hlt" \/ panicked

(* echoed is what is written for the bytes that were read, and the others  *)
(* are in the UART, in the order they came.                                *)
EchoedInOrder ==
  \E n \in 0..Len(received) : /\ echoed = EchoAll(SubSeq(received, 1, n))
                              /\ rx = SubSeq(received, n + 1, Len(received))

-----------------------------------------------------------------------------
(* EchoAll.                                                                *)

(* The function by which EchoAll is defined, and what it is a solution of. *)
EchoUpto(s) ==
  CHOOSE f : f = [n \in 0..Len(s) |-> IF n = 0 THEN <<>> ELSE f[n - 1] \o Echo(s[n])]

IsEcho(f, s, k) ==
  f = [n \in 0..k |-> IF n = 0 THEN <<>> ELSE f[n - 1] \o Echo(s[n])]

(* The recursion of EchoAll has a solution: by the least k without one.    *)
LEMMA EchoExists ==
  ASSUME NEW s, NEW k \in Nat
  PROVE  \E f : IsEcho(f, s, k)
<1> DEFINE Bad == {j \in Nat : ~ \E f : IsEcho(f, s, j)}
<1> SUFFICES ASSUME Bad # {} PROVE FALSE
  OBVIOUS
<1>1. PICK j \in Bad : \A i \in Bad : j <= i
  <2>1. Bad \in SUBSET Nat
    OBVIOUS
  <2> HIDE DEF Bad
  <2> QED
    BY <2>1, LeastNat, Zenon
<1>2. j # 0
  <2> DEFINE g == [n \in 0..0 |-> <<>>]
  <2>1. \A n \in 0..0 : n = 0
    OBVIOUS
  <2>2. IsEcho(g, s, 0)
    BY <2>1 DEF IsEcho
  <2> QED
    BY <2>2
<1>3. j \in Nat /\ j - 1 \in Nat /\ j - 1 \notin Bad
  BY <1>1, <1>2
<1>4. PICK f : IsEcho(f, s, j - 1)
  BY <1>3
<1> DEFINE g == [n \in 0..j |-> IF n = j THEN f[j - 1] \o Echo(s[j]) ELSE f[n]]
<1>5. \A n \in 0..(j - 1) :
        f[n] = IF n = 0 THEN <<>> ELSE f[n - 1] \o Echo(s[n])
  BY <1>4, Zenon DEF IsEcho
<1>6. \A n \in 0..j : g[n] = IF n = 0 THEN <<>> ELSE g[n - 1] \o Echo(s[n])
  <2> SUFFICES ASSUME NEW n \in 0..j
               PROVE  g[n] = IF n = 0 THEN <<>> ELSE g[n - 1] \o Echo(s[n])
    BY Zenon
  <2>1. CASE n = j
    <3>1. g[n] = f[j - 1] \o Echo(s[j])
      BY <2>1, Zenon
    <3>2. j - 1 \in 0..j /\ j - 1 # j /\ n # 0
      BY <1>2, <1>3, <2>1
    <3>3. g[n - 1] = f[j - 1]
      BY <2>1, <3>2
    <3> QED
      BY <2>1, <3>1, <3>2, <3>3, Zenon
  <2>2. CASE n # j
    <3>1. n \in 0..(j - 1) /\ g[n] = f[n]
      BY <1>3, <2>2
    <3>2. n # 0 => n - 1 \in 0..j /\ n - 1 # j
      BY <1>3, <2>2
    <3>3. n # 0 => g[n - 1] = f[n - 1]
      BY <3>2
    <3> QED
      BY <1>5, <3>1, <3>3, Zenon
  <2> QED
    BY <2>1, <2>2
<1>7. IsEcho(g, s, j)
  <2>1. g = [n \in 0..j |-> g[n]]
    OBVIOUS
  <2> HIDE DEF g
  <2> QED
    BY <1>6, <2>1, Zenon DEF IsEcho
<1> QED
  BY <1>7

(* Two sequences that agree are echoed alike as far as they do.            *)
LEMMA EchoAgrees ==
  ASSUME NEW s, NEW t, NEW f, NEW g, NEW j \in Nat, NEW k \in Nat, j <= k,
         IsEcho(f, s, j), IsEcho(g, t, k), \A n \in 1..j : s[n] = t[n]
  PROVE  \A n \in 0..j : f[n] = g[n]
<1> DEFINE Bad == {n \in 0..j : f[n] # g[n]}
<1> SUFFICES ASSUME Bad # {} PROVE FALSE
  OBVIOUS
<1>1. PICK n \in Bad : \A i \in Bad : n <= i
  <2>1. Bad \in SUBSET Nat
    OBVIOUS
  <2> HIDE DEF Bad
  <2> QED
    BY <2>1, LeastNat, Zenon
<1>2. /\ f[n] = IF n = 0 THEN <<>> ELSE f[n - 1] \o Echo(s[n])
      /\ g[n] = IF n = 0 THEN <<>> ELSE g[n - 1] \o Echo(t[n])
  <2>1. n \in 0..j /\ n \in 0..k
    BY <1>1
  <2> QED
    BY <2>1, Zenon DEF IsEcho
<1>3. n # 0 /\ f[n] # g[n]
  BY <1>1, <1>2
<1>4. n - 1 \in 0..j /\ n - 1 \notin Bad /\ n \in 1..j
  BY <1>1, <1>3
<1>5. f[n - 1] = g[n - 1] /\ s[n] = t[n]
  BY <1>4
<1> QED
  BY <1>2, <1>3, <1>5, Zenon

(* EchoAll is what its recursion says.                                     *)
LEMMA EchoAllIs ==
  ASSUME NEW s \in Seq(Keys)
  PROVE  IsEcho(EchoUpto(s), s, Len(s)) /\ EchoAll(s) = EchoUpto(s)[Len(s)]
<1>1. Len(s) \in Nat
  BY LenProperties
<1>2. \E f : IsEcho(f, s, Len(s))
  BY <1>1, EchoExists, Zenon
<1>3. IsEcho(EchoUpto(s), s, Len(s))
  BY <1>2, Zenon DEF EchoUpto, IsEcho
<1>4. EchoAll(s) = EchoUpto(s)[Len(s)]
  BY Zenon DEF EchoUpto, EchoAll
<1> QED
  BY <1>3, <1>4

(* One more byte is echoed behind the others.                              *)
LEMMA EchoOneMore ==
  ASSUME NEW s \in Seq(Keys), NEW n \in 1..Len(s)
  PROVE  EchoAll(SubSeq(s, 1, n)) = EchoAll(SubSeq(s, 1, n - 1)) \o Echo(s[n])
<1> DEFINE t == SubSeq(s, 1, n)
           r == SubSeq(s, 1, n - 1)
<1>1. n \in Nat /\ n - 1 \in Nat /\ n >= 1 /\ Len(s) \in Nat /\ n <= Len(s)
  BY LenProperties
<1>2. /\ t \in Seq(Keys) /\ Len(t) = n /\ \A i \in 1..n : t[i] = s[i]
      /\ r \in Seq(Keys) /\ Len(r) = n - 1 /\ \A i \in 1..(n - 1) : r[i] = s[i]
  BY <1>1
<1> HIDE DEF t, r
<1>3. /\ IsEcho(EchoUpto(t), t, n) /\ EchoAll(t) = EchoUpto(t)[n]
      /\ IsEcho(EchoUpto(r), r, n - 1) /\ EchoAll(r) = EchoUpto(r)[n - 1]
  BY <1>2, EchoAllIs
<1>4. \A i \in 1..(n - 1) : r[i] = t[i]
  BY <1>1, <1>2
<1>5. n - 1 \in 0..(n - 1) /\ n \in 0..n /\ n # 0 /\ n - 1 <= n
  BY <1>1
<1>6. EchoUpto(r)[n - 1] = EchoUpto(t)[n - 1]
  <2> DEFINE f == EchoUpto(r)
             g == EchoUpto(t)
  <2>1. IsEcho(f, r, n - 1) /\ IsEcho(g, t, n)
    BY <1>3
  <2> HIDE DEF f, g
  <2>2. \A i \in 0..(n - 1) : f[i] = g[i]
    BY <1>1, <1>4, <1>5, <2>1, EchoAgrees
  <2> QED
    BY <1>5, <2>2, Zenon DEF f, g
<1>7. EchoUpto(t)[n] = EchoUpto(t)[n - 1] \o Echo(t[n])
  BY <1>3, <1>5, Zenon DEF IsEcho
<1>8. t[n] = s[n]
  BY <1>1, <1>2
<1> QED
  BY <1>3, <1>6, <1>7, <1>8, Zenon DEF t, r

(* Nothing is echoed of nothing.                                           *)
LEMMA EchoNothing == EchoAll(<<>>) = <<>>
<1>1. <<>> \in Seq(Keys) /\ Len(<<>>) = 0
  BY EmptySeq
<1>2. IsEcho(EchoUpto(<<>>), <<>>, 0) /\ EchoAll(<<>>) = EchoUpto(<<>>)[0]
  BY <1>1, EchoAllIs, Zenon
<1> QED
  BY <1>2 DEF IsEcho

-----------------------------------------------------------------------------
(* The invariant.                                                          *)

(* The invariant holds when kmain is entered.                              *)
LEMMA ConsoleInit == Init => ConsoleInv
<1> SUFFICES ASSUME Init PROVE ConsoleInv
  OBVIOUS
<1>1. <<>> \in Seq(Keys)
  BY EmptySeq
<1>2. TypeOK
  <2>1. /\ 0 \in 0..MaxTicks /\ 0 \in 0..(LineBytes + 2)
        /\ Lines \in 0..(Lines + 3 + 2)
    BY ConsoleAssumption
  <2> QED
    BY <1>1, <2>1, Zenon DEF Init, TypeOK
<1>3. Control /\ Locks
  BY DEF Init, Control, Locks
<1>4. Counters /\ TicksCounted
  BY ConsoleAssumption DEF Init, Counters, TicksCounted
<1> QED
  BY <1>2, <1>3, <1>4 DEF ConsoleInv

(* Entering panic() from kmain, or from the handler of another vector, in  *)
(* whatever state the locks are.                                           *)
PanicStep ==
  /\ handler = "none"
  /\ pc' = "print" /\ lines' \in {2, 3 + 2} /\ panicked' = TRUE /\ iflag' = FALSE
  /\ UNCHANGED <<left, handler, com1, lapic, ready, ticks, uart, apics>>

(* panic() keeps the invariant, at whatever place it is called.            *)
LEMMA PanicKeepsInv ==
  ASSUME ConsoleInv, PanicStep
  PROVE  ConsoleInv'
<1>1. TypeOK'
  <2>1. lines' \in 0..(Lines + 3 + 2)
    BY ConsoleAssumption DEF PanicStep
  <2> QED
    BY <2>1, Zenon DEF ConsoleInv, PanicStep, TypeOK, uart, apics
<1>2. Control' /\ Locks'
  BY DEF ConsoleInv, PanicStep, TypeOK, Control, Locks
<1>3. Counters' /\ TicksCounted'
  BY DEF ConsoleInv, PanicStep, Counters, TicksCounted, apics
<1> QED
  BY <1>1, <1>2, <1>3 DEF ConsoleInv

(* A summand is no more than the sum.                                      *)
LEMMA PartsBelow ==
  ASSUME NEW f \in Nat, NEW t \in Nat, NEW m \in Nat, NEW p \in Nat, NEW q \in Nat,
         NEW max \in Nat, f <= max, f = t + m + p + q
  PROVE  t <= max /\ m <= max
OBVIOUS

(* Every step of kmain, of a handler and of a device keeps the invariant.  *)
LEMMA ConsoleNext == ConsoleInv /\ [Next]_vars => ConsoleInv'
<1> SUFFICES ASSUME ConsoleInv, [Next]_vars PROVE ConsoleInv'
  OBVIOUS
<1>1. CASE init_memory
  <2>1. CASE panic
    <3>1. PanicStep
      BY <1>1, <2>1 DEF init_memory, Continue, panic, PanicStep, Kmain, apics
    <3> QED
      BY <3>1, PanicKeepsInv
  <2>2. CASE Continue("attach")
    <3>1. TypeOK'
      BY <1>1, <2>2 DEF ConsoleInv, TypeOK, uart, apics, init_memory, Continue, panic
    <3>2. Control' /\ Locks'
      BY <1>1, <2>2 DEF ConsoleInv, TypeOK, Control, Locks, Kmain, init_memory,
         Continue, panic
    <3>3. Counters' /\ TicksCounted'
      BY <1>1, <2>2 DEF ConsoleInv, Counters, TicksCounted, Kmain, apics, init_memory,
         Continue, panic
    <3> QED
      BY <3>1, <3>2, <3>3 DEF ConsoleInv
  <2> QED
    BY <1>1, <2>1, <2>2 DEF init_memory
<1>2. CASE attach
  <2>1. TypeOK'
    BY <1>2, ConsoleAssumption DEF ConsoleInv, TypeOK, Counters, TicksCounted, Kmain,
       uart, apics, attach, Continue
  <2>2. Control' /\ Locks'
    BY <1>2 DEF ConsoleInv, TypeOK, Control, Locks, Kmain, uart, apics, attach, Continue
  <2>3. Counters' /\ TicksCounted'
    BY <1>2, ConsoleAssumption DEF ConsoleInv, TypeOK, Control, Counters,
       TicksCounted, Kmain, uart, apics, attach, Continue
  <2> QED
    BY <2>1, <2>2, <2>3 DEF ConsoleInv
<1>3. CASE disable_all
  <2>1. CASE panic
    <3>1. PanicStep
      BY <1>3, <2>1 DEF disable_all, Continue, panic, PanicStep, Kmain, apics
    <3> QED
      BY <3>1, PanicKeepsInv
  <2>2. CASE Continue("com1")
    <3>1. TypeOK'
      BY <1>3, <2>2, Zenon DEF ConsoleInv, TypeOK, uart, disable_all, Continue, panic
    <3>2. Control' /\ Locks'
      BY <1>3, <2>2 DEF ConsoleInv, TypeOK, Control, Locks, Kmain, disable_all,
         Continue, panic
    <3>3. Counters' /\ TicksCounted'
      BY <1>3, <2>2 DEF ConsoleInv, Counters, TicksCounted, Kmain, apics, disable_all,
         Continue, panic
    <3> QED
      BY <3>1, <3>2, <3>3 DEF ConsoleInv
  <2> QED
    BY <1>3, <2>1, <2>2 DEF disable_all
<1>4. CASE lock_com1
  <2>1. TypeOK'
    BY <1>4, ConsoleAssumption, Zenon DEF ConsoleInv, TypeOK, Counters, TicksCounted, Kmain,
       uart, apics, lock_com1, Com1Lock, init_serial_fails, Continue
  <2>2. Control' /\ Locks'
    BY <1>4 DEF ConsoleInv, TypeOK, Control, Locks, Kmain, uart, apics, lock_com1,
       Com1Lock, init_serial_fails, Continue
  <2>3. Counters' /\ TicksCounted'
    BY <1>4, ConsoleAssumption DEF ConsoleInv, TypeOK, Control, Counters,
       TicksCounted, Kmain, uart, apics, lock_com1, Com1Lock, init_serial_fails, Continue
  <2> QED
    BY <2>1, <2>2, <2>3 DEF ConsoleInv
<1>5. CASE enable_interrupts
  <2>1. CASE panic
    <3>1. PanicStep
      BY <1>5, <2>1 DEF enable_interrupts, Continue, panic, PanicStep, Kmain, apics
    <3> QED
      BY <3>1, PanicKeepsInv
  <2>2. CASE Continue("timer")
    <3>1. TypeOK'
      BY <1>5, <2>2, Zenon DEF ConsoleInv, TypeOK, uart, enable_interrupts, Continue, panic
    <3>2. Control' /\ Locks'
      BY <1>5, <2>2 DEF ConsoleInv, TypeOK, Control, Locks, Kmain, enable_interrupts,
         Continue, panic
    <3>3. Counters' /\ TicksCounted'
      BY <1>5, <2>2 DEF ConsoleInv, Counters, TicksCounted, Kmain, apics, enable_interrupts,
         Continue, panic
    <3> QED
      BY <3>1, <3>2, <3>3 DEF ConsoleInv
  <2> QED
    BY <1>5, <2>1, <2>2 DEF enable_interrupts
<1>6. CASE start_timer_lock
  <2>1. TypeOK'
    BY <1>6, ConsoleAssumption DEF ConsoleInv, TypeOK, Counters, TicksCounted, Kmain,
       uart, apics, start_timer_lock, Continue
  <2>2. Control' /\ Locks'
    BY <1>6 DEF ConsoleInv, TypeOK, Control, Locks, Kmain, uart, apics,
       start_timer_lock, Continue
  <2>3. Counters' /\ TicksCounted'
    BY <1>6, ConsoleAssumption DEF ConsoleInv, TypeOK, Control, Counters,
       TicksCounted, Kmain, uart, apics, start_timer_lock, Continue
  <2> QED
    BY <2>1, <2>2, <2>3 DEF ConsoleInv
<1>7. CASE start_timer
  <2>1. CASE panic
    <3>1. PanicStep
      BY <1>7, <2>1 DEF start_timer, Continue, panic, PanicStep, Kmain, apics
    <3> QED
      BY <3>1, PanicKeepsInv
  <2>2. CASE Continue("sti")
    <3>1. TypeOK'
      BY <1>7, <2>2 DEF ConsoleInv, TypeOK, uart, start_timer, Continue, panic
    <3>2. Control' /\ Locks'
      BY <1>7, <2>2 DEF ConsoleInv, TypeOK, Control, Locks, Kmain, start_timer,
         Continue, panic
    <3>3. Counters' /\ TicksCounted'
      BY <1>7, <2>2 DEF ConsoleInv, Counters, TicksCounted, Kmain, apics, start_timer,
         Continue, panic
    <3> QED
      BY <3>1, <3>2, <3>3 DEF ConsoleInv
  <2> QED
    BY <1>7, <2>1, <2>2 DEF start_timer
<1>8. CASE sti
  <2>1. TypeOK'
    BY <1>8, ConsoleAssumption DEF ConsoleInv, TypeOK, Counters, TicksCounted, Kmain,
       uart, apics, sti
  <2>2. Control' /\ Locks'
    BY <1>8 DEF ConsoleInv, TypeOK, Control, Locks, Kmain, uart, apics, sti
  <2>3. Counters' /\ TicksCounted'
    BY <1>8, ConsoleAssumption DEF ConsoleInv, TypeOK, Control, Counters,
       TicksCounted, Kmain, uart, apics, sti
  <2> QED
    BY <2>1, <2>2, <2>3 DEF ConsoleInv
<1>9. CASE kprintln
  <2>1. TypeOK'
    <3>1. left' \in 0..(LineBytes + 2)
      BY <1>9, ConsoleAssumption DEF kprintln, ConsoleInv, TypeOK
    <3>2. com1' \in {"none", "kmain", "handler"} /\ ready' \subseteq {"ioapic", "com1"}
      BY <1>9, Zenon DEF kprintln, ConsoleInv, TypeOK, Com1Lock
    <3>3. pc' \in {"write", "halted"} /\ iflag' \in BOOLEAN
      BY <1>9, Zenon DEF kprintln, ConsoleInv, TypeOK, init_serial_fails, Continue
    <3> QED
      BY <1>9, <3>1, <3>2, <3>3 DEF kprintln, ConsoleInv, TypeOK, init_serial_fails,
         Com1Lock, Continue, uart, apics
  <2>2. Control' /\ Locks'
    BY <1>9 DEF ConsoleInv, TypeOK, Control, Locks, Kmain, kprintln, Com1Lock,
       init_serial_fails, Continue
  <2>3. Counters' /\ TicksCounted'
    BY <1>9, ConsoleAssumption DEF ConsoleInv, Counters, TicksCounted, Kmain, apics,
       kprintln, Com1Lock, init_serial_fails, Continue
  <2> QED
    BY <2>1, <2>2, <2>3 DEF ConsoleInv
<1>10. CASE write_byte
  <2>1. TypeOK'
    BY <1>10, ConsoleAssumption DEF ConsoleInv, TypeOK, Counters, TicksCounted, Kmain,
       uart, apics, write_byte
  <2>2. Control' /\ Locks'
    BY <1>10 DEF ConsoleInv, TypeOK, Control, Locks, Kmain, uart, apics, write_byte
  <2>3. Counters' /\ TicksCounted'
    BY <1>10, ConsoleAssumption DEF ConsoleInv, TypeOK, Control, Counters,
       TicksCounted, Kmain, uart, apics, write_byte
  <2> QED
    BY <2>1, <2>2, <2>3 DEF ConsoleInv
<1>11. CASE deliver
  <2>1. TypeOK'
    BY <1>11, ConsoleAssumption, Zenon DEF ConsoleInv, TypeOK, Counters, TicksCounted, uart,
       deliver
  <2>2. Control' /\ Locks'
    BY <1>11 DEF ConsoleInv, TypeOK, Control, Locks, uart, deliver
  <2>3. Counters' /\ TicksCounted'
    BY <1>11, ConsoleAssumption DEF ConsoleInv, TypeOK, Control, Counters,
       TicksCounted, uart, deliver
  <2> QED
    BY <2>1, <2>2, <2>3 DEF ConsoleInv
<1>12. CASE timer_handler
  <2>1. TypeOK'
    BY <1>12, ConsoleAssumption DEF ConsoleInv, TypeOK, Counters, TicksCounted, uart,
       apics, timer_handler
  <2>2. Control' /\ Locks'
    BY <1>12 DEF ConsoleInv, TypeOK, Control, Locks, uart, apics, timer_handler
  <2>3. Counters' /\ TicksCounted'
    BY <1>12, ConsoleAssumption, SMTT(20) DEF ConsoleInv, TypeOK, Control, Counters,
       TicksCounted, uart, apics, timer_handler
  <2> QED
    BY <2>1, <2>2, <2>3 DEF ConsoleInv
<1>13. CASE com1_handler
  <2>1. TypeOK'
    BY <1>13, ConsoleAssumption DEF ConsoleInv, TypeOK, Counters, TicksCounted, uart,
       apics, com1_handler
  <2>2. Control' /\ Locks'
    BY <1>13 DEF ConsoleInv, TypeOK, Control, Locks, uart, apics, com1_handler
  <2>3. Counters' /\ TicksCounted'
    BY <1>13, ConsoleAssumption DEF ConsoleInv, TypeOK, Control, Counters,
       TicksCounted, uart, apics, com1_handler
  <2> QED
    BY <2>1, <2>2, <2>3 DEF ConsoleInv
<1>14. CASE handle_interrupt
  <2>1. TypeOK'
    BY <1>14, ConsoleAssumption, SMTT(20)
    DEF ConsoleInv, TypeOK, Counters, TicksCounted, cpu,
       apics, handle_interrupt
  <2>2. Control' /\ Locks'
    BY <1>14 DEF ConsoleInv, TypeOK, Control, Locks, cpu, apics, handle_interrupt
  <2>3. Counters' /\ TicksCounted'
    BY <1>14, ConsoleAssumption DEF ConsoleInv, TypeOK, Control, Counters,
       TicksCounted, cpu, apics, handle_interrupt
  <2> QED
    BY <2>1, <2>2, <2>3 DEF ConsoleInv
<1>15. CASE handle_interrupt_returns
  <2>1. TypeOK'
    BY <1>15, ConsoleAssumption DEF ConsoleInv, TypeOK, Counters, TicksCounted, uart,
       apics, handle_interrupt_returns
  <2>2. Control' /\ Locks'
    BY <1>15 DEF ConsoleInv, TypeOK, Control, Locks, uart, apics, handle_interrupt_returns
  <2>3. Counters' /\ TicksCounted'
    BY <1>15, ConsoleAssumption DEF ConsoleInv, TypeOK, Control, Counters,
       TicksCounted, uart, apics, handle_interrupt_returns
  <2> QED
    BY <2>1, <2>2, <2>3 DEF ConsoleInv
<1>16. CASE ack_lapic
  <2>1. TypeOK'
    BY <1>16, ConsoleAssumption DEF ConsoleInv, TypeOK, Counters, TicksCounted, uart,
       ack_lapic
  <2>2. Control' /\ Locks'
    BY <1>16 DEF ConsoleInv, TypeOK, Control, Locks, uart, ack_lapic
  <2>3. Counters' /\ TicksCounted'
    BY <1>16, ConsoleAssumption DEF ConsoleInv, TypeOK, Control, Counters,
       TicksCounted, uart, ack_lapic
  <2> QED
    BY <2>1, <2>2, <2>3 DEF ConsoleInv
<1>17. CASE PanicFromHandler
  BY <1>17, PanicKeepsInv, Zenon DEF PanicFromHandler, PanicStep
<1>18. ASSUME NEW b \in Keys, Receive(b) PROVE ConsoleInv'
  BY <1>18, ConsoleAssumption DEF Receive, ConsoleInv, TypeOK, Control, Locks,
     Counters, TicksCounted, cpu, apics
<1>19. CASE RaiseIrq
  <2>1. TypeOK'
    BY <1>19, ConsoleAssumption DEF ConsoleInv, TypeOK, Counters, TicksCounted, cpu,
       RaiseIrq
  <2>2. Control' /\ Locks'
    BY <1>19 DEF ConsoleInv, TypeOK, Control, Locks, cpu, RaiseIrq
  <2>3. Counters' /\ TicksCounted'
    BY <1>19, ConsoleAssumption DEF ConsoleInv, TypeOK, Control, Counters,
       TicksCounted, cpu, RaiseIrq
  <2> QED
    BY <2>1, <2>2, <2>3 DEF ConsoleInv
<1>20. CASE TimerExpires
  <2>1. ticks \in Nat /\ fired \in Nat /\ merged \in Nat
    BY DEF ConsoleInv, TypeOK
  <2>2. TicksCounted'
    BY <1>20, <2>1 DEF ConsoleInv, TicksCounted, TimerExpires, cpu
  <2>3. {ticks', fired', merged'} \subseteq 0..MaxTicks
    <3>1. /\ fired' \in Nat /\ fired' <= MaxTicks
          /\ ticks' \in Nat /\ merged' \in Nat
      BY <1>20, <2>1, ConsoleAssumption DEF TimerExpires, cpu
    <3>2. PICK p \in {0, 1}, q \in {0, 1} : fired' = ticks' + merged' + p + q
      <4>1. (IF "timer" \in irr' THEN 1 ELSE 0) \in {0, 1}
            /\ (IF handler' = "timer" THEN 1 ELSE 0) \in {0, 1}
        OBVIOUS
      <4> QED
        BY <2>2, <4>1, Zenon DEF TicksCounted
    <3>3. p \in Nat /\ q \in Nat /\ MaxTicks \in Nat
      BY ConsoleAssumption
    <3>4. ticks' <= MaxTicks /\ merged' <= MaxTicks
      BY <3>1, <3>2, <3>3, PartsBelow, Zenon
    <3> QED
      BY <3>1, <3>3, <3>4
  <2>4. TypeOK'
    BY <1>20, <2>3 DEF ConsoleInv, TypeOK, TimerExpires, cpu, uart
  <2>5. Control' /\ Locks' /\ Counters'
    BY <1>20, Zenon DEF ConsoleInv, Control, Locks, Counters, TimerExpires, cpu
  <2> QED
    BY <2>2, <2>4, <2>5 DEF ConsoleInv
<1>21. CASE UNCHANGED vars
  BY <1>21 DEF vars, ConsoleInv, TypeOK, Control, Locks, Counters, TicksCounted, cpu,
     uart, apics
<1> QED
  BY <1>1, <1>2, <1>3, <1>4, <1>5, <1>6, <1>7, <1>8, <1>9, <1>10, <1>11, <1>12, <1>13,
     <1>14, <1>15, <1>16, <1>17, <1>18, <1>19, <1>20, <1>21, Zenon DEF Next, Processor,
     general_handler, page_fault_handler

-----------------------------------------------------------------------------
(* Theorems.                                                               *)

(* Types, control points, holders of the locks and counters are as         *)
(* ConsoleInv says, wherever interrupts and faults come.                   *)
THEOREM ConsoleInvariant == Spec => []ConsoleInv
BY ConsoleInit, ConsoleNext, PTL DEF Spec

(* TICKS misses no expiration of the APIC timer but those that are merged  *)
(* with a pending one, and counts none twice (timer_handler).              *)
THEOREM TicksAreExact == Spec => []TicksCounted
BY ConsoleInvariant, PTL DEF ConsoleInv

(* LAPIC is free when ack_lapic takes it; COM1 is free when com1_handler   *)
(* takes it, or kmain is in the middle of a line.                          *)
LockMetTaken ==
  /\ handler = "ack" => lapic = "none"
  /\ handler = "com1" => com1 = "none" \/ (com1 = "kmain" /\ pc = "write")

(* Wherever bytes arrive: ack_lapic never waits for LAPIC, and com1_handler *)
(* waits for COM1 only if it has interrupted kmain in the middle of a line, *)
(* which is the hang of run console_hangs and the only one there is.       *)
THEOREM LockMetTakenOnlyInLine == Spec => []LockMetTaken
<1>1. ASSUME ConsoleInv PROVE LockMetTaken
  <2>1. ASSUME handler = "ack" PROVE lapic = "none"
    BY <1>1, <2>1 DEF ConsoleInv, TypeOK, Control, Locks
  <2>2. ASSUME handler = "com1" PROVE com1 = "none" \/ (com1 = "kmain" /\ pc = "write")
    <3>1. handler # "none" /\ handler # "drain"
      BY <2>2
    <3>2. ~ panicked /\ pc \in {"print", "write", "hlt"} /\ com1 # "handler"
      BY <1>1, <3>1, Zenon DEF ConsoleInv, Control, Locks
    <3>3. com1 = "kmain" => pc \in {"enable", "write"}
      BY <1>1, <3>2, Zenon DEF ConsoleInv, Locks
    <3>4. com1 \in {"none", "kmain", "handler"}
      BY <1>1, Zenon DEF ConsoleInv, TypeOK
    <3>5. com1 = "kmain" => pc = "write"
      <4>1. pc \in {"print", "write", "hlt"}
        BY <3>2
      <4> QED
        BY <3>3, <4>1
    <3> QED
      BY <3>2, <3>4, <3>5, Zenon
  <2> QED
    BY <2>1, <2>2, Zenon DEF LockMetTaken
<1> QED
  BY <1>1, ConsoleInvariant, PTL

(* If no byte arrives before kmain is idle, no handler ever spins on a     *)
(* lock whose holder it has interrupted, faults and panics included.       *)
THEOREM LocksAreFree ==
  ASSUME Typing \subseteq {"hlt"}
  PROVE  Spec => []HandlersNeverSpin
<1>1. Init => IdleInput
  BY DEF Init, IdleInput
<1>2. ASSUME ConsoleInv, IdleInput, [Next]_vars PROVE IdleInput'
  <2>1. CASE Processor
    <3>1. CASE deliver
      BY <1>2, <3>1 DEF IdleInput, deliver, uart
    <3>2. CASE com1_handler \/ handle_interrupt \/ handle_interrupt_returns
      BY <1>2, <3>2 DEF ConsoleInv, IdleInput, com1_handler, handle_interrupt,
         handle_interrupt_returns, cpu, uart, apics
    <3>3. CASE timer_handler \/ ack_lapic
      BY <1>2, <3>3 DEF IdleInput, timer_handler, ack_lapic, uart, apics
    <3>4. CASE \/ init_memory \/ attach \/ disable_all \/ lock_com1 \/ enable_interrupts
               \/ start_timer_lock \/ start_timer \/ sti \/ kprintln \/ write_byte
      <4>1. /\ handler' = handler /\ rx' = rx /\ irr' = irr /\ pc # "hlt"
            /\ panicked' = panicked \/ panicked'
        BY <3>4 DEF init_memory, attach, disable_all, lock_com1, enable_interrupts,
           start_timer_lock, start_timer, sti, kprintln, write_byte, Kmain, Continue,
           panic, uart, apics
      <4>2. panicked => panicked'
        BY <3>4, Zenon DEF init_memory, attach, disable_all, lock_com1, enable_interrupts,
           start_timer_lock, start_timer, sti, kprintln, write_byte, Continue, panic
      <4> QED
        BY <1>2, <4>1, <4>2 DEF IdleInput
    <3> QED
      BY <2>1, <3>1, <3>2, <3>3, <3>4, Zenon DEF Processor
  <2>2. CASE general_handler \/ page_fault_handler
    BY <2>2 DEF general_handler, page_fault_handler, PanicFromHandler, IdleInput
  <2>3. ASSUME NEW b \in Keys, Receive(b) PROVE IdleInput'
    BY <2>3 DEF Receive, IdleInput, cpu
  <2>4. CASE RaiseIrq
    BY <1>2, <2>4 DEF RaiseIrq, IdleInput, cpu
  <2>5. CASE TimerExpires
    BY <1>2, <2>5 DEF TimerExpires, IdleInput, cpu, uart
  <2>6. CASE UNCHANGED vars
    BY <1>2, <2>6 DEF vars, cpu, uart, apics, IdleInput
  <2> QED
    BY <1>2, <2>1, <2>2, <2>3, <2>4, <2>5, <2>6, Zenon DEF Next
<1>3. ASSUME ConsoleInv, IdleInput PROVE HandlersNeverSpin
  BY <1>3 DEF ConsoleInv, TypeOK, Control, Locks, IdleInput, HandlersNeverSpin
<1> QED
  BY <1>1, <1>2, <1>3, ConsoleInvariant, PTL DEF Spec

(* The bytes are read and echoed in the order they came: what has been     *)
(* echoed is the echo of the first bytes received, and the UART has the    *)
(* others.  handle_interrupt loses no byte, repeats none, swaps none.      *)
THEOREM EchoesInOrder == Spec => []EchoedInOrder
<1>1. Init => EchoedInOrder
  <2> SUFFICES ASSUME Init PROVE EchoedInOrder
    OBVIOUS
  <2>1. received = <<>> /\ rx = <<>> /\ echoed = <<>>
    BY DEF Init
  <2>2. Len(<<>>) = 0 /\ SubSeq(<<>>, 1, 0) = <<>>
    BY EmptySeq, SubSeqEmpty
  <2>3. 0 \in 0..Len(received) /\ 0 + 1 = 1
    BY <2>1, <2>2
  <2>4. /\ echoed = EchoAll(SubSeq(received, 1, 0))
        /\ rx = SubSeq(received, 0 + 1, Len(received))
    BY <2>1, <2>2, <2>3, EchoNothing, Zenon
  <2> QED
    BY <2>3, <2>4, Zenon DEF EchoedInOrder
<1>2. ASSUME ConsoleInv, EchoedInOrder, [Next]_vars PROVE EchoedInOrder'
  <2>1. received \in Seq(Keys) /\ rx \in Seq(Keys)
    BY <1>2 DEF ConsoleInv, TypeOK
  <2>2. PICK n \in 0..Len(received) :
          /\ echoed = EchoAll(SubSeq(received, 1, n))
          /\ rx = SubSeq(received, n + 1, Len(received))
    BY <1>2 DEF EchoedInOrder
  <2>3. Len(received) \in Nat /\ n \in Nat /\ n <= Len(received)
    BY <2>1, LenProperties
  <2>4. CASE handle_interrupt
    <3>1. /\ rx # <<>> /\ rx' = Tail(rx) /\ received' = received
          /\ echoed' = echoed \o Echo(Head(rx))
      BY <2>4 DEF handle_interrupt
    <3>2. n < Len(received)
      BY <2>1, <2>2, <2>3, <3>1
    <3>3. n + 1 \in 1..Len(received) /\ (n + 1) - 1 = n
      BY <2>3, <3>2
    <3>4. Head(rx) = received[n + 1]
      BY <2>1, <2>2, <2>3, <3>3
    <3>5. Tail(rx) = SubSeq(received, (n + 1) + 1, Len(received))
      BY <2>1, <2>2, <2>3, <3>3
    <3>6. echoed' = EchoAll(SubSeq(received, 1, n + 1))
      BY <2>1, <2>2, <3>1, <3>3, <3>4, EchoOneMore, Zenon
    <3>7. n + 1 \in 0..Len(received)
      BY <3>3
    <3> QED
      BY <3>1, <3>5, <3>6, <3>7, Zenon DEF EchoedInOrder
  <2>5. ASSUME NEW b \in Keys, Receive(b) PROVE EchoedInOrder'
    <3>1. rx' = Append(rx, b) /\ received' = Append(received, b) /\ echoed' = echoed
      BY <2>5 DEF Receive
    <3>2. SubSeq(Append(received, b), 1, n) = SubSeq(received, 1, n)
      BY <2>1, <2>3
    <3>3. SubSeq(Append(received, b), n + 1, Len(Append(received, b)))
            = Append(SubSeq(received, n + 1, Len(received)), b)
      <4>1. Len(Append(received, b)) = Len(received) + 1
        BY <2>1
      <4> DEFINE s == SubSeq(Append(received, b), n + 1, Len(received) + 1)
                 r == SubSeq(received, n + 1, Len(received))
                 t == Append(r, b)
      <4>2. Append(received, b) \in Seq(Keys)
        BY <2>1
      <4>3. /\ r \in Seq(Keys) /\ Len(r) = Len(received) - n
            /\ \A i \in 1..(Len(received) - n) : r[i] = received[n + i]
        BY <2>1, <2>3
      <4>4. /\ s \in Seq(Keys) /\ Len(s) = Len(received) + 1 - n
            /\ \A i \in 1..(Len(received) + 1 - n) : s[i] = Append(received, b)[n + i]
        BY <2>1, <2>3, <4>1, <4>2
      <4> HIDE DEF r, s
      <4>5. /\ t \in Seq(Keys) /\ Len(t) = Len(received) + 1 - n
            /\ \A i \in 1..(Len(received) - n) : t[i] = r[i]
            /\ t[Len(received) + 1 - n] = b
        BY <2>3, <4>3
      <4> HIDE DEF t
      <4>6. ASSUME NEW i \in 1..(Len(received) + 1 - n) PROVE s[i] = t[i]
        <5>1. CASE i = Len(received) + 1 - n
          BY <2>1, <2>3, <4>4, <4>5, <5>1
        <5>2. CASE i # Len(received) + 1 - n
          <6>1. i \in 1..(Len(received) - n) /\ n + i \in 1..Len(received)
            BY <2>3, <5>2
          <6>2. Append(received, b)[n + i] = received[n + i]
            BY <2>1, <6>1
          <6> QED
            BY <4>3, <4>4, <4>5, <6>1, <6>2
        <5> QED
          BY <5>1, <5>2
      <4>7. s = t
        BY <2>3, <4>4, <4>5, <4>6, SeqEqual
      <4> QED
        BY <4>1, <4>7, Zenon DEF r, s, t
    <3>4. n \in 0..Len(Append(received, b))
      BY <2>1, <2>3
    <3> QED
      BY <2>2, <3>1, <3>2, <3>3, <3>4, Zenon DEF EchoedInOrder
  <2>6. CASE UNCHANGED <<rx, received, echoed>>
    BY <1>2, <2>6, Zenon DEF EchoedInOrder
  <2>7. \/ handle_interrupt \/ UNCHANGED <<rx, received, echoed>>
        \/ \E b \in Keys : Receive(b)
    BY <1>2, Zenon DEF Next, Processor, vars, uart, init_memory, attach, disable_all,
       lock_com1, enable_interrupts, start_timer_lock, start_timer, sti, kprintln,
       write_byte, deliver, timer_handler, com1_handler, handle_interrupt_returns,
       ack_lapic, general_handler, page_fault_handler, PanicFromHandler, RaiseIrq,
       TimerExpires
  <2> QED
    BY <2>4, <2>5, <2>6, <2>7, Zenon
<1> QED
  BY <1>1, <1>2, ConsoleInvariant, PTL DEF Spec
=============================================================================
