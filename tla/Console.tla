------------------------------ MODULE Console -------------------------------
(***************************************************************************)
(* Start-up, interrupts and the serial console: kmain of                   *)
(* kernel/src/main.rs, kernel/src/serial.rs, trap.rs, panic.rs, and their  *)
(* use of the interrupt controllers (apic.rs) and the timer (time.rs).     *)
(*                                                                         *)
(* There is one CPU.  kmain runs at `pc`; while `handler` is not "none" an *)
(* interrupt handler runs on top of it and kmain does not move.  Handlers  *)
(* are interrupt gates: the interrupt flag is clear until they return.  A  *)
(* spin lock that is taken does not let its taker move.  The devices (the  *)
(* UART, the APICs and their timer) move at any time.  The UART's output   *)
(* side is left out: write_byte does not wait for it and reads nothing.    *)
(***************************************************************************)
EXTENDS Naturals, Sequences

CONSTANTS
  Lines,     \* kprintln! calls of kmain
  LineBytes, \* bytes of a line before \r\n
  RxFifo,    \* bytes the UART keeps until they are read
  Keys,      \* bytes that are received: "char", "newline", "backspace"
  Typing,    \* values of pc at which bytes arrive
  Faults,    \* values of pc at which an unexpected vector can come
  MaxKeys,   \* bound: bytes received
  MaxTicks   \* bound: expirations of the APIC timer

ASSUME ConsoleAssumption ==
  /\ Lines \in Nat \ {0} /\ LineBytes \in Nat
  /\ RxFifo \in Nat \ {0}
  /\ Keys \subseteq {"char", "newline", "backspace"}
  /\ Typing \subseteq {"timer", "calibrate", "sti", "print", "write", "hlt"}
  /\ Faults \subseteq {"memory", "attach", "disable_all", "com1", "enable", "timer",
                       "calibrate", "sti", "print", "write", "hlt"}
  /\ MaxKeys \in Nat /\ MaxTicks \in Nat

VARIABLES
  pc,        \* where kmain is
  lines,     \* lines that are left to print
  left,      \* bytes that are left of the current line
  panicked,  \* panic() was entered, or a handler that ends in it
  iflag,     \* RFLAGS.IF
  handler,   \* where the interrupt handler is, or "none"
  com1,      \* holder of COM1: "none", "kmain" or "handler"
  lapic,     \* holder of LAPIC
  ready,     \* the Lazy statics that are initialised
  irr, isr,  \* interrupts requested of the LAPIC, and not acknowledged
  open,      \* the IOAPIC passes IRQ_COM1 on
  irq,       \* the UART's interrupt line
  rx,        \* bytes received and not read
  received,  \* every byte received
  echoed,    \* every byte handle_interrupt wrote
  timer,     \* the APIC timer runs
  ticks,     \* TICKS
  fired, merged \* expirations of the timer, and those with one pending

cpu == <<pc, lines, left, panicked, iflag, handler, com1, lapic, ready, ticks>>
uart == <<irq, rx, received, echoed>>
apics == <<irr, isr, open, timer, fired, merged>>
vars == <<cpu, uart, apics>>

Kmain(from) == handler = "none" /\ pc = from

Init ==
  /\ pc = "memory" /\ lines = Lines /\ left = 0 /\ panicked = FALSE
  /\ iflag = FALSE /\ handler = "none" /\ com1 = "none" /\ lapic = "none"
  /\ ready = {} /\ ticks = 0
  /\ irr = {} /\ isr = {} /\ open = FALSE
  /\ timer = FALSE /\ fired = 0 /\ merged = 0
  /\ irq = FALSE /\ rx = <<>> /\ received = <<>> /\ echoed = <<>>

-----------------------------------------------------------------------------
(* kmain until interrupts are on.                                          *)

(* panic() disables interrupts and prints two lines; locks stay taken.     *)
panic == pc' = "print" /\ lines' = 2 /\ panicked' = TRUE /\ iflag' = FALSE

Continue(to) == pc' = to /\ UNCHANGED <<lines, panicked, iflag>>

(* init_frame_allocator panics if the bitmap does not fit.                 *)
init_memory ==
  /\ Kmain("memory")
  /\ Continue("attach") \/ panic
  /\ UNCHANGED <<left, handler, com1, lapic, ready, ticks, uart, apics>>

attach ==
  /\ Kmain("attach") /\ lapic = "none"
  /\ Continue("disable_all")
  /\ UNCHANGED <<left, handler, com1, lapic, ready, ticks, uart, apics>>

(* Mutant: the IOAPIC is not used before enable_interrupts.                *)
disable_all_later ==
  /\ Kmain("disable_all")
  /\ Continue("com1") /\ open' = FALSE
  /\ UNCHANGED <<left, handler, com1, lapic, ticks, irr, isr, timer, fired, merged,
                 ready, uart>>

(* The first use of IOAPIC reads the ACPI tables, which may panic.         *)
disable_all ==
  /\ Kmain("disable_all")
  /\ \/ Continue("com1") /\ ready' = ready \cup {"ioapic"} /\ open' = FALSE
     \/ panic /\ UNCHANGED <<ready, open>>
  /\ UNCHANGED <<left, handler, com1, lapic, ticks, irr, isr, timer, fired, merged,
                 uart>>

(* COM1.lock(); the first use runs init_serial, which empties the UART, or *)
(* halts when the loopback test fails (SerialError).                       *)
Com1Lock == com1 = "none" /\ com1' = "kmain" /\ ready' = ready \cup {"com1"}

init_serial_fails ==
  /\ com1 = "none" /\ "com1" \notin ready
  /\ pc' = "halted" /\ iflag' = FALSE

lock_com1 ==
  /\ Kmain("com1")
  /\ \/ Com1Lock /\ Continue("enable")
     \/ init_serial_fails /\ UNCHANGED <<lines, panicked, com1, ready>>
  /\ UNCHANGED <<left, handler, lapic, ticks, uart, apics>>

(* enable_interrupts, and the end of the lock's scope.  init_serial has    *)
(* just emptied the UART, so there is no byte to acknowledge.  The IOAPIC  *)
(* panics here if this is its first use.                                   *)
enable_interrupts ==
  /\ Kmain("enable")
  /\ \/ Continue("timer") /\ open' = TRUE /\ com1' = "none"
        /\ ready' = ready \cup {"ioapic"}
     \/ "ioapic" \notin ready /\ panic /\ UNCHANGED <<open, com1, ready>>
  /\ UNCHANGED <<left, handler, lapic, ticks, irr, isr, timer, fired, merged,
                 uart>>

(* time::start_timer; interrupts are off already, so without_interrupts    *)
(* changes nothing.                                                        *)
start_timer_lock ==
  /\ Kmain("timer") /\ lapic = "none"
  /\ lapic' = "kmain" /\ Continue("calibrate")
  /\ UNCHANGED <<left, handler, com1, ready, ticks, uart, apics>>

(* Mutant: LAPIC stays locked.                                             *)
start_timer_leaks_guard ==
  /\ Kmain("calibrate")
  /\ timer' = TRUE /\ Continue("sti")
  /\ UNCHANGED <<left, handler, com1, lapic, ready, ticks, uart, irr, isr,
                 open, fired, merged>>

(* The calibration overflows if the wait was long (module Pit).            *)
start_timer ==
  /\ Kmain("calibrate")
  /\ \/ Continue("sti") /\ lapic' = "none" /\ timer' = TRUE
     \/ panic /\ UNCHANGED <<lapic, timer>>
  /\ UNCHANGED <<left, handler, com1, ready, ticks, uart, irr, isr, open,
                 fired, merged>>

sti ==
  /\ Kmain("sti")
  /\ pc' = "print" /\ iflag' = TRUE
  /\ UNCHANGED <<lines, left, panicked, handler, com1, lapic, ready, ticks, uart, apics>>

-----------------------------------------------------------------------------
(* kprintln!, of kmain and of panic().  Its arguments are evaluated with   *)
(* COM1 locked, so the unwrap() in the arguments of kmain's second line    *)
(* would hang the panic it starts; it is left out, because BOOT_CONFIG     *)
(* asks for the mapping of physical memory that it unwraps.                *)

kprintln ==
  /\ Kmain("print")
  /\ \/ Com1Lock /\ Continue("write") /\ left' = LineBytes + 2
     \/ init_serial_fails /\ UNCHANGED <<lines, panicked, com1, ready, left>>
  /\ UNCHANGED <<handler, lapic, ticks, uart, apics>>

(* Mutant: COM1 stays locked.                                              *)
write_byte_keeps_guard ==
  /\ Kmain("write")
  /\ left' = left - 1
  /\ IF left > 1
     THEN UNCHANGED <<pc, lines>>
     ELSE /\ lines' = lines - 1
          /\ pc' = IF lines > 1 THEN "print" ELSE IF panicked THEN "halted" ELSE "hlt"
  /\ UNCHANGED <<panicked, iflag, handler, com1, lapic, ready, ticks, uart, apics>>

(* The guard is dropped after the last byte.                               *)
write_byte ==
  /\ Kmain("write")
  /\ left' = left - 1
  /\ IF left > 1
     THEN UNCHANGED <<pc, lines, com1>>
     ELSE /\ com1' = "none"
          /\ lines' = lines - 1
          /\ pc' = IF lines > 1 THEN "print" ELSE IF panicked THEN "halted" ELSE "hlt"
  /\ UNCHANGED <<panicked, iflag, handler, lapic, ready, ticks, uart, apics>>

-----------------------------------------------------------------------------
(* Interrupt handlers.                                                     *)

(* Both vectors have one priority class, so a request waits until the one  *)
(* in service is acknowledged; the higher vector, COM1's, goes first.      *)
deliver ==
  /\ handler = "none" /\ iflag /\ pc # "halted"
  /\ irr # {} /\ isr = {}
  /\ LET v == IF "com1" \in irr THEN "com1" ELSE "timer"
     IN  /\ irr' = irr \ {v}
         /\ isr' = {v}
         /\ handler' = v
  /\ iflag' = FALSE
  /\ UNCHANGED <<pc, lines, left, panicked, com1, lapic, ready, ticks, open, timer,
                 fired, merged, uart>>

(* Mutant: TICKS is not incremented.                                       *)
timer_handler_forgets ==
  /\ handler = "timer"
  /\ handler' = "ack"
  /\ UNCHANGED <<pc, lines, left, panicked, iflag, com1, lapic, ready, ticks, uart, apics>>

timer_handler ==
  /\ handler = "timer"
  /\ ticks' = ticks + 1
  /\ handler' = "ack"
  /\ UNCHANGED <<pc, lines, left, panicked, iflag, com1, lapic, ready, uart,
                 apics>>

com1_handler ==
  /\ handler = "com1" /\ com1 = "none"
  /\ com1' = "handler" /\ handler' = "drain"
  /\ UNCHANGED <<pc, lines, left, panicked, iflag, lapic, ready, ticks, uart,
                 apics>>

(* What is written for a byte: backspace erases the character, a new line  *)
(* of either kind is \r\n.                                                 *)
Echo(b) == CASE b = "char"      -> <<"char">>
             [] b = "newline"   -> <<"CR", "LF">>
             [] b = "backspace" -> <<"BS", "space", "BS">>

(* One turn of handle_interrupt's loop; the line falls with the last byte. *)
handle_interrupt ==
  /\ handler = "drain" /\ rx # <<>>
  /\ rx' = Tail(rx)
  /\ irq' = (irq /\ rx' # <<>>)
  /\ echoed' = echoed \o Echo(Head(rx))
  /\ UNCHANGED <<received, cpu, apics>>

handle_interrupt_returns ==
  /\ handler = "drain" /\ rx = <<>>
  /\ com1' = "none" /\ handler' = "ack"
  /\ UNCHANGED <<pc, lines, left, panicked, iflag, lapic, ready, ticks, uart,
                 apics>>

(* Mutant: no end of interrupt.                                            *)
ack_lapic_missing ==
  /\ handler = "ack" /\ lapic = "none"
  /\ handler' = "none" /\ iflag' = TRUE
  /\ UNCHANGED <<pc, lines, left, panicked, com1, lapic, ready, ticks, irr, isr, open,
                 timer, fired, merged, uart>>

(* ack_lapic and the return from the interrupt.                            *)
ack_lapic ==
  /\ handler = "ack" /\ lapic = "none"
  /\ isr' = {}
  /\ handler' = "none" /\ iflag' = TRUE
  /\ UNCHANGED <<pc, lines, left, panicked, com1, lapic, ready, ticks, irr, open,
                 timer, fired, merged, uart>>

(* The handlers of the other vectors print three lines and panic; what     *)
(* they interrupted does not go on.  A second fault is left out.           *)
PanicFromHandler ==
  /\ handler = "none" /\ pc \in Faults /\ ~ panicked
  /\ pc' = "print" /\ lines' = 3 + 2 /\ panicked' = TRUE /\ iflag' = FALSE
  /\ UNCHANGED <<left, handler, com1, lapic, ready, ticks, uart, apics>>

(* An interrupt nobody expects needs the interrupt flag...                 *)
general_handler == iflag /\ PanicFromHandler

(* ...and a page fault does not.                                           *)
page_fault_handler == PanicFromHandler

-----------------------------------------------------------------------------
(* Devices.                                                                *)

(* What comes before init_serial is lost with the contents of the buffer.  *)
Receive(b) ==
  /\ pc \in Typing /\ "com1" \in ready
  /\ Len(received) < MaxKeys /\ Len(rx) < RxFifo
  /\ rx' = Append(rx, b)
  /\ received' = Append(received, b)
  /\ UNCHANGED <<irq, echoed, cpu, apics>>

(* The UART raises its line at 14 bytes, or some time after the last byte; *)
(* the IOAPIC passes the edge on.                                          *)
RaiseIrq ==
  /\ open /\ rx # <<>> /\ ~ irq
  /\ irq' = TRUE
  /\ irr' = irr \cup {"com1"}
  /\ UNCHANGED <<rx, received, echoed, cpu, isr, open, timer, fired, merged>>

(* There is one request bit: a tick that meets it set is merged with it.   *)
TimerExpires ==
  /\ timer /\ fired < MaxTicks
  /\ fired' = fired + 1
  /\ irr' = irr \cup {"timer"}
  /\ merged' = IF "timer" \in irr THEN merged + 1 ELSE merged
  /\ UNCHANGED <<isr, open, timer, cpu, uart>>

Processor ==
  \/ init_memory \/ attach \/ disable_all \/ lock_com1 \/ enable_interrupts
  \/ start_timer_lock \/ start_timer \/ sti \/ kprintln \/ write_byte
  \/ deliver
  \/ timer_handler \/ com1_handler \/ handle_interrupt \/ handle_interrupt_returns
  \/ ack_lapic

Next ==
  \/ Processor
  \/ general_handler \/ page_fault_handler
  \/ \E b \in Keys : Receive(b)
  \/ RaiseIrq
  \/ TimerExpires

(* The processor does not stop, it takes an interrupt that stays requested *)
(* and enabled, and the UART reports what it has received.                 *)
Fairness == WF_vars(Processor) /\ WF_vars(RaiseIrq)

Spec == Init /\ [][Next]_vars /\ Fairness

-----------------------------------------------------------------------------
(* Properties.                                                             *)

(* Control points and locks are known ones, counters and buffers stay in   *)
(* their bounds; the byte counter of a line never goes below zero.         *)
TypeOK ==
  /\ pc \in {"memory", "attach", "disable_all", "com1", "enable", "timer",
             "calibrate", "sti", "print", "write", "hlt", "halted"}
  /\ handler \in {"none", "timer", "com1", "drain", "ack"}
  /\ com1 \in {"none", "kmain", "handler"} /\ lapic \in {"none", "kmain"}
  /\ {iflag, panicked, open, irq, timer} \subseteq BOOLEAN
  /\ ready \subseteq {"ioapic", "com1"}
  /\ irr \cup isr \subseteq {"timer", "com1"}
  /\ rx \in Seq(Keys) /\ received \in Seq(Keys)
  /\ lines \in 0..(Lines + 3 + 2) /\ left \in 0..(LineBytes + 2)
  /\ {ticks, fired, merged} \subseteq 0..MaxTicks

(* A handler never spins on a lock whose holder it has interrupted: com1_  *)
(* handler and ack_lapic find COM1 and LAPIC free (and the state stays in  *)
(* its types).                                                             *)
HandlersNeverSpin ==
  /\ TypeOK
  /\ handler = "com1" => com1 = "none"
  /\ handler = "ack" => lapic = "none"

(* Every expiration of the timer is counted once in TICKS, or is waiting   *)
(* to be, or came while one was waiting.                                   *)
TicksCounted ==
  fired = ticks + merged + (IF "timer" \in irr THEN 1 ELSE 0)
                         + (IF handler = "timer" THEN 1 ELSE 0)

(* What is written for the bytes of a sequence, from the first on.         *)
EchoAll(s) ==
  LET Upto[n \in 0..Len(s)] == IF n = 0 THEN <<>> ELSE Upto[n - 1] \o Echo(s[n])
  IN  Upto[Len(s)]

(* Everything received is echoed in the end, in the order it came (the     *)
(* loop of handle_interrupt leaves nothing behind), unless a panic has     *)
(* turned interrupts off.                                                  *)
EveryByteEchoed == <>[](panicked \/ echoed = EchoAll(received))

(* kmain reaches its idle loop, or the kernel halts: no kprintln! hangs    *)
(* ("Serial write will never fail", serial.rs:31).                         *)
BootCompletes == <>(pc \in {"hlt", "halted"})

(* A panic is reported, also one that comes from general_handler or        *)
(* page_fault_handler while LAPIC is locked: its lines are printed and the *)
(* kernel halts, because nothing that panics has COM1 locked.              *)
PanicReported == panicked ~> pc = "halted"
=============================================================================
