----------------------------- MODULE MCConsole ------------------------------
(* Console for TLC.                                                        *)
EXTENDS Console

(* Bytes arrive once the console is idle, or at any time after COM1 is on. *)
TypingIdle == {"hlt"}
TypingAlways == {"timer", "calibrate", "sti", "print", "write", "hlt"}

(* Everywhere but where kmain has COM1 locked.                             *)
FaultsUnlocked ==
  {"memory", "attach", "disable_all", "com1", "timer", "calibrate", "sti", "print",
   "hlt"}
NoFaults == {}

AllKeys == {"char", "newline", "backspace"}
OneKey == {"char"}
=============================================================================
