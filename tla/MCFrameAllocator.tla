-------------------------- MODULE MCFrameAllocator --------------------------
(* Instances of FrameAllocator for TLC: memory maps in frames.             *)
EXTENDS FrameAllocator

Usable(s, e) == [kind |-> "Usable", start |-> s, end |-> e]
Reserved(s, e) == [kind |-> "Reserved", start |-> s, end |-> e]

(* More usable frames than bits in a word, the first region beyond it.     *)
LargeMap == <<Reserved(0, 1), Usable(1, 7), Reserved(7, 9), Usable(9, 11)>>

(* A first usable region that ends inside the first word.                  *)
SplitMap == <<Reserved(0, 1), Usable(1, 4), Reserved(4, 6), Usable(6, 11)>>
=============================================================================
