---------------------------- MODULE MCKernelPages ---------------------------
(* An instance of KernelPages for TLC.                                     *)
EXTENDS KernelPages

Usable(s, e) == [kind |-> "Usable", start |-> s, end |-> e]

(* One full bitmap word of frames, not enough for all requests.            *)
TightMap == <<Usable(1, 9)>>
=============================================================================
