------------------------------ MODULE MCRamFs -------------------------------
(* RamFs for TLC: places and names are interchangeable.                    *)
EXTENDS RamFs, TLC

Symmetry == Permutations(Handles) \cup Permutations(Names)
=============================================================================
