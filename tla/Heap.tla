-------------------------------- MODULE Heap --------------------------------
(***************************************************************************)
(* What a global allocator promises (the GlobalAlloc and Allocator impls   *)
(* of KAllocator): memory that is handed out is not part of any other      *)
(* memory that is handed out, and giving memory back affects nothing else. *)
(* A region is the non-empty set of its byte addresses.                    *)
(***************************************************************************)
CONSTANT Region    \* the regions an allocator can hand out

VARIABLE regions   \* the region of each allocation that a caller holds

Init == regions = [a \in {} |-> {}]

(* A new allocation, apart from all the others.                            *)
Alloc(a) ==
  /\ a \notin DOMAIN regions
  /\ DOMAIN regions' = DOMAIN regions \cup {a}
  /\ regions'[a] \in Region
  /\ \A b \in DOMAIN regions : /\ regions'[b] = regions[b]
                               /\ regions'[a] \cap regions[b] = {}

Free(a) == regions' = [b \in DOMAIN regions \ {a} |-> regions[b]]

Next ==
  \/ \E a \in DOMAIN regions' : Alloc(a)
  \/ \E a \in DOMAIN regions : Free(a)

Spec == Init /\ [][Next]_regions
=============================================================================
