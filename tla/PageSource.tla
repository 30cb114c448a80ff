----------------------------- MODULE PageSource -----------------------------
(***************************************************************************)
(* What the kernel heap needs from PAGE_ALLOCATOR, the FullPageAllocator   *)
(* of kernel/src/memory/allocator/page.rs: a range of pages is never given *)
(* out twice, not even after it has been given back.                       *)
(***************************************************************************)
EXTENDS Naturals

CONSTANT Page     \* the page numbers of the allocator's address range

VARIABLES
  issued,         \* pages given out so far
  live            \* ranges given out and not given back

vars == <<issued, live>>

Pages(b) == b.at .. (b.at + b.n - 1)

Init == issued = {} /\ live = {}

Take(b) ==
  /\ b.n >= 1
  /\ Pages(b) \subseteq Page \ issued
  /\ issued' = issued \cup Pages(b)
  /\ live' = live \cup {b}

Give(b) ==
  /\ b \in live
  /\ live' = live \ {b}
  /\ UNCHANGED issued

Next ==
  \/ \E first \in Page : \E last \in Page :
        Take([at |-> first, n |-> last + 1 - first])
  \/ \E b \in live : Give(b)

Spec == Init /\ [][Next]_vars
=============================================================================
