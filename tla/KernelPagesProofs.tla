------------------------- MODULE KernelPagesProofs --------------------------
(***************************************************************************)
(* What FullPageAllocator, alloc_kpage and free_kpage guarantee for every  *)
(* address range, request and page table size (module KernelPages).        *)
(*                                                                         *)
(* The argument: the entry list only moves up, so the ranges of the live   *)
(* allocations and of the call in progress are disjoint and below its      *)
(* start (RangesApart), and whether a page is mapped depends only on the   *)
(* range it is in and on how far the call has come (Backing).  All of this *)
(* is about a kernel in which no frame has two holders (Intact); the last  *)
(* theorem says how long that is.                                          *)
(*                                                                         *)
(* The second part is the converse, StrayInv: a page is mapped only when a *)
(* live allocation, a failed one or the call in progress accounts for it,  *)
(* and a table has a frame only while a page under it is mapped.  The      *)
(* third takes the frame allocator's invariant from FrameAllocatorProofs.  *)
(***************************************************************************)
EXTENDS KernelPages, TLAPS

(* The first page that was never given out.                                *)
Top ==
  IF inner = NoEntry
  THEN Start + 1
  ELSE IF inner = Empty THEN Start + Size + 2 ELSE inner.start

InnerOK ==
  \/ inner \in {NoEntry, Empty}
  \/ /\ inner \in [start : Nat, pages : Nat]
     /\ inner.pages >= 1 /\ inner.start >= Start + 1
     /\ inner.start + inner.pages = Start + Size + 2

PCs == {"idle", "init", "init_table", "reserve", "map", "map_table",
        "no_table", "unmap", "clean_up"}

Mapping ==
  call.pc \in {"map", "map_table"} \/ (call.pc = "no_table" /\ call.at > Start)

Unmapping == call.pc \in {"unmap", "clean_up"}

(* Where the call in progress works: allocate's range is the last one that *)
(* was reserved, deallocate's is below the entry.                          *)
CallOK ==
  /\ call \in [pc : PCs, at : Nat, n : Nat, i : Nat]
  /\ call.pc = "idle" => call = Idle
  /\ call.pc # "idle" => call.n >= 1
  /\ call.pc \in {"init", "init_table", "reserve"} => call.at = 0 /\ call.i = 0
  /\ call.pc \in {"init", "init_table"} => inner = NoEntry
  /\ call.pc = "reserve" => inner # NoEntry
  /\ call.pc = "no_table" /\ inner = NoEntry => call.at = 0
  /\ call.pc \in {"map", "map_table"} => call.at >= Start + 1
  /\ Mapping => inner # NoEntry /\ call.i < call.n /\ call.at + call.n = Top
  /\ Unmapping => /\ call.at >= Start + 1 /\ call.i < call.n
                  /\ call.at + call.n <= Top

Before(b, c) == b.at + b.n <= c.at

(* The ranges given out and not given back are disjoint, from each other   *)
(* and from the range of the call in progress.                             *)
RangesApart ==
  /\ live \subseteq [at : Nat, n : Nat]
  /\ \A b \in live : b.n >= 1 /\ b.at >= Start + 1 /\ b.at + b.n <= Top
  /\ Mapping => \A b \in live : Before(b, call)
  /\ Unmapping => \A b \in live : Before(b, call) \/ Before(call, b)
  /\ \A b, c \in live : b = c \/ Before(b, c) \/ Before(c, b)

Backed(p) == held[PageAt(p)] # NoFrame /\ held[TableAt(p)] # NoFrame

(* What is mapped.                                                         *)
Backing ==
  /\ DOMAIN held = Handles
  /\ \A b \in live : \A p \in PagesOf(b) : Backed(p)
  /\ \A p \in VirtPages : p >= Top => ~ Mapped(p)
  /\ call.pc \in {"map", "map_table"} =>
       \A p \in PagesOf(call) : p < CallPage => Backed(p)
  /\ call.pc \in {"map", "map_table"} =>
       \A p \in PagesOf(call) : p > CallPage => ~ Mapped(p)
  /\ call.pc = "map" => ~ Mapped(CallPage)
  /\ call.pc = "map_table" => Mapped(CallPage)
  /\ Unmapping => \A p \in PagesOf(call) : p > CallPage => Backed(p)
  /\ call.pc = "unmap" => Backed(CallPage)

NoConflict == error \notin {"PageAlreadyMapped", "PageNotMapped"}

PagesInv == InnerOK /\ CallOK /\ RangesApart /\ Backing /\ NoConflict

-----------------------------------------------------------------------------
(* Handles and the frame allocator.                                        *)

(* A page and a page table have a handle, never the same one.              *)
LEMMA HandleFacts ==
  /\ \A p \in VirtPages : PageAt(p) \in Handles /\ TableAt(p) \in Handles
  /\ \A p, q : PageAt(p) # TableAt(q)
  /\ \A p, q : PageAt(p) = PageAt(q) => p = q
BY DEF Handles, PageAt, TableAt

(* The pages of the first entry, and the entry page before them.           *)
LEMMA VirtPagesInterval == VirtPages = Start .. (Start + Size + 1)
BY KernelPagesAssumption DEF VirtPages, FirstEntry

(* allocate_frame gives a frame to the handle it is called for, which had  *)
(* none, and to no other.                                                  *)
LEMMA AllocateOne ==
  ASSUME NEW h \in Handles, DOMAIN held = Handles, F!allocate_frame(h)
  PROVE  /\ held[h] = NoFrame
         /\ DOMAIN held' = Handles
         /\ \A g \in Handles : g # h => held'[g] = held[g]
         /\ \A g \in Handles : held[g] # NoFrame => held'[g] = held[g]
BY DEF F!allocate_frame

(* deallocate_frame takes a frame from the handle it is called for and     *)
(* from no other.                                                          *)
LEMMA DeallocateOne ==
  ASSUME NEW h \in Handles, DOMAIN held = Handles, F!deallocate_frame(h)
  PROVE  /\ DOMAIN held' = Handles
         /\ \A g \in Handles : g # h => held'[g] = held[g]
         /\ \A g \in Handles : held[g] = NoFrame => held'[g] = held[g]
BY DEF F!deallocate_frame

-----------------------------------------------------------------------------
(* Ranges.                                                                 *)

(* Ranges that were given out lie in the allocator's pages.                *)
LEMMA RangesInside ==
  ASSUME InnerOK, CallOK, RangesApart
  PROVE  /\ Top \in Nat /\ Top >= Start + 1 /\ Top <= Start + Size + 2
         /\ \A b \in live : PagesOf(b) \subseteq VirtPages
         /\ Mapping \/ Unmapping =>
              /\ PagesOf(call) \subseteq VirtPages
              /\ CallPage \in PagesOf(call) /\ CallPage \in VirtPages
              /\ CallPage # Start
<1>1. Top \in Nat /\ Top >= Start + 1 /\ Top <= Start + Size + 2
  BY KernelPagesAssumption DEF InnerOK, Top
<1>2. \A b \in live : PagesOf(b) \subseteq VirtPages
  BY <1>1, KernelPagesAssumption, VirtPagesInterval DEF RangesApart, PagesOf
<1>3. ASSUME Mapping \/ Unmapping
      PROVE  /\ call.at \in Nat /\ call.n \in Nat /\ call.i \in Nat
             /\ call.at >= Start + 1 /\ call.i < call.n
             /\ call.at + call.n <= Top
  <2>1. call.at \in Nat /\ call.n \in Nat /\ call.i \in Nat
    BY DEF CallOK
  <2>2. CASE Mapping
    BY <1>1, <2>1, <2>2, KernelPagesAssumption DEF CallOK, Mapping
  <2>3. CASE Unmapping
    BY <2>1, <2>3 DEF CallOK
  <2>. QED  BY <1>3, <2>1, <2>2, <2>3
<1>4. ASSUME Mapping \/ Unmapping
      PROVE  /\ PagesOf(call) \subseteq VirtPages
             /\ CallPage \in PagesOf(call) /\ CallPage \in VirtPages
             /\ CallPage # Start
  BY <1>1, <1>3, <1>4, KernelPagesAssumption, VirtPagesInterval, SMTT(30)
     DEF PagesOf, CallPage
<1>. QED  BY <1>1, <1>2, <1>4

RangesOK == InnerOK /\ CallOK /\ RangesApart

(* A step that changes neither the entry, the call nor the live ranges.    *)
LEMMA RangesUntouched ==
  RangesOK /\ UNCHANGED <<inner, call, live>> => RangesOK'
BY DEF RangesOK, InnerOK, CallOK, RangesApart, Top, Mapping, Unmapping, Before,
       PagesOf

(* The end of a call without a result: no range is being worked on.        *)
LEMMA RangesIdle ==
  RangesOK /\ call' = Idle /\ UNCHANGED <<inner, live>> => RangesOK'
BY DEF RangesOK, InnerOK, CallOK, RangesApart, Top, Mapping, Unmapping, Before,
       PCs, Idle

(* Every step keeps the ranges apart: allocate() takes the range at the    *)
(* start of the entry, which moves past it.                                *)
LEMMA RangesStep == RangesOK /\ [Next]_vars => RangesOK'
<1>. SUFFICES ASSUME RangesOK, [Next]_vars PROVE RangesOK'
  OBVIOUS
<1>. USE KernelPagesAssumption
<1>0. /\ InnerOK /\ CallOK /\ RangesApart
      /\ Top \in Nat /\ Top >= Start + 1 /\ Top <= Start + Size + 2
  BY RangesInside DEF RangesOK
<1>1. CASE init_frame_allocator
  BY <1>1, RangesUntouched DEF init_frame_allocator
<1>2. ASSUME NEW n \in 1..MaxRequest, allocate(n) PROVE RangesOK'
  <2>1. /\ call' \in [pc : PCs, at : Nat, n : Nat, i : Nat]
        /\ call'.pc = IF inner = NoEntry THEN "init" ELSE "reserve"
        /\ call'.at = 0 /\ call'.n = n /\ n >= 1 /\ call'.i = 0
        /\ UNCHANGED <<inner, live>>
    <3>0. n \in Nat /\ n >= 1 /\ UNCHANGED <<inner, live>>
      BY <1>2 DEF allocate
    <3>1. call' = [pc |-> IF inner = NoEntry THEN "init" ELSE "reserve",
                   at |-> 0, n |-> n, i |-> 0]
      BY <1>2, Zenon DEF allocate, Idle
    <3>. QED  BY <3>0, <3>1 DEF PCs
  <2>2. InnerOK' /\ Top' = Top /\ ~ Mapping' /\ ~ Unmapping'
    BY <1>0, <2>1 DEF InnerOK, Top, Mapping, Unmapping
  <2>3. CallOK'
    BY <2>1, <2>2 DEF CallOK
  <2>4. RangesApart'
    BY <1>0, <2>1, <2>2 DEF RangesApart, Before
  <2>. QED  BY <2>2, <2>3, <2>4 DEF RangesOK
<1>3. CASE add_entry_page
  <2>1. CASE call' = Idle
    BY <1>3, <2>1, RangesIdle DEF add_entry_page
  <2>2. CASE call' = [call EXCEPT !.pc = "init_table"]
    BY <1>0, <1>3, <2>2 DEF add_entry_page, RangesOK, InnerOK, CallOK,
             RangesApart, Top, Mapping, Unmapping, Before, PCs
  <2>. QED  BY <1>3, <2>1, <2>2 DEF add_entry_page
<1>4. CASE map_entry_page
  <2>1. CASE call' = [call EXCEPT !.pc = "no_table"] /\ UNCHANGED inner
    BY <1>0, <1>4, <2>1 DEF map_entry_page, RangesOK, InnerOK, CallOK,
             RangesApart, Top, Mapping, Unmapping, Before, PCs
  <2>2. CASE call' = [call EXCEPT !.pc = "reserve"] /\ inner' = FirstEntry
    BY <1>0, <1>4, <2>2 DEF map_entry_page, RangesOK, InnerOK, CallOK,
             RangesApart, Top, Mapping, Unmapping, Before, PCs, FirstEntry
  <2>. QED  BY <1>4, <2>1, <2>2 DEF map_entry_page
<1>5. CASE reserve
  <2>1. CASE inner = Empty \/ inner.pages < call.n
    BY <1>5, <2>1, RangesIdle DEF reserve
  <2>2. CASE ~ (inner = Empty \/ inner.pages < call.n)
    <3>1. /\ inner \in [start : Nat, pages : Nat]
          /\ inner.start >= Start + 1 /\ inner.pages >= call.n
          /\ inner.start + inner.pages = Start + Size + 2
          /\ Top = inner.start /\ inner # NoEntry /\ inner # Empty
          /\ call \in [pc : PCs, at : Nat, n : Nat, i : Nat]
          /\ call.n >= 1 /\ call.i = 0 /\ call.pc = "reserve"
      BY <1>0, <1>5, <2>2 DEF reserve, InnerOK, CallOK, Top
    <3>2. /\ call' = [call EXCEPT !.pc = "map", !.at = inner.start]
          /\ inner' = IF inner.pages = call.n
                      THEN Empty
                      ELSE [start |-> inner.start + call.n,
                            pages |-> inner.pages - call.n]
          /\ live' = live
      BY <1>5, <2>2 DEF reserve
    <3>3. InnerOK' /\ Top' = inner.start + call.n /\ inner' # NoEntry
      BY <3>1, <3>2 DEF InnerOK, Top
    <3>. /\ call' \in [pc : PCs, at : Nat, n : Nat, i : Nat]
         /\ call'.pc = "map" /\ call'.at = inner.start
         /\ call'.n = call.n /\ call'.i = 0
      BY <3>1, <3>2, Zenon DEF PCs
    <3>4. CallOK'
      BY <3>1, <3>3 DEF CallOK, Mapping, Unmapping
    <3>5. \A b \in live : b.at + b.n <= inner.start
      BY <1>0, <3>1 DEF RangesApart
    <3>6. RangesApart'
      BY <1>0, <3>1, <3>2, <3>3, <3>5 DEF RangesApart, Unmapping, Mapping, Before
    <3>. QED  BY <3>3, <3>4, <3>6 DEF RangesOK
  <2>. QED  BY <2>1, <2>2
<1>6. CASE alloc_kpage_frame
  <2>1. CASE call' = call
    BY <1>6, <2>1, RangesUntouched DEF alloc_kpage_frame, MapperPanic
  <2>2. CASE call' = Idle
    BY <1>6, <2>2, RangesIdle DEF alloc_kpage_frame, MapperPanic
  <2>3. CASE call' = [call EXCEPT !.pc = "map_table"]
    BY <1>0, <1>6, <2>3 DEF alloc_kpage_frame, MapperPanic, RangesOK, InnerOK,
             CallOK, RangesApart, Top, Mapping, Unmapping, Before, PCs, Idle
  <2>. QED  BY <1>6, <2>1, <2>2, <2>3 DEF alloc_kpage_frame, MapperPanic
<1>7. CASE alloc_kpage_map
  <2>0. inner' = inner /\ Top' = Top /\ call.pc = "map_table"
    BY <1>7 DEF alloc_kpage_map, Top
  <2>1. CASE call' = [call EXCEPT !.pc = "no_table"] /\ UNCHANGED live
    BY <1>0, <2>0, <2>1 DEF RangesOK, InnerOK, CallOK, RangesApart, Mapping,
             Unmapping, Before, PCs
  <2>2. CASE /\ call' = [call EXCEPT !.pc = "map", !.i = @ + 1]
             /\ call.i + 1 < call.n /\ UNCHANGED live
    <3>1. /\ call' \in [pc : PCs, at : Nat, n : Nat, i : Nat]
          /\ call'.pc = "map" /\ call'.at = call.at
          /\ call'.n = call.n /\ call'.i = call.i + 1
      <4>1. call \in [pc : PCs, at : Nat, n : Nat, i : Nat]
        BY <1>0 DEF CallOK
      <4>2. call.i + 1 \in Nat /\ "map" \in PCs
        BY <4>1 DEF PCs
      <4>3. call' = [call EXCEPT !.pc = "map", !.i = call.i + 1]
        BY <4>1, <2>2
      <4>. QED  BY <4>1, <4>2, <4>3, Zenon
    <3>2. InnerOK' /\ Mapping /\ Mapping' /\ ~ Unmapping'
      BY <1>0, <2>0, <3>1 DEF InnerOK, Mapping, Unmapping
    <3>3. CallOK'
      BY <1>0, <2>0, <2>2, <3>1, <3>2 DEF CallOK
    <3>4. RangesApart'
      BY <1>0, <2>0, <2>2, <3>1, <3>2 DEF RangesApart, Before
    <3>. QED  BY <3>2, <3>3, <3>4 DEF RangesOK
  <2>3. CASE call' = Idle /\ live' = live \cup {[at |-> call.at, n |-> call.n]}
    <3>1. InnerOK' /\ CallOK'
      BY <1>0, <2>0, <2>3 DEF InnerOK, CallOK, Mapping, Unmapping, PCs, Idle
    <3>2. /\ call.at \in Nat /\ call.n \in Nat /\ call.n >= 1
          /\ call.at >= Start + 1 /\ call.at + call.n = Top
          /\ \A b \in live : Before(b, call)
      BY <1>0, <2>0 DEF CallOK, RangesApart, Mapping
    <3>3. ~ Mapping' /\ ~ Unmapping'
      BY <2>3 DEF Mapping, Unmapping, Idle
    <3>4. RangesApart'
      BY <1>0, <2>0, <2>3, <3>2, <3>3 DEF RangesApart, Before
    <3>. QED  BY <3>1, <3>4 DEF RangesOK
  <2>. QED  BY <1>7, <2>1, <2>2, <2>3 DEF alloc_kpage_map
<1>8. CASE map_to_unwrap
  BY <1>8, RangesUntouched DEF map_to_unwrap, MapperPanic
<1>9. ASSUME NEW b \in live, deallocate(b) PROVE RangesOK'
  <2>1. /\ call' = [pc |-> "unmap", at |-> b.at, n |-> b.n, i |-> 0]
        /\ live' = live \ {b} /\ inner' = inner /\ Top' = Top
    BY <1>9 DEF deallocate, Top
  <2>2. /\ b \in [at : Nat, n : Nat]
        /\ b.n >= 1 /\ b.at >= Start + 1 /\ b.at + b.n <= Top
    BY <1>0 DEF RangesApart
  <2>3. InnerOK' /\ CallOK'
    BY <1>0, <2>1, <2>2 DEF InnerOK, CallOK, Mapping, Unmapping, PCs, Idle
  <2>4. ~ Mapping'
    BY <2>1 DEF Mapping
  <2>5. RangesApart'
    BY <1>0, <2>1, <2>2, <2>4 DEF RangesApart, Before
  <2>. QED  BY <2>3, <2>5 DEF RangesOK
<1>10. CASE free_kpage_unmap
  <2>1. CASE call' = call
    BY <1>10, <2>1, RangesUntouched DEF free_kpage_unmap, MapperPanic
  <2>2. CASE call' = [call EXCEPT !.pc = "clean_up"]
    BY <1>0, <1>10, <2>2 DEF free_kpage_unmap, MapperPanic, RangesOK, InnerOK,
             CallOK, RangesApart, Top, Mapping, Unmapping, Before, PCs, Idle
  <2>. QED  BY <1>10, <2>1, <2>2 DEF free_kpage_unmap, MapperPanic
<1>11. CASE free_kpage_clean_up
  <2>1. CASE call' = Idle
    BY <1>11, <2>1, RangesIdle DEF free_kpage_clean_up
  <2>2. CASE /\ call' = [call EXCEPT !.pc = "unmap", !.i = @ + 1]
             /\ call.i + 1 < call.n
    <3>0. UNCHANGED <<inner, live>> /\ Top' = Top /\ call.pc = "clean_up"
      BY <1>11 DEF free_kpage_clean_up, Top
    <3>1. /\ call' \in [pc : PCs, at : Nat, n : Nat, i : Nat]
          /\ call'.pc = "unmap" /\ call'.at = call.at
          /\ call'.n = call.n /\ call'.i = call.i + 1
      <4>1. call \in [pc : PCs, at : Nat, n : Nat, i : Nat]
        BY <1>0 DEF CallOK
      <4>2. call.i + 1 \in Nat /\ "unmap" \in PCs
        BY <4>1 DEF PCs
      <4>3. call' = [call EXCEPT !.pc = "unmap", !.i = call.i + 1]
        BY <4>1, <2>2
      <4>. QED  BY <4>1, <4>2, <4>3, Zenon
    <3>2. InnerOK' /\ ~ Mapping' /\ Unmapping /\ Unmapping'
      BY <1>0, <3>0, <3>1 DEF InnerOK, Mapping, Unmapping
    <3>3. CallOK'
      BY <1>0, <2>2, <3>0, <3>1, <3>2 DEF CallOK
    <3>4. RangesApart'
      BY <1>0, <3>0, <3>1, <3>2 DEF RangesApart, Before
    <3>. QED  BY <3>2, <3>3, <3>4 DEF RangesOK
  <2>. QED  BY <1>11, <2>1, <2>2 DEF free_kpage_clean_up
<1>12. CASE Halted
  BY <1>12, RangesUntouched DEF Halted, vars
<1>13. CASE UNCHANGED vars
  BY <1>13, RangesUntouched DEF vars
<1>. QED  BY <1>1, <1>2, <1>3, <1>4, <1>5, <1>6, <1>7, <1>8, <1>9, <1>10,
             <1>11, <1>12, <1>13 DEF Next

-----------------------------------------------------------------------------
(* Frames.                                                                 *)

(* Handles that have a frame keep it.                                      *)
Grows == \A g \in Handles : held[g] # NoFrame => held'[g] = held[g]

(* A step of a call that is not at a page of its range, in which only new  *)
(* frames are given out, and none to a page above the entry's start.       *)
LEMMA BackingQuiet ==
  ASSUME RangesOK, Backing, Grows, DOMAIN held' = Handles,
         live' = live, Top' = Top,
         call'.pc \in {"idle", "init", "init_table", "reserve", "no_table"},
         \A p \in VirtPages : p >= Top => held'[PageAt(p)] = held[PageAt(p)]
  PROVE  Backing'
<1>1. \A b \in live : PagesOf(b) \subseteq VirtPages
  BY RangesInside DEF RangesOK
<1>2. \A b \in live : \A p \in PagesOf(b) : Backed(p)'
  BY <1>1, HandleFacts DEF Backing, Backed, Grows
<1>3. \A p \in VirtPages : p >= Top => ~ Mapped(p)'
  BY DEF Backing, Mapped
<1>. QED  BY <1>2, <1>3 DEF Backing, Unmapping, PagesOf

(* A step that changes nothing Backing is about.                           *)
LEMMA BackingUntouched ==
  Backing /\ UNCHANGED <<held, inner, call, live>> => Backing'
BY DEF Backing, Backed, Mapped, Top, Unmapping, PagesOf, CallPage, PageAt,
       TableAt

(* Every step maps the pages of a range in order, and unmaps them so.      *)
LEMMA BackingStep ==
  RangesOK /\ Backing /\ NoConflict /\ [Next]_vars
    => Backing' /\ NoConflict'
<1>. SUFFICES ASSUME RangesOK, Backing, NoConflict, [Next]_vars
              PROVE  Backing' /\ NoConflict'
  OBVIOUS
<1>. USE KernelPagesAssumption
<1>0. /\ InnerOK /\ CallOK /\ RangesApart
      /\ Top \in Nat /\ Top >= Start + 1 /\ Top <= Start + Size + 2
      /\ \A b \in live : PagesOf(b) \subseteq VirtPages
      /\ Mapping \/ Unmapping =>
           /\ PagesOf(call) \subseteq VirtPages
           /\ CallPage \in PagesOf(call) /\ CallPage \in VirtPages
           /\ CallPage # Start
      /\ DOMAIN held = Handles
  BY RangesInside DEF RangesOK, Backing
<1>a. Start \in VirtPages /\ VirtPages \subseteq Nat
  BY VirtPagesInterval
<1>b. call \in [pc : PCs, at : Nat, n : Nat, i : Nat]
  BY <1>0 DEF CallOK
<1>1. CASE init_frame_allocator
  BY <1>1, BackingUntouched
     DEF init_frame_allocator, F!allocate_bitmap, NoConflict
<1>2. ASSUME NEW n \in 1..MaxRequest, allocate(n)
      PROVE  Backing' /\ NoConflict'
  <2>1. call'.pc \in {"init", "reserve"}
    BY <1>2 DEF allocate, Idle
  <2>2. UNCHANGED <<held, inner, live, error>> /\ Top' = Top
    BY <1>2 DEF allocate, Top
  <2>. QED  BY <1>0, <2>1, <2>2, BackingQuiet DEF Grows, NoConflict
<1>3. CASE add_entry_page
  <2>1. call'.pc \in {"idle", "init_table"}
    BY <1>3, <1>b DEF add_entry_page, Idle
  <2>2. UNCHANGED <<inner, live, error>> /\ Top' = Top
    BY <1>3 DEF add_entry_page, Top
  <2>3. F!allocate_frame(PageAt(Start)) /\ PageAt(Start) \in Handles
    BY <1>3, <1>a, HandleFacts DEF add_entry_page
  <2>4. /\ DOMAIN held' = Handles /\ Grows
        /\ \A g \in Handles : g # PageAt(Start) => held'[g] = held[g]
    BY <1>0, <2>3, AllocateOne DEF Grows
  <2>5. \A p \in VirtPages : p >= Top => held'[PageAt(p)] = held[PageAt(p)]
    BY <1>0, <1>a, <2>4, HandleFacts
  <2>. QED  BY <2>1, <2>2, <2>4, <2>5, BackingQuiet DEF NoConflict
<1>4. CASE map_entry_page
  <2>1. call'.pc \in {"no_table", "reserve"}
    BY <1>4, <1>b DEF map_entry_page
  <2>2. UNCHANGED <<live, error>> /\ Top' = Top
    BY <1>0, <1>4 DEF map_entry_page, Top, CallOK, FirstEntry
  <2>3. TableAt(Start) \in Handles
    BY <1>a, HandleFacts
  <2>4. /\ DOMAIN held' = Handles /\ Grows
        /\ \A g \in Handles : g # TableAt(Start) => held'[g] = held[g]
    <3>1. CASE HasTable(Start)
      BY <1>0, <3>1 DEF HasTable, frameVars, Grows
    <3>2. CASE NewTable(Start)
      BY <1>0, <2>3, <3>2, AllocateOne DEF NewTable, Grows
    <3>. QED  BY <1>4, <3>1, <3>2 DEF map_entry_page
  <2>5. \A p \in VirtPages : p >= Top => held'[PageAt(p)] = held[PageAt(p)]
    BY <2>4, HandleFacts
  <2>. QED  BY <2>1, <2>2, <2>4, <2>5, BackingQuiet DEF NoConflict
<1>5. CASE reserve
  <2>0. UNCHANGED <<held, live, error>>
    BY <1>5 DEF reserve, frameVars
  <2>1. CASE inner = Empty \/ inner.pages < call.n
    <3>1. call'.pc = "idle" /\ Top' = Top
      BY <1>5, <2>1 DEF reserve, Idle, Top
    <3>. QED  BY <1>0, <2>0, <3>1, BackingQuiet DEF Grows, NoConflict
  <2>2. CASE ~ (inner = Empty \/ inner.pages < call.n)
    <3>1. /\ inner \in [start : Nat, pages : Nat] /\ call.pc = "reserve"
          /\ inner.start + inner.pages = Start + Size + 2
          /\ inner.start >= Start + 1
          /\ Top = inner.start /\ inner # Empty /\ inner # NoEntry
          /\ call.n >= 1 /\ call.i = 0 /\ call.n <= inner.pages
      BY <1>0, <1>5, <2>2 DEF reserve, InnerOK, CallOK, Top
    <3>2. /\ call'.pc = "map" /\ call'.at = inner.start
          /\ call'.n = call.n /\ call'.i = 0
      BY <1>5, <1>b, <2>2, <3>1, Zenon DEF reserve
    <3>3. Top' = Top + call.n
      BY <1>5, <1>b, <2>2, <3>1 DEF reserve, Top
    <3>4. CallPage' = Top /\ \A p \in PagesOf(call)' : p \in VirtPages /\ p >= Top
      BY <1>b, <3>1, <3>2, VirtPagesInterval, SMTT(30) DEF CallPage, PagesOf
    <3>5. \A p \in VirtPages : p >= Top => ~ Mapped(p)'
      BY <2>0 DEF Backing, Mapped
    <3>6. /\ \A p \in PagesOf(call)' : ~ (p < CallPage') /\ ~ Mapped(p)'
          /\ ~ Mapped(CallPage)'
      <4>1. Top \in VirtPages
        BY <1>0, <1>b, <3>1, VirtPagesInterval
      <4>2. ASSUME NEW p \in PagesOf(call)'
            PROVE  ~ (p < CallPage') /\ ~ Mapped(p)'
        <5>1. p \in VirtPages /\ p >= Top /\ CallPage' = Top
          BY <3>4
        <5>2. p \in Nat
          BY <1>a, <5>1
        <5>. QED  BY <1>0, <3>5, <5>1, <5>2
      <4>3. held'[PageAt(Top)] = NoFrame
        BY <1>0, <3>5, <4>1 DEF Mapped
      <4>. QED  BY <3>4, <4>2, <4>3 DEF Mapped, PageAt
    <3>7. \A b \in live' : \A p \in PagesOf(b) : Backed(p)'
      BY <2>0 DEF Backing, Backed
    <3>8. \A p \in VirtPages : p >= Top' => ~ Mapped(p)'
      BY <1>0, <1>a, <1>b, <3>3, <3>5
    <3>9. DOMAIN held' = Handles /\ ~ Unmapping'
      BY <1>0, <2>0, <3>2 DEF Unmapping
    <3>. QED  BY <2>0, <3>2, <3>6, <3>7, <3>8, <3>9
              DEF Backing, NoConflict
  <2>. QED  BY <2>1, <2>2
<1>6. CASE alloc_kpage_frame
  <2>0. /\ call.pc = "map" /\ Mapping /\ ~ Mapped(CallPage) /\ CallPage < Top
        /\ CallPage \in PagesOf(call) /\ CallPage \in VirtPages
        /\ PagesOf(call) \subseteq VirtPages
    BY <1>0, <1>6, <1>b
       DEF alloc_kpage_frame, Mapping, Backing, CallOK, CallPage
  <2>1. /\ F!allocate_frame(PageAt(CallPage)) /\ PageAt(CallPage) \in Handles
        /\ UNCHANGED <<inner, live, error>> /\ Top' = Top
    BY <1>6, <2>0, HandleFacts DEF alloc_kpage_frame, Top
  <2>2. /\ DOMAIN held' = Handles /\ Grows
        /\ \A g \in Handles : g # PageAt(CallPage) => held'[g] = held[g]
    BY <1>0, <2>1, AllocateOne DEF Grows
  <2>3. \A p \in VirtPages : p # CallPage => held'[PageAt(p)] = held[PageAt(p)]
    BY <2>2, HandleFacts
  <2>4. \A p \in VirtPages : p >= Top => held'[PageAt(p)] = held[PageAt(p)]
    <3>1. \A p \in VirtPages : p \in Nat
      BY <1>a
    <3>2. \A p \in VirtPages : p >= Top => p # CallPage
      BY <1>0, <2>0, <3>1
    <3>. QED  BY <2>3, <3>2
  <2>5. CASE held'[PageAt(CallPage)] = NoFrame
    <3>1. call'.pc = "idle"
      BY <1>6, <2>0, <2>5 DEF alloc_kpage_frame, Idle
    <3>. QED  BY <2>1, <2>2, <2>4, <3>1, BackingQuiet DEF NoConflict
  <2>6. CASE held'[PageAt(CallPage)] # NoFrame
    <3>1. /\ call'.pc = "map_table" /\ call'.at = call.at
          /\ call'.n = call.n /\ call'.i = call.i
      BY <1>6, <1>b, <2>0, <2>6 DEF alloc_kpage_frame
    <3>2. PagesOf(call)' = PagesOf(call) /\ CallPage' = CallPage /\ ~ Unmapping'
      BY <3>1 DEF PagesOf, CallPage, Unmapping
    <3>3. \A p \in VirtPages : Backed(p) => Backed(p)'
      BY <2>2, HandleFacts DEF Backed, Grows
    <3>4. \A b \in live' : \A p \in PagesOf(b) : Backed(p)'
      BY <1>0, <2>1, <3>3 DEF Backing
    <3>5. \A p \in VirtPages : p >= Top' => ~ Mapped(p)'
      BY <2>1, <2>4 DEF Backing, Mapped
    <3>6. \A p \in PagesOf(call)' : p < CallPage' => Backed(p)'
      BY <2>0, <3>2, <3>3 DEF Backing
    <3>7. \A p \in PagesOf(call)' : p > CallPage' => ~ Mapped(p)'
      <4>1. \A p \in PagesOf(call) : p \in VirtPages /\ p \in Nat
        BY <1>a, <2>0
      <4>2. \A p \in PagesOf(call) : p > CallPage => p # CallPage
        BY <2>0, <4>1
      <4>3. \A p \in PagesOf(call) : p > CallPage => ~ Mapped(p)
        BY <2>0 DEF Backing
      <4>. QED  BY <2>3, <3>2, <4>1, <4>2, <4>3 DEF Mapped
    <3>8. Mapped(CallPage)'
      BY <2>6, <3>2 DEF Mapped, PageAt
    <3>. QED  BY <2>1, <2>2, <3>1, <3>2, <3>4, <3>5, <3>6, <3>7, <3>8
              DEF Backing, NoConflict
  <2>. QED  BY <2>5, <2>6
<1>7. CASE alloc_kpage_map
  <2>0. /\ call.pc = "map_table" /\ Mapping /\ Mapped(CallPage)
        /\ CallPage \in PagesOf(call) /\ CallPage \in VirtPages
        /\ PagesOf(call) \subseteq VirtPages
        /\ UNCHANGED <<inner, error>> /\ Top' = Top
    BY <1>0, <1>7 DEF alloc_kpage_map, Mapping, Backing, Top
  <2>1. /\ DOMAIN held' = Handles /\ Grows
        /\ \A g \in Handles : g # TableAt(CallPage) => held'[g] = held[g]
    <3>1. CASE HasTable(CallPage)
      BY <1>0, <3>1 DEF HasTable, frameVars, Grows
    <3>2. CASE NewTable(CallPage)
      BY <1>0, <2>0, <3>2, HandleFacts, AllocateOne DEF NewTable, Grows
    <3>. QED  BY <1>7, <3>1, <3>2 DEF alloc_kpage_map
  <2>2. \A p \in VirtPages : held'[PageAt(p)] = held[PageAt(p)]
    BY <2>1, HandleFacts
  <2>3. \A p \in VirtPages : Backed(p) => Backed(p)'
    BY <2>1, HandleFacts DEF Backed, Grows
  <2>4. CASE call' = [call EXCEPT !.pc = "no_table"] /\ UNCHANGED live
    <3>1. call'.pc = "no_table"
      BY <1>b, <2>4
    <3>. QED  BY <2>0, <2>1, <2>2, <2>4, <3>1, BackingQuiet
              DEF NoConflict
  <2>5. CASE held'[TableAt(CallPage)] # NoFrame
    <3>1. held'[PageAt(CallPage)] # NoFrame /\ held'[TableAt(CallPage)] # NoFrame
      BY <2>0, <2>2, <2>5 DEF Mapped
    <3>2. \A p \in PagesOf(call) : p <= CallPage => Backed(p)'
      <4>1. \A p \in PagesOf(call) : p < CallPage => Backed(p)'
        BY <2>0, <2>3 DEF Backing
      <4>2. \A p \in PagesOf(call) : p = CallPage => Backed(p)'
        BY <3>1 DEF Backed
      <4>3. \A p \in PagesOf(call) : p \in Nat
        BY <1>a, <2>0
      <4>. QED  BY <2>0, <4>1, <4>2, <4>3
    <3>3. \A b \in live : \A p \in PagesOf(b) : Backed(p)'
      BY <1>0, <2>3 DEF Backing
    <3>4. \A p \in VirtPages : p >= Top' => ~ Mapped(p)'
      BY <2>0, <2>2 DEF Backing, Mapped
    <3>5. CASE /\ call' = [call EXCEPT !.pc = "map", !.i = @ + 1]
               /\ call.i + 1 < call.n /\ UNCHANGED live
      <4>1. /\ call'.pc = "map" /\ call'.at = call.at
            /\ call'.n = call.n /\ call'.i = call.i + 1
        BY <1>b, <3>5
      <4>2. /\ PagesOf(call)' = PagesOf(call) /\ CallPage' = CallPage + 1
            /\ ~ Unmapping' /\ CallPage \in Nat
            /\ CallPage + 1 \in PagesOf(call)
        BY <1>b, <3>5, <4>1 DEF PagesOf, CallPage, Unmapping
      <4>3. \A p \in PagesOf(call) : p \in VirtPages /\ p \in Nat
        BY <1>a, <2>0
      <4>4. \A p \in PagesOf(call) : p < CallPage + 1 => Backed(p)'
        BY <3>2, <4>2, <4>3
      <4>5. \A p \in PagesOf(call) : p > CallPage => held'[PageAt(p)] = NoFrame
        BY <2>0, <2>2, <4>3 DEF Backing, Mapped
      <4>6. \A p \in PagesOf(call) : p > CallPage + 1 => ~ Mapped(p)'
        BY <4>2, <4>3, <4>5 DEF Mapped
      <4>7. held'[PageAt(CallPage + 1)] = NoFrame
        BY <4>2, <4>5
      <4>8. ~ Mapped(CallPage)'
        BY <4>2, <4>7 DEF Mapped, PageAt
      <4>. QED  BY <2>0, <2>1, <3>3, <3>4, <3>5, <4>1, <4>2, <4>4, <4>6, <4>8
                DEF Backing, NoConflict
    <3>6. CASE /\ call' = Idle /\ ~ (call.i + 1 < call.n)
               /\ live' = live \cup {[at |-> call.at, n |-> call.n]}
      <4>1. \A p \in PagesOf([at |-> call.at, n |-> call.n]) :
              p \in PagesOf(call) /\ p <= CallPage
        BY <1>b, <3>6 DEF PagesOf, CallPage
      <4>2. \A b \in live' : \A p \in PagesOf(b) : Backed(p)'
        BY <3>2, <3>3, <3>6, <4>1
      <4>3. call'.pc = "idle" /\ ~ Unmapping'
        BY <3>6 DEF Idle, Unmapping
      <4>. QED  BY <2>0, <2>1, <3>4, <4>2, <4>3 DEF Backing, NoConflict
    <3>. QED  BY <1>7, <2>5, <3>5, <3>6 DEF alloc_kpage_map
  <2>. QED  BY <1>7, <2>4, <2>5 DEF alloc_kpage_map
<1>8. CASE map_to_unwrap
  BY <1>8, BackingUntouched, SMTT(30) DEF map_to_unwrap, MapperPanic, NoConflict
<1>9. ASSUME NEW b \in live, deallocate(b)
      PROVE  Backing' /\ NoConflict'
  <2>1. /\ call' = [pc |-> "unmap", at |-> b.at, n |-> b.n, i |-> 0]
        /\ live' = live \ {b} /\ UNCHANGED <<inner, held, error>> /\ Top' = Top
    BY <1>9 DEF deallocate, frameVars, Top
  <2>2. b.at \in Nat /\ b.n \in Nat /\ b.n >= 1
    BY <1>0 DEF RangesApart
  <2>3. PagesOf(call)' = PagesOf(b) /\ CallPage' = b.at /\ b.at \in PagesOf(b)
    BY <2>1, <2>2 DEF PagesOf, CallPage
  <2>4. \A p \in PagesOf(b) : Backed(p)'
    BY <2>1 DEF Backing, Backed
  <2>5. Backed(CallPage)'
    BY <2>3, <2>4, SMTT(30) DEF Backed, PageAt, TableAt
  <2>6. \A c \in live' : \A p \in PagesOf(c) : Backed(p)'
    BY <2>1 DEF Backing, Backed
  <2>7. \A p \in VirtPages : p >= Top' => ~ Mapped(p)'
    BY <2>1 DEF Backing, Mapped
  <2>. QED  BY <1>0, <2>1, <2>3, <2>4, <2>5, <2>6, <2>7
            DEF Backing, NoConflict
<1>10. CASE free_kpage_unmap
  <2>0. /\ call.pc = "unmap" /\ Unmapping /\ Backed(CallPage)
        /\ CallPage \in PagesOf(call) /\ CallPage \in VirtPages
        /\ PagesOf(call) \subseteq VirtPages
    BY <1>0, <1>10 DEF free_kpage_unmap, Unmapping, Backing
  <2>1. /\ F!deallocate_frame(PageAt(CallPage)) /\ PageAt(CallPage) \in Handles
        /\ call' = [call EXCEPT !.pc = "clean_up"]
        /\ UNCHANGED <<inner, live, error>> /\ Top' = Top
    BY <1>10, <2>0, HandleFacts DEF free_kpage_unmap, Backed, Mapped, Top
  <2>2. /\ DOMAIN held' = Handles
        /\ \A g \in Handles : g # PageAt(CallPage) => held'[g] = held[g]
        /\ \A g \in Handles : held[g] = NoFrame => held'[g] = held[g]
    BY <1>0, <2>1, DeallocateOne
  <2>3. \A p \in VirtPages : p # CallPage /\ Backed(p) => Backed(p)'
    BY <2>2, HandleFacts DEF Backed
  <2>4. \A b \in live : CallPage \notin PagesOf(b)
    BY <1>0, <1>b, <2>0 DEF RangesApart, Before, PagesOf
  <2>5. \A b \in live' : \A p \in PagesOf(b) : Backed(p)'
    BY <1>0, <2>1, <2>3, <2>4 DEF Backing
  <2>6. \A p \in VirtPages : p >= Top' => ~ Mapped(p)'
    BY <2>1, <2>2, HandleFacts DEF Backing, Mapped
  <2>7. /\ call'.pc = "clean_up" /\ PagesOf(call)' = PagesOf(call)
        /\ CallPage' = CallPage
    BY <1>b, <2>1 DEF PagesOf, CallPage
  <2>8. \A p \in PagesOf(call)' : p > CallPage' => Backed(p)'
    <3>1. \A p \in PagesOf(call) : p \in VirtPages /\ p \in Nat
      BY <1>a, <2>0
    <3>2. \A p \in PagesOf(call) : p > CallPage => p # CallPage
      BY <2>0, <3>1
    <3>3. \A p \in PagesOf(call) : p > CallPage => Backed(p)
      BY <2>0 DEF Backing
    <3>. QED  BY <2>3, <2>7, <3>1, <3>2, <3>3
  <2>. QED  BY <2>1, <2>2, <2>5, <2>6, <2>7, <2>8
            DEF Backing, NoConflict
<1>11. CASE free_kpage_clean_up
  <2>0. /\ call.pc = "clean_up" /\ Unmapping
        /\ CallPage \in PagesOf(call) /\ CallPage \in VirtPages
        /\ PagesOf(call) \subseteq VirtPages
        /\ UNCHANGED <<inner, live, error>> /\ Top' = Top
    BY <1>0, <1>11, SMTT(30) DEF free_kpage_clean_up, Unmapping, Top
  <2>1. /\ DOMAIN held' = Handles
        /\ \A p \in VirtPages : held'[PageAt(p)] = held[PageAt(p)]
        /\ \A p \in VirtPages : Backed(p) => Backed(p)'
    <3>1. CASE TableUnused(CallPage) /\ held[TableAt(CallPage)] # NoFrame
      <4>1. F!deallocate_frame(TableAt(CallPage)) /\ TableAt(CallPage) \in Handles
        BY <1>11, <2>0, <3>1, HandleFacts DEF free_kpage_clean_up
      <4>2. /\ DOMAIN held' = Handles
            /\ \A g \in Handles : g # TableAt(CallPage) => held'[g] = held[g]
        BY <1>0, <4>1, DeallocateOne
      <4>3. \A p \in VirtPages : Backed(p) => TableAt(p) # TableAt(CallPage)
        BY <3>1 DEF Backed, TableUnused, TableAt, Mapped
      <4>. QED  BY <4>2, <4>3, HandleFacts DEF Backed
    <3>2. CASE ~ (TableUnused(CallPage) /\ held[TableAt(CallPage)] # NoFrame)
      BY <1>0, <1>11, <3>2, SMTT(30) DEF free_kpage_clean_up, frameVars, Backed
    <3>. QED  BY <3>1, <3>2, SMTT(30)
  <2>2. \A b \in live' : \A p \in PagesOf(b) : Backed(p)'
    BY <1>0, <2>0, <2>1, SMTT(30) DEF Backing
  <2>3. \A p \in VirtPages : p >= Top' => ~ Mapped(p)'
    BY <2>0, <2>1, SMTT(30) DEF Backing, Mapped
  <2>4. CASE call' = Idle
    <3>1. call'.pc = "idle" /\ ~ Unmapping'
      BY <2>4, SMTT(30) DEF Idle, Unmapping
    <3>. QED  BY <2>0, <2>1, <2>2, <2>3, <3>1 DEF Backing, NoConflict
  <2>5. CASE /\ call' = [call EXCEPT !.pc = "unmap", !.i = @ + 1]
             /\ call.i + 1 < call.n
    <3>1. /\ call'.pc = "unmap" /\ call'.at = call.at
          /\ call'.n = call.n /\ call'.i = call.i + 1
      BY <1>b, <2>5
    <3>2. /\ PagesOf(call)' = PagesOf(call) /\ CallPage' = CallPage + 1
          /\ CallPage \in Nat /\ CallPage + 1 \in PagesOf(call)
      BY <1>b, <2>5, <3>1 DEF PagesOf, CallPage
    <3>3. \A p \in PagesOf(call) : p \in VirtPages /\ p \in Nat
      BY <1>a, <2>0, SMTT(30)
    <3>4. \A p \in PagesOf(call) : p > CallPage => Backed(p)'
      BY <2>0, <2>1, <3>3 DEF Backing
    <3>5. \A p \in PagesOf(call)' : p > CallPage' => Backed(p)'
      BY <3>2, <3>3, <3>4
    <3>6. Backed(CallPage)'
      BY <1>0, <2>0, <3>2, <3>4 DEF Backed, PageAt, TableAt, TableOf
    <3>. QED  BY <2>0, <2>1, <2>2, <2>3, <3>1, <3>5, <3>6
              DEF Backing, NoConflict
  <2>. QED  BY <1>11, <2>4, <2>5 DEF free_kpage_clean_up
<1>12. CASE Halted
  BY <1>12, BackingUntouched DEF Halted, vars, NoConflict
<1>13. CASE UNCHANGED vars
  BY <1>13, BackingUntouched DEF vars, NoConflict
<1>. QED  BY <1>1, <1>2, <1>3, <1>4, <1>5, <1>6, <1>7, <1>8, <1>9, <1>10,
             <1>11, <1>12, <1>13 DEF Next

-----------------------------------------------------------------------------
(* Theorems.                                                               *)

(* allocate, deallocate and everything they call keep PagesInv.            *)
THEOREM PagesInvariance == Spec => []PagesInv
<1>1. Init => PagesInv
  <2>. SUFFICES ASSUME Init PROVE PagesInv
    BY SMTT(30)
  <2>. USE KernelPagesAssumption
  <2>1. InnerOK /\ CallOK /\ RangesApart /\ NoConflict
    BY DEF Init, InnerOK, CallOK, RangesApart, NoConflict, Mapping,
           Unmapping, PCs, Idle, Before
  <2>2. held = [h \in Handles |-> NoFrame]
    BY DEF Init, F!Init
  <2>3. \A p \in VirtPages : ~ Mapped(p)
    BY <2>2, HandleFacts DEF Mapped
  <2>4. Backing
    BY <2>2, <2>3 DEF Init, Backing, Idle, Unmapping
  <2>. QED  BY <2>1, <2>4 DEF PagesInv
<1>2. PagesInv /\ [Next]_vars => PagesInv'
  BY RangesStep, BackingStep DEF PagesInv, RangesOK
<1>. QED  BY <1>1, <1>2, PTL DEF Spec

(* As long as no frame is shared, memory handed out by FullPageAllocator   *)
(* is backed by frames and page tables until it is given back, whatever    *)
(* the calls around it do.                                                 *)
THEOREM LiveAlwaysBacked == Spec => []LiveBacked
<1>1. PagesInv => LiveBacked
  BY DEF PagesInv, Backing, Backed, LiveBacked
<1>. QED  BY <1>1, PagesInvariance, PTL

(* As long as no frame is shared, alloc_kpage never meets a mapped page    *)
(* and free_kpage never an unmapped one: the mapper's unwrap()s only fail  *)
(* for want of a frame.                                                    *)
THEOREM UnwrapsHold == Spec => []MappingNeverConflicts
<1>1. PagesInv => MappingNeverConflicts
  BY DEF PagesInv, NoConflict, MappingNeverConflicts
<1>. QED  BY <1>1, PagesInvariance, PTL

(* As long as no frame is shared, the frame behind a live page never       *)
(* changes: frames are taken only from the range that is being given back. *)
THEOREM FramesStable == Spec => LiveFramesStable
<1>1. ASSUME PagesInv, [Next]_vars
      PROVE  \A b \in live \cap live' : \A p \in PagesOf(b) :
                held'[PageAt(p)] = held[PageAt(p)]
  <2>0. /\ \A b \in live : PagesOf(b) \subseteq VirtPages
        /\ Mapping \/ Unmapping =>
             CallPage \in PagesOf(call) /\ CallPage \in VirtPages
        /\ DOMAIN held = Handles /\ Start \in VirtPages
    BY <1>1, RangesInside, VirtPagesInterval, KernelPagesAssumption
       DEF PagesInv, Backing
  <2>1. CASE UNCHANGED held
    BY <2>1, SMTT(30)
  <2>2. ASSUME NEW h \in Handles, F!allocate_frame(h)
        PROVE  \A b \in live : \A p \in PagesOf(b) :
                  held'[PageAt(p)] = held[PageAt(p)]
    BY <1>1, <2>0, <2>2, AllocateOne, HandleFacts, SMTT(30) DEF PagesInv, Backing, Backed
  <2>3. CASE free_kpage_unmap /\ F!deallocate_frame(PageAt(CallPage))
    <3>1. Unmapping /\ PageAt(CallPage) \in Handles
      BY <2>0, <2>3, HandleFacts DEF free_kpage_unmap, Unmapping
    <3>2. \A g \in Handles : g # PageAt(CallPage) => held'[g] = held[g]
      BY <2>0, <2>3, <3>1, DeallocateOne
    <3>3. \A b \in live : CallPage \notin PagesOf(b)
      BY <1>1, <2>0, <3>1
         DEF PagesInv, CallOK, RangesApart, Before, PagesOf
    <3>. QED  BY <2>0, <3>2, <3>3, HandleFacts
  <2>4. CASE free_kpage_clean_up /\ F!deallocate_frame(TableAt(CallPage))
    <3>1. TableAt(CallPage) \in Handles
      BY <2>0, <2>4, HandleFacts DEF free_kpage_clean_up, Unmapping
    <3>2. \A g \in Handles : g # TableAt(CallPage) => held'[g] = held[g]
      BY <2>0, <2>4, <3>1, DeallocateOne
    <3>. QED  BY <2>0, <3>2, HandleFacts
  <2>5. CASE init_frame_allocator \/ map_to_unwrap
    BY <2>1, <2>5 DEF init_frame_allocator, F!allocate_bitmap, map_to_unwrap,
                      MapperPanic
  <2>6. CASE add_entry_page
    BY <2>0, <2>2, <2>6, HandleFacts DEF add_entry_page
  <2>7. CASE map_entry_page
    BY <2>0, <2>1, <2>2, <2>7, HandleFacts
       DEF map_entry_page, HasTable, NewTable, frameVars
  <2>8. CASE alloc_kpage_frame
    BY <2>0, <2>1, <2>2, <2>8, HandleFacts
       DEF alloc_kpage_frame, MapperPanic, Mapping
  <2>9. CASE alloc_kpage_map
    BY <2>0, <2>1, <2>2, <2>9, HandleFacts
       DEF alloc_kpage_map, HasTable, NewTable, frameVars, Mapping
  <2>10. CASE free_kpage_unmap
    BY <2>1, <2>3, <2>10 DEF free_kpage_unmap, MapperPanic
  <2>11. CASE free_kpage_clean_up
    BY <2>1, <2>4, <2>11, SMTT(30) DEF free_kpage_clean_up, frameVars
  <2>12. CASE \/ \E n \in 1..MaxRequest : allocate(n)
              \/ reserve \/ Halted \/ UNCHANGED vars
              \/ \E b \in live : deallocate(b)
    BY <2>1, <2>12, Zenon DEF allocate, reserve, Halted, deallocate, vars, frameVars
  <2>. QED  BY <1>1, <2>5, <2>6, <2>7, <2>8, <2>9, <2>10, <2>11, <2>12, SMTT(30) DEF Next
<1>. QED  BY <1>1, PagesInvariance, PTL DEF Spec, LiveFramesStable

(* The pages given out so far are those below the entry.                   *)
LEMMA IssuedBelowTop == InnerOK => Issued = (Start + 1) .. (Top - 1)
<1>. USE KernelPagesAssumption
<1>1. CASE inner = NoEntry
  BY <1>1 DEF Issued, Top
<1>2. CASE inner = Empty
  <2>1. Issued = VirtPages \ {Start} /\ Top = Start + Size + 2
    BY <1>2 DEF Issued, Top
  <2>. QED  BY <2>1, VirtPagesInterval
<1>3. CASE inner \notin {NoEntry, Empty}
  <2>1. Issued = FirstEntry.start .. (inner.start - 1) /\ Top = inner.start
    BY <1>3 DEF Issued, Top
  <2>. QED  BY <2>1 DEF FirstEntry
<1>. QED  BY <1>1, <1>2, <1>3

(* A step that neither moves the entry nor changes who owns which range.   *)
LEMMA SourceStutters ==
  UNCHANGED <<Issued, live, Reserved>> => UNCHANGED Source!vars
BY DEF Source!vars

(* No address range is handed out twice, not even after deallocate(): the  *)
(* page allocator implements PageSource.  A range is taken when reserve()  *)
(* moves the entry, and given up by deallocate() or by a failed call.      *)
THEOREM PageSourceRefined == Spec => ImplementsPageSource
<1>1. Init => Source!Init
  BY DEF Init, Source!Init, Issued, Reserved, Idle
<1>2. ASSUME PagesInv, PagesInv', [Next]_vars
      PROVE  [Source!Next]_(Source!vars)
  <2>. USE KernelPagesAssumption
  <2>0. /\ InnerOK /\ CallOK /\ RangesApart
        /\ Top \in Nat /\ Top >= Start + 1 /\ Top <= Start + Size + 2
    BY <1>2, RangesInside DEF PagesInv
  <2>a. call \in [pc : PCs, at : Nat, n : Nat, i : Nat]
    BY <2>0 DEF CallOK
  <2>b. Issued = (Start + 1) .. (Top - 1)
    BY <2>0, IssuedBelowTop
  <2>1. CASE UNCHANGED <<inner, call, live>>
    <3>1. UNCHANGED <<Issued, live, Reserved>>
      BY <2>1 DEF Issued, Reserved
    <3>. QED  BY <3>1, SourceStutters
  <2>2. CASE Reserved = {} /\ Reserved' = {} /\ UNCHANGED <<inner, live>>
    <3>1. UNCHANGED <<Issued, live, Reserved>>
      BY <2>2 DEF Issued
    <3>. QED  BY <3>1, SourceStutters
  <2>3. CASE init_frame_allocator \/ map_to_unwrap \/ Halted \/ UNCHANGED vars
    BY <2>1, <2>3
       DEF init_frame_allocator, map_to_unwrap, MapperPanic, Halted, vars
  <2>4. ASSUME NEW n \in 1..MaxRequest, allocate(n)
        PROVE  [Source!Next]_(Source!vars)
    BY <2>2, <2>4 DEF allocate, Reserved, Idle
  <2>5. CASE add_entry_page
    <3>1. call.pc = "init" /\ call'.pc \in {"idle", "init_table"}
      BY <2>5, <2>a DEF add_entry_page, Idle
    <3>. QED  BY <2>2, <2>5, <3>1 DEF add_entry_page, Reserved
  <2>6. CASE map_entry_page
    <3>1. /\ call.pc = "init_table" /\ call.at = 0 /\ call'.at = 0
          /\ inner = NoEntry
      BY <2>0, <2>6, <2>a DEF map_entry_page, CallOK
    <3>2. Reserved = {} /\ Reserved' = {}
      BY <3>1 DEF Reserved
    <3>3. Issued = {} /\ Issued' = {}
      BY <2>6, <3>1 DEF map_entry_page, Issued, FirstEntry
    <3>4. live' = live
      BY <2>6 DEF map_entry_page
    <3>. QED  BY <3>2, <3>3, <3>4, SourceStutters
  <2>7. CASE reserve
    <3>1. CASE inner = Empty \/ inner.pages < call.n
      BY <2>2, <2>7, <3>1 DEF reserve, Reserved, Idle
    <3>2. CASE ~ (inner = Empty \/ inner.pages < call.n)
      <4>1. /\ inner \in [start : Nat, pages : Nat]
            /\ inner.start + inner.pages = Start + Size + 2
            /\ inner.start >= Start + 1 /\ Top = inner.start
            /\ call.n >= 1 /\ call.n <= inner.pages /\ call.pc = "reserve"
            /\ inner # Empty /\ inner # NoEntry
        BY <2>0, <2>7, <2>a, <3>2 DEF reserve, InnerOK, CallOK, Top
      <4> DEFINE b == [at |-> inner.start, n |-> call.n]
      <4>2. /\ call'.pc = "map" /\ call'.at = inner.start /\ call'.n = call.n
            /\ live' = live
        BY <2>7, <2>a, <3>2, Zenon DEF reserve
      <4>3. Reserved = {} /\ Reserved' = {b}
        BY <4>1, <4>2 DEF Reserved
      <4>4. Top' = Top + call.n /\ InnerOK'
        BY <1>2, <2>7, <2>a, <3>2, <4>1 DEF reserve, Top, PagesInv
      <4>5. Issued' = (Start + 1) .. (Top + call.n - 1)
        <5>1. CASE inner.pages = call.n
          <6>1. inner' = Empty /\ Issued' = VirtPages \ {Start}
            BY <2>7, <3>2, <5>1 DEF reserve, Issued
          <6>. QED  BY <2>a, <4>1, <5>1, <6>1, VirtPagesInterval, SMTT(30)
        <5>2. CASE inner.pages # call.n
          <6>1. inner' = [start |-> inner.start + call.n,
                          pages |-> inner.pages - call.n]
            BY <2>7, <3>2, <5>2 DEF reserve
          <6>2. inner'.start = inner.start + call.n /\ inner' \notin {NoEntry, Empty}
            BY <2>a, <4>1, <5>2, <6>1
          <6>3. Issued' = FirstEntry.start .. (inner'.start - 1)
            BY <6>2 DEF Issued
          <6>. QED  BY <2>a, <4>1, <6>2, <6>3 DEF FirstEntry
        <5>. QED  BY <5>1, <5>2
      <4>6. Source!Pages(b) = Top .. (Top + call.n - 1)
        BY <4>1 DEF Source!Pages
      <4>7. Issued' = Issued \cup Source!Pages(b)
        BY <2>0, <2>a, <2>b, <4>5, <4>6, SMTT(30)
      <4>8. Source!Pages(b) \subseteq (VirtPages \ {Start}) \ Issued
        BY <2>0, <2>a, <2>b, <4>1, <4>6, VirtPagesInterval, SMTT(30)
      <4>9. Source!Take(b)
        BY <4>1, <4>2, <4>3, <4>7, <4>8 DEF Source!Take
      <4>10. inner.start \in VirtPages \ {Start}
        BY <2>a, <4>1, VirtPagesInterval
      <4> DEFINE last == inner.start + call.n - 1
      <4>11. last \in VirtPages \ {Start}
        BY <2>a, <4>1, VirtPagesInterval, SMTT(30)
      <4>12. last + 1 - inner.start = call.n
        BY <2>a, <4>1
      <4>13. Source!Take([at |-> inner.start, n |-> last + 1 - inner.start])
        BY <4>9, <4>12
      <4> HIDE DEF last
      <4>. QED  BY <4>10, <4>11, <4>13 DEF Source!Next
    <3>. QED  BY <3>1, <3>2
  <2>8. ASSUME call.pc \in {"map", "map_table"}, call' = Idle,
               UNCHANGED <<inner, live>>
        PROVE  [Source!Next]_(Source!vars)
    <3> DEFINE r == [at |-> call.at, n |-> call.n]
    <3>1. Reserved = {r} /\ Reserved' = {}
      BY <2>0, <2>8, <2>a DEF Reserved, CallOK, Idle
    <3>2. r \notin live
      BY <2>0, <2>8, <2>a DEF RangesApart, Mapping, Before, CallOK
    <3>3. Issued' = Issued
      BY <2>8 DEF Issued
    <3>4. Source!Give(r)
      BY <2>8, <3>1, <3>2, <3>3 DEF Source!Give
    <3>. QED  BY <3>1, <3>4, SMTT(30) DEF Source!Next
  <2>9. CASE alloc_kpage_frame
    <3>1. CASE call' = [call EXCEPT !.pc = "map_table"]
      <4>1. call.pc = "map" /\ call'.pc = "map_table" /\ call'.at = call.at
              /\ call'.n = call.n /\ UNCHANGED <<inner, live>>
        BY <2>9, <2>a, <3>1 DEF alloc_kpage_frame, MapperPanic
      <4>2. UNCHANGED <<Issued, live, Reserved>>
        BY <4>1 DEF Issued, Reserved
      <4>. QED  BY <4>2, SourceStutters
    <3>. QED  BY <2>1, <2>8, <2>9, <3>1 DEF alloc_kpage_frame, MapperPanic
  <2>10. CASE alloc_kpage_map
    <3>0. call.pc = "map_table" /\ inner' = inner /\ call.at > Start
      BY <2>0, <2>10, <2>a DEF alloc_kpage_map, CallOK
    <3>1. CASE call'.pc \in {"map", "no_table"} /\ UNCHANGED live
      <4>1. call'.at = call.at /\ call'.n = call.n
        <5>1. CASE call' = [call EXCEPT !.pc = "no_table"]
          BY <2>a, <5>1
        <5>2. CASE call' = [call EXCEPT !.pc = "map", !.i = @ + 1]
          BY <2>a, <5>2
        <5>. QED  BY <2>10, <3>1, <5>1, <5>2 DEF alloc_kpage_map, Idle
      <4>2. UNCHANGED <<Issued, live, Reserved>>
        BY <3>0, <3>1, <4>1 DEF Issued, Reserved
      <4>. QED  BY <4>2, SourceStutters
    <3>2. CASE call' = Idle /\ live' = live \cup {[at |-> call.at, n |-> call.n]}
      <4>1. Reserved = {[at |-> call.at, n |-> call.n]} /\ Reserved' = {}
        BY <3>0, <3>2 DEF Reserved, Idle
      <4>2. Issued' = Issued
        BY <3>0 DEF Issued
      <4>3. (live \cup Reserved)' = live \cup Reserved
        BY <3>2, <4>1
      <4>. QED  BY <4>2, <4>3 DEF Source!vars
    <3>. QED  BY <2>10, <2>a, <3>1, <3>2, Zenon DEF alloc_kpage_map
  <2>11. ASSUME NEW b \in live, deallocate(b)
         PROVE  [Source!Next]_(Source!vars)
    <3>1. Reserved = {} /\ Reserved' = {} /\ Issued' = Issued /\ live' = live \ {b}
      BY <2>11 DEF deallocate, Reserved, Issued, Idle
    <3>2. Source!Give(b)
      BY <3>1 DEF Source!Give
    <3>. QED  BY <3>1, <3>2 DEF Source!Next
  <2>12. CASE free_kpage_unmap
    <3>1. call.pc = "unmap" /\ call'.pc \in {"unmap", "clean_up"}
      BY <2>12, <2>a DEF free_kpage_unmap, MapperPanic
    <3>. QED  BY <2>2, <2>12, <3>1 DEF free_kpage_unmap, MapperPanic, Reserved
  <2>13. CASE free_kpage_clean_up
    <3>1. call.pc = "clean_up" /\ call'.pc \in {"unmap", "idle"}
      BY <2>13, <2>a DEF free_kpage_clean_up, Idle
    <3>. QED  BY <2>2, <2>13, <3>1 DEF free_kpage_clean_up, Reserved
  <2>. QED  BY <1>2, <2>3, <2>4, <2>5, <2>6, <2>7, <2>9, <2>10, <2>11, <2>12,
               <2>13 DEF Next
<1>. QED  BY <1>1, <1>2, PagesInvariance, PTL
          DEF Spec, ImplementsPageSource, Source!Spec

-----------------------------------------------------------------------------
(* Which pages are mapped: every one is accounted for.                     *)

(* The entry page, pages of failed allocations and of live ones.           *)
Owned(p) ==
  \/ p = Start /\ inner # NoEntry
  \/ p \in leaked
  \/ \E b \in live : p \in PagesOf(b)

(* Pages the call in progress has mapped, or has still to unmap.           *)
InCall(p) ==
  \/ p = Start /\ inner = NoEntry /\ call.pc \in {"init_table", "no_table"}
  \/ /\ Mapping /\ p \in PagesOf(call)
     /\ p < CallPage \/ (p = CallPage /\ call.pc # "map")
  \/ /\ Unmapping /\ p \in PagesOf(call)
     /\ p > CallPage \/ (p = CallPage /\ call.pc = "unmap")

(* A page of a failed allocation is in no range that can be given back.    *)
LeakedApart ==
  /\ leaked \subseteq (Start + 1)..(Top - 1)
  /\ \A b \in live : \A p \in PagesOf(b) : p \notin leaked
  /\ Mapping \/ Unmapping => \A p \in PagesOf(call) : p \notin leaked

Accounting ==
  phase # "panicked" =>
    \A p \in VirtPages : Mapped(p) <=> Owned(p) \/ InCall(p)

(* A page table maps something, except when its last page was unmapped and *)
(* clean_up_addr_range is still to come.                                   *)
TablesUsed ==
  phase # "panicked" =>
    \A p \in VirtPages : held[TableAt(p)] # NoFrame =>
       \/ \E q \in VirtPages : TableOf(q) = TableOf(p) /\ Mapped(q)
       \/ call.pc = "clean_up" /\ TableOf(p) = TableOf(CallPage)

RequestsBounded == call.n <= MaxRequest /\ \A b \in live : b.n <= MaxRequest

StrayInv == RequestsBounded /\ LeakedApart /\ Accounting /\ TablesUsed

(* Outside init_or_get, alloc_kpage and free_kpage a call has no page.     *)
LEMMA NotInCall ==
  ASSUME NEW p
  PROVE  /\ call.pc \in {"idle", "init", "reserve"} => ~ InCall(p)
         /\ call'.pc \in {"idle", "init", "reserve"} => ~ InCall(p)'
BY DEF InCall, Mapping, Unmapping

(* A step that maps and unmaps nothing and does not change what is         *)
(* accounted for.                                                          *)
LEMMA AccountKept ==
  ASSUME Accounting, phase # "panicked",
         \A p \in VirtPages : held'[PageAt(p)] = held[PageAt(p)],
         \A p \in VirtPages : Owned(p)' \/ InCall(p)' <=> Owned(p) \/ InCall(p)
  PROVE  Accounting'
BY DEF Accounting, Mapped

(* A step that returns no page and no page table, in which a page table is *)
(* only added for a page that is mapped.                                   *)
LEMMA TablesKept ==
  ASSUME TablesUsed, phase # "panicked", call.pc # "clean_up",
         \A p \in VirtPages : Mapped(p) => Mapped(p)',
         \A p \in VirtPages :
            held'[TableAt(p)] # NoFrame =>
              \/ held[TableAt(p)] # NoFrame
              \/ \E q \in VirtPages : TableOf(q) = TableOf(p) /\ Mapped(q)'
  PROVE  TablesUsed'
<1>. SUFFICES ASSUME NEW p \in VirtPages, held'[TableAt(p)] # NoFrame
              PROVE  \E q \in VirtPages : TableOf(q) = TableOf(p) /\ Mapped(q)'
  BY Zenon DEF TablesUsed
<1>1. CASE held[TableAt(p)] # NoFrame
  <2>1. PICK q \in VirtPages : TableOf(q) = TableOf(p) /\ Mapped(q)
    BY <1>1, Zenon DEF TablesUsed
  <2>. QED  BY <2>1, Zenon
<1>2. CASE held[TableAt(p)] = NoFrame
  BY <1>2, Zenon
<1>. QED  BY <1>1, <1>2, Zenon

(* A step that changes nothing StrayInv is about.                          *)
LEMMA StrayUntouched ==
  ASSUME StrayInv, phase # "panicked" \/ phase' = "panicked",
         UNCHANGED <<held, inner, call, live, leaked>>
  PROVE  StrayInv'
BY Zenon DEF StrayInv, RequestsBounded, LeakedApart, Accounting, TablesUsed, Mapped,
       Owned, InCall, Top, Mapping, Unmapping, PagesOf, CallPage, PageAt, TableAt

(* deallocate_frame leaves the handle without a frame, or panics.          *)
LEMMA DeallocateFrees ==
  ASSUME NEW h \in Handles, DOMAIN held = Handles, F!deallocate_frame(h),
         phase' # "panicked"
  PROVE  held'[h] = NoFrame
BY DEF F!deallocate_frame, F!Panic

(* Every step keeps the account.                                           *)
LEMMA StrayStep ==
  ASSUME PagesInv, StrayInv, [Next]_vars
  PROVE  StrayInv'
<1>. USE KernelPagesAssumption
<1>0. /\ InnerOK /\ CallOK /\ RangesApart /\ Backing
      /\ Top \in Nat /\ Top >= Start + 1 /\ Top <= Start + Size + 2
      /\ \A b \in live : PagesOf(b) \subseteq VirtPages
      /\ Mapping \/ Unmapping =>
           /\ PagesOf(call) \subseteq VirtPages
           /\ CallPage \in PagesOf(call) /\ CallPage \in VirtPages
           /\ CallPage # Start
      /\ DOMAIN held = Handles
  BY RangesInside DEF PagesInv, Backing
<1>a. Start \in VirtPages /\ VirtPages \subseteq Nat
  BY VirtPagesInterval
<1>b. /\ call \in [pc : PCs, at : Nat, n : Nat, i : Nat]
      /\ \A b \in live : b.at \in Nat /\ b.n \in Nat
  BY <1>0 DEF CallOK, RangesApart
<1>c. RequestsBounded /\ LeakedApart /\ Accounting /\ TablesUsed
  BY DEF StrayInv
<1>1. CASE init_frame_allocator
  BY <1>1, StrayUntouched DEF init_frame_allocator, F!allocate_bitmap
<1>2. ASSUME NEW n \in 1..MaxRequest, allocate(n) PROVE StrayInv'
  <2>1. /\ phase = "running" /\ call = Idle /\ call.pc = "idle"
        /\ UNCHANGED <<held, inner, live, leaked>> /\ Top' = Top
    BY <1>2 DEF allocate, Ready, Idle, Top
  <2>2. call'.pc \in {"init", "reserve"} /\ call'.n = n
    BY <1>2 DEF allocate, Idle
  <2>3. RequestsBounded'
    BY <1>c, <2>1, <2>2 DEF RequestsBounded
  <2>4. LeakedApart'
    BY <1>c, <2>1, <2>2 DEF LeakedApart, Mapping, Unmapping
  <2>5. Accounting'
    <3>1. \A p \in VirtPages : ~ InCall(p) /\ ~ InCall(p)'
      BY <2>1, <2>2, NotInCall
    <3>2. \A p \in VirtPages : Owned(p)' <=> Owned(p)
      BY <2>1 DEF Owned
    <3>. QED  BY <1>c, <2>1, <3>1, <3>2, AccountKept
  <2>6. TablesUsed'
    BY <1>c, <2>1, TablesKept DEF Mapped
  <2>. QED  BY <2>3, <2>4, <2>5, <2>6 DEF StrayInv
<1>3. CASE add_entry_page
  <2>0. /\ phase = "running" /\ phase' = "running" /\ call.pc = "init"
        /\ inner = NoEntry /\ UNCHANGED <<inner, live, leaked>> /\ Top' = Top
        /\ F!allocate_frame(PageAt(Start)) /\ PageAt(Start) \in Handles
    BY <1>0, <1>3, <1>a, HandleFacts
    DEF add_entry_page, Ready, CallOK, F!allocate_frame, Top
  <2>1. /\ held[PageAt(Start)] = NoFrame
        /\ \A g \in Handles : g # PageAt(Start) => held'[g] = held[g]
    BY <1>0, <2>0, AllocateOne
  <2>2. /\ \A p \in VirtPages : p # Start => (Mapped(p)' <=> Mapped(p))
        /\ \A p \in VirtPages : Mapped(p) => Mapped(p)'
        /\ \A p \in VirtPages : held'[TableAt(p)] = held[TableAt(p)]
        /\ ~ Mapped(Start)
    BY <2>1, HandleFacts DEF Mapped
  <2>3. /\ call'.pc \in {"idle", "init_table"} /\ call'.n \in {0, call.n}
        /\ call'.pc = "init_table" <=> held'[PageAt(Start)] # NoFrame
    BY <1>3, <1>b DEF add_entry_page, Idle
  <2>4. RequestsBounded'
    BY <1>b, <1>c, <2>0, <2>3 DEF RequestsBounded
  <2>5. LeakedApart'
    BY <1>c, <2>0, <2>3 DEF LeakedApart, Mapping, Unmapping
  <2>6. Accounting'
    <3>. SUFFICES ASSUME NEW p \in VirtPages
                  PROVE  Mapped(p)' <=> Owned(p)' \/ InCall(p)'
      BY DEF Accounting
    <3>1. Mapped(p) <=> Owned(p)
      BY <1>c, <2>0, NotInCall DEF Accounting
    <3>2. Owned(p)' <=> Owned(p)
      BY <2>0 DEF Owned
    <3>3. InCall(p)' <=> p = Start /\ call'.pc = "init_table"
      BY <2>0, <2>3 DEF InCall, Mapping, Unmapping
    <3>4. Mapped(Start)' <=> call'.pc = "init_table"
      BY <2>3 DEF Mapped, PageAt
    <3>. QED  BY <2>2, <3>1, <3>2, <3>3, <3>4
  <2>7. TablesUsed'
    BY <1>c, <2>0, <2>2, TablesKept
  <2>. QED  BY <2>4, <2>5, <2>6, <2>7 DEF StrayInv
<1>4. CASE map_entry_page
  <2>0. /\ phase = "running" /\ call.pc = "init_table" /\ inner = NoEntry
        /\ UNCHANGED <<live, leaked>> /\ Top' = Top /\ call.at = 0
        /\ TableAt(Start) \in Handles
    BY <1>0, <1>4, <1>a, HandleFacts
    DEF map_entry_page, Ready, CallOK, Top, FirstEntry
  <2>1. \A g \in Handles : g # TableAt(Start) => held'[g] = held[g]
    <3>1. CASE HasTable(Start)
      BY <3>1 DEF HasTable, frameVars
    <3>2. CASE NewTable(Start)
      BY <1>0, <2>0, <3>2, AllocateOne DEF NewTable
    <3>. QED  BY <1>4, <3>1, <3>2 DEF map_entry_page
  <2>2. \A p \in VirtPages : held'[PageAt(p)] = held[PageAt(p)]
    BY <2>1, HandleFacts
  <2>3. /\ call'.pc \in {"no_table", "reserve"} /\ call'.n = call.n /\ call'.at = 0
        /\ call'.pc = "no_table" => inner' = NoEntry
        /\ call'.pc = "reserve" => inner' # NoEntry
    <3>1. FirstEntry # NoEntry
      BY DEF FirstEntry
    <3>. QED  BY <1>4, <1>b, <2>0, <3>1 DEF map_entry_page
  <2>4. ~ Mapping' /\ ~ Unmapping' /\ ~ Mapping /\ ~ Unmapping
    BY <2>0, <2>3 DEF Mapping, Unmapping
  <2>5. RequestsBounded'
    BY <1>c, <2>0, <2>3 DEF RequestsBounded
  <2>6. LeakedApart'
    BY <1>c, <2>0, <2>4 DEF LeakedApart
  <2>7. Accounting'
    <3>1. ASSUME NEW p \in VirtPages
          PROVE  Owned(p)' \/ InCall(p)' <=> Owned(p) \/ InCall(p)
      <4>1. InCall(p) <=> p = Start
        BY <2>0, <2>4 DEF InCall
      <4>2. InCall(p)' <=> p = Start /\ call'.pc = "no_table"
        BY <2>3, <2>4 DEF InCall
      <4>3. Owned(p)' <=> Owned(p) \/ (p = Start /\ call'.pc = "reserve")
        BY <2>0, <2>3 DEF Owned
      <4>. QED  BY <2>3, <4>1, <4>2, <4>3
    <3>. QED  BY <1>c, <2>0, <2>2, <3>1, AccountKept
  <2>8. TablesUsed'
    <3>1. \A p \in VirtPages : Mapped(p) => Mapped(p)'
      BY <2>2 DEF Mapped
    <3>2. Mapped(Start)
      BY <1>a, <1>c, <2>0 DEF Accounting, InCall
    <3>3. ASSUME NEW p \in VirtPages, held'[TableAt(p)] # NoFrame
          PROVE  \/ held[TableAt(p)] # NoFrame
                 \/ \E q \in VirtPages : TableOf(q) = TableOf(p) /\ Mapped(q)'
      <4>1. CASE TableAt(p) = TableAt(Start)
        <5>1. TableOf(Start) = TableOf(p)
          BY <4>1 DEF TableAt
        <5>. QED  BY <1>a, <3>1, <3>2, <5>1, Zenon
      <4>2. CASE TableAt(p) # TableAt(Start)
        BY <2>1, <3>3, <4>2, HandleFacts
      <4>. QED  BY <4>1, <4>2
    <3>. QED  BY <1>c, <2>0, <3>1, <3>3, TablesKept
  <2>. QED  BY <2>5, <2>6, <2>7, <2>8 DEF StrayInv
<1>5. CASE reserve
  <2>0. /\ UNCHANGED <<held, live, leaked>> /\ phase = "running"
        /\ call.pc = "reserve" /\ inner # NoEntry
    BY <1>0, <1>5 DEF reserve, Ready, frameVars, CallOK
  <2>1. CASE inner = Empty \/ inner.pages < call.n
    <3>1. call'.pc = "idle" /\ call'.n = 0 /\ inner' = inner /\ Top' = Top
      BY <1>5, <2>1 DEF reserve, Idle, Top
    <3>2. RequestsBounded' /\ LeakedApart'
      BY <1>c, <2>0, <3>1
         DEF RequestsBounded, LeakedApart, Mapping, Unmapping
    <3>3. Accounting'
      <4>1. \A p \in VirtPages : Owned(p)' <=> Owned(p)
        BY <2>0, <3>1 DEF Owned
      <4>. QED  BY <1>c, <2>0, <3>1, <4>1, AccountKept, NotInCall
    <3>4. TablesUsed'
      BY <1>c, <2>0, TablesKept DEF Mapped
    <3>. QED  BY <3>2, <3>3, <3>4 DEF StrayInv
  <2>2. CASE ~ (inner = Empty \/ inner.pages < call.n)
    <3>1. /\ inner \in [start : Nat, pages : Nat] /\ call.pc = "reserve"
          /\ inner.start + inner.pages = Start + Size + 2
          /\ Top = inner.start /\ inner # Empty /\ inner # NoEntry
          /\ call.n >= 1 /\ call.i = 0 /\ call.n <= inner.pages
      BY <1>0, <1>5, <2>0, <2>2 DEF reserve, InnerOK, CallOK, Top
    <3>2. /\ call'.pc = "map" /\ call'.at = inner.start
          /\ call'.n = call.n /\ call'.i = 0
      BY <1>5, <1>b, <2>2, <3>1, Zenon DEF reserve
    <3>3. Top' = Top + call.n
      BY <1>5, <1>b, <2>2, <3>1 DEF reserve, Top
    <3>4. inner' # NoEntry
      <4>1. \/ inner' = Empty
            \/ inner' = [start |-> inner.start + call.n, pages |-> inner.pages - call.n]
        BY <1>5, <2>2, Zenon DEF reserve
      <4>2. inner.start + call.n \in Nat /\ inner.pages - call.n \in Nat
        BY <1>b, <3>1
      <4>. QED  BY <4>1, <4>2
    <3>5. CallPage' = Top /\ \A p \in PagesOf(call)' : p \in Nat /\ p >= Top
      BY <1>b, <3>1, <3>2 DEF CallPage, PagesOf
    <3>6. RequestsBounded'
      BY <1>c, <2>0, <3>2 DEF RequestsBounded
    <3>7. LeakedApart'
      <4>1. leaked' \subseteq (Start + 1)..(Top' - 1)
        BY <1>0, <1>b, <1>c, <2>0, <3>3 DEF LeakedApart
      <4>2. \A b \in live' : \A p \in PagesOf(b) : p \notin leaked'
        BY <1>c, <2>0 DEF LeakedApart
      <4>3. \A p \in PagesOf(call)' : p \notin leaked'
        BY <1>0, <1>c, <2>0, <3>5 DEF LeakedApart
      <4>. QED  BY <4>1, <4>2, <4>3 DEF LeakedApart
    <3>8. Accounting'
      <4>1. \A p \in VirtPages : Owned(p)' <=> Owned(p)
        BY <2>0, <3>4 DEF Owned
      <4>2. \A p \in VirtPages : ~ InCall(p)'
        BY <1>0, <3>2, <3>4, <3>5 DEF InCall, Unmapping
      <4>. QED  BY <1>c, <2>0, <4>1, <4>2, AccountKept, NotInCall
    <3>9. TablesUsed'
      BY <1>c, <2>0, TablesKept DEF Mapped
    <3>. QED  BY <3>6, <3>7, <3>8, <3>9 DEF StrayInv
  <2>. QED  BY <2>1, <2>2
<1>6. CASE alloc_kpage_frame
  <2>0. /\ call.pc = "map" /\ Mapping /\ ~ Mapped(CallPage) /\ phase = "running"
        /\ CallPage \in PagesOf(call) /\ CallPage \in VirtPages /\ CallPage \in Nat
        /\ PagesOf(call) \subseteq VirtPages /\ CallPage # Start /\ CallPage < Top
        /\ call.at >= Start + 1 /\ ~ Unmapping /\ inner # NoEntry
    BY <1>0, <1>6, <1>a, <1>b
       DEF alloc_kpage_frame, Ready, Mapping, Unmapping, Backing, CallOK, CallPage
  <2>1. /\ F!allocate_frame(PageAt(CallPage)) /\ PageAt(CallPage) \in Handles
        /\ UNCHANGED <<inner, live>> /\ Top' = Top /\ phase' = "running"
    BY <1>6, <2>0, HandleFacts DEF alloc_kpage_frame, Top, F!allocate_frame
  <2>2. \A g \in Handles : g # PageAt(CallPage) => held'[g] = held[g]
    BY <1>0, <2>1, AllocateOne
  <2>3. /\ \A p \in VirtPages : p # CallPage => (Mapped(p)' <=> Mapped(p))
        /\ \A p \in VirtPages : Mapped(p) => Mapped(p)'
        /\ \A p \in VirtPages : held'[TableAt(p)] = held[TableAt(p)]
    BY <2>0, <2>2, HandleFacts DEF Mapped
  <2>4. TablesUsed'
    BY <1>c, <2>0, <2>3, TablesKept
  <2>5. CASE held'[PageAt(CallPage)] = NoFrame
    <3>1. /\ call'.pc = "idle" /\ call'.n = 0
          /\ leaked' = leaked \cup (call.at .. (CallPage - 1))
      BY <1>6, <2>0, <2>5 DEF alloc_kpage_frame, Idle
    <3>2. RequestsBounded'
      BY <1>c, <2>1, <3>1 DEF RequestsBounded
    <3>3. LeakedApart'
      <4>1. leaked' \subseteq (Start + 1)..(Top' - 1)
        <5>1. leaked \subseteq (Start + 1)..(Top - 1)
          BY <1>c DEF LeakedApart
        <5>2. call.at .. (CallPage - 1) \subseteq (Start + 1)..(Top - 1)
          BY <1>0, <1>b, <2>0
        <5>. QED  BY <2>1, <3>1, <5>1, <5>2, Zenon
      <4>2. ASSUME NEW b \in live, NEW p \in PagesOf(b) PROVE p \notin leaked'
        <5>1. p \notin leaked
          BY <1>c DEF LeakedApart
        <5>2. p \notin call.at .. (CallPage - 1)
          <6>1. b.at + b.n <= call.at
            BY <1>0, <2>0 DEF RangesApart, Before
          <6>. QED  BY <1>b, <6>1 DEF PagesOf
        <5>. QED  BY <3>1, <5>1, <5>2
      <4>. QED  BY <2>1, <3>1, <4>1, <4>2 DEF LeakedApart, Mapping, Unmapping
    <3>4. Accounting'
      <4>. SUFFICES ASSUME NEW p \in VirtPages
                    PROVE  Mapped(p)' <=> Owned(p)' \/ InCall(p)'
        BY DEF Accounting
      <4>0. p \in Nat
        BY <1>a
      <4>1. Mapped(p) <=> Owned(p) \/ InCall(p)
        BY <1>c, <2>0 DEF Accounting
      <4>2. Owned(p)' <=> Owned(p) \/ p \in call.at .. (CallPage - 1)
        BY <2>1, <3>1 DEF Owned
      <4>3. InCall(p) <=> p \in call.at .. (CallPage - 1)
        <5>1. InCall(p) <=> p \in PagesOf(call) /\ p < CallPage
          BY <2>0 DEF InCall
        <5>2. CallPage < call.at + call.n
          BY <1>b, <2>0 DEF PagesOf
        <5>. QED  BY <1>b, <2>0, <4>0, <5>1, <5>2 DEF PagesOf
      <4>4. ~ InCall(p)'
        BY <3>1, NotInCall
      <4>5. Mapped(p)' <=> Mapped(p)
        BY <2>0, <2>3, <2>5 DEF Mapped
      <4>. QED  BY <4>1, <4>2, <4>3, <4>4, <4>5
    <3>. QED  BY <2>4, <3>2, <3>3, <3>4 DEF StrayInv
  <2>6. CASE held'[PageAt(CallPage)] # NoFrame
    <3>1. /\ call'.pc = "map_table" /\ call'.at = call.at
          /\ call'.n = call.n /\ call'.i = call.i /\ leaked' = leaked
      BY <1>6, <1>b, <2>0, <2>6 DEF alloc_kpage_frame
    <3>2. PagesOf(call)' = PagesOf(call) /\ CallPage' = CallPage /\ Mapping' /\ ~ Unmapping'
      BY <3>1 DEF PagesOf, CallPage, Mapping, Unmapping
    <3>3. RequestsBounded' /\ LeakedApart'
      BY <1>c, <2>0, <2>1, <3>1, <3>2 DEF RequestsBounded, LeakedApart
    <3>4. Accounting'
      <4>. SUFFICES ASSUME NEW p \in VirtPages
                    PROVE  Mapped(p)' <=> Owned(p)' \/ InCall(p)'
        BY DEF Accounting
      <4>1. Mapped(p) <=> Owned(p) \/ InCall(p)
        BY <1>c, <2>0 DEF Accounting
      <4>2. Owned(p)' <=> Owned(p)
        BY <2>1, <3>1 DEF Owned
      <4>3. InCall(p)' <=> InCall(p) \/ p = CallPage
        <5>1. InCall(p) <=> p \in PagesOf(call) /\ p < CallPage
          BY <2>0 DEF InCall
        <5>2. InCall(p)' <=> p \in PagesOf(call) /\ (p < CallPage \/ p = CallPage)
          BY <2>0, <2>1, <3>1, <3>2 DEF InCall
        <5>. QED  BY <2>0, <5>1, <5>2
      <4>4. Mapped(p)' <=> Mapped(p) \/ p = CallPage
        BY <2>3, <2>6 DEF Mapped
      <4>. QED  BY <4>1, <4>2, <4>3, <4>4
    <3>. QED  BY <2>4, <3>3, <3>4 DEF StrayInv
  <2>. QED  BY <2>5, <2>6
<1>7. CASE alloc_kpage_map
  <2>0. /\ call.pc = "map_table" /\ Mapping /\ Mapped(CallPage) /\ phase = "running"
        /\ CallPage \in PagesOf(call) /\ CallPage \in VirtPages /\ CallPage \in Nat
        /\ PagesOf(call) \subseteq VirtPages /\ call.at >= Start + 1
        /\ UNCHANGED <<inner, leaked>> /\ Top' = Top /\ ~ Unmapping /\ inner # NoEntry
    BY <1>0, <1>7, <1>a
       DEF alloc_kpage_map, Ready, Mapping, Unmapping, Backing, Top, CallOK
  <2>1. \A g \in Handles : g # TableAt(CallPage) => held'[g] = held[g]
    <3>1. CASE HasTable(CallPage)
      BY <3>1 DEF HasTable, frameVars
    <3>2. CASE NewTable(CallPage)
      BY <1>0, <2>0, <3>2, HandleFacts, AllocateOne DEF NewTable
    <3>. QED  BY <1>7, <3>1, <3>2 DEF alloc_kpage_map
  <2>2. \A p \in VirtPages : held'[PageAt(p)] = held[PageAt(p)]
    BY <2>1, HandleFacts
  <2>3. TablesUsed'
    <3>1. \A p \in VirtPages : Mapped(p) => Mapped(p)'
      BY <2>2 DEF Mapped
    <3>2. ASSUME NEW p \in VirtPages, held'[TableAt(p)] # NoFrame
          PROVE  \/ held[TableAt(p)] # NoFrame
                 \/ \E q \in VirtPages : TableOf(q) = TableOf(p) /\ Mapped(q)'
      <4>1. CASE TableAt(p) = TableAt(CallPage)
        <5>1. PICK q \in VirtPages : q = CallPage
          BY <2>0
        <5>2. TableOf(q) = TableOf(p) /\ Mapped(q)
          BY <2>0, <4>1, <5>1 DEF TableAt
        <5>. QED  BY <3>1, <5>2, Zenon
      <4>2. CASE TableAt(p) # TableAt(CallPage)
        BY <2>1, <3>2, <4>2, HandleFacts
      <4>. QED  BY <4>1, <4>2
    <3>. QED  BY <1>c, <2>0, <3>1, <3>2, TablesKept
  <2>4. ASSUME NEW p \in VirtPages
        PROVE  InCall(p) <=> p \in PagesOf(call) /\ (p < CallPage \/ p = CallPage)
    BY <2>0 DEF InCall
  <2>5. CASE call' = [call EXCEPT !.pc = "no_table"] /\ UNCHANGED live
    <3>1. /\ call'.pc = "no_table" /\ call'.at = call.at
          /\ call'.n = call.n /\ call'.i = call.i
      BY <1>b, <2>5
    <3>2. PagesOf(call)' = PagesOf(call) /\ CallPage' = CallPage /\ Mapping' /\ ~ Unmapping'
      BY <1>b, <2>0, <3>1 DEF PagesOf, CallPage, Mapping, Unmapping
    <3>3. RequestsBounded' /\ LeakedApart'
      BY <1>c, <2>0, <2>5, <3>1, <3>2 DEF RequestsBounded, LeakedApart
    <3>4. Accounting'
      <4>1. \A p \in VirtPages : Owned(p)' <=> Owned(p)
        BY <2>0, <2>5 DEF Owned
      <4>2. \A p \in VirtPages : InCall(p)' <=> InCall(p)
        <5>1. \A p \in VirtPages :
                InCall(p)' <=> p \in PagesOf(call) /\ (p < CallPage \/ p = CallPage)
          BY <2>0, <3>1, <3>2 DEF InCall
        <5>. QED  BY <2>4, <5>1, Zenon
      <4>. QED  BY <1>c, <2>0, <2>2, <4>1, <4>2, AccountKept, Zenon
    <3>. QED  BY <2>3, <3>3, <3>4 DEF StrayInv
  <2>6. CASE /\ call' = [call EXCEPT !.pc = "map", !.i = @ + 1]
             /\ call.i + 1 < call.n /\ UNCHANGED live
    <3>1. /\ call'.pc = "map" /\ call'.at = call.at
          /\ call'.n = call.n /\ call'.i = call.i + 1
      BY <1>b, <2>6
    <3>2. /\ PagesOf(call)' = PagesOf(call) /\ CallPage' = CallPage + 1
          /\ Mapping' /\ ~ Unmapping'
      BY <1>b, <3>1 DEF PagesOf, CallPage, Mapping, Unmapping
    <3>3. RequestsBounded' /\ LeakedApart'
      BY <1>c, <2>0, <2>6, <3>1, <3>2 DEF RequestsBounded, LeakedApart
    <3>4. Accounting'
      <4>1. \A p \in VirtPages : Owned(p)' <=> Owned(p)
        BY <2>0, <2>6 DEF Owned
      <4>2. \A p \in VirtPages : InCall(p)' <=> InCall(p)
        <5>1. \A p \in VirtPages :
                InCall(p)' <=> p \in PagesOf(call) /\ p < CallPage + 1
          BY <2>0, <3>1, <3>2 DEF InCall
        <5>2. \A p \in VirtPages : p < CallPage + 1 <=> p < CallPage \/ p = CallPage
          BY <1>a, <2>0
        <5>. QED  BY <2>4, <5>1, <5>2, Zenon
      <4>. QED  BY <1>c, <2>0, <2>2, <4>1, <4>2, AccountKept
    <3>. QED  BY <2>3, <3>3, <3>4 DEF StrayInv
  <2>7. CASE /\ call' = Idle /\ ~ (call.i + 1 < call.n)
             /\ live' = live \cup {[at |-> call.at, n |-> call.n]}
    <3>1. call'.pc = "idle" /\ call'.n = 0 /\ ~ Mapping' /\ ~ Unmapping'
      BY <2>7 DEF Idle, Mapping, Unmapping
    <3>2. PagesOf([at |-> call.at, n |-> call.n]) = PagesOf(call)
      BY DEF PagesOf
    <3>3. RequestsBounded'
      BY <1>c, <2>7, <3>1 DEF RequestsBounded
    <3>4. LeakedApart'
      BY <1>c, <2>0, <2>7, <3>1, <3>2 DEF LeakedApart
    <3>5. Accounting'
      <4>1. \A p \in VirtPages : Owned(p)' <=> Owned(p) \/ p \in PagesOf(call)
        BY <2>0, <2>7, <3>2 DEF Owned
      <4>2. \A p \in VirtPages : ~ InCall(p)'
        BY <3>1, NotInCall
      <4>3. \A p \in VirtPages : InCall(p) <=> p \in PagesOf(call)
        <5>1. \A p \in PagesOf(call) : p < CallPage \/ p = CallPage
          BY <1>b, <2>0, <2>7 DEF PagesOf, CallPage
        <5>. QED  BY <2>4, <5>1, Zenon
      <4>. QED  BY <1>c, <2>0, <2>2, <4>1, <4>2, <4>3, AccountKept, Zenon
    <3>. QED  BY <2>3, <3>3, <3>4, <3>5 DEF StrayInv
  <2>. QED  BY <1>7, <2>5, <2>6, <2>7 DEF alloc_kpage_map
<1>8. CASE map_to_unwrap
  BY <1>8, StrayUntouched DEF map_to_unwrap, MapperPanic
<1>9. ASSUME NEW b \in live, deallocate(b) PROVE StrayInv'
  <2>1. /\ call'.pc = "unmap" /\ call'.at = b.at /\ call'.n = b.n /\ call'.i = 0
        /\ live' = live \ {b} /\ UNCHANGED <<inner, held, leaked>> /\ Top' = Top
        /\ phase = "running" /\ call.pc = "idle"
    BY <1>9 DEF deallocate, Ready, frameVars, Top, Idle
  <2>2. /\ PagesOf(call)' = PagesOf(b) /\ CallPage' = b.at /\ ~ Mapping' /\ Unmapping'
    BY <1>b, <2>1 DEF PagesOf, CallPage, Mapping, Unmapping
  <2>3. RequestsBounded' /\ LeakedApart'
    BY <1>c, <2>1, <2>2 DEF RequestsBounded, LeakedApart
  <2>4. Accounting'
    <3>1. ASSUME NEW p \in VirtPages
          PROVE  Owned(p)' \/ InCall(p)' <=> Owned(p) \/ InCall(p)
      <4>1. ~ InCall(p)
        BY <2>1, NotInCall
      <4>2. InCall(p)' <=> p \in PagesOf(b)
        <5>1. InCall(p)' <=> p \in PagesOf(b) /\ (p > b.at \/ p = b.at)
          BY <2>1, <2>2 DEF InCall
        <5>2. p \in PagesOf(b) => p > b.at \/ p = b.at
          BY <1>b DEF PagesOf
        <5>. QED  BY <5>1, <5>2
      <4>3. Owned(p) <=> Owned(p)' \/ p \in PagesOf(b)
        BY <2>1 DEF Owned
      <4>. QED  BY <4>1, <4>2, <4>3, Zenon
    <3>. QED  BY <1>c, <2>1, <3>1, AccountKept, SMTT(20)
  <2>5. TablesUsed'
    <3>1. phase # "panicked" /\ call.pc # "clean_up"
      BY <2>1
    <3>2. \A p \in VirtPages : /\ held'[TableAt(p)] = held[TableAt(p)]
                               /\ Mapped(p)' <=> Mapped(p)
      BY <2>1, Zenon DEF Mapped
    <3>. QED  BY <1>c, <3>1, <3>2, TablesKept, Zenon
  <2>. QED  BY <2>3, <2>4, <2>5 DEF StrayInv
<1>10. CASE free_kpage_unmap
  <2>0. /\ call.pc = "unmap" /\ Unmapping /\ ~ Mapping /\ phase = "running"
        /\ Mapped(CallPage)
        /\ CallPage \in PagesOf(call) /\ CallPage \in VirtPages /\ CallPage \in Nat
        /\ PagesOf(call) \subseteq VirtPages /\ CallPage # Start
    BY <1>0, <1>10, <1>a
       DEF free_kpage_unmap, Ready, Unmapping, Mapping, Backing, Backed, Mapped
  <2>1. /\ F!deallocate_frame(PageAt(CallPage)) /\ PageAt(CallPage) \in Handles
        /\ call' = [call EXCEPT !.pc = "clean_up"]
        /\ UNCHANGED <<inner, live, leaked>> /\ Top' = Top
    BY <1>10, <2>0, HandleFacts DEF free_kpage_unmap, Top
  <2>2. \A g \in Handles : g # PageAt(CallPage) => held'[g] = held[g]
    BY <1>0, <2>1, DeallocateOne
  <2>3. /\ \A p \in VirtPages : p # CallPage => (Mapped(p)' <=> Mapped(p))
        /\ \A p \in VirtPages : held'[TableAt(p)] = held[TableAt(p)]
    BY <2>0, <2>2, HandleFacts DEF Mapped
  <2>4. /\ call'.pc = "clean_up" /\ call'.n = call.n
        /\ PagesOf(call)' = PagesOf(call) /\ CallPage' = CallPage
        /\ ~ Mapping' /\ Unmapping'
    BY <1>b, <2>1 DEF PagesOf, CallPage, Mapping, Unmapping
  <2>5. RequestsBounded' /\ LeakedApart'
    BY <1>c, <2>0, <2>1, <2>4 DEF RequestsBounded, LeakedApart
  <2>6. ASSUME phase' # "panicked" PROVE Accounting'
    <3>. SUFFICES ASSUME NEW p \in VirtPages
                  PROVE  Mapped(p)' <=> Owned(p)' \/ InCall(p)'
      BY DEF Accounting
    <3>1. Mapped(p) <=> Owned(p) \/ InCall(p)
      BY <1>c, <2>0 DEF Accounting
    <3>2. held'[PageAt(CallPage)] = NoFrame
      BY <1>0, <2>1, <2>6, DeallocateFrees
    <3>3. Mapped(p)' <=> Mapped(p) /\ p # CallPage
      BY <2>3, <3>2 DEF Mapped
    <3>4. Owned(p)' <=> Owned(p)
      BY <2>1 DEF Owned
    <3>5. ~ Owned(CallPage)
      <4>1. \A b \in live : CallPage \notin PagesOf(b)
        BY <1>0, <1>b, <2>0 DEF RangesApart, Before, PagesOf
      <4>. QED  BY <1>c, <2>0, <4>1 DEF Owned, LeakedApart
    <3>6. InCall(p)' <=> InCall(p) /\ p # CallPage
      <4>1. InCall(p) <=> p \in PagesOf(call) /\ (p > CallPage \/ p = CallPage)
        BY <2>0 DEF InCall
      <4>2. InCall(p)' <=> p \in PagesOf(call) /\ p > CallPage
        BY <2>4 DEF InCall
      <4>3. p > CallPage => p # CallPage
        BY <1>a, <2>0
      <4>. QED  BY <4>1, <4>2, <4>3
    <3>. QED  BY <3>1, <3>3, <3>4, <3>5, <3>6, Zenon
  <2>7. ASSUME phase' # "panicked" PROVE TablesUsed'
    <3>. SUFFICES ASSUME NEW p \in VirtPages, held'[TableAt(p)] # NoFrame
                  PROVE  \/ \E q \in VirtPages : TableOf(q) = TableOf(p) /\ Mapped(q)'
                         \/ TableOf(p) = TableOf(CallPage)
      BY <2>4, Zenon DEF TablesUsed, TableOf
    <3>1. held[TableAt(p)] # NoFrame
      BY <2>3
    <3>2. PICK q \in VirtPages : TableOf(q) = TableOf(p) /\ Mapped(q)
      BY <1>c, <2>0, <3>1 DEF TablesUsed
    <3>. QED  BY <2>3, <3>2, Zenon
  <2>. QED  BY <2>5, <2>6, <2>7 DEF StrayInv, Accounting, TablesUsed
<1>11. CASE free_kpage_clean_up
  <2>0. /\ call.pc = "clean_up" /\ Unmapping /\ ~ Mapping /\ phase = "running"
        /\ CallPage \in PagesOf(call) /\ CallPage \in VirtPages /\ CallPage \in Nat
        /\ PagesOf(call) \subseteq VirtPages
        /\ UNCHANGED <<inner, live, leaked>> /\ Top' = Top
    BY <1>0, <1>11, <1>a, SMTT(20)
    DEF free_kpage_clean_up, Ready, Unmapping, Mapping, Top
  <2>1. /\ \A p \in VirtPages : held'[PageAt(p)] = held[PageAt(p)]
        /\ \A p \in VirtPages :
             TableAt(p) # TableAt(CallPage) => held'[TableAt(p)] = held[TableAt(p)]
        /\ phase' # "panicked" /\ TableUnused(CallPage) =>
             held'[TableAt(CallPage)] = NoFrame
    <3>1. CASE TableUnused(CallPage) /\ held[TableAt(CallPage)] # NoFrame
      <4>1. F!deallocate_frame(TableAt(CallPage)) /\ TableAt(CallPage) \in Handles
        BY <1>11, <2>0, <3>1, HandleFacts DEF free_kpage_clean_up
      <4>2. \A g \in Handles : g # TableAt(CallPage) => held'[g] = held[g]
        BY <1>0, <4>1, DeallocateOne
      <4>. QED  BY <1>0, <4>1, <4>2, HandleFacts, DeallocateFrees
    <3>2. CASE ~ (TableUnused(CallPage) /\ held[TableAt(CallPage)] # NoFrame)
      BY <1>11, <3>2 DEF free_kpage_clean_up, frameVars
    <3>. QED  BY <3>1, <3>2, SMTT(20)
  <2>2. ASSUME NEW p \in VirtPages
        PROVE  InCall(p) <=> p \in PagesOf(call) /\ p > CallPage
    BY <2>0 DEF InCall
  <2>3. ASSUME phase' # "panicked" PROVE TablesUsed'
    <3>. SUFFICES ASSUME NEW p \in VirtPages, held'[TableAt(p)] # NoFrame
                  PROVE  \E q \in VirtPages : TableOf(q) = TableOf(p) /\ Mapped(q)'
      BY Zenon DEF TablesUsed
    <3>1. \A q \in VirtPages : Mapped(q)' <=> Mapped(q)
      BY <2>1 DEF Mapped
    <3>2. CASE TableAt(p) = TableAt(CallPage)
      <4>1. ~ TableUnused(CallPage)
        BY <2>1, <2>3, <3>2
      <4>2. TableOf(p) = TableOf(CallPage)
        BY <3>2 DEF TableAt
      <4>. QED  BY <3>1, <4>1, <4>2, Zenon DEF TableUnused
    <3>3. CASE TableAt(p) # TableAt(CallPage)
      <4>1. held[TableAt(p)] # NoFrame /\ TableOf(p) # TableOf(CallPage)
        BY <2>1, <3>3 DEF TableAt
      <4>2. PICK q \in VirtPages : TableOf(q) = TableOf(p) /\ Mapped(q)
        BY <1>c, <2>0, <4>1, Zenon DEF TablesUsed
      <4>. QED  BY <3>1, <4>2, Zenon
    <3>. QED  BY <3>2, <3>3
  <2>4. \A p \in VirtPages : Owned(p)' <=> Owned(p)
    BY <2>0, SMTT(20) DEF Owned
  <2>5. CASE call' = Idle /\ ~ (call.i + 1 < call.n)
    <3>1. call'.pc = "idle" /\ call'.n = 0 /\ ~ Mapping' /\ ~ Unmapping'
      BY <2>5 DEF Idle, Mapping, Unmapping
    <3>2. RequestsBounded' /\ LeakedApart'
      BY <1>c, <2>0, <3>1 DEF RequestsBounded, LeakedApart
    <3>3. \A p \in VirtPages : ~ InCall(p)' /\ ~ InCall(p)
      <4>1. \A p \in PagesOf(call) : ~ (p > CallPage)
        BY <1>b, <2>0, <2>5, SMTT(20) DEF PagesOf, CallPage
      <4>. QED  BY <2>2, <3>1, <4>1, NotInCall, Zenon
    <3>4. Accounting'
      BY <1>c, <2>0, <2>1, <2>4, <3>3, AccountKept
    <3>. QED  BY <2>3, <3>2, <3>4 DEF StrayInv, TablesUsed
  <2>6. CASE /\ call' = [call EXCEPT !.pc = "unmap", !.i = @ + 1]
             /\ call.i + 1 < call.n
    <3>1. /\ call'.pc = "unmap" /\ call'.at = call.at
          /\ call'.n = call.n /\ call'.i = call.i + 1
      BY <1>b, <2>6
    <3>2. /\ PagesOf(call)' = PagesOf(call) /\ CallPage' = CallPage + 1
          /\ ~ Mapping' /\ Unmapping'
      BY <1>b, <3>1 DEF PagesOf, CallPage, Mapping, Unmapping
    <3>3. RequestsBounded' /\ LeakedApart'
      BY <1>c, <2>0, <3>1, <3>2 DEF RequestsBounded, LeakedApart
    <3>4. \A p \in VirtPages : InCall(p)' <=> InCall(p)
      <4>1. \A p \in VirtPages : InCall(p)' <=> /\ p \in PagesOf(call)
                                                /\ p > CallPage + 1 \/ p = CallPage + 1
        BY <3>1, <3>2 DEF InCall
      <4>2. \A p \in VirtPages : p > CallPage + 1 \/ p = CallPage + 1 <=> p > CallPage
        BY <1>a, <2>0
      <4>. QED  BY <2>2, <4>1, <4>2, Zenon
    <3>5. Accounting'
      BY <1>c, <2>0, <2>1, <2>4, <3>4, AccountKept
    <3>. QED  BY <2>3, <3>3, <3>5 DEF StrayInv, TablesUsed
  <2>. QED  BY <1>11, <2>5, <2>6 DEF free_kpage_clean_up
<1>12. CASE Halted \/ UNCHANGED vars
  <2>1. UNCHANGED <<held, inner, call, live, leaked, phase>>
    BY <1>12 DEF Halted, vars
  <2>. QED  BY <2>1, StrayUntouched
<1>. QED
  BY <1>1, <1>2, <1>3, <1>4, <1>5, <1>6, <1>7, <1>8, <1>9, <1>10, <1>11, <1>12,
     Zenon DEF Next

(* What is mapped and which page tables there are is as StrayInv says.     *)
THEOREM StrayInvariance == Spec => []StrayInv
<1>1. Init => StrayInv
  <2>. SUFFICES ASSUME Init PROVE StrayInv
    OBVIOUS
  <2>. USE KernelPagesAssumption
  <2>1. /\ held = [h \in Handles |-> NoFrame] /\ inner = NoEntry /\ call = Idle
        /\ live = {} /\ leaked = {}
    BY DEF Init, F!Init
  <2>2. RequestsBounded
    BY <2>1 DEF RequestsBounded, Idle
  <2>3. LeakedApart
    BY <2>1 DEF LeakedApart, Mapping, Unmapping, Idle
  <2>4. \A p \in VirtPages : held[PageAt(p)] = NoFrame /\ held[TableAt(p)] = NoFrame
    BY <2>1, HandleFacts
  <2>5. Accounting
    BY <2>1, <2>4, NotInCall DEF Accounting, Mapped, Owned, Idle
  <2>6. TablesUsed
    BY <2>4 DEF TablesUsed
  <2>. QED  BY <2>2, <2>3, <2>5, <2>6 DEF StrayInv
<1>2. PagesInv /\ StrayInv /\ [Next]_vars => StrayInv'
  BY StrayStep
<1>. QED  BY <1>1, <1>2, PagesInvariance, PTL DEF Spec

(* The two invariants give the account of NoStrayFrame, up to the types of *)
(* the frame allocator's own variables.                                    *)
LEMMA StrayInvGivesAccount ==
  ASSUME PagesInv, StrayInv, F!TypeOK
  PROVE  NoStrayFrame
<1>. USE KernelPagesAssumption
<1>0. /\ InnerOK /\ CallOK /\ RangesApart
      /\ Top \in Nat /\ Top >= Start + 1 /\ Top <= Start + Size + 2
      /\ \A b \in live : PagesOf(b) \subseteq VirtPages
      /\ Mapping \/ Unmapping => PagesOf(call) \subseteq VirtPages
  BY RangesInside DEF PagesInv
<1>1. TypeOK
  <2>1. \/ inner \in {NoEntry, Empty}
        \/ /\ inner.start \in VirtPages
           /\ inner.start + inner.pages = FirstEntry.start + FirstEntry.pages
    BY <1>0, VirtPagesInterval DEF InnerOK, FirstEntry
  <2>2. call.pc \in PCs
    BY <1>0 DEF CallOK
  <2>3. ASSUME call.pc \in {"map", "map_table", "unmap", "clean_up"}
        PROVE  call.i < call.n /\ PagesOf(call) \subseteq VirtPages
    BY <1>0, <2>3 DEF CallOK, Mapping, Unmapping
  <2>4. \A b \in live : b.n \in 1..MaxRequest
    BY <1>0 DEF StrayInv, RequestsBounded, RangesApart
  <2>5. leaked \subseteq VirtPages
    BY <1>0, VirtPagesInterval DEF StrayInv, LeakedApart
  <2>. QED  BY <1>0, <2>1, <2>2, <2>3, <2>4, <2>5 DEF TypeOK, PCs
<1>2. ASSUME call = Idle, phase = "running"
      PROVE  /\ \A p \in VirtPages : Mapped(p) <=> Owned(p)
             /\ \A p \in VirtPages :
                  held[TableAt(p)] # NoFrame
                    => \E q \in VirtPages : TableOf(q) = TableOf(p) /\ Mapped(q)
  <2>1. call.pc = "idle"
    BY <1>2 DEF Idle
  <2>2. \A p \in VirtPages : Mapped(p) <=> Owned(p)
    BY <1>2, <2>1, NotInCall DEF StrayInv, Accounting
  <2>3. \A p \in VirtPages :
          held[TableAt(p)] # NoFrame
            => \E q \in VirtPages : TableOf(q) = TableOf(p) /\ Mapped(q)
    BY <1>2, <2>1 DEF StrayInv, TablesUsed
  <2>. QED  BY <2>2, <2>3
<1>. QED  BY <1>1, <1>2, Zenon DEF NoStrayFrame, Ready, Owned

-----------------------------------------------------------------------------
(* The frame allocator as the page allocator uses it: what                 *)
(* FrameAllocatorProofs proves of FrameAllocator's own specification holds *)
(* in KernelPages too, because every step of it is a step of the frame     *)
(* allocator or leaves it alone.                                           *)

FP == INSTANCE FrameAllocatorProofs

(* Both instances of the frame allocator's operators are the same.         *)
LEMMA SameFrames ==
  /\ F!TotalFrames = FP!TotalFrames
  /\ F!BitmapFrames = FP!BitmapFrames
  /\ F!BitsPerFrame = FP!BitsPerFrame
  /\ F!usable_regions = FP!usable_regions
  /\ \A n : F!frame_to_address(n) = FP!frame_to_address(n)
  /\ \A a : F!address_to_frame(a) = FP!address_to_frame(a)
  /\ \A bm : F!NonzeroWords(bm) = FP!NonzeroWords(bm)
  /\ \A bm : F!first_free_frame(bm) = FP!first_free_frame(bm)
<1>1. \A S : F!Cardinality(S) = FP!Cardinality(S)
  BY DEF F!Cardinality, FP!Cardinality
<1>2. \A S : F!Frames(S) = FP!Frames(S)
  BY Zenon DEF F!Frames, FP!Frames, F!FramesIn, FP!FramesIn
<1>3. F!usable_regions = FP!usable_regions
  BY Zenon DEF F!usable_regions, FP!usable_regions
<1>4. F!TotalFrames = FP!TotalFrames
  BY <1>1, <1>2, <1>3, Zenon DEF F!TotalFrames, FP!TotalFrames
<1>5. F!BitsPerFrame = FP!BitsPerFrame /\ F!BitmapFrames = FP!BitmapFrames
  BY <1>4, Zenon DEF F!BitsPerFrame, FP!BitsPerFrame, F!BitmapFrames, FP!BitmapFrames
<1>6. \A n : F!frame_to_address(n) = FP!frame_to_address(n)
  BY Zenon
     DEF F!frame_to_address, FP!frame_to_address, F!RegionsOfIndex,
         FP!RegionsOfIndex, F!FramesBefore, FP!FramesBefore, F!Frames, FP!Frames,
         F!FramesIn, FP!FramesIn, F!usable_regions, FP!usable_regions,
         F!Cardinality, FP!Cardinality
<1>7. \A a : F!address_to_frame(a) = FP!address_to_frame(a)
  BY <1>3
     DEF F!address_to_frame, FP!address_to_frame, F!InRegion, FP!InRegion
<1>8. \A bm : F!NonzeroWords(bm) = FP!NonzeroWords(bm)
  BY <1>5 DEF F!NonzeroWords, FP!NonzeroWords, F!Word, FP!Word
<1>9. \A bm : F!first_free_frame(bm) = FP!first_free_frame(bm)
  BY <1>8, Zenon DEF F!first_free_frame, FP!first_free_frame,
     F!LeadingOnesEnd, FP!LeadingOnesEnd
<1>. QED  BY <1>3, <1>4, <1>5, <1>6, <1>7, <1>8, <1>9, Zenon

(* The memory map is as the frame allocator expects it.                    *)
LEMMA FramesAssumed == FP!RegionsAssumption /\ FP!SizesAssumption
<1>1. \A S : F!IsFiniteSet(S) <=> FP!IsFiniteSet(S)
  BY Zenon DEF F!IsFiniteSet, FP!IsFiniteSet
<1>2. FP!RegionsAssumption
  BY <1>1, FramesAssumption DEF F!RegionsAssumption, FP!RegionsAssumption
<1>3. FP!SizesAssumption
  BY FramesAssumption DEF F!SizesAssumption, FP!SizesAssumption
<1>. QED  BY <1>2, <1>3

(* So are the operations.                                                  *)
LEMMA SameSteps ==
  /\ F!Init => FP!Init
  /\ \A t : F!allocate_bitmap(t) => FP!allocate_bitmap(t)
  /\ \A h : F!allocate_frame(h) => FP!allocate_frame(h)
  /\ \A h : F!deallocate_frame(h) => FP!deallocate_frame(h)
  /\ FP!TypeOK => F!TypeOK
<1>1. F!Init => FP!Init
  BY Zenon DEF F!Init, FP!Init
<1>2. ASSUME NEW t, F!allocate_bitmap(t) PROVE FP!allocate_bitmap(t)
  BY <1>2, SameFrames, SMTT(30)
     DEF F!allocate_bitmap, FP!allocate_bitmap, F!Panic, FP!Panic,
         F!is_contiguous, FP!is_contiguous
<1>3. ASSUME NEW h, F!allocate_frame(h) PROVE FP!allocate_frame(h)
  BY <1>3, SameFrames, SMTT(30)
     DEF F!allocate_frame, FP!allocate_frame, F!mark_frame_used, FP!mark_frame_used
<1>4. ASSUME NEW h, F!deallocate_frame(h) PROVE FP!deallocate_frame(h)
  BY <1>4, SameFrames, SMTT(30)
     DEF F!deallocate_frame, FP!deallocate_frame, F!Panic, FP!Panic,
         F!mark_frame_free, FP!mark_frame_free
<1>5. FP!TypeOK => F!TypeOK
  BY SameFrames, Zenon DEF F!TypeOK, FP!TypeOK, F!InRegion, FP!InRegion
<1>. QED  BY <1>1, <1>2, <1>3, <1>4, <1>5, Zenon

(* Every step of KernelPages keeps the frame allocator's invariant.        *)
LEMMA FramesStep ==
  ASSUME PagesInv, FP!IInv, [Next]_vars
  PROVE  FP!IInv'
<1>1. ASSUME NEW h \in Handles, F!allocate_frame(h) PROVE FP!IInv'
  BY <1>1, SameSteps, FramesAssumed, FP!AllocateFrameStep, SMTT(30)
<1>2. ASSUME NEW h \in Handles, F!deallocate_frame(h) PROVE FP!IInv'
  BY <1>2, SameSteps, FramesAssumed, FP!DeallocateFrameStep, SMTT(30)
<1>3. ASSUME NEW t \in 0..MaxTables, F!allocate_bitmap(t) PROVE FP!IInv'
  BY <1>3, SameSteps, FramesAssumed, FP!AllocateBitmapStep, SMTT(30)
<1>4. CASE UNCHANGED frameVars
  BY <1>4 DEF frameVars, FP!IInv, FP!TypeOK, FP!BootMarked, FP!HeldMarked,
     FP!OnlyOverflowFrameShared, FP!NoLostFrame
<1>5. ASSUME NEW why, MapperPanic(why) PROVE FP!IInv'
  BY <1>5 DEF MapperPanic, FP!IInv, FP!TypeOK, FP!BootMarked, FP!HeldMarked,
     FP!OnlyOverflowFrameShared, FP!NoLostFrame
<1>6. /\ PageAt(Start) \in Handles /\ TableAt(Start) \in Handles
      /\ call.pc \in {"map", "map_table", "unmap", "clean_up"} =>
           PageAt(CallPage) \in Handles /\ TableAt(CallPage) \in Handles
  BY RangesInside, VirtPagesInterval, HandleFacts, KernelPagesAssumption, SMTT(30)
     DEF PagesInv, Mapping, Unmapping
<1>7. CASE init_frame_allocator
  BY <1>3, <1>7, Zenon DEF init_frame_allocator
<1>8. CASE add_entry_page \/ map_entry_page
  BY <1>1, <1>4, <1>6, <1>8, Zenon
     DEF add_entry_page, map_entry_page, HasTable, NewTable
<1>9. CASE alloc_kpage_frame
  BY <1>1, <1>5, <1>6, <1>9, SMTT(30) DEF alloc_kpage_frame
<1>10. CASE alloc_kpage_map
  BY <1>1, <1>4, <1>6, <1>10, SMTT(30) DEF alloc_kpage_map, HasTable, NewTable
<1>11. CASE free_kpage_unmap
  BY <1>2, <1>5, <1>6, <1>11, SMTT(30) DEF free_kpage_unmap
<1>12. CASE free_kpage_clean_up
  BY <1>2, <1>4, <1>6, <1>12, SMTT(30) DEF free_kpage_clean_up
<1>13. CASE \/ \E n \in 1..MaxRequest : allocate(n)
            \/ reserve \/ Halted \/ UNCHANGED vars
            \/ \E b \in live : deallocate(b)
  BY <1>4, <1>13, Zenon DEF allocate, reserve, Halted, deallocate, vars, frameVars
<1>14. CASE map_to_unwrap
  BY <1>5, <1>14, Zenon DEF map_to_unwrap
<1>. QED
  BY <1>7, <1>8, <1>9, <1>10, <1>11, <1>12, <1>13, <1>14, Zenon DEF Next

(* The frame allocator's invariant holds under the page allocator.         *)
THEOREM FramesInvariance == Spec => []FP!IInv
<1>1. Init => FP!IInv
  BY SameSteps, FramesAssumed, FP!InitIInv, SMTT(30) DEF Init
<1>2. PagesInv /\ FP!IInv /\ [Next]_vars => FP!IInv'
  BY FramesStep
<1>. QED  BY <1>1, <1>2, PagesInvariance, PTL DEF Spec

(* For every memory map, address range and sequence of calls, and also     *)
(* after calls that failed half way: between calls a page is mapped only   *)
(* as the entry page, in a live allocation or in one that failed, and a    *)
(* page table is kept only for a mapped page (alloc_kpage, free_kpage).    *)
THEOREM FramesAccounted == Spec => []NoStrayFrame
<1>1. PagesInv /\ StrayInv /\ FP!IInv => NoStrayFrame
  <2>1. FP!IInv => F!TypeOK
    BY SameSteps, Zenon DEF FP!IInv
  <2>. QED  BY <2>1, StrayInvGivesAccount, SMTT(30)
<1>. QED  BY <1>1, PagesInvariance, StrayInvariance, FramesInvariance, PTL

(* For every memory map, alloc_kpage and map_to are refused a frame only   *)
(* when all usable frames are in use.                                      *)
THEOREM RefusedOnlyWhenFull == Spec => NoneOnlyWhenFull
<1>1. ASSUME FP!IInv, NEW h \in Handles, F!allocate_frame(h), held'[h] = NoFrame
      PROVE  0..(F!TotalFrames - 1) \subseteq bitmap
  <2>1. 0..(FP!TotalFrames - 1) \subseteq bitmap
    BY <1>1, SameSteps, FramesAssumed, FP!NoneStep, SMTT(30)
  <2>. QED  BY <2>1, SameFrames, Zenon
<1>2. FP!IInv /\ [Next]_vars =>
        [\A h \in Handles : F!allocate_frame(h) /\ held'[h] = NoFrame
           => 0..(F!TotalFrames - 1) \subseteq bitmap]_F!vars
  BY <1>1, Zenon
<1>. QED
  BY <1>2, FramesInvariance, PTL DEF Spec, NoneOnlyWhenFull, F!NoneOnlyWhenFull

-----------------------------------------------------------------------------
(* How long memory stays intact.                                           *)

(* A frame that alloc_kpage or map_to gets while the first bitmap word has *)
(* a clear bit is nobody else's, and returning one makes nothing shared.   *)
LEMMA IntactStep ==
  ASSUME FP!IInv, Intact, ~ (F!Word(0) \subseteq bitmap),
         NEW h \in Handles, F!allocate_frame(h) \/ F!deallocate_frame(h)
  PROVE  Intact'
<1>1. /\ DOMAIN held = Handles /\ UNCHANGED reserved
      /\ \A g \in Handles : g # h => held'[g] = held[g]
  BY DEF F!allocate_frame, F!deallocate_frame, FP!IInv, FP!TypeOK
<1>2. \A a : F!BootFrame(a)' <=> F!BootFrame(a)
  BY <1>1, Zenon DEF F!BootFrame
<1>3. CASE held'[h] \in {held[h], NoFrame}
  BY <1>1, <1>2, <1>3, SMTT(30) DEF Intact, F!NoSharedFrame
<1>4. CASE held'[h] # NoFrame /\ F!allocate_frame(h)
  <2>1. F!Word(0) = FP!Word(0)
    BY Zenon DEF F!Word, FP!Word
  <2>2. \A a : F!BootFrame(a) <=> FP!BootFrame(a)
    BY SameFrames, Zenon DEF F!BootFrame, FP!BootFrame
  <2>3. ~ FP!BootFrame(held'[h]) /\ \A g \in Handles : held[g] # held'[h]
    BY <1>4, <2>1, SameSteps, FramesAssumed, FP!FreshStep, SMTT(30)
  <2>. QED  BY <1>1, <1>2, <2>2, <2>3, SMTT(30) DEF Intact, F!NoSharedFrame
<1>5. F!deallocate_frame(h) => held'[h] \in {held[h], NoFrame}
  BY <1>1, SMTT(30) DEF F!deallocate_frame
<1>. QED  BY <1>3, <1>4, <1>5, Zenon

(* A step of a running kernel ends Intact, the condition of the theorems   *)
(* above, only when all frames of the first bitmap word are in use.        *)
THEOREM IntactWhileWordOpen ==
  Spec => [][Ready /\ ~ Intact' => F!Word(0) \subseteq bitmap]_vars
<1>1. ASSUME PagesInv, FP!IInv, Next, Ready, ~ (F!Word(0) \subseteq bitmap)
      PROVE  Intact'
  <2>1. ASSUME NEW h \in Handles, F!allocate_frame(h) \/ F!deallocate_frame(h)
        PROVE  Intact'
    BY <1>1, <2>1, IntactStep, Zenon DEF Ready
  <2>2. CASE UNCHANGED <<reserved, held>>
    BY <1>1, <2>2, Zenon DEF Ready, Intact, F!NoSharedFrame, F!BootFrame
  <2>3. /\ PageAt(Start) \in Handles /\ TableAt(Start) \in Handles
        /\ call.pc \in {"map", "map_table", "unmap", "clean_up"} =>
             PageAt(CallPage) \in Handles /\ TableAt(CallPage) \in Handles
    BY <1>1, RangesInside, VirtPagesInterval, HandleFacts, KernelPagesAssumption,
       SMTT(30) DEF PagesInv, Mapping, Unmapping
  <2>4. ~ init_frame_allocator
    BY <1>1, SMTT(30) DEF init_frame_allocator, F!allocate_bitmap, Ready
  <2>5. CASE add_entry_page \/ map_entry_page
    BY <2>1, <2>2, <2>3, <2>5, Zenon
       DEF add_entry_page, map_entry_page, HasTable, NewTable, frameVars
  <2>6. CASE alloc_kpage_frame
    BY <2>1, <2>2, <2>3, <2>6, SMTT(30) DEF alloc_kpage_frame, MapperPanic
  <2>7. CASE alloc_kpage_map
    BY <2>1, <2>2, <2>3, <2>7, SMTT(30)
       DEF alloc_kpage_map, HasTable, NewTable, frameVars
  <2>8. CASE free_kpage_unmap
    BY <2>1, <2>2, <2>3, <2>8, SMTT(30) DEF free_kpage_unmap, MapperPanic
  <2>9. CASE free_kpage_clean_up
    BY <2>1, <2>2, <2>3, <2>9, SMTT(30) DEF free_kpage_clean_up, frameVars
  <2>10. CASE \/ \E n \in 1..MaxRequest : allocate(n)
              \/ reserve \/ map_to_unwrap \/ Halted
              \/ \E b \in live : deallocate(b)
    BY <2>2, <2>10, Zenon DEF allocate, reserve, map_to_unwrap, MapperPanic,
       Halted, deallocate, vars, frameVars
  <2>. QED  BY <1>1, <2>4, <2>5, <2>6, <2>7, <2>8, <2>9, <2>10, Zenon DEF Next
<1>2. PagesInv /\ FP!IInv /\ [Next]_vars =>
        [Ready /\ ~ Intact' => F!Word(0) \subseteq bitmap]_vars
  BY <1>1, Zenon
<1>. QED  BY <1>2, PagesInvariance, FramesInvariance, PTL DEF Spec
=============================================================================
