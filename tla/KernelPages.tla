---------------------------- MODULE KernelPages -----------------------------
(***************************************************************************)
(* Page-granular kernel memory: FullPageAllocator's allocate, deallocate   *)
(* and init_or_get (kernel/src/memory/allocator/page.rs) over alloc_kpage  *)
(* and free_kpage (kernel/src/memory/mod.rs), the page table of the x86_64 *)
(* crate and the frame allocator (module FrameAllocator).                  *)
(*                                                                         *)
(* Every caller of PAGE_ALLOCATOR holds the lock of KAllocator.buckets, so *)
(* calls do not interleave: `call` is the one in progress.  A call takes   *)
(* one step per frame it asks for or gives back, because each of these can *)
(* fail and leave the work done so far behind.                             *)
(*                                                                         *)
(* deallocate never calls dealloc_pages, so the entry list only shrinks    *)
(* and holds at most its first entry: `inner` is that entry.  The list     *)
(* operations in general are module FreeList.                              *)
(*                                                                         *)
(* A page table is the frame its handle holds and nothing of what that     *)
(* frame contains.  This is right as long as every frame has one holder;   *)
(* once allocate_frame has handed out a frame that is in use, page tables, *)
(* the entry page or the bitmap may be overwritten and nothing is said of  *)
(* what follows: the module goes no further (Intact, Ready).               *)
(***************************************************************************)
EXTENDS Naturals

CONSTANTS
  Regions, WordBits, WordsPerFrame, MaxTables, NoFrame, \* see FrameAllocator
  Start,      \* page number of ALLOCATOR_START
  Size,       \* pages from ALLOCATOR_START to ALLOCATOR_END
  TableSpan,  \* pages one page table maps (512)
  MaxRequest, \* bound: pages of one request
  NoEntry,    \* inner is None: the entry page is not there yet
  Empty       \* Entry::Empty

ASSUME KernelPagesAssumption ==
  /\ Start \in Nat /\ Size \in Nat \ {0}
  /\ TableSpan \in Nat \ {0}
  /\ MaxRequest \in Nat \ {0}
  /\ NoEntry # Empty
  /\ {NoEntry, Empty} \cap [start : Nat, pages : Nat] = {}

VARIABLES
  bitmap, reserved, held, phase, \* see FrameAllocator
  inner,  \* NoEntry, Empty or the Usable entry [start, pages]
  call,   \* the call in progress: [pc, at, n, i]
  live,   \* allocations handed out: [at, n]
  leaked, \* pages left mapped by allocations that failed half way
  error   \* the reason of a panic of the mapper, or "none"

frameVars == <<bitmap, reserved, held, phase>>
vars == <<bitmap, reserved, held, phase, inner, call, live, leaked, error>>

(* The pages the first entry covers: it starts one page after the entry    *)
(* page and is (END.align_up(0x1000) - START + 0x1000) / 0x1000 long.      *)
FirstEntry == [start |-> Start + 1, pages |-> Size + 1]

VirtPages == Start .. (FirstEntry.start + FirstEntry.pages - 1)

TableOf(p) == p \div TableSpan

PageAt(p) == <<"page", p>>
TableAt(p) == <<"table", TableOf(p)>>

(* A frame is held by the page it backs or as a page table.                *)
Handles == {PageAt(p) : p \in VirtPages} \cup {TableAt(p) : p \in VirtPages}

F == INSTANCE FrameAllocator

(* What the frame allocator needs of the memory map.                       *)
ASSUME FramesAssumption == F!RegionsAssumption /\ F!SizesAssumption

Mapped(p) == held[PageAt(p)] # NoFrame

Idle == [pc |-> "idle", at |-> 0, n |-> 0, i |-> 0]

PagesOf(b) == b.at .. (b.at + b.n - 1)

CallPage == call.at + call.i

(* No frame has two holders, boot frames counted as held.                  *)
Intact ==
  /\ F!NoSharedFrame
  /\ \A h \in Handles : held[h] # NoFrame => ~ F!BootFrame(held[h])

Ready == phase = "running" /\ Intact

-----------------------------------------------------------------------------
Init ==
  /\ F!Init
  /\ inner = NoEntry
  /\ call = Idle
  /\ live = {}
  /\ leaked = {}
  /\ error = "none"

(* memory::init_frame_allocator, before anything is allocated.             *)
init_frame_allocator ==
  /\ \E tables \in 0..MaxTables : F!allocate_bitmap(tables)
  /\ UNCHANGED <<inner, call, live, leaked, error>>

MapperPanic(why) ==
  /\ phase' = "panicked"
  /\ error' = why
  /\ UNCHANGED <<bitmap, reserved, held, inner, call, live, leaked>>

(* FullPageAllocator::allocate: the entry page first, if it is missing.    *)
allocate(n) ==
  /\ Ready /\ call = Idle
  /\ call' = [Idle EXCEPT !.pc = IF inner = NoEntry THEN "init" ELSE "reserve",
                          !.n = n]
  /\ UNCHANGED <<bitmap, reserved, held, phase, inner, live, leaked, error>>

(* alloc_kpage(ALLOCATOR_START), the frame.                                *)
add_entry_page ==
  /\ Ready /\ call.pc = "init"
  /\ F!allocate_frame(PageAt(Start))
  /\ call' = IF held'[PageAt(Start)] = NoFrame
             THEN Idle
             ELSE [call EXCEPT !.pc = "init_table"]
  /\ UNCHANGED <<inner, live, leaked, error>>

(* The page table that map_to needs for page p: present (its frame is its  *)
(* own, so its entries are as map_to left them), or a new, zeroed frame,   *)
(* or the unwrap() of alloc_kpage panics.                                  *)
HasTable(p) == held[TableAt(p)] # NoFrame /\ UNCHANGED frameVars

NewTable(p) == held[TableAt(p)] = NoFrame /\ F!allocate_frame(TableAt(p))

map_entry_page ==
  /\ Ready /\ call.pc = "init_table"
  /\ HasTable(Start) \/ NewTable(Start)
  /\ IF held'[TableAt(Start)] = NoFrame
     THEN call' = [call EXCEPT !.pc = "no_table"] /\ UNCHANGED inner
     ELSE call' = [call EXCEPT !.pc = "reserve"] /\ inner' = FirstEntry
  /\ UNCHANGED <<live, leaked, error>>

(* Mutant: the entry shrinks at its end.                                   *)
reserve_keeps_start ==
  /\ Ready /\ call.pc = "reserve"
  /\ IF inner = Empty \/ inner.pages < call.n
     THEN call' = Idle /\ UNCHANGED inner
     ELSE /\ call' = [call EXCEPT !.pc = "map", !.at = inner.start]
          /\ inner' = IF inner.pages = call.n
                      THEN Empty
                      ELSE [inner EXCEPT !.pages = @ - call.n]
  /\ UNCHANGED <<frameVars, live, leaked, error>>

(* find_free_pages and alloc_pages on the one entry; inner is unlocked.    *)
reserve ==
  /\ Ready /\ call.pc = "reserve"
  /\ IF inner = Empty \/ inner.pages < call.n
     THEN call' = Idle /\ UNCHANGED inner
     ELSE /\ call' = [call EXCEPT !.pc = "map", !.at = inner.start]
          /\ inner' = IF inner.pages = call.n
                      THEN Empty
                      ELSE [start |-> inner.start + call.n,
                            pages |-> inner.pages - call.n]
  /\ UNCHANGED <<frameVars, live, leaked, error>>

(* alloc_kpage: the frame comes first; without one the call returns        *)
(* AllocError and the pages mapped so far stay mapped.                     *)
alloc_kpage_frame ==
  /\ Ready /\ call.pc = "map"
  /\ IF Mapped(CallPage)
     THEN MapperPanic("PageAlreadyMapped")
     ELSE /\ F!allocate_frame(PageAt(CallPage))
          /\ IF held'[PageAt(CallPage)] = NoFrame
             THEN /\ call' = Idle
                  /\ leaked' = leaked \cup (call.at .. (CallPage - 1))
             ELSE /\ call' = [call EXCEPT !.pc = "map_table"]
                  /\ UNCHANGED leaked
          /\ UNCHANGED <<inner, live, error>>

alloc_kpage_map ==
  /\ Ready /\ call.pc = "map_table"
  /\ HasTable(CallPage) \/ NewTable(CallPage)
  /\ IF held'[TableAt(CallPage)] = NoFrame
     THEN call' = [call EXCEPT !.pc = "no_table"] /\ UNCHANGED live
     ELSE IF call.i + 1 < call.n
          THEN call' = [call EXCEPT !.pc = "map", !.i = @ + 1] /\ UNCHANGED live
          ELSE call' = Idle /\ live' = live \cup {[at |-> call.at, n |-> call.n]}
  /\ UNCHANGED <<inner, leaked, error>>

(* map_to returned FrameAllocationFailed.                                  *)
map_to_unwrap ==
  /\ Ready /\ call.pc = "no_table"
  /\ MapperPanic("FrameAllocationFailed")

(* Mutant: one page too many.                                              *)
deallocate_one_more(b) ==
  /\ Ready /\ call = Idle
  /\ live' = live \ {b}
  /\ call' = [pc |-> "unmap", at |-> b.at, n |-> b.n + 1, i |-> 0]
  /\ UNCHANGED <<frameVars, inner, leaked, error>>

(* Mutant: the pages go back to the entry they are next to.                *)
deallocate_reuses(b) ==
  /\ Ready /\ call = Idle
  /\ live' = live \ {b}
  /\ call' = [pc |-> "unmap", at |-> b.at, n |-> b.n, i |-> 0]
  /\ inner' = IF inner # Empty /\ inner.start = b.at + b.n
              THEN [start |-> b.at, pages |-> inner.pages + b.n]
              ELSE inner
  /\ UNCHANGED <<frameVars, leaked, error>>

(* FullPageAllocator::deallocate of an allocation.                         *)
deallocate(b) ==
  /\ Ready /\ call = Idle
  /\ live' = live \ {b}
  /\ call' = [pc |-> "unmap", at |-> b.at, n |-> b.n, i |-> 0]
  /\ UNCHANGED <<frameVars, inner, leaked, error>>

(* free_kpage: unmap and return the frame.                                 *)
free_kpage_unmap ==
  /\ Ready /\ call.pc = "unmap"
  /\ IF ~ Mapped(CallPage)
     THEN MapperPanic("PageNotMapped")
     ELSE /\ F!deallocate_frame(PageAt(CallPage))
          /\ call' = [call EXCEPT !.pc = "clean_up"]
          /\ UNCHANGED <<inner, live, leaked, error>>

(* Mutant: the table is returned with the first page.                      *)
TableUnusedFirstOnly(p) == ~ Mapped(p)

(* clean_up_addr_range returns the page table if nothing is mapped by it   *)
(* (all its entries are unused: its frame is its own).                     *)
TableUnused(p) == \A q \in VirtPages : TableOf(q) = TableOf(p) => ~ Mapped(q)

(* Mutant: no clean_up_addr_range.                                         *)
free_kpage_keeps_tables ==
  /\ Ready /\ call.pc = "clean_up"
  /\ call' = IF call.i + 1 < call.n
             THEN [call EXCEPT !.pc = "unmap", !.i = @ + 1]
             ELSE Idle
  /\ UNCHANGED <<frameVars, inner, live, leaked, error>>

free_kpage_clean_up ==
  /\ Ready /\ call.pc = "clean_up"
  /\ IF TableUnused(CallPage) /\ held[TableAt(CallPage)] # NoFrame
     THEN F!deallocate_frame(TableAt(CallPage))
     ELSE UNCHANGED frameVars
  /\ call' = IF call.i + 1 < call.n
             THEN [call EXCEPT !.pc = "unmap", !.i = @ + 1]
             ELSE Idle
  /\ UNCHANGED <<inner, live, leaked, error>>

(* After a panic, or once memory is not intact any more.                   *)
Halted == phase # "boot" /\ ~ Ready /\ UNCHANGED vars

Next ==
  \/ init_frame_allocator
  \/ \E n \in 1..MaxRequest : allocate(n)
  \/ add_entry_page
  \/ map_entry_page
  \/ reserve
  \/ alloc_kpage_frame
  \/ alloc_kpage_map
  \/ map_to_unwrap
  \/ \E b \in live : deallocate(b)
  \/ free_kpage_unmap
  \/ free_kpage_clean_up
  \/ Halted

Spec == Init /\ [][Next]_vars

-----------------------------------------------------------------------------
(* Properties.                                                             *)

(* The page a call is at stays inside the range it works on, and a range   *)
(* inside the pages the first entry covers.                                *)
TypeOK ==
  /\ F!TypeOK
  /\ \/ inner \in {NoEntry, Empty}
     \/ /\ inner.start \in VirtPages
        /\ inner.start + inner.pages = FirstEntry.start + FirstEntry.pages
  /\ call.pc \in {"idle", "init", "init_table", "reserve", "map", "map_table",
                  "no_table", "unmap", "clean_up"}
  /\ call.pc \in {"map", "map_table", "unmap", "clean_up"}
       => call.i < call.n /\ PagesOf(call) \subseteq VirtPages
  /\ \A b \in live : b.n \in 1..MaxRequest /\ PagesOf(b) \subseteq VirtPages
  /\ leaked \subseteq VirtPages

(* Memory that allocate() handed out is backed: each of its pages has a    *)
(* frame and a page table, whatever was freed around it since (free_kpage  *)
(* returns page tables through clean_up_addr_range) and as long as no      *)
(* frame is shared.                                                        *)
LiveBacked ==
  Intact => \A b \in live : \A p \in PagesOf(b) :
               held[PageAt(p)] # NoFrame /\ held[TableAt(p)] # NoFrame

(* Between calls, as long as no frame is shared, every frame is accounted  *)
(* for: a mapped page is the entry page, part of a live allocation or of   *)
(* one that failed half way, and a page table maps something.              *)
NoStrayFrame ==
  /\ TypeOK
  /\ call = Idle /\ Ready =>
       /\ \A p \in VirtPages :
            Mapped(p) <=> \/ p = Start /\ inner # NoEntry
                          \/ p \in leaked
                          \/ \E b \in live : p \in PagesOf(b)
       /\ \A p \in VirtPages :
            held[TableAt(p)] # NoFrame
              => \E q \in VirtPages : TableOf(q) = TableOf(p) /\ Mapped(q)

(* The unwrap()s in alloc_kpage and free_kpage never meet a page that is   *)
(* mapped already or not mapped at all, as long as no frame is shared.     *)
MappingNeverConflicts ==
  Intact => error \notin {"PageAlreadyMapped", "PageNotMapped"}

(* The frame behind a live page never changes under its owner, as long as  *)
(* no frame is shared.                                                     *)
LiveFramesStable ==
  [][Intact' => \A b \in live \cap live' : \A p \in PagesOf(b) :
                   held'[PageAt(p)] = held[PageAt(p)]]_vars

(* alloc_kpage and map_to are refused a frame only when all are in use,    *)
(* also after indices past the last frame were marked (allocate_frame).    *)
NoneOnlyWhenFull == F!NoneOnlyWhenFull

(* KernelPages keeps PageSource's promise: pages below the entry have been *)
(* given out, and a range belongs to its caller from reserve on.           *)
Reserved ==
  IF call.pc \in {"map", "map_table", "no_table"} /\ call.at > Start
  THEN {[at |-> call.at, n |-> call.n]}
  ELSE {}

Issued ==
  IF inner = NoEntry
  THEN {}
  ELSE IF inner = Empty
       THEN VirtPages \ {Start}
       ELSE FirstEntry.start .. (inner.start - 1)

Source == INSTANCE PageSource WITH Page <- VirtPages \ {Start},
                                   issued <- Issued,
                                   live <- live \cup Reserved

(* No address range is handed out twice, not even after deallocate(): the  *)
(* page allocator implements PageSource.                                   *)
ImplementsPageSource == Source!Spec
=============================================================================
