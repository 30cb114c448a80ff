----------------------------- MODULE KAllocator -----------------------------
(***************************************************************************)
(* The kernel heap: KAllocator and Bucket of                               *)
(* kernel/src/memory/allocator/mod.rs.                                     *)
(*                                                                         *)
(* A size class has a chain of buckets; a bucket is a page cut in blocks   *)
(* and a bitmap of the used ones.  The head bucket lives in the allocator, *)
(* every other one in a Box that takes a page of its own.  Requests larger *)
(* than the largest block go to PAGE_ALLOCATOR.  The lock on `buckets` is  *)
(* held for the whole of each call, so a call is one step.                 *)
(*                                                                         *)
(* An address is a page number and a byte in the page.  PAGE_ALLOCATOR is  *)
(* used through its promise, module PageSource: any fresh page, an error,  *)
(* or a panic, in allocate and in deallocate.  A panic ends the model: the *)
(* lock is never released.  A page has memory of its own, as KernelPages   *)
(* shows for as long as no frame is shared.                                *)
(***************************************************************************)
EXTENDS Naturals, Sequences, FiniteSets

CONSTANTS
  Class,       \* indices of Buckets
  Block,       \* Block[c]: bytes of a block (BLOCK)
  BitmapBits,  \* BitmapBits[c]: bits in a bucket's bitmap (8 * SIZE)
  PageBytes,   \* Size4KiB::SIZE
  Page,        \* page numbers of the allocator's address range
  NoPage,      \* the head bucket has no Box
  Layout,      \* the layouts that are requested: [size, align]
  Owner        \* tells the owners of one block apart

(* Block sizes and alignments are powers of two: the smaller divides the   *)
(* larger.                                                                 *)
ASSUME KAllocatorAssumption ==
  /\ Page \subseteq Nat
  /\ NoPage \notin Page
  /\ PageBytes \in Nat \ {0}
  /\ Owner # {}
  /\ Block \in [Class -> 1..PageBytes]
  /\ BitmapBits \in [Class -> Nat \ {0}]
  /\ \A l \in Layout :
       /\ l.size \in Nat \ {0} /\ l.align \in Nat \ {0}
       /\ \A c \in Class : l.align <= Block[c] => Block[c] % l.align = 0

VARIABLES
  chain,   \* chain[c]: pages of the buckets of class c, head first
  used,    \* used[p]: bitmap of the bucket at page p, as block offsets
  box,     \* box[p]: page of the Box that holds the bucket at page p
  issued,  \* pages PAGE_ALLOCATOR has given out
  pages,   \* ranges of pages it has not got back: [at, n]
  live,    \* allocations that callers hold: [page, byte, layout, owner]
  phase    \* "running" or "panicked"

vars == <<chain, used, box, issued, pages, live, phase>>

-----------------------------------------------------------------------------
(* Size classes.                                                           *)

MaxOf(l) == IF l.size >= l.align THEN l.size ELSE l.align

(* Mutant: the alignment is ignored.                                       *)
FitsBySize(l) == {c \in Class : l.size <= Block[c]}

(* The classes whose blocks hold the layout, max(size, align).             *)
Fits(l) == {c \in Class : MaxOf(l) <= Block[c]}

Large(l) == Fits(l) = {}

ClassOf(l) == CHOOSE c \in Fits(l) : \A d \in Fits(l) : Block[c] <= Block[d]

(* size.div_ceil(4096).                                                    *)
NumPages(l) == (l.size + PageBytes - 1) \div PageBytes

InvalidAlignment(l) == Large(l) /\ l.align > PageBytes

(* Mutant: the bits are not looked at.                                     *)
AllOffsets(c, p) == {o \in 0..(BitmapBits[c] - 1) : o < PageBytes \div Block[c]}

(* Offsets allocate_block can return: clear in the bitmap and not past the *)
(* last block of the page.                                                 *)
FreeOffsets(c, p) ==
  {o \in 0..(BitmapBits[c] - 1) : o < PageBytes \div Block[c] /\ o \notin used[p]}

FirstOffset(c, p) ==
  CHOOSE o \in FreeOffsets(c, p) : \A q \in FreeOffsets(c, p) : o <= q

(* Positions in the chain whose bucket has a free block.                   *)
Room(c) == {k \in DOMAIN chain[c] : FreeOffsets(c, chain[c][k]) # {}}

FirstRoom(c) == CHOOSE k \in Room(c) : \A j \in Room(c) : k <= j

Chained(c) == {chain[c][k] : k \in DOMAIN chain[c]}

Fresh == Page \ issued

-----------------------------------------------------------------------------
Init ==
  /\ chain = [c \in Class |-> <<>>]
  /\ used = [p \in Page |-> {}]
  /\ box = [p \in Page |-> NoPage]
  /\ issued = {}
  /\ pages = {}
  /\ live = {}
  /\ phase = "running"

OnePage(p) == [at |-> p, n |-> 1]

(* An allocation is a record of its own: were a block handed out that a    *)
(* caller has already, the two would differ in the owner.                  *)
NewOwner(p, byte) ==
  CHOOSE w \in Owner : \A b \in live : b.page = p /\ b.byte = byte => b.owner # w

Hand(l, p, byte) ==
  live' = live \cup {[page |-> p, byte |-> byte, layout |-> l,
                     owner |-> NewOwner(p, byte)]}

(* What a call of PAGE_ALLOCATOR that fails does to the pages not issued:  *)
(* a range of n pages that was reserved before it failed stays reserved.   *)
Reserve(taken, n) ==
  \/ issued' = taken
  \/ \E at \in Page :
       LET range == at .. (at + n - 1)
       IN  range \subseteq Page \ taken /\ issued' = taken \cup range

(* allocate_block finds a block in the chain.                              *)
allocate_block(l) ==
  /\ phase = "running" /\ ~ Large(l)
  /\ Room(ClassOf(l)) # {}
  /\ LET c == ClassOf(l)
         p == chain[c][FirstRoom(c)]
         o == FirstOffset(c, p)
     IN  /\ used' = [used EXCEPT ![p] = @ \cup {o}]
         /\ Hand(l, p, o * Block[c])
  /\ UNCHANGED <<chain, box, issued, pages, phase>>

(* The class has no bucket yet: Bucket::new(), whose first block is used.  *)
allocate_first_bucket(l) ==
  /\ phase = "running" /\ ~ Large(l)
  /\ chain[ClassOf(l)] = <<>>
  /\ \E p \in Fresh :
        /\ chain' = [chain EXCEPT ![ClassOf(l)] = <<p>>]
        /\ used' = [used EXCEPT ![p] = {0}]
        /\ issued' = issued \cup {p}
        /\ pages' = pages \cup {OnePage(p)}
        /\ Hand(l, p, 0)
  /\ UNCHANGED <<box, phase>>

(* Every bucket is full: a new one, in a Box, at the end of the chain.     *)
Full(c) == chain[c] # <<>> /\ Room(c) = {}

allocate_next_bucket(l) ==
  /\ phase = "running" /\ ~ Large(l)
  /\ Full(ClassOf(l))
  /\ \E p \in Fresh : \E b \in Fresh \ {p} :
        /\ chain' = [chain EXCEPT ![ClassOf(l)] = Append(@, p)]
        /\ used' = [used EXCEPT ![p] = {0}]
        /\ box' = [box EXCEPT ![p] = b]
        /\ issued' = issued \cup {p, b}
        /\ pages' = pages \cup {OnePage(p), OnePage(b)}
        /\ Hand(l, p, 0)
  /\ UNCHANGED phase

(* Box::new_in aborts when it gets no page, or PAGE_ALLOCATOR panics in    *)
(* it; the bucket's page is taken.                                         *)
allocate_box_fails(l) ==
  /\ phase = "running" /\ ~ Large(l)
  /\ Full(ClassOf(l))
  /\ \E p \in Fresh :
        /\ Reserve(issued \cup {p}, 1)
        /\ pages' = pages \cup {OnePage(p)}
  /\ phase' = "panicked"
  /\ UNCHANGED <<chain, used, box, live>>

(* The fall back to PAGE_ALLOCATOR.                                        *)
allocate_pages(l) ==
  /\ phase = "running" /\ Large(l) /\ ~ InvalidAlignment(l)
  /\ \E at \in Page :
        LET range == at .. (at + NumPages(l) - 1)
        IN  /\ range \subseteq Fresh
            /\ issued' = issued \cup range
            /\ pages' = pages \cup {[at |-> at, n |-> NumPages(l)]}
            /\ Hand(l, at, 0)
  /\ UNCHANGED <<chain, used, box, phase>>

(* PAGE_ALLOCATOR returns AllocError, which allocate() passes on, or it    *)
(* panics.                                                                 *)
allocate_fails(l) ==
  /\ phase = "running" /\ ~ InvalidAlignment(l)
  /\ ~ Large(l) => Room(ClassOf(l)) = {}
  /\ Reserve(issued, IF Large(l) THEN NumPages(l) ELSE 1)
  /\ phase' \in {"running", "panicked"}
  /\ UNCHANGED <<chain, used, box, pages, live>>

(* assert!(align <= 4096).                                                 *)
allocate_asserts(l) ==
  /\ phase = "running" /\ InvalidAlignment(l)
  /\ phase' = "panicked"
  /\ UNCHANGED <<chain, used, box, issued, pages, live>>

(* The chain s without its k-th bucket.                                    *)
Unlink(s, k) == [j \in 1..(Len(s) - 1) |-> IF j < k THEN s[j] ELSE s[j + 1]]

(* Mutant: the offset in bytes.                                            *)
ByteOffset(c, b) == b.byte

BlockOffset(c, b) == b.byte \div Block[c]

(* Mutant: the Box is not returned.                                        *)
BucketPageOnly(p) == {OnePage(p)}

(* What dropping a Bucket and its Box returns.                             *)
BucketPages(p) == {OnePage(p), OnePage(box[p])}

(* free_block: on the way back from the bucket at position k an empty next *)
(* bucket is unlinked and dropped, its page and its Box returned.  Buckets *)
(* ahead of k were not changed and are not empty (BucketsInUse), so only   *)
(* the k-th can be unlinked.  The head bucket stays.                       *)
Emptied(c, k, p, o) == k # 1 /\ used[p] = {o}

deallocate_block(b) ==
  /\ phase = "running" /\ ~ Large(b.layout)
  /\ LET c == ClassOf(b.layout)
         p == b.page
         o == BlockOffset(c, b)
         k == CHOOSE j \in DOMAIN chain[c] : chain[c][j] = p
     IN  IF p \in Chained(c)
         THEN /\ used' = [used EXCEPT ![p] = @ \ {o}]
              /\ IF Emptied(c, k, p, o)
                 THEN /\ chain' = [chain EXCEPT ![c] = Unlink(@, k)]
                      /\ box' = [box EXCEPT ![p] = NoPage]
                      /\ pages' = pages \ BucketPages(p)
                 ELSE UNCHANGED <<chain, box, pages>>
              /\ UNCHANGED phase
         ELSE /\ phase' = IF chain[c] = <<>> THEN "panicked" ELSE phase
              /\ UNCHANGED <<chain, used, box, pages>>
  /\ live' = live \ {b}
  /\ UNCHANGED issued

(* PAGE_ALLOCATOR panics while the bucket is dropped, for its page or then *)
(* for its Box.  next.next has been taken, self.next not yet replaced: the *)
(* buckets behind the k-th are in no chain.                                *)
drop_bucket_panics(b) ==
  /\ phase = "running" /\ ~ Large(b.layout)
  /\ LET c == ClassOf(b.layout)
         p == b.page
         o == BlockOffset(c, b)
         k == CHOOSE j \in DOMAIN chain[c] : chain[c][j] = p
     IN  /\ p \in Chained(c) /\ Emptied(c, k, p, o)
         /\ used' = [used EXCEPT ![p] = @ \ {o}]
         /\ chain' = [chain EXCEPT ![c] = SubSeq(@, 1, k)]
         /\ pages' \in {pages, pages \ {OnePage(p)}}
  /\ live' = live \ {b}
  /\ phase' = "panicked"
  /\ UNCHANGED <<box, issued>>

(* PAGE_ALLOCATOR takes the pages back, or panics.                         *)
deallocate_pages(b) ==
  /\ phase = "running" /\ Large(b.layout)
  /\ \/ /\ pages' = pages \ {[at |-> b.page, n |-> NumPages(b.layout)]}
        /\ UNCHANGED phase
     \/ phase' = "panicked" /\ UNCHANGED pages
  /\ live' = live \ {b}
  /\ UNCHANGED <<chain, used, box, issued>>

Halted == phase = "panicked" /\ UNCHANGED vars

Next ==
  \/ \E l \in Layout :
       \/ allocate_block(l)
       \/ allocate_first_bucket(l)
       \/ allocate_next_bucket(l)
       \/ allocate_box_fails(l)
       \/ allocate_pages(l)
       \/ allocate_fails(l)
       \/ allocate_asserts(l)
  \/ \E b \in live : deallocate_block(b)
  \/ \E b \in live : drop_bucket_panics(b)
  \/ \E b \in live : deallocate_pages(b)
  \/ Halted

Spec == Init /\ [][Next]_vars

-----------------------------------------------------------------------------
(* Properties.                                                             *)

LargeLive == {b \in live : Large(b.layout)}

(* The bytes of an allocation: a whole block, or whole pages.              *)
Bytes(b) ==
  IF Large(b.layout)
  THEN (b.page..(b.page + NumPages(b.layout) - 1)) \X (0..(PageBytes - 1))
  ELSE {b.page} \X (b.byte..(b.byte + Block[ClassOf(b.layout)] - 1))

H == INSTANCE Heap WITH
       Region <- (SUBSET (Page \X (0..(PageBytes - 1)))) \ {{}},
       regions <- [b \in live |-> Bytes(b)]

(* The buckets implement the abstract heap: what allocate hands out is a   *)
(* region that overlaps nothing any caller has, also across size classes   *)
(* and with page allocations; a call adds one allocation, takes one back,  *)
(* or changes none.                                                        *)
ImplementsHeap == H!Spec

(* A bit is set exactly for the blocks that were handed out and not given  *)
(* back, and their buckets are in the chain of their class: no block is    *)
(* lost, or free while somebody uses it.  A heap that panicked while it    *)
(* dropped a bucket has let go of the buckets behind it.                   *)
BitmapMatchesLive ==
  phase = "running" =>
    /\ \A c \in Class : \A p \in Chained(c) : \A o \in 0..(BitmapBits[c] - 1) :
         o \in used[p] <=> \E b \in live : /\ b.page = p
                                           /\ b.byte = o * Block[c]
                                           /\ ~ Large(b.layout)
                                           /\ ClassOf(b.layout) = c
    /\ \A b \in live : Large(b.layout) \/ b.page \in Chained(ClassOf(b.layout))

(* Every block handed out is large enough for its layout, aligned for it   *)
(* and inside pages that PAGE_ALLOCATOR has not got back, also after a     *)
(* call has panicked.                                                      *)
LiveServed ==
  \A b \in live :
     /\ b.byte % b.layout.align = 0
     /\ IF Large(b.layout)
        THEN [at |-> b.page, n |-> NumPages(b.layout)] \in pages
        ELSE /\ b.layout.size <= Block[ClassOf(b.layout)]
             /\ b.byte + Block[ClassOf(b.layout)] <= PageBytes
             /\ OnePage(b.page) \in pages

(* Every bucket behind the head has blocks in use.                         *)
BucketsInUse ==
  \A c \in Class : \A k \in DOMAIN chain[c] : k > 1 => used[chain[c][k]] # {}

(* Every page taken from PAGE_ALLOCATOR is the page of one bucket, the Box *)
(* of one bucket behind a head, or a large allocation; nothing else is     *)
(* held, so dropping a bucket returned both of its pages, and free_block   *)
(* has dropped every bucket behind a head that became empty.               *)
PagesAccounted ==
  phase = "running" =>
    /\ BucketsInUse
    /\ pages = {OnePage(p) : p \in UNION {Chained(c) : c \in Class}}
                 \cup {OnePage(box[p]) : p \in {q \in Page : box[q] # NoPage}}
                 \cup {[at |-> b.page, n |-> NumPages(b.layout)] : b \in LargeLive}
=============================================================================
