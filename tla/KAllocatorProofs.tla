-------------------------- MODULE KAllocatorProofs --------------------------
(***************************************************************************)
(* The kernel heap (module KAllocator) for every set of size classes,      *)
(* layouts and pages: its invariant, the properties that follow from it,   *)
(* and that it implements Heap.                                            *)
(*                                                                         *)
(* The argument: PAGE_ALLOCATOR never gives a page out twice, so a page    *)
(* has one use for ever: one bucket, one Box or one large allocation       *)
(* (PagesApart); inside a bucket the bits that are set are the blocks that *)
(* were handed out, one to one (BlocksExact).  This is the invariant of a  *)
(* heap that runs; of one that panicked half way through a call only       *)
(* LiveServed is left.                                                     *)
(***************************************************************************)
EXTENDS KAllocator, WellFoundedInduction, TLAPS

(* A non-empty set of naturals has a least element.                        *)
LEMMA LeastNat ==
  ASSUME NEW S \in SUBSET Nat, S # {}
  PROVE  \E n \in S : \A m \in S : n <= m
<1> DEFINE less == OpToRel(<, Nat)
<1>1. \E x \in S : \A y \in S : ~ (<<y, x>> \in less)
  BY NatLessThanWellFounded, WFMin
<1>2. \A x, y \in Nat : x < y => <<x, y>> \in less
  BY DEF OpToRel
<1>3. \E x \in S : \A y \in S : ~ (y < x)
  BY <1>1, <1>2, Zenon
<1> QED
  BY <1>3

Injective(s) == \A j, k \in DOMAIN s : s[j] = s[k] => j = k

PagesIn(s) == {s[k] : k \in DOMAIN s}

ChainOK ==
  /\ chain \in [Class -> Seq(Page)]
  /\ \A c \in Class : Injective(chain[c])

StateOK ==
  /\ used \in [Page -> SUBSET Nat]
  /\ box \in [Page -> Page \cup {NoPage}]
  /\ issued \subseteq Page
  /\ \A b \in live : b.page \in Page /\ b.byte \in Nat /\ b.layout \in Layout

LargePages(b) == b.page .. (b.page + NumPages(b.layout) - 1)

Boxed == {q \in Page : box[q] # NoPage}

(* A page has one use.                                                     *)
PagesApart ==
  /\ \A c \in Class : Chained(c) \subseteq issued
  /\ \A q \in Boxed : q \in issued /\ box[q] \in issued
  /\ \A b \in LargeLive : LargePages(b) \subseteq issued
  /\ \A c, d \in Class : c # d => Chained(c) \cap Chained(d) = {}
  /\ \A c \in Class : \A q \in Boxed : box[q] \notin Chained(c)
  /\ \A q, r \in Boxed : box[q] = box[r] => q = r
  /\ \A b \in LargeLive : \A c \in Class : LargePages(b) \cap Chained(c) = {}
  /\ \A b \in LargeLive : \A q \in Boxed : box[q] \notin LargePages(b)
  /\ \A b, e \in LargeLive : b # e => LargePages(b) \cap LargePages(e) = {}

(* Offsets of the blocks of a page of class c that the bitmap has bits for.*)
Offsets(c) == {o \in 0..(BitmapBits[c] - 1) : o < PageBytes \div Block[c]}

SmallLive == {b \in live : ~ Large(b.layout)}

IsBlock(b, c, p, o) ==
  ClassOf(b.layout) = c /\ b.page = p /\ b.byte = o * Block[c]

(* Bits and blocks correspond one to one.                                  *)
BlocksExact ==
  /\ \A c \in Class : \A p \in Chained(c) : used[p] \subseteq Offsets(c)
  /\ \A b \in SmallLive :
        /\ b.page \in Chained(ClassOf(b.layout))
        /\ \E o \in used[b.page] : b.byte = o * Block[ClassOf(b.layout)]
  /\ \A c \in Class : \A p \in Chained(c) : \A o \in used[p] :
        \E b \in SmallLive : IsBlock(b, c, p, o)
  /\ \A b, e \in SmallLive : b.page = e.page /\ b.byte = e.byte => b = e
  /\ \A b \in LargeLive : b.byte = 0

BucketsHeld == {p \in Page : \E c \in Class : p \in Chained(c)}

AccountedPages ==
  {OnePage(p) : p \in BucketsHeld}
    \cup {OnePage(box[p]) : p \in Boxed}
    \cup {[at |-> b.page, n |-> NumPages(b.layout)] : b \in LargeLive}

PagesHeld == pages = AccountedPages

(* A step that hands out one allocation more.                              *)
Adds == \E b : b \notin live /\ live' = live \cup {b}

HeapInv ==
  ChainOK /\ StateOK /\ PagesApart /\ BlocksExact /\ PagesHeld /\ BucketsInUse

-----------------------------------------------------------------------------
(* Arithmetic.                                                             *)

(* Blocks of one size do not overlap, and those with an offset below       *)
(* PageBytes / Block lie in the page.                                      *)
LEMMA BlockArithmetic ==
  ASSUME NEW B \in Nat, B > 0, NEW P \in Nat, NEW o \in Nat
  PROVE  /\ o * B \in Nat /\ (o * B) \div B = o
         /\ o < P \div B => o * B + B <= P
         /\ \A x \in Nat : o < x => o * B + B <= x * B
         /\ \A x \in Nat : o * B = x * B => o = x
<1>1. o * B \in Nat /\ (o * B) \div B = o
  OBVIOUS
<1>2. \A x \in Nat : o < x => o * B + B <= x * B
  <2>1. ASSUME NEW x \in Nat, o < x PROVE o * B + B <= x * B
    <3>1. (o + 1) * B <= x * B
      BY <2>1
    <3>. QED  BY <3>1
  <2>. QED  BY <2>1
<1>3. \A x \in Nat : o * B = x * B => o = x
  BY <1>2
<1>4. ASSUME o < P \div B PROVE o * B + B <= P
  <2> DEFINE q == P \div B
  <2>1. q \in Nat /\ q * B <= P
    OBVIOUS
  <2>2. o < q
    BY <1>4
  <2> HIDE DEF q
  <2>3. o * B + B <= q * B
    BY <1>2, <2>1, <2>2
  <2>. QED  BY <2>1, <2>3
<1>. QED  BY <1>1, <1>2, <1>3, <1>4

(* A block at a multiple of its size is aligned to what divides the size.  *)
LEMMA AlignedMultiple ==
  ASSUME NEW a \in Nat, a > 0, NEW B \in Nat, B % a = 0, NEW o \in Nat
  PROVE  (o * B) % a = 0
<1> DEFINE q == B \div a
<1>1. q \in Nat /\ B = a * q
  OBVIOUS
<1> HIDE DEF q
<1>2. o * B = (o * q) * a /\ o * q \in Nat
  BY <1>1
<1>3. \A m \in Nat : (m * a) % a = 0
  OBVIOUS
<1>4. ((o * q) * a) % a = 0
  BY <1>2, <1>3, Zenon
<1>. QED  BY <1>2, <1>4, Zenon

(* What the assumption says of the pages.                                  *)
LEMMA PageFacts ==
  Page \subseteq Nat /\ NoPage \notin Page /\ PageBytes \in Nat /\ PageBytes > 0
BY KAllocatorAssumption

(* A large request takes at least one page.                                *)
LEMMA SomePages ==
  ASSUME NEW l \in Layout
  PROVE  NumPages(l) \in Nat /\ NumPages(l) >= 1
         /\ l.size \in Nat \ {0} /\ l.align \in Nat \ {0}
<1>1. l.size \in Nat /\ l.size > 0 /\ PageBytes \in Nat /\ PageBytes > 0
  BY KAllocatorAssumption
<1>2. (l.size + PageBytes - 1) \div PageBytes \in Nat
      /\ (l.size + PageBytes - 1) \div PageBytes >= 1
  BY <1>1
<1>. QED  BY <1>1, <1>2, KAllocatorAssumption DEF NumPages

-----------------------------------------------------------------------------
(* What the searches find.                                                 *)

(* A layout that is not large has a class, whose blocks hold it.           *)
LEMMA ClassFits ==
  ASSUME NEW l \in Layout, ~ Large(l)
  PROVE  /\ ClassOf(l) \in Class
         /\ l.size <= Block[ClassOf(l)] /\ l.align <= Block[ClassOf(l)]
<1> DEFINE S == {Block[c] : c \in Fits(l)}
<1>1. Fits(l) \subseteq Class /\ Fits(l) # {}
  BY DEF Fits, Large
<1>2. S \in SUBSET Nat /\ S # {}
  BY <1>1, KAllocatorAssumption
<1>3. PICK n \in S : \A m \in S : n <= m
  BY <1>2, LeastNat, Zenon
<1>4. \E c \in Fits(l) : \A d \in Fits(l) : Block[c] <= Block[d]
  BY <1>3
<1>5. ClassOf(l) \in Fits(l)
  BY <1>4 DEF ClassOf
<1>. QED  BY <1>1, <1>5, SomePages, KAllocatorAssumption DEF Fits, MaxOf

(* The sizes of a class.                                                   *)
LEMMA ClassSizes ==
  ASSUME NEW c \in Class
  PROVE  /\ Block[c] \in Nat /\ Block[c] > 0 /\ Block[c] <= PageBytes
         /\ BitmapBits[c] \in Nat /\ BitmapBits[c] > 0
         /\ PageBytes \in Nat /\ PageBytes > 0
         /\ 0 \in Offsets(c)
<1>1. /\ Block[c] \in Nat /\ Block[c] > 0 /\ Block[c] <= PageBytes
      /\ BitmapBits[c] \in Nat /\ BitmapBits[c] > 0
      /\ PageBytes \in Nat /\ PageBytes > 0
  BY KAllocatorAssumption
<1>2. PageBytes \div Block[c] >= 1
  BY <1>1
<1>. QED  BY <1>1, <1>2 DEF Offsets

(* allocate_block takes a clear bit of a bucket of the chain.              *)
LEMMA SearchFinds ==
  ASSUME ChainOK, StateOK, NEW c \in Class, Room(c) # {}
  PROVE  LET p == chain[c][FirstRoom(c)]
             o == FirstOffset(c, p)
         IN  /\ p \in Chained(c) /\ p \in Page
             /\ o \in Offsets(c) /\ o \notin used[p]
<1> DEFINE p == chain[c][FirstRoom(c)]
           o == FirstOffset(c, p)
<1>1. chain[c] \in Seq(Page) /\ DOMAIN chain[c] \subseteq Nat
  BY DEF ChainOK
<1>2. Room(c) \in SUBSET Nat
  BY <1>1 DEF Room
<1>3. FirstRoom(c) \in Room(c)
  BY <1>2, LeastNat DEF FirstRoom
<1>4. p \in Chained(c) /\ p \in Page /\ FreeOffsets(c, p) # {}
  BY <1>1, <1>3 DEF Room, Chained
<1> HIDE DEF p
<1>5. FreeOffsets(c, p) \in SUBSET Nat
  BY DEF FreeOffsets
<1>6. o \in FreeOffsets(c, p)
  BY <1>4, <1>5, LeastNat DEF FirstOffset
<1>7. o \in Offsets(c) /\ o \notin used[p]
  BY <1>6 DEF FreeOffsets, Offsets
<1>. QED  BY <1>4, <1>7 DEF p

-----------------------------------------------------------------------------
(* Chains.                                                                 *)

(* A bucket at the end of a chain.                                         *)
LEMMA AppendBucket ==
  ASSUME NEW s \in Seq(Page), NEW p \in Page, Injective(s), p \notin PagesIn(s)
  PROVE  /\ Append(s, p) \in Seq(Page) /\ Injective(Append(s, p))
         /\ PagesIn(Append(s, p)) = PagesIn(s) \cup {p}
         /\ \A k \in DOMAIN Append(s, p) :
              (k \in DOMAIN s /\ Append(s, p)[k] = s[k]) \/ Append(s, p)[k] = p
<1> DEFINE t == Append(s, p)
<1>1. /\ t \in Seq(Page) /\ Len(t) = Len(s) + 1 /\ Len(s) \in Nat
      /\ DOMAIN t = 1..(Len(s) + 1) /\ DOMAIN s = 1..Len(s)
      /\ \A k \in 1..Len(s) : t[k] = s[k]
      /\ t[Len(s) + 1] = p
  OBVIOUS
<1> HIDE DEF t
<1>2. Injective(t)
  BY <1>1 DEF Injective, PagesIn
<1>3. PagesIn(t) = PagesIn(s) \cup {p}
  BY <1>1 DEF PagesIn
<1>4. \A k \in DOMAIN t : (k \in DOMAIN s /\ t[k] = s[k]) \/ t[k] = p
  BY <1>1
<1>. QED  BY <1>1, <1>2, <1>3, <1>4 DEF t

(* A chain without its k-th bucket.                                        *)
LEMMA UnlinkBucket ==
  ASSUME NEW s \in Seq(Page), NEW k \in DOMAIN s, Injective(s)
  PROVE  /\ Unlink(s, k) \in Seq(Page) /\ Injective(Unlink(s, k))
         /\ PagesIn(Unlink(s, k)) = PagesIn(s) \ {s[k]}
         /\ k # 1 => \A j \in DOMAIN Unlink(s, k) :
                       j > 1 => \E i \in DOMAIN s : i > 1 /\ Unlink(s, k)[j] = s[i]
<1> DEFINE t == Unlink(s, k)
           n == Len(s)
<1>1. n \in Nat /\ DOMAIN s = 1..n /\ k \in 1..n /\ n >= 1
  OBVIOUS
<1>2. /\ t = [j \in 1..(n - 1) |-> IF j < k THEN s[j] ELSE s[j + 1]]
      /\ DOMAIN t = 1..(n - 1)
  BY DEF Unlink
<1>3. /\ \A j \in 1..(n - 1) : j < k => t[j] = s[j]
      /\ \A j \in 1..(n - 1) : ~ (j < k) => t[j] = s[j + 1]
      /\ \A j \in 1..n : s[j] \in Page
  BY <1>1, <1>2
<1>4. t \in Seq(Page)
  <2>1. n - 1 \in Nat /\ t \in [1..(n - 1) -> Page]
    BY <1>1, <1>2, <1>3
  <2>. QED  BY <2>1
<1> HIDE DEF t, n
<1>5. Injective(t)
  <2>1. ASSUME NEW i \in DOMAIN t, NEW j \in DOMAIN t, t[i] = t[j] PROVE i = j
    <3>1. /\ i \in 1..(n - 1) /\ j \in 1..(n - 1)
          /\ i \in 1..n /\ j \in 1..n /\ i + 1 \in 1..n /\ j + 1 \in 1..n
      BY <1>1, <1>2
    <3>2. \A x, y \in 1..n : s[x] = s[y] => x = y
      BY <1>1 DEF Injective
    <3>3. CASE i < k /\ j < k
      BY <1>3, <2>1, <3>1, <3>2, <3>3
    <3>4. CASE i < k /\ ~ (j < k)
      <4>1. i = j + 1
        BY <1>3, <2>1, <3>1, <3>2, <3>4
      <4>. QED  BY <1>1, <3>1, <3>4, <4>1
    <3>5. CASE ~ (i < k) /\ j < k
      <4>1. i + 1 = j
        BY <1>3, <2>1, <3>1, <3>2, <3>5
      <4>. QED  BY <1>1, <3>1, <3>5, <4>1
    <3>6. CASE ~ (i < k) /\ ~ (j < k)
      <4>1. i + 1 = j + 1
        BY <1>3, <2>1, <3>1, <3>2, <3>6
      <4>. QED  BY <3>1, <4>1
    <3>. QED  BY <3>3, <3>4, <3>5, <3>6
  <2>. QED  BY <2>1 DEF Injective
<1>6. PagesIn(t) = PagesIn(s) \ {s[k]}
  <2>1. ASSUME NEW j \in DOMAIN t PROVE t[j] \in PagesIn(s) \ {s[k]}
    BY <1>1, <1>2, <1>3, <2>1 DEF Injective, PagesIn
  <2>2. ASSUME NEW j \in DOMAIN s, j # k PROVE \E i \in DOMAIN t : t[i] = s[j]
    <3>1. CASE j < k
      BY <1>1, <1>2, <1>3, <3>1
    <3>2. CASE j > k
      <4>1. j - 1 \in 1..(n - 1) /\ ~ (j - 1 < k) /\ (j - 1) + 1 = j
        BY <1>1, <3>2
      <4>. QED  BY <1>2, <1>3, <4>1
    <3>. QED  BY <1>1, <2>2, <3>1, <3>2
  <2>. QED  BY <2>1, <2>2 DEF PagesIn
<1>7. ASSUME k # 1, NEW j \in DOMAIN t, j > 1
      PROVE  \E i \in DOMAIN s : i > 1 /\ t[j] = s[i]
  <2>1. CASE j < k
    BY <1>1, <1>2, <1>3, <1>7, <2>1
  <2>2. CASE ~ (j < k)
    <3>1. j + 1 \in 1..n /\ j + 1 > 1 /\ t[j] = s[j + 1]
      BY <1>1, <1>2, <1>3, <1>7, <2>2
    <3>. QED  BY <1>1, <3>1
  <2>. QED  BY <2>1, <2>2
<1>. QED  BY <1>4, <1>5, <1>6, <1>7 DEF t

(* A step that replaces the chain of one class.                            *)
LEMMA ChainChanges ==
  ASSUME ChainOK, NEW c \in Class, NEW t \in Seq(Page), Injective(t),
         chain' = [chain EXCEPT ![c] = t]
  PROVE  /\ ChainOK'
         /\ \A d \in Class : Chained(d)' = IF d = c THEN PagesIn(t) ELSE Chained(d)
BY DEF ChainOK, Chained, PagesIn, Injective

-----------------------------------------------------------------------------
(* Steps.                                                                  *)

(* A request that gets nothing: at most PAGE_ALLOCATOR has fewer pages     *)
(* left.                                                                   *)
LEMMA OnlyPagesIssued ==
  ASSUME HeapInv, UNCHANGED <<chain, used, box, pages, live>>,
         issued \subseteq issued', issued' \subseteq Page
  PROVE  HeapInv'
<1>0. ChainOK /\ StateOK /\ PagesApart /\ BlocksExact /\ PagesHeld /\ BucketsInUse
  BY DEF HeapInv
<1>1. /\ \A c : Chained(c)' = Chained(c)
      /\ Boxed' = Boxed /\ LargeLive' = LargeLive /\ SmallLive' = SmallLive
      /\ AccountedPages' = AccountedPages
  BY DEF Chained, Boxed, LargeLive, SmallLive, AccountedPages, BucketsHeld
<1>2. ChainOK' /\ StateOK' /\ BucketsInUse'
  BY <1>0 DEF ChainOK, StateOK, BucketsInUse
<1>3. PagesApart'
  BY <1>0, <1>1, Zenon DEF PagesApart
<1>4. BlocksExact'
  BY <1>0, <1>1 DEF BlocksExact, IsBlock
<1>5. PagesHeld'
  BY <1>0, <1>1 DEF PagesHeld
<1>. QED  BY <1>2, <1>3, <1>4, <1>5 DEF HeapInv

(* Bytes tell the blocks of a page apart.                                  *)
LEMMA BytesTellOffsets ==
  ASSUME NEW c \in Class, NEW o \in Offsets(c), NEW x \in Offsets(c),
         o * Block[c] = x * Block[c]
  PROVE  o = x
<1>1. Block[c] \in Nat /\ Block[c] > 0 /\ o \in Nat /\ x \in Nat
  BY ClassSizes DEF Offsets
<1>. QED  BY <1>1, BlockArithmetic

(* allocate_block in a bucket with room.                                   *)
LEMMA AllocateBlockStep ==
  ASSUME HeapInv, NEW l \in Layout, allocate_block(l)
  PROVE  HeapInv' /\ Adds
<1> DEFINE c == ClassOf(l)
           p == chain[c][FirstRoom(c)]
           o == FirstOffset(c, p)
           nb == [page |-> p, byte |-> o * Block[c], layout |-> l,
                  owner |-> NewOwner(p, o * Block[c])]
<1>0. ChainOK /\ StateOK /\ PagesApart /\ BlocksExact /\ PagesHeld /\ BucketsInUse
  BY DEF HeapInv
<1>1. /\ ~ Large(l) /\ c \in Class /\ Room(c) # {}
  BY ClassFits DEF allocate_block
<1>2. /\ used' = [used EXCEPT ![p] = @ \cup {o}] /\ live' = live \cup {nb}
      /\ UNCHANGED <<chain, box, issued, pages, phase>>
  BY DEF allocate_block, Hand
<1>3. p \in Chained(c) /\ p \in Page /\ o \in Offsets(c) /\ o \notin used[p]
  BY <1>0, <1>1, SearchFinds, Zenon
<1>4. o \in Nat /\ o * Block[c] \in Nat
  BY <1>1, <1>3, ClassSizes DEF Offsets
<1>5. nb.page \in Page /\ nb.byte \in Nat /\ nb.layout \in Layout
  BY <1>3, <1>4
<1>6. nb.page = p /\ nb.byte = o * Block[c] /\ nb.layout = l
  OBVIOUS
<1> HIDE DEF c, p, o, nb
<1>7. /\ \A d : Chained(d)' = Chained(d)
      /\ Boxed' = Boxed
  BY <1>2 DEF Chained, Boxed
<1>8. LargeLive' = LargeLive /\ SmallLive' = SmallLive \cup {nb}
  BY <1>1, <1>2, <1>6 DEF LargeLive, SmallLive
<1>9. /\ used'[p] = used[p] \cup {o}
      /\ \A q \in Page : q # p => used'[q] = used[q]
      /\ \A q \in Page : used[q] \subseteq used'[q]
  BY <1>0, <1>2, <1>3 DEF StateOK
<1>10. ChainOK' /\ StateOK'
  BY <1>0, <1>2, <1>3, <1>4, <1>5 DEF ChainOK, StateOK
<1>11. PagesApart'
  BY <1>0, <1>2, <1>7, <1>8 DEF PagesApart
<1>12. PagesHeld'
  BY <1>0, <1>2, <1>7, <1>8 DEF PagesHeld, AccountedPages, BucketsHeld
<1>13. \A d \in Class : Chained(d) \subseteq Page /\ (p \in Chained(d) => d = c)
  BY <1>0, <1>1, <1>3 DEF PagesApart, StateOK
<1>14. BlocksExact' /\ nb \notin SmallLive
  <2>1. \A d \in Class : \A q \in Chained(d) : used'[q] \subseteq Offsets(d)
    BY <1>0, <1>3, <1>9, <1>13 DEF BlocksExact
  <2>2. \A b \in SmallLive \cup {nb} :
          /\ b.page \in Chained(ClassOf(b.layout))
          /\ \E x \in used'[b.page] : b.byte = x * Block[ClassOf(b.layout)]
    <3>1. ASSUME NEW b \in SmallLive
          PROVE  /\ b.page \in Chained(ClassOf(b.layout)) /\ b.page \in Page
                 /\ \E x \in used'[b.page] : b.byte = x * Block[ClassOf(b.layout)]
      BY <1>0, <1>9 DEF BlocksExact, SmallLive, StateOK
    <3>2. /\ nb.page \in Chained(ClassOf(nb.layout))
          /\ \E x \in used'[nb.page] : nb.byte = x * Block[ClassOf(nb.layout)]
      BY <1>3, <1>6, <1>9 DEF c
    <3>. QED  BY <3>1, <3>2
  <2>3. \A d \in Class : \A q \in Chained(d) : \A x \in used'[q] :
          \E b \in SmallLive \cup {nb} : IsBlock(b, d, q, x)
    <3>1. ASSUME NEW d \in Class, NEW q \in Chained(d), NEW x \in used'[q]
          PROVE  \E b \in SmallLive \cup {nb} : IsBlock(b, d, q, x)
      <4>1. CASE x \in used[q]
        BY <1>0, <4>1 DEF BlocksExact
      <4>2. CASE x \notin used[q]
        <5>1. q = p /\ x = o /\ d = c
          BY <1>9, <1>13, <4>2
        <5>2. IsBlock(nb, d, q, x)
          BY <1>6, <5>1 DEF IsBlock, c
        <5>. QED  BY <5>2
      <4>. QED  BY <4>1, <4>2
    <3>. QED  BY <3>1
  <2>4. \A b \in SmallLive : ~ (b.page = nb.page /\ b.byte = nb.byte)
    <3>1. SUFFICES ASSUME NEW b \in SmallLive, b.page = p, b.byte = o * Block[c]
                   PROVE  FALSE
      BY <1>6
    <3>2. b.layout \in Layout /\ ~ Large(b.layout)
      BY <1>0 DEF SmallLive, StateOK
    <3>3. ClassOf(b.layout) = c
      BY <1>0, <1>13, <3>1, <3>2, ClassFits DEF BlocksExact
    <3>4. PICK x \in used[p] : b.byte = x * Block[c]
      BY <1>0, <3>1, <3>3 DEF BlocksExact
    <3>5. x \in Offsets(c)
      BY <1>0, <1>1, <1>3 DEF BlocksExact
    <3>6. x = o
      BY <1>1, <1>3, <3>1, <3>4, <3>5, BytesTellOffsets, SMTT(30)
    <3>. QED  BY <1>3, <3>4, <3>6
  <2>5. \A b, e \in SmallLive \cup {nb} :
          b.page = e.page /\ b.byte = e.byte => b = e
    BY <1>0, <2>4 DEF BlocksExact
  <2>6. \A b \in LargeLive : b.byte = 0
    BY <1>0 DEF BlocksExact
  <2>7. BlocksExact'
    BY <1>7, <1>8, <2>1, <2>2, <2>3, <2>5, <2>6, SMTT(30) DEF BlocksExact, IsBlock
  <2>. QED  BY <2>4, <2>7, Zenon
<1>15. BucketsInUse'
  BY <1>0, <1>2, <1>9 DEF BucketsInUse, ChainOK
<1>16. Adds
  BY <1>1, <1>2, <1>6, <1>14, Zenon DEF Adds, SmallLive
<1>. QED  BY <1>10, <1>11, <1>12, <1>14, <1>15, <1>16 DEF HeapInv

(* A new bucket at the end of a chain, with or without a Box.              *)
LEMMA NewBucketStep ==
  ASSUME HeapInv, NEW l \in Layout, ~ Large(l), NEW p \in Fresh,
         chain' = [chain EXCEPT ![ClassOf(l)] = Append(@, p)],
         used' = [used EXCEPT ![p] = {0}],
         box' \in [Page -> Page \cup {NoPage}],
         \A q \in Page \ {p} : box'[q] = box[q],
         box'[p] \in (Fresh \ {p}) \cup {NoPage},
         issued' = issued \cup {p} \cup ({box'[p]} \cap Page),
         pages' = pages \cup {OnePage(p)} \cup {OnePage(x) : x \in {box'[p]} \cap Page},
         Hand(l, p, 0)
  PROVE  HeapInv' /\ Adds
<1> DEFINE c == ClassOf(l)
           t == Append(chain[c], p)
<1>0. ChainOK /\ StateOK /\ PagesApart /\ BlocksExact /\ PagesHeld /\ BucketsInUse
  BY DEF HeapInv
<1>1. c \in Class /\ p \in Page /\ p \notin issued /\ NoPage \notin Page
  BY ClassFits, PageFacts DEF Fresh
<1>2. /\ \A d \in Class : Chained(d) \subseteq Page /\ p \notin Chained(d)
      /\ p \notin Boxed
      /\ \A q \in Boxed : box[q] # p /\ box[q] \in issued
  BY <1>0, <1>1 DEF PagesApart, StateOK
<1>3. chain[c] \in Seq(Page) /\ Injective(chain[c]) /\ p \notin PagesIn(chain[c])
  BY <1>0, <1>1, <1>2 DEF ChainOK, Chained, PagesIn
<1>4. /\ t \in Seq(Page) /\ Injective(t) /\ PagesIn(t) = PagesIn(chain[c]) \cup {p}
      /\ \A k \in DOMAIN t : (k \in DOMAIN chain[c] /\ t[k] = chain[c][k]) \/ t[k] = p
  BY <1>1, <1>3, AppendBucket
<1>5. chain' = [chain EXCEPT ![c] = t]
  BY <1>0, <1>1 DEF ChainOK
<1>6. PICK nb : /\ nb.page = p /\ nb.byte = 0 /\ nb.layout = l
                /\ live' = live \cup {nb}
  BY Zenon DEF Hand
<1>7. nb.page \in Page /\ nb.byte \in Nat /\ nb.layout \in Layout
  BY <1>1, <1>6
<1> HIDE DEF c, t
<1>8. /\ ChainOK'
      /\ \A d \in Class : Chained(d)' = IF d = c THEN PagesIn(t) ELSE Chained(d)
  BY <1>0, <1>1, <1>4, <1>5, ChainChanges, Zenon
<1>9. /\ Chained(c)' = Chained(c) \cup {p}
      /\ \A d \in Class : d # c => Chained(d)' = Chained(d)
  BY <1>1, <1>4, <1>8, Zenon DEF Chained, PagesIn
<1>10. LargeLive' = LargeLive /\ SmallLive' = SmallLive \cup {nb}
  BY <1>6 DEF LargeLive, SmallLive
<1>11. /\ used'[p] = {0} /\ used' \in [Page -> SUBSET Nat]
       /\ \A q \in Page : q # p => used'[q] = used[q]
  BY <1>0, <1>1 DEF StateOK
<1>12. /\ \A q \in Boxed' : q # p => q \in Boxed /\ box'[q] = box[q]
       /\ \A q \in Boxed : q \in Boxed' /\ box'[q] = box[q]
       /\ p \in Boxed' => /\ box'[p] \in Page /\ box'[p] \notin issued /\ box'[p] # p
                          /\ box'[p] \in issued'
       /\ p \notin Boxed' => box'[p] = NoPage
  BY <1>1, <1>2 DEF Boxed, Fresh
<1>13. StateOK'
  BY <1>0, <1>1, <1>6, <1>7, <1>11 DEF StateOK
<1>14. issued \subseteq issued' /\ p \in issued'
  OBVIOUS
<1>15. PagesApart'
  <2>1. \A d \in Class : Chained(d)' \subseteq issued'
    BY <1>0, <1>9, <1>14, SMTT(30) DEF PagesApart
  <2>2. \A q \in Boxed' : q \in issued' /\ box'[q] \in issued'
    BY <1>0, <1>12, <1>14 DEF PagesApart
  <2>3. \A b \in LargeLive : LargePages(b) \subseteq issued'
    BY <1>0, <1>14 DEF PagesApart
  <2>4. \A d, e \in Class : d # e => Chained(d)' \cap Chained(e)' = {}
    BY <1>0, <1>2, <1>9, SMTT(30) DEF PagesApart
  <2>5. \A d \in Class : \A q \in Boxed' : box'[q] \notin Chained(d)'
    BY <1>0, <1>2, <1>9, <1>12, SMTT(30) DEF PagesApart
  <2>6. \A q, r \in Boxed' : box'[q] = box'[r] => q = r
    BY <1>0, <1>2, <1>12, SMTT(30) DEF PagesApart
  <2>7. \A b \in LargeLive : \A d \in Class : LargePages(b) \cap Chained(d)' = {}
    BY <1>0, <1>1, <1>9, SMTT(30) DEF PagesApart
  <2>8. \A b \in LargeLive : \A q \in Boxed' : box'[q] \notin LargePages(b)
    BY <1>0, <1>12 DEF PagesApart
  <2>9. \A b, e \in LargeLive : b # e => LargePages(b) \cap LargePages(e) = {}
    BY <1>0 DEF PagesApart
  <2>. QED  BY <1>10, <2>1, <2>2, <2>3, <2>4, <2>5, <2>6, <2>7, <2>8, <2>9, Zenon
            DEF PagesApart, LargePages
<1>16. PagesHeld'
  <2>1. BucketsHeld' = BucketsHeld \cup {p}
    BY <1>1, <1>9 DEF BucketsHeld
  <2>2. {OnePage(box'[q]) : q \in Boxed'}
          = {OnePage(box[q]) : q \in Boxed} \cup {OnePage(x) : x \in {box'[p]} \cap Page}
    BY <1>1, <1>12 DEF Boxed
  <2>3. {OnePage(q) : q \in BucketsHeld'} = {OnePage(q) : q \in BucketsHeld} \cup {OnePage(p)}
    BY <2>1, Zenon
  <2>4. AccountedPages' = AccountedPages \cup {OnePage(p)}
                            \cup {OnePage(x) : x \in {box'[p]} \cap Page}
    BY <1>10, <2>2, <2>3 DEF AccountedPages, OnePage, NumPages
  <2>. QED  BY <1>0, <2>4 DEF PagesHeld
<1>17. BlocksExact' /\ nb \notin SmallLive
  <2>1. \A d \in Class : \A q \in Chained(d)' : used'[q] \subseteq Offsets(d)
    BY <1>0, <1>1, <1>2, <1>9, <1>11, ClassSizes DEF BlocksExact
  <2>2. \A b \in SmallLive \cup {nb} :
          /\ b.page \in Chained(ClassOf(b.layout))'
          /\ \E x \in used'[b.page] : b.byte = x * Block[ClassOf(b.layout)]
    <3>1. ASSUME NEW b \in SmallLive
          PROVE  /\ b.page \in Chained(ClassOf(b.layout))'
                 /\ \E x \in used'[b.page] : b.byte = x * Block[ClassOf(b.layout)]
      <4>1. ClassOf(b.layout) \in Class /\ b.page \in Page
        BY <1>0, ClassFits DEF SmallLive, StateOK
      <4>2. /\ b.page \in Chained(ClassOf(b.layout))
            /\ \E x \in used[b.page] : b.byte = x * Block[ClassOf(b.layout)]
        BY <1>0 DEF BlocksExact
      <4>3. b.page # p
        BY <1>2, <4>1, <4>2
      <4>. QED  BY <1>9, <1>11, <4>1, <4>2, <4>3
    <3>2. nb.page \in Chained(ClassOf(nb.layout))'
      BY <1>6, <1>9 DEF c
    <3>3. Block[c] \in Nat
      BY <1>1, ClassSizes
    <3>4. \E x \in used'[nb.page] : nb.byte = x * Block[ClassOf(nb.layout)]
      BY <1>6, <1>11, <3>3 DEF c
    <3>. QED  BY <3>1, <3>2, <3>4
  <2>3. \A d \in Class : \A q \in Chained(d)' : \A x \in used'[q] :
          \E b \in SmallLive \cup {nb} : IsBlock(b, d, q, x)
    <3>1. ASSUME NEW d \in Class, NEW q \in Chained(d)', NEW x \in used'[q]
          PROVE  \E b \in SmallLive \cup {nb} : IsBlock(b, d, q, x)
      <4>1. CASE q # p
        <5>1. q \in Chained(d) /\ q \in Page /\ x \in used[q]
          BY <1>2, <1>9, <1>11, <4>1
        <5>. QED  BY <1>0, <5>1 DEF BlocksExact
      <4>2. CASE q = p
        <5>1. d = c /\ x = 0
          BY <1>2, <1>9, <1>11, <4>2
        <5>2. Block[c] \in Nat
          BY <1>1, ClassSizes
        <5>3. IsBlock(nb, d, q, x)
          BY <1>6, <4>2, <5>1, <5>2, SMTT(30) DEF IsBlock, c
        <5>. QED  BY <5>3
      <4>. QED  BY <4>1, <4>2
    <3>. QED  BY <3>1
  <2>4. \A b \in SmallLive : b.page # p
    BY <1>0, <1>2, ClassFits DEF SmallLive, StateOK, BlocksExact
  <2>5. \A b, e \in SmallLive \cup {nb} :
          b.page = e.page /\ b.byte = e.byte => b = e
    BY <1>0, <1>6, <2>4 DEF BlocksExact
  <2>6. \A b \in LargeLive : b.byte = 0
    BY <1>0, Zenon DEF BlocksExact
  <2>7. BlocksExact'
    BY <1>10, <2>1, <2>2, <2>3, <2>5, <2>6, SMTT(30) DEF BlocksExact, IsBlock
  <2>. QED  BY <1>6, <2>4, <2>7, Zenon
<1>18. BucketsInUse'
  <2>1. ASSUME NEW d \in Class, NEW k \in DOMAIN chain'[d], k > 1
        PROVE  used'[chain'[d][k]] # {}
    <3>1. CASE d # c
      <4>1. chain'[d] = chain[d]
        BY <1>0, <1>5, <3>1 DEF ChainOK
      <4>2. chain[d][k] \in Chained(d) /\ chain[d][k] # p /\ chain[d][k] \in Page
        BY <1>2, <2>1, <4>1, Zenon DEF Chained
      <4>3. used'[chain[d][k]] = used[chain[d][k]]
        BY <1>11, <4>2
      <4>4. k \in DOMAIN chain[d] /\ used[chain[d][k]] # {}
        BY <1>0, <2>1, <4>1, Zenon DEF BucketsInUse
      <4>. QED  BY <4>1, <4>3, <4>4
    <3>2. CASE d = c
      <4>1. chain'[d] = t
        BY <1>0, <1>1, <1>5, <3>2 DEF ChainOK
      <4>2. CASE t[k] = p
        BY <1>11, <4>1, <4>2, Zenon
      <4>3. CASE k \in DOMAIN chain[c] /\ t[k] = chain[c][k]
        <5>1. chain[c][k] \in Chained(c) /\ chain[c][k] # p /\ chain[c][k] \in Page
          BY <1>1, <1>2, <4>3 DEF Chained
        <5>. QED  BY <1>0, <1>1, <1>11, <2>1, <4>1, <4>3, <5>1 DEF BucketsInUse
      <4>. QED  BY <1>4, <2>1, <4>1, <4>2, <4>3, Zenon
    <3>. QED  BY <3>1, <3>2, SMTT(30)
  <2>. QED  BY <2>1, Zenon DEF BucketsInUse
<1>19. Adds
  BY <1>6, <1>17, Zenon DEF Adds, SmallLive
<1>. QED  BY <1>8, <1>13, <1>15, <1>16, <1>17, <1>18, <1>19 DEF HeapInv

(* allocate makes the first bucket of a class.                             *)
LEMMA FirstBucketStep ==
  ASSUME HeapInv, NEW l \in Layout, ~ Large(l), NEW p \in Fresh,
         chain[ClassOf(l)] = <<>>,
         chain' = [chain EXCEPT ![ClassOf(l)] = <<p>>],
         used' = [used EXCEPT ![p] = {0}],
         issued' = issued \cup {p}, pages' = pages \cup {OnePage(p)},
         Hand(l, p, 0), UNCHANGED box
  PROVE  HeapInv' /\ Adds
<1>1. ClassOf(l) \in Class /\ p \in Page /\ NoPage \notin Page
  BY ClassFits, PageFacts DEF Fresh
<1>2. chain' = [chain EXCEPT ![ClassOf(l)] = Append(@, p)]
  <2>1. Append(chain[ClassOf(l)], p) = <<p>>
    OBVIOUS
  <2>. QED  BY <2>1
<1>3. box[p] = NoPage
  BY <1>1 DEF HeapInv, PagesApart, Boxed, Fresh
<1>4. box' \in [Page -> Page \cup {NoPage}]
  BY DEF HeapInv, StateOK
<1>5. /\ \A q \in Page \ {p} : box'[q] = box[q]
      /\ box'[p] \in (Fresh \ {p}) \cup {NoPage}
      /\ {box'[p]} \cap Page = {}
  BY <1>1, <1>3
<1>6. issued' = issued \cup {p} \cup ({box'[p]} \cap Page)
  BY <1>5
<1>7. pages' = pages \cup {OnePage(p)} \cup {OnePage(x) : x \in {box'[p]} \cap Page}
  BY <1>5
<1>. QED  BY <1>2, <1>4, <1>5, <1>6, <1>7, NewBucketStep, Zenon

(* allocate appends a bucket, in a Box, to a chain of full ones.           *)
LEMMA NextBucketStep ==
  ASSUME HeapInv, NEW l \in Layout, ~ Large(l), NEW p \in Fresh, NEW b \in Fresh \ {p},
         chain' = [chain EXCEPT ![ClassOf(l)] = Append(@, p)],
         used' = [used EXCEPT ![p] = {0}],
         box' = [box EXCEPT ![p] = b],
         issued' = issued \cup {p, b},
         pages' = pages \cup {OnePage(p), OnePage(b)},
         Hand(l, p, 0)
  PROVE  HeapInv' /\ Adds
<1>1. p \in Page /\ b \in Page
  BY DEF Fresh
<1>2. box \in [Page -> Page \cup {NoPage}]
  BY DEF HeapInv, StateOK
<1>3. /\ box' \in [Page -> Page \cup {NoPage}] /\ box'[p] = b
      /\ \A q \in Page \ {p} : box'[q] = box[q]
  BY <1>1, <1>2
<1>4. {box'[p]} \cap Page = {b} /\ box'[p] \in (Fresh \ {p}) \cup {NoPage}
  BY <1>1, <1>3
<1>5. issued' = issued \cup {p} \cup ({box'[p]} \cap Page)
  BY <1>4
<1>6. pages' = pages \cup {OnePage(p)} \cup {OnePage(x) : x \in {box'[p]} \cap Page}
  BY <1>4
<1>. QED  BY <1>3, <1>4, <1>5, <1>6, NewBucketStep, Zenon

(* A large allocation begins in its own pages.                             *)
LEMMA OwnPage ==
  ASSUME StateOK, NEW b \in LargeLive
  PROVE  b.page \in LargePages(b) /\ b.page \in Page /\ b.layout \in Layout
<1>1. b.page \in Page /\ b.layout \in Layout /\ b.page \in Nat
  BY PageFacts, ZenonT(30) DEF StateOK, LargeLive
<1>2. NumPages(b.layout) \in Nat /\ NumPages(b.layout) >= 1
  BY <1>1, SomePages
<1>. QED  BY <1>1, <1>2 DEF LargePages

(* allocate falls back to PAGE_ALLOCATOR.                                  *)
LEMMA PagesStep ==
  ASSUME HeapInv, NEW l \in Layout, Large(l), NEW at \in Page,
         at .. (at + NumPages(l) - 1) \subseteq Fresh,
         issued' = issued \cup (at .. (at + NumPages(l) - 1)),
         pages' = pages \cup {[at |-> at, n |-> NumPages(l)]},
         Hand(l, at, 0), UNCHANGED <<chain, used, box>>
  PROVE  HeapInv' /\ Adds
<1> DEFINE nb == [page |-> at, byte |-> 0, layout |-> l, owner |-> NewOwner(at, 0)]
           R == at .. (at + NumPages(l) - 1)
<1>0. ChainOK /\ StateOK /\ PagesApart /\ BlocksExact /\ PagesHeld /\ BucketsInUse
  BY DEF HeapInv
<1>1. nb.page = at /\ nb.byte = 0 /\ nb.layout = l /\ live' = live \cup {nb}
      /\ nb.page \in Page /\ nb.byte \in Nat /\ nb.layout \in Layout
  BY DEF Hand
<1>2. LargePages(nb) = R /\ R \cap issued = {} /\ R \subseteq Page
  BY DEF LargePages, Fresh
<1> HIDE DEF nb, R
<1>3. /\ \A d : Chained(d)' = Chained(d)
      /\ Boxed' = Boxed /\ BucketsHeld' = BucketsHeld
  BY DEF Chained, Boxed, BucketsHeld
<1>4. SmallLive' = SmallLive /\ LargeLive' = LargeLive \cup {nb}
  BY <1>1 DEF LargeLive, SmallLive
<1>5. issued' = issued \cup R
  BY DEF R
<1>6. ChainOK' /\ StateOK' /\ BucketsInUse'
  BY <1>0, <1>1, <1>2, <1>5, Zenon DEF ChainOK, StateOK, BucketsInUse
<1>7. PagesApart'
  <2>1. \A d \in Class : Chained(d) \subseteq issued'
    BY <1>0, <1>5, Zenon DEF PagesApart
  <2>2. \A q \in Boxed : q \in issued' /\ box[q] \in issued'
    BY <1>0, <1>5, Zenon DEF PagesApart
  <2>3. \A b \in LargeLive \cup {nb} : LargePages(b) \subseteq issued'
    BY <1>0, <1>2, <1>5, Zenon DEF PagesApart
  <2>4. \A b \in LargeLive \cup {nb} : \A d \in Class : LargePages(b) \cap Chained(d) = {}
    BY <1>0, <1>2 DEF PagesApart
  <2>5. \A b \in LargeLive \cup {nb} : \A q \in Boxed : box[q] \notin LargePages(b)
    BY <1>0, <1>2 DEF PagesApart
  <2>6. \A b \in LargeLive : LargePages(b) \cap LargePages(nb) = {}
    BY <1>0, <1>2, SMTT(30) DEF PagesApart
  <2>7. \A b, e \in LargeLive \cup {nb} : b # e => LargePages(b) \cap LargePages(e) = {}
    BY <1>0, <2>6 DEF PagesApart
  <2>8. /\ \A c, d \in Class : c # d => Chained(c) \cap Chained(d) = {}
        /\ \A c \in Class : \A q \in Boxed : box[q] \notin Chained(c)
        /\ \A q, r \in Boxed : box[q] = box[r] => q = r
    BY <1>0 DEF PagesApart
  <2>. QED  BY <1>3, <1>4, <2>1, <2>2, <2>3, <2>4, <2>5, <2>7, <2>8, Zenon
            DEF PagesApart, LargePages
<1>8. PagesHeld'
  <2>1. AccountedPages' = AccountedPages \cup {[at |-> at, n |-> NumPages(l)]}
    BY <1>1, <1>3, <1>4, Zenon DEF AccountedPages, OnePage, NumPages
  <2>. QED  BY <1>0, <2>1, Zenon DEF PagesHeld
<1>9. BlocksExact'
  <2>1. \A b \in LargeLive \cup {nb} : b.byte = 0
    BY <1>0, <1>1 DEF BlocksExact
  <2>. QED  BY <1>0, <1>3, <1>4, <2>1, SMTT(30) DEF BlocksExact, IsBlock
<1>10. Adds
  <2>1. nb \notin LargeLive
    BY <1>0, <1>2, OwnPage, Zenon DEF PagesApart
  <2>. QED  BY <1>1, <2>1, Zenon DEF Adds, LargeLive
<1>. QED  BY <1>6, <1>7, <1>8, <1>9, <1>10 DEF HeapInv

(* deallocate returns a large allocation.                                  *)
LEMMA FreePagesStep ==
  ASSUME HeapInv, NEW b \in live, deallocate_pages(b), phase' = "running"
  PROVE  HeapInv'
<1> DEFINE gone == [at |-> b.page, n |-> NumPages(b.layout)]
<1>0. ChainOK /\ StateOK /\ PagesApart /\ BlocksExact /\ PagesHeld /\ BucketsInUse
  BY DEF HeapInv
<1>1. /\ b \in LargeLive
      /\ pages' = pages \ {gone} /\ live' = live \ {b}
      /\ UNCHANGED <<chain, used, box, issued>>
  BY DEF deallocate_pages, LargeLive
<1>2. gone.at = b.page /\ \A q : OnePage(q).at = q
  BY DEF OnePage
<1>3. /\ \A d : Chained(d)' = Chained(d)
      /\ Boxed' = Boxed /\ BucketsHeld' = BucketsHeld
  BY <1>1 DEF Chained, Boxed, BucketsHeld
<1>4. SmallLive' = SmallLive /\ LargeLive' = LargeLive \ {b}
  BY <1>1 DEF LargeLive, SmallLive
<1>5. ChainOK' /\ StateOK' /\ BucketsInUse'
  BY <1>0, <1>1, Zenon DEF ChainOK, StateOK, BucketsInUse
<1>6. PagesApart'
  BY <1>0, <1>1, <1>3, <1>4, Zenon DEF PagesApart, LargePages
<1>7. BlocksExact'
  BY <1>0, <1>1, <1>3, <1>4 DEF BlocksExact, IsBlock
<1>8. PagesHeld'
  <2>1. b.page \in LargePages(b)
    BY <1>0, <1>1, OwnPage, Zenon
  <2>2. \A q \in BucketsHeld : OnePage(q) # gone
    BY <1>0, <1>1, <1>2, <2>1, Zenon DEF BucketsHeld, PagesApart
  <2>3. \A q \in Boxed : OnePage(box[q]) # gone
    BY <1>0, <1>1, <1>2, <2>1 DEF PagesApart
  <2>4. \A e \in LargeLive \ {b} : [at |-> e.page, n |-> NumPages(e.layout)] # gone
    <3>1. \A e \in LargeLive \ {b} : e.page # b.page
      BY <1>0, <1>1, <2>1, OwnPage, Zenon DEF PagesApart
    <3>. QED  BY <3>1, Zenon
  <2> HIDE DEF gone
  <2>5. AccountedPages' =
          {OnePage(q) : q \in BucketsHeld} \cup {OnePage(box[q]) : q \in Boxed}
            \cup {[at |-> e.page, n |-> NumPages(e.layout)] : e \in LargeLive \ {b}}
    BY <1>1, <1>3, <1>4, Zenon DEF AccountedPages, OnePage, NumPages
  <2>6. AccountedPages = AccountedPages' \cup {gone}
    BY <1>1, <2>5 DEF AccountedPages, gone
  <2>7. gone \notin AccountedPages'
    BY <2>2, <2>3, <2>4, <2>5, Zenon
  <2>. QED  BY <1>0, <1>1, <2>6, <2>7, SMTT(30) DEF PagesHeld
<1>. QED  BY <1>5, <1>6, <1>7, <1>8 DEF HeapInv

(* What deallocate finds for a block: its bucket and its bit.              *)
LEMMA BlockFound ==
  ASSUME HeapInv, NEW b \in SmallLive
  PROVE  LET c == ClassOf(b.layout)
             p == b.page
             o == BlockOffset(c, b)
             k == CHOOSE j \in DOMAIN chain[c] : chain[c][j] = p
         IN  /\ c \in Class /\ p \in Page /\ p \in Chained(c)
             /\ o \in used[p] /\ o \in Offsets(c) /\ b.byte = o * Block[c]
             /\ k \in DOMAIN chain[c] /\ chain[c][k] = p
             /\ \A d \in Class : p \in Chained(d) => d = c
             /\ \A e \in SmallLive \ {b} : \A x \in used[p] :
                  e.page = p /\ e.byte = x * Block[ClassOf(e.layout)] => x # o
<1> DEFINE c == ClassOf(b.layout)
           p == b.page
           o == BlockOffset(c, b)
           k == CHOOSE j \in DOMAIN chain[c] : chain[c][j] = p
<1>0. ChainOK /\ StateOK /\ PagesApart /\ BlocksExact
  BY DEF HeapInv
<1>1. c \in Class /\ p \in Page
  BY <1>0, ClassFits, Zenon DEF SmallLive, StateOK
<1>2. p \in Chained(c)
  BY <1>0, Zenon DEF BlocksExact
<1>3. k \in DOMAIN chain[c] /\ chain[c][k] = p
  BY <1>2, Zenon DEF Chained
<1>4. PICK x \in used[p] : b.byte = x * Block[c]
  BY <1>0, Zenon DEF BlocksExact
<1>5. x \in Offsets(c) /\ x \in Nat
  BY <1>0, <1>1, <1>2, <1>4, SMTT(30) DEF BlocksExact, Offsets
<1>6. o = x
  BY <1>1, <1>4, <1>5, ClassSizes, BlockArithmetic, SMTT(30) DEF BlockOffset
<1>7. \A d \in Class : p \in Chained(d) => d = c
  BY <1>0, <1>1, <1>2, Zenon DEF PagesApart
<1> HIDE DEF c, p, o, k
<1>8. ASSUME NEW e \in SmallLive \ {b}, NEW y \in used[p],
             e.page = p, e.byte = y * Block[ClassOf(e.layout)]
      PROVE  y # o
  <2>1. ClassOf(e.layout) \in Class /\ p \in Chained(ClassOf(e.layout))
    BY <1>0, <1>8, ClassFits DEF SmallLive, StateOK, BlocksExact
  <2>2. ClassOf(e.layout) = c
    BY <1>7, <2>1, Zenon
  <2>3. e.byte # b.byte
    BY <1>0, <1>8, Zenon DEF BlocksExact, p
  <2>. QED  BY <1>4, <1>6, <1>8, <2>2, <2>3, Zenon
<1>. QED  BY <1>1, <1>2, <1>3, <1>4, <1>5, <1>6, <1>7, <1>8 DEF c, p, o, k

(* deallocate clears a bit, and drops the bucket when it was the last one  *)
(* of a bucket behind the head.                                            *)
LEMMA FreeBlockStep ==
  ASSUME HeapInv, NEW b \in live, deallocate_block(b)
  PROVE  HeapInv'
<1> DEFINE c == ClassOf(b.layout)
           p == b.page
           o == BlockOffset(c, b)
           k == CHOOSE j \in DOMAIN chain[c] : chain[c][j] = p
           t == Unlink(chain[c], k)
<1>0. ChainOK /\ StateOK /\ PagesApart /\ BlocksExact /\ PagesHeld /\ BucketsInUse
  BY DEF HeapInv
<1>1. b \in SmallLive
  BY DEF deallocate_block, SmallLive
<1>2. /\ c \in Class /\ p \in Page /\ p \in Chained(c)
      /\ o \in used[p] /\ o \in Offsets(c) /\ b.byte = o * Block[c]
      /\ k \in DOMAIN chain[c] /\ chain[c][k] = p
      /\ \A d \in Class : p \in Chained(d) => d = c
      /\ \A e \in SmallLive \ {b} : \A x \in used[p] :
           e.page = p /\ e.byte = x * Block[ClassOf(e.layout)] => x # o
  BY <1>1, BlockFound, Zenon
<1>3. /\ used' = [used EXCEPT ![p] = @ \ {o}]
      /\ live' = live \ {b} /\ issued' = issued
      /\ \/ /\ Emptied(c, k, p, o)
            /\ chain' = [chain EXCEPT ![c] = t]
            /\ box' = [box EXCEPT ![p] = NoPage]
            /\ pages' = pages \ BucketPages(p)
         \/ ~ Emptied(c, k, p, o) /\ UNCHANGED <<chain, box, pages>>
  BY <1>2, Zenon DEF deallocate_block
<1>4. b.page = p /\ ClassOf(b.layout) = c
  BY Zenon
<1>5. chain[c] \in Seq(Page) /\ Injective(chain[c])
  BY <1>0, <1>2, SMTT(30) DEF ChainOK
<1>6. /\ t \in Seq(Page) /\ Injective(t) /\ PagesIn(t) = PagesIn(chain[c]) \ {p}
      /\ k # 1 => \A j \in DOMAIN t :
                    j > 1 => \E i \in DOMAIN chain[c] : i > 1 /\ t[j] = chain[c][i]
  BY <1>2, <1>5, UnlinkBucket, ZenonT(30)
<1> HIDE DEF c, p, o, k, t
<1>7. LargeLive' = LargeLive /\ SmallLive' = SmallLive \ {b}
  BY <1>1, <1>3 DEF LargeLive, SmallLive
<1>8. /\ used'[p] = used[p] \ {o} /\ used' \in [Page -> SUBSET Nat]
      /\ \A q \in Page : q # p => used'[q] = used[q]
      /\ \A q \in Page : used'[q] \subseteq used[q]
  BY <1>0, <1>2, <1>3 DEF StateOK
<1>9. \A d \in Class : Chained(d) \subseteq Page
  BY <1>0, Zenon DEF PagesApart, StateOK
<1>10. \A d \in Class : \A q \in Chained(d) : q # p \/ d = c
  BY <1>2, Zenon
(* What both cases have in common.                                         *)
<1>11. ASSUME \A d \in Class : Chained(d)' \subseteq Chained(d),
              \A d \in Class : \A q \in Chained(d) : q # p => q \in Chained(d)',
              p \in Chained(c)' \/ used'[p] = {}
       PROVE  BlocksExact'
  <2>1. \A d \in Class : \A q \in Chained(d)' : used'[q] \subseteq Offsets(d)
    BY <1>0, <1>8, <1>9, <1>11, Zenon DEF BlocksExact
  <2>2. ASSUME NEW e \in SmallLive \ {b}
        PROVE  /\ e.page \in Chained(ClassOf(e.layout))'
               /\ \E x \in used'[e.page] : e.byte = x * Block[ClassOf(e.layout)]
    <3>1. ClassOf(e.layout) \in Class /\ e.page \in Page
      BY <1>0, ClassFits, Zenon DEF SmallLive, StateOK
    <3>2. e.page \in Chained(ClassOf(e.layout))
      BY <1>0, Zenon DEF BlocksExact
    <3>3. PICK x \in used[e.page] : e.byte = x * Block[ClassOf(e.layout)]
      BY <1>0, Zenon DEF BlocksExact
    <3>4. x \in used'[e.page]
      BY <1>2, <1>8, <3>1, <3>3, SMTT(30)
    <3>5. e.page \in Chained(ClassOf(e.layout))'
      BY <1>2, <1>11, <3>1, <3>2, <3>4, Zenon
    <3>. QED  BY <3>3, <3>4, <3>5, Zenon
  <2>3. ASSUME NEW d \in Class, NEW q \in Chained(d)', NEW x \in used'[q]
        PROVE  \E e \in SmallLive \ {b} : IsBlock(e, d, q, x)
    <3>1. q \in Chained(d) /\ q \in Page /\ x \in used[q]
      BY <1>8, <1>9, <1>11, Zenon
    <3>2. PICK e \in SmallLive : IsBlock(e, d, q, x)
      BY <1>0, <3>1 DEF BlocksExact
    <3>3. ASSUME e = b PROVE FALSE
      <4>1. d = c /\ q = p /\ b.byte = x * Block[c]
        BY <1>4, <3>2, <3>3, Zenon DEF IsBlock
      <4>2. x \in Offsets(c)
        BY <1>0, <1>2, <3>1, <4>1, Zenon DEF BlocksExact
      <4>3. x = o
        BY <1>2, <4>1, <4>2, BytesTellOffsets, Zenon
      <4>. QED  BY <1>8, <4>1, <4>3, Zenon
    <3>. QED  BY <3>2, <3>3, Zenon
  <2>4. \A e, f \in SmallLive \ {b} : e.page = f.page /\ e.byte = f.byte => e = f
    BY <1>0, Zenon DEF BlocksExact
  <2>5. \A e \in LargeLive : e.byte = 0
    BY <1>0 DEF BlocksExact
  <2>. QED  BY <1>7, <2>1, <2>2, <2>3, <2>4, <2>5, SMTT(30) DEF BlocksExact, IsBlock
<1>12. CASE ~ Emptied(c, k, p, o) /\ UNCHANGED <<chain, box, pages>>
  <2>1. /\ \A d : Chained(d)' = Chained(d)
        /\ Boxed' = Boxed /\ BucketsHeld' = BucketsHeld
    BY <1>12, Zenon DEF Chained, Boxed, BucketsHeld
  <2>2. ChainOK' /\ StateOK'
    BY <1>0, <1>3, <1>8, <1>12, Zenon DEF ChainOK, StateOK
  <2>3. PagesApart'
    BY <1>0, <1>3, <1>7, <1>12, <2>1, Zenon DEF PagesApart, LargePages
  <2>4. PagesHeld'
    BY <1>0, <1>3, <1>7, <1>12, <2>1, Zenon DEF PagesHeld, AccountedPages
  <2>5. BlocksExact'
    BY <1>2, <1>11, <2>1
  <2>6. ASSUME NEW d \in Class, NEW j \in DOMAIN chain[d], j > 1
        PROVE  used'[chain[d][j]] # {}
    <3>1. used[chain[d][j]] # {} /\ chain[d][j] \in Chained(d) /\ chain[d][j] \in Page
      BY <1>0, <1>9, <2>6, Zenon DEF BucketsInUse, Chained
    <3>2. CASE chain[d][j] # p
      BY <1>8, <3>1, <3>2, Zenon
    <3>3. CASE chain[d][j] = p
      <4>1. d = c
        BY <1>2, <3>1, <3>3, Zenon
      <4>2. j = k
        BY <1>2, <1>5, <3>3, <4>1, Zenon DEF Injective
      <4>3. k # 1
        BY <2>6, <4>2
      <4>4. used[p] # {o}
        BY <1>12, <4>3, Zenon DEF Emptied
      <4>. QED  BY <1>2, <1>8, <3>3, <4>4, SMTT(30)
    <3>. QED  BY <3>2, <3>3, Zenon
  <2>7. BucketsInUse'
    BY <1>12, <2>6, Zenon DEF BucketsInUse
  <2>. QED  BY <2>2, <2>3, <2>4, <2>5, <2>7, Zenon DEF HeapInv
<1>13. CASE /\ Emptied(c, k, p, o)
            /\ chain' = [chain EXCEPT ![c] = t]
            /\ box' = [box EXCEPT ![p] = NoPage]
            /\ pages' = pages \ BucketPages(p)
  <2>1. k # 1 /\ used'[p] = {}
    BY <1>8, <1>13, SMTT(30) DEF Emptied
  <2>2. /\ ChainOK'
        /\ \A d \in Class : Chained(d)' = IF d = c THEN PagesIn(t) ELSE Chained(d)
    BY <1>0, <1>2, <1>6, <1>13, ChainChanges, Zenon
  <2>3. Chained(c)' = Chained(c) \ {p} /\ \A d \in Class : d # c => Chained(d)' = Chained(d)
    BY <1>2, <1>6, <2>2, Zenon DEF Chained, PagesIn
  <2>4. \A d \in Class : Chained(d)' = Chained(d) \ {p}
    BY <1>2, <2>3, Zenon
  <2>5. /\ box' \in [Page -> Page \cup {NoPage}] /\ box'[p] = NoPage
        /\ \A q \in Page : q # p => box'[q] = box[q]
    BY <1>0, <1>2, <1>13, Zenon DEF StateOK
  <2>6. Boxed' = Boxed \ {p} /\ BucketsHeld' = BucketsHeld \ {p}
    BY <1>2, <2>4, <2>5 DEF Boxed, BucketsHeld
  <2>7. \A q \in Boxed \ {p} : box'[q] = box[q] /\ q \in Page
    BY <2>5, Zenon DEF Boxed
  <2>8. StateOK'
    BY <1>0, <1>3, <1>8, <2>5, Zenon DEF StateOK
  <2>9. PagesApart'
    <3>1. /\ \A d \in Class : Chained(d)' \subseteq issued
          /\ \A d, e \in Class : d # e => Chained(d)' \cap Chained(e)' = {}
          /\ \A e \in LargeLive : \A d \in Class : LargePages(e) \cap Chained(d)' = {}
      BY <1>0, <2>4, SMTT(30) DEF PagesApart
    <3>2. /\ \A q \in Boxed' : q \in issued /\ box'[q] \in issued
          /\ \A d \in Class : \A q \in Boxed' : box'[q] \notin Chained(d)'
          /\ \A q, r \in Boxed' : box'[q] = box'[r] => q = r
          /\ \A e \in LargeLive : \A q \in Boxed' : box'[q] \notin LargePages(e)
      BY <1>0, <2>4, <2>6, <2>7, Zenon DEF PagesApart
    <3>3. /\ \A e \in LargeLive : LargePages(e) \subseteq issued
          /\ \A e, f \in LargeLive : e # f => LargePages(e) \cap LargePages(f) = {}
      BY <1>0, Zenon DEF PagesApart
    <3>. QED  BY <1>3, <1>7, <3>1, <3>2, <3>3, Zenon DEF PagesApart, LargePages
  <2>10. BlocksExact'
    BY <1>11, <2>1, <2>4, Zenon
  <2>11. BucketsInUse'
    <3>1. ASSUME NEW d \in Class, NEW j \in DOMAIN chain'[d], j > 1
          PROVE  used'[chain'[d][j]] # {}
      <4>1. PICK i \in DOMAIN chain[d] : i > 1 /\ chain'[d][j] = chain[d][i]
        <5>1. CASE d # c
          <6>1. chain'[d] = chain[d]
            BY <1>0, <1>13, <5>1, Zenon DEF ChainOK
          <6>. QED  BY <3>1, <6>1, Zenon
        <5>2. CASE d = c
          <6>1. chain'[d] = t
            BY <1>0, <1>2, <1>13, <5>2, Zenon DEF ChainOK
          <6>. QED  BY <1>6, <2>1, <3>1, <5>2, <6>1, Zenon
        <5>. QED  BY <5>1, <5>2, Zenon
      <4>2. chain'[d][j] \in Chained(d)'
        BY <3>1, Zenon DEF Chained
      <4>3. chain'[d][j] # p /\ chain'[d][j] \in Page
        BY <1>9, <2>4, <4>2, Zenon
      <4>4. used[chain[d][i]] # {}
        BY <1>0, <4>1 DEF BucketsInUse
      <4>. QED  BY <1>8, <4>1, <4>3, <4>4, Zenon
    <3>. QED  BY <3>1, Zenon DEF BucketsInUse
  <2>12. PagesHeld'
    <3>1. \A x, y : OnePage(x) = OnePage(y) => x = y
      <4>1. \A x : OnePage(x).at = x
        BY Zenon DEF OnePage
      <4>. QED  BY <4>1
    <3>2. /\ \A q \in BucketsHeld \ {p} : OnePage(q) \notin BucketPages(p)
          /\ \A q \in Boxed \ {p} : OnePage(box[q]) \notin BucketPages(p)
      <4>1. \A q \in BucketsHeld \ {p} : q # p /\ q # box[p]
        <5>1. CASE p \in Boxed
          BY <1>0, <5>1, SMTT(30) DEF BucketsHeld, PagesApart
        <5>2. CASE p \notin Boxed
          BY <1>2, <5>2, PageFacts, Zenon DEF BucketsHeld, Boxed
        <5>. QED  BY <5>1, <5>2, Zenon
      <4>2. \A q \in Boxed \ {p} : box[q] # p /\ box[q] # box[p]
        BY <1>0, <1>2, Zenon DEF Boxed, PagesApart
      <4>. QED  BY <3>1, <4>1, <4>2, Zenon DEF BucketPages
    <3>3. ASSUME NEW e \in LargeLive
          PROVE  [at |-> e.page, n |-> NumPages(e.layout)] \notin BucketPages(p)
      <4>1. e.page \in LargePages(e) /\ e.page \in Page
        BY <1>0, OwnPage, Zenon
      <4>2. e.page # p
        BY <1>0, <1>2, <4>1, Zenon DEF PagesApart
      <4>3. e.page # box[p]
        <5>1. CASE p \in Boxed
          BY <1>0, <4>1, <5>1, Zenon DEF PagesApart
        <5>2. CASE p \notin Boxed
          BY <1>2, <4>1, <5>2, PageFacts, Zenon DEF Boxed
        <5>. QED  BY <5>1, <5>2, Zenon
      <4>4. /\ [at |-> e.page, n |-> NumPages(e.layout)].at = e.page
            /\ \A x : OnePage(x).at = x
        BY Zenon DEF OnePage
      <4>. QED  BY <4>2, <4>3, <4>4, Zenon DEF BucketPages
    <3>4. AccountedPages' =
            {OnePage(q) : q \in BucketsHeld \ {p}} \cup {OnePage(box[q]) : q \in Boxed \ {p}}
              \cup {[at |-> e.page, n |-> NumPages(e.layout)] : e \in LargeLive}
      <4>1. {OnePage(box'[q]) : q \in Boxed'} = {OnePage(box[q]) : q \in Boxed \ {p}}
        BY <2>6, <2>7, Zenon
      <4>. QED  BY <1>7, <2>6, <4>1, Zenon DEF AccountedPages, OnePage, NumPages
    <3>5. AccountedPages' \cap BucketPages(p) = {}
      BY <3>2, <3>3, <3>4, Zenon
    <3>6. AccountedPages' \subseteq AccountedPages
      BY <3>4, Zenon DEF AccountedPages
    <3>7. AccountedPages \subseteq AccountedPages' \cup BucketPages(p)
      BY <3>4 DEF AccountedPages, BucketPages
    <3>8. pages = AccountedPages
      BY <1>0, <1>1, Zenon DEF PagesHeld
    <3>9. pages' = AccountedPages'
      BY <1>13, <3>5, <3>6, <3>7, <3>8, Zenon
    <3>. QED  BY <3>9 DEF PagesHeld
  <2>. QED  BY <2>2, <2>8, <2>9, <2>10, <2>11, <2>12, Zenon DEF HeapInv
<1>. QED  BY <1>3, <1>12, <1>13, Zenon

(* What a running heap has handed out is served.                           *)
LEMMA Served == HeapInv => LiveServed
<1> SUFFICES ASSUME HeapInv, NEW b \in live
             PROVE  /\ b.byte % b.layout.align = 0
                    /\ IF Large(b.layout)
                       THEN [at |-> b.page, n |-> NumPages(b.layout)] \in pages
                       ELSE /\ b.layout.size <= Block[ClassOf(b.layout)]
                            /\ b.byte + Block[ClassOf(b.layout)] <= PageBytes
                            /\ OnePage(b.page) \in pages
  BY DEF LiveServed
<1>0. BlocksExact /\ StateOK /\ PagesHeld /\ PagesApart
  BY DEF HeapInv
<1>1. b.layout \in Layout /\ b.layout.align \in Nat \ {0}
  BY <1>0, SomePages, Zenon DEF StateOK
<1>2. CASE Large(b.layout)
  <2>1. b \in LargeLive
    BY <1>2, Zenon DEF LargeLive
  <2>2. b.byte = 0
    BY <1>0, <2>1, Zenon DEF BlocksExact
  <2>3. 0 % b.layout.align = 0
    BY <1>1
  <2>4. [at |-> b.page, n |-> NumPages(b.layout)] \in AccountedPages
    BY <2>1, Zenon DEF AccountedPages
  <2>. QED  BY <1>0, <1>2, <2>2, <2>3, <2>4, Zenon DEF PagesHeld
<1>3. CASE ~ Large(b.layout)
  <2> DEFINE c == ClassOf(b.layout)
             l == b.layout
  <2>1. c \in Class /\ l.size <= Block[c] /\ l.align <= Block[c]
    BY <1>1, <1>3, ClassFits, Zenon
  <2>2. b \in SmallLive /\ b.page \in Chained(c)
    BY <1>0, <1>3, Zenon DEF SmallLive, BlocksExact
  <2>3. PICK x \in used[b.page] : b.byte = x * Block[c]
    BY <1>0, <2>2, Zenon DEF BlocksExact
  <2>4. x \in Offsets(c)
    BY <1>0, <2>1, <2>2, <2>3, Zenon DEF BlocksExact
  <2> HIDE DEF c
  <2>5. x \in Nat /\ x < PageBytes \div Block[c]
    BY <2>1, <2>4, ClassSizes, SMTT(30) DEF Offsets
  <2>6. x * Block[c] + Block[c] <= PageBytes
    BY <2>1, <2>5, ClassSizes, BlockArithmetic, Zenon
  <2>7. Block[c] % l.align = 0
    BY <1>1, <2>1, KAllocatorAssumption
  <2>8. (x * Block[c]) % l.align = 0
    <3>1. l.align \in Nat /\ l.align > 0 /\ Block[c] \in Nat /\ x \in Nat
      BY <1>1, <2>1, <2>5, ClassSizes
    <3>2. \A a, B, y \in Nat : a > 0 /\ B % a = 0 => (y * B) % a = 0
      BY AlignedMultiple, Zenon
    <3>. QED  BY <2>7, <3>1, <3>2, Zenon
  <2>9. b.page \in Page
    BY <1>0, Zenon DEF StateOK
  <2>10. OnePage(b.page) \in AccountedPages
    BY <2>1, <2>2, <2>9, Zenon DEF AccountedPages, BucketsHeld
  <2>. QED  BY <1>0, <1>3, <2>1, <2>3, <2>6, <2>8, <2>10, Zenon DEF PagesHeld, c
<1>. QED  BY <1>2, <1>3, Zenon

(* Nothing new is handed out and no page is given back.                    *)
LEMMA ServedKept ==
  ASSUME LiveServed, live' \subseteq live, pages \subseteq pages'
  PROVE  LiveServed'
BY Zenon DEF LiveServed, OnePage

(* A panic in the middle of a call takes nothing from those who hold       *)
(* memory: the page that was given back had only the freed block in it.    *)
LEMMA PanicStep ==
  ASSUME HeapInv, NEW b \in live, drop_bucket_panics(b)
  PROVE  LiveServed'
<1> DEFINE c == ClassOf(b.layout)
           p == b.page
           o == BlockOffset(c, b)
<1>0. StateOK /\ PagesApart /\ BlocksExact
  BY DEF HeapInv
<1>1. b \in SmallLive
  BY DEF drop_bucket_panics, SmallLive
<1>2. /\ c \in Class /\ p \in Page /\ p \in Chained(c)
      /\ \A e \in SmallLive \ {b} : \A x \in used[p] :
           e.page = p /\ e.byte = x * Block[ClassOf(e.layout)] => x # o
  BY <1>1, BlockFound, Zenon
<1>3. /\ used[p] = {o} /\ live' = live \ {b}
      /\ pages \ {OnePage(p)} \subseteq pages'
  BY Zenon DEF drop_bucket_panics, Emptied
<1> HIDE DEF c, p, o
<1>4. ASSUME NEW e \in live \ {b} PROVE e.page # p
  <2>1. CASE e \in SmallLive
    BY <1>0, <1>2, <1>3, <1>4, <2>1, Zenon DEF BlocksExact
  <2>2. CASE e \in LargeLive
    BY <1>0, <1>2, <2>2, OwnPage, Zenon DEF PagesApart
  <2>. QED  BY <1>4, <2>1, <2>2, Zenon DEF SmallLive, LargeLive
<1>5. \A q, n : q # p => [at |-> q, n |-> n] # OnePage(p)
  BY DEF OnePage
<1>6. LiveServed
  BY Served
<1>7. \A q, n : q # p /\ [at |-> q, n |-> n] \in pages
                 => [at |-> q, n |-> n] \in pages'
  BY <1>3, <1>5, Zenon
<1>8. \A e \in live' : e \in live /\ e.page # p
  BY <1>3, <1>4, Zenon
<1>. QED  BY <1>6, <1>7, <1>8, Zenon DEF LiveServed, OnePage

(* The invariant of a heap that may have panicked.                         *)
HeapOK == (phase = "running" => HeapInv) /\ LiveServed

(* What a call that fails leaves alone.                                    *)
LEMMA FailureStep ==
  ASSUME HeapInv, NEW l \in Layout,
         allocate_box_fails(l) \/ allocate_fails(l) \/ allocate_asserts(l)
  PROVE  /\ UNCHANGED <<chain, used, box, live>>
         /\ issued \subseteq issued' /\ issued' \subseteq Page
         /\ pages \subseteq pages'
         /\ phase' = "running" => UNCHANGED pages
<1>1. /\ UNCHANGED <<chain, used, box, live>> /\ pages \subseteq pages'
      /\ phase' = "running" => UNCHANGED pages
  BY Zenon DEF allocate_box_fails, allocate_fails, allocate_asserts
<1>2. ASSUME NEW taken \in SUBSET Page, NEW n, issued \subseteq taken,
             Reserve(taken, n)
      PROVE  issued \subseteq issued' /\ issued' \subseteq Page
  BY <1>2 DEF Reserve
<1>3. issued \subseteq Page
  BY DEF HeapInv, StateOK
<1>4. issued \subseteq issued' /\ issued' \subseteq Page
  <2>1. CASE allocate_box_fails(l)
    <3>1. PICK q \in Fresh : Reserve(issued \cup {q}, 1)
      BY <2>1, Zenon DEF allocate_box_fails
    <3>2. issued \cup {q} \in SUBSET Page
      BY <1>3, <3>1 DEF Fresh
    <3>. QED  BY <1>2, <3>1, <3>2, Zenon
  <2>2. CASE allocate_fails(l)
    BY <1>2, <1>3, <2>2, Zenon DEF allocate_fails
  <2>3. CASE allocate_asserts(l)
    BY <1>3, <2>3, Zenon DEF allocate_asserts
  <2>. QED  BY <2>1, <2>2, <2>3, Zenon
<1>. QED  BY <1>1, <1>4, Zenon

(* Every step of a running heap keeps the invariant, or panics; it hands   *)
(* out one allocation, takes one back, or does neither.                    *)
LEMMA HeapStep ==
  ASSUME HeapInv, Next, phase = "running"
  PROVE  /\ HeapInv' \/ (phase' = "panicked" /\ LiveServed')
         /\ \/ HeapInv' /\ Adds
            \/ \E b \in live : live' = live \ {b}
            \/ live' = live
<1>0. LiveServed
  BY Served
<1>1. ASSUME NEW l \in Layout, allocate_block(l) PROVE HeapInv' /\ Adds
  BY <1>1, AllocateBlockStep
<1>2. ASSUME NEW l \in Layout, allocate_first_bucket(l) PROVE HeapInv' /\ Adds
  BY <1>2, FirstBucketStep, Zenon DEF allocate_first_bucket
<1>3. ASSUME NEW l \in Layout, allocate_next_bucket(l) PROVE HeapInv' /\ Adds
  BY <1>3, NextBucketStep, Zenon DEF allocate_next_bucket
<1>4. ASSUME NEW l \in Layout, allocate_pages(l) PROVE HeapInv' /\ Adds
  BY <1>4, PagesStep DEF allocate_pages
<1>5. ASSUME NEW l \in Layout,
             allocate_box_fails(l) \/ allocate_fails(l) \/ allocate_asserts(l)
      PROVE  live' = live /\ (HeapInv' \/ (phase' = "panicked" /\ LiveServed'))
  <2>1. phase' \in {"running", "panicked"}
    BY <1>5, Zenon DEF allocate_box_fails, allocate_fails, allocate_asserts
  <2>2. /\ UNCHANGED <<chain, used, box, live>>
        /\ issued \subseteq issued' /\ issued' \subseteq Page
        /\ pages \subseteq pages'
        /\ phase' = "running" => UNCHANGED pages
    BY <1>5, FailureStep, Zenon
  <2>3. CASE phase' = "running"
    BY <2>2, <2>3, OnlyPagesIssued, Zenon
  <2>4. CASE phase' = "panicked"
    BY <1>0, <2>2, <2>4, ServedKept, Zenon
  <2>. QED  BY <2>1, <2>2, <2>3, <2>4, Zenon
<1>6. ASSUME NEW b \in live, deallocate_block(b) PROVE HeapInv' /\ live' = live \ {b}
  BY <1>6, FreeBlockStep, Zenon DEF deallocate_block
<1>7. ASSUME NEW b \in live, drop_bucket_panics(b)
      PROVE  phase' = "panicked" /\ LiveServed' /\ live' = live \ {b}
  BY <1>7, PanicStep, Zenon DEF drop_bucket_panics
<1>8. ASSUME NEW b \in live, deallocate_pages(b)
      PROVE  /\ live' = live \ {b}
             /\ HeapInv' \/ (phase' = "panicked" /\ LiveServed')
  <2>1. /\ live' = live \ {b}
        /\ phase' = "running" \/ (phase' = "panicked" /\ UNCHANGED pages)
    BY <1>8, Zenon DEF deallocate_pages
  <2>2. CASE phase' = "running"
    BY <1>8, <2>1, <2>2, FreePagesStep, Zenon
  <2>3. CASE phase' = "panicked" /\ UNCHANGED pages
    BY <1>0, <2>1, <2>3, ServedKept, Zenon
  <2>. QED  BY <2>1, <2>2, <2>3, Zenon
<1>9. ~ Halted
  BY DEF Halted
<1>. QED  BY <1>1, <1>2, <1>3, <1>4, <1>5, <1>6, <1>7, <1>8, <1>9, Zenon DEF Next

-----------------------------------------------------------------------------
(* The theorems.                                                           *)

(* For every set of classes, layouts and pages: HeapInv holds as long as   *)
(* the heap runs, and every allocation stays served even after a panic.    *)
THEOREM HeapInvariance == Spec => []HeapOK
<1>1. Init => HeapInv
  <2> SUFFICES ASSUME Init PROVE HeapInv
    OBVIOUS
  <2>1. /\ \A c \in Class : chain[c] = <<>> /\ DOMAIN chain[c] = {} /\ Chained(c) = {}
        /\ Boxed = {} /\ LargeLive = {} /\ SmallLive = {} /\ BucketsHeld = {}
    BY DEF Init, Chained, Boxed, LargeLive, SmallLive, BucketsHeld
  <2>2. ChainOK
    <3>1. \A c \in Class : Injective(chain[c])
      BY <2>1 DEF Injective
    <3>2. <<>> \in Seq(Page)
      OBVIOUS
    <3>. QED  BY <3>1, <3>2, Zenon DEF ChainOK, Init
  <2>3. StateOK
    BY Zenon DEF Init, StateOK
  <2>4. PagesApart /\ BlocksExact /\ BucketsInUse
    BY <2>1, Zenon DEF PagesApart, BlocksExact, BucketsInUse
  <2>5. PagesHeld
    BY <2>1 DEF Init, PagesHeld, AccountedPages
  <2>. QED  BY <2>2, <2>3, <2>4, <2>5 DEF HeapInv
<1>2. Init => HeapOK
  BY <1>1, Served, Zenon DEF HeapOK
<1>3. HeapOK /\ [Next]_vars => HeapOK'
  <2> SUFFICES ASSUME HeapOK, [Next]_vars PROVE HeapOK'
    OBVIOUS
  <2>0. HeapInv' => LiveServed'
    BY Served, PTL
  <2>1. CASE Next /\ phase = "running"
    <3>1. HeapInv' \/ (phase' = "panicked" /\ LiveServed')
      BY <2>1, HeapStep, Zenon DEF HeapOK
    <3>2. "panicked" # "running"
      OBVIOUS
    <3>. QED  BY <2>0, <3>1, <3>2, Zenon DEF HeapOK
  <2>2. CASE Next /\ phase # "running"
    <3>1. Halted
      BY <2>2, Zenon DEF Next, allocate_block, allocate_first_bucket,
         allocate_next_bucket, allocate_box_fails, allocate_pages, allocate_fails,
         allocate_asserts, deallocate_block, drop_bucket_panics, deallocate_pages
    <3>2. UNCHANGED <<live, pages, phase>>
      BY <3>1, Zenon DEF Halted, vars
    <3>3. LiveServed'
      BY <3>2, ServedKept, Zenon DEF HeapOK
    <3>. QED  BY <2>2, <3>2, <3>3, Zenon DEF HeapOK
  <2>3. CASE UNCHANGED vars
    <3>1. UNCHANGED <<chain, used, box, pages, live, issued, phase>>
      BY <2>3, Zenon DEF vars
    <3>2. ASSUME HeapInv PROVE HeapInv'
      <4>1. issued \subseteq issued' /\ issued' \subseteq Page
        BY <3>1, <3>2, Zenon DEF HeapInv, StateOK
      <4>. QED  BY <3>1, <3>2, <4>1, OnlyPagesIssued, Zenon
    <3>3. LiveServed'
      BY <3>1, ServedKept, Zenon DEF HeapOK
    <3>. QED  BY <3>1, <3>2, <3>3, Zenon DEF HeapOK
  <2>. QED  BY <2>1, <2>2, <2>3, Zenon
<1>. QED  BY <1>2, <1>3, PTL DEF Spec

(* Bits and blocks correspond: the bitmap of allocate_block and free_block *)
(* neither loses a block nor offers one that is in use.                    *)
THEOREM BitmapExact == Spec => []BitmapMatchesLive
<1>1. ASSUME HeapInv, NEW c \in Class, NEW p \in Chained(c),
             NEW o \in 0..(BitmapBits[c] - 1)
      PROVE  o \in used[p] <=> \E b \in live : /\ b.page = p
                                               /\ b.byte = o * Block[c]
                                               /\ ~ Large(b.layout)
                                               /\ ClassOf(b.layout) = c
  <2>0. BlocksExact /\ StateOK
    BY <1>1, Zenon DEF HeapInv
  <2>1. ASSUME o \in used[p]
        PROVE  \E b \in live : /\ b.page = p /\ b.byte = o * Block[c]
                              /\ ~ Large(b.layout) /\ ClassOf(b.layout) = c
    BY <2>0, <2>1, SMTT(30) DEF BlocksExact, IsBlock, SmallLive
  <2>2. ASSUME NEW b \in live, b.page = p, b.byte = o * Block[c],
               ~ Large(b.layout), ClassOf(b.layout) = c
        PROVE  o \in used[p]
    <3>1. PICK x \in used[p] : b.byte = x * Block[c]
      BY <2>0, <2>2, Zenon DEF BlocksExact, SmallLive
    <3>2. x \in Offsets(c)
      BY <2>0, <3>1, Zenon DEF BlocksExact
    <3>3. /\ x \in Nat /\ o \in Nat /\ Block[c] \in Nat /\ Block[c] > 0
      BY <3>2, ClassSizes, SMTT(30) DEF Offsets
    <3>4. x = o
      BY <2>2, <3>1, <3>3, BlockArithmetic, Zenon
    <3>. QED  BY <3>1, <3>4, Zenon
  <2>. QED  BY <2>1, <2>2, Zenon
<1>2. ASSUME HeapInv, NEW b \in live
      PROVE  Large(b.layout) \/ b.page \in Chained(ClassOf(b.layout))
  BY <1>2, Zenon DEF HeapInv, BlocksExact, SmallLive
<1>3. HeapOK => BitmapMatchesLive
  BY <1>1, <1>2, Zenon DEF HeapOK, BitmapMatchesLive
<1>. QED  BY <1>3, HeapInvariance, PTL

(* What allocate returns is large enough, aligned and in pages that        *)
(* PAGE_ALLOCATOR has not got back, and stays so until it is given back,   *)
(* also when a call panics half way.                                       *)
THEOREM RequestsServed == Spec => []LiveServed
<1>1. HeapOK => LiveServed
  BY DEF HeapOK
<1>. QED  BY <1>1, HeapInvariance, PTL

(* A running heap holds exactly the pages of its buckets, of their Boxes   *)
(* and of large allocations, and no empty bucket behind a head.            *)
THEOREM PagesExact == Spec => []PagesAccounted
<1>1. HeapOK => PagesAccounted
  <2> SUFFICES ASSUME HeapInv PROVE PagesAccounted
    BY Zenon DEF HeapOK, PagesAccounted
  <2>1. \A c \in Class : Chained(c) \subseteq Page
    BY Zenon DEF HeapInv, PagesApart, StateOK
  <2>2. UNION {Chained(c) : c \in Class} = BucketsHeld
    <3>1. \A p : p \in UNION {Chained(c) : c \in Class} <=> \E c \in Class : p \in Chained(c)
      OBVIOUS
    <3>. QED  BY <2>1, <3>1 DEF BucketsHeld
  <2>. QED  BY <2>2 DEF PagesAccounted, HeapInv, PagesHeld, AccountedPages, Boxed
<1>. QED  BY <1>1, HeapInvariance, PTL

-----------------------------------------------------------------------------
(* The refinement: every call adds the allocation it returns, removes the  *)
(* one it is given, or changes none, and no two allocations overlap.       *)

(* The bytes of a block lie in its page.                                   *)
LEMMA BlockIsRegion ==
  ASSUME HeapInv, NEW b \in SmallLive
  PROVE  LET c == ClassOf(b.layout)
         IN  /\ c \in Class /\ b.page \in Page /\ b.page \in Chained(c)
             /\ Block[c] \in Nat /\ Block[c] > 0 /\ b.byte \in Nat
             /\ b.byte + Block[c] <= PageBytes
             /\ Bytes(b) = {b.page} \X (b.byte..(b.byte + Block[c] - 1))
             /\ \E o \in Nat : b.byte = o * Block[c]
<1> DEFINE c == ClassOf(b.layout)
           o == BlockOffset(c, b)
<1>1. /\ c \in Class /\ b.page \in Page /\ b.page \in Chained(c)
      /\ o \in Offsets(c) /\ b.byte = o * Block[c]
  BY BlockFound, Zenon
<1>2. Bytes(b) = {b.page} \X (b.byte..(b.byte + Block[c] - 1))
  BY Zenon DEF Bytes, SmallLive
<1> HIDE DEF c, o
<1>3. /\ Block[c] \in Nat /\ Block[c] > 0 /\ PageBytes \in Nat
      /\ o \in Nat /\ o < PageBytes \div Block[c]
  BY <1>1, ClassSizes DEF Offsets
<1>4. o * Block[c] \in Nat /\ o * Block[c] + Block[c] <= PageBytes
  BY <1>3, BlockArithmetic, Zenon
<1>. QED  BY <1>1, <1>2, <1>3, <1>4, Zenon DEF c

(* Those of a large allocation are its pages.                              *)
LEMMA PagesAreRegion ==
  ASSUME HeapInv, NEW b \in LargeLive
  PROVE  /\ b.page \in LargePages(b) /\ LargePages(b) \subseteq Page
         /\ Bytes(b) = LargePages(b) \X (0..(PageBytes - 1))
<1>1. StateOK /\ PagesApart
  BY DEF HeapInv
<1>2. b.page \in LargePages(b) /\ LargePages(b) \subseteq Page
  BY <1>1, OwnPage, Zenon DEF StateOK, PagesApart
<1>. QED  BY <1>2, Zenon DEF Bytes, LargePages, LargeLive

(* Products of parts.                                                      *)
LEMMA Products ==
  ASSUME NEW A, NEW B, NEW C, NEW D, NEW a \in A, NEW b \in B,
         A \subseteq C, B \subseteq D
  PROVE  A \X B # {} /\ A \X B \subseteq C \X D
<1>1. <<a, b>> \in A \X B
  OBVIOUS
<1>2. A \X B \subseteq C \X D
  OBVIOUS
<1>. QED  BY <1>1, <1>2

RegionsApart ==
  /\ \A b \in live : /\ Bytes(b) # {}
                      /\ Bytes(b) \subseteq Page \X (0..(PageBytes - 1))
  /\ \A b, e \in live : b # e => Bytes(b) \cap Bytes(e) = {}

(* A page has one use and a block one owner, so allocations do not overlap.*)
LEMMA Apart == HeapInv => RegionsApart
<1> SUFFICES ASSUME HeapInv PROVE RegionsApart
  OBVIOUS
<1>0. PagesApart /\ StateOK /\ BlocksExact
  BY DEF HeapInv
<1>a. live = SmallLive \cup LargeLive
  BY DEF SmallLive, LargeLive
<1>b. PageBytes \in Nat /\ 0 \in 0..(PageBytes - 1)
  BY PageFacts
<1>1. ASSUME NEW b \in SmallLive
      PROVE  Bytes(b) # {} /\ Bytes(b) \subseteq Page \X (0..(PageBytes - 1))
  <2> DEFINE bytes == b.byte..(b.byte + Block[ClassOf(b.layout)] - 1)
  <2>1. b.byte \in bytes /\ bytes \subseteq 0..(PageBytes - 1)
    BY <1>b, BlockIsRegion
  <2>2. Bytes(b) = {b.page} \X bytes /\ b.page \in Page
    BY BlockIsRegion, Zenon
  <2> HIDE DEF bytes
  <2>3. b.page \in {b.page} /\ {b.page} \subseteq Page
    BY <2>2, Zenon
  <2>4. /\ {b.page} \X bytes # {}
        /\ {b.page} \X bytes \subseteq Page \X (0..(PageBytes - 1))
    BY <2>1, <2>3, Products, Zenon
  <2>. QED  BY <2>2, <2>4, Zenon
<1>2. ASSUME NEW b \in LargeLive
      PROVE  Bytes(b) # {} /\ Bytes(b) \subseteq Page \X (0..(PageBytes - 1))
  <2>1. /\ b.page \in LargePages(b) /\ LargePages(b) \subseteq Page
        /\ Bytes(b) = LargePages(b) \X (0..(PageBytes - 1))
    BY PagesAreRegion
  <2> DEFINE bytes == 0..(PageBytes - 1)
  <2>2. 0 \in bytes /\ bytes \subseteq bytes
    BY <1>b
  <2> HIDE DEF bytes
  <2>3. LargePages(b) \X bytes # {} /\ LargePages(b) \X bytes \subseteq Page \X bytes
    BY <2>1, <2>2, Products
  <2>. QED  BY <2>1, <2>3, Zenon DEF bytes
<1>3. ASSUME NEW b \in SmallLive, NEW e \in SmallLive, b # e
      PROVE  Bytes(b) \cap Bytes(e) = {}
  <2> DEFINE c == ClassOf(b.layout)
             d == ClassOf(e.layout)
  <2>1. /\ Bytes(b) = {b.page} \X (b.byte..(b.byte + Block[c] - 1))
        /\ Bytes(e) = {e.page} \X (e.byte..(e.byte + Block[d] - 1))
    BY BlockIsRegion, Zenon
  <2>2. CASE b.page # e.page
    BY <2>1, <2>2
  <2>3. CASE b.page = e.page
    <3>1. c = d
      BY <1>0, <2>3, BlockIsRegion, Zenon DEF PagesApart
    <3>2. b.byte # e.byte
      BY <1>0, <1>3, <2>3, Zenon DEF BlocksExact
    <3>3. PICK o \in Nat : b.byte = o * Block[c]
      BY BlockIsRegion, Zenon
    <3>4. PICK x \in Nat : e.byte = x * Block[c]
      BY <3>1, BlockIsRegion, Zenon
    <3>5. Block[c] \in Nat /\ Block[c] > 0 /\ b.byte \in Nat /\ e.byte \in Nat
      BY BlockIsRegion, Zenon
    <3> HIDE DEF c, d
    <3>6. /\ o < x => b.byte + Block[c] <= e.byte
          /\ x < o => e.byte + Block[c] <= b.byte
      <4>1. /\ o < x => o * Block[c] + Block[c] <= x * Block[c]
            /\ x < o => x * Block[c] + Block[c] <= o * Block[c]
        BY <3>5, BlockArithmetic, Zenon
      <4>. QED  BY <3>3, <3>4, <4>1, Zenon
    <3>7. o < x \/ x < o
      BY <3>2, <3>3, <3>4
    <3>8. \A y : ~ (/\ y \in b.byte..(b.byte + Block[c] - 1)
                   /\ y \in e.byte..(e.byte + Block[c] - 1))
      BY <3>5, <3>6, <3>7
    <3>. QED  BY <2>1, <3>1, <3>8
  <2>. QED  BY <2>2, <2>3
<1>4. ASSUME NEW b \in SmallLive, NEW e \in LargeLive
      PROVE  Bytes(b) \cap Bytes(e) = {}
  <2>1. b.page \notin LargePages(e)
    BY <1>0, BlockIsRegion, Zenon DEF PagesApart
  <2>2. /\ \E S : Bytes(b) = {b.page} \X S
        /\ \E S : Bytes(e) = LargePages(e) \X S
    BY BlockIsRegion, PagesAreRegion, Zenon
  <2>. QED  BY <2>1, <2>2
<1>5. ASSUME NEW b \in LargeLive, NEW e \in LargeLive, b # e
      PROVE  Bytes(b) \cap Bytes(e) = {}
  <2>1. LargePages(b) \cap LargePages(e) = {}
    BY <1>0, <1>5, Zenon DEF PagesApart
  <2>2. /\ \E S : Bytes(b) = LargePages(b) \X S
        /\ \E S : Bytes(e) = LargePages(e) \X S
    BY PagesAreRegion, Zenon
  <2>. QED  BY <2>1, <2>2
<1>6. \A b, e : Bytes(b) \cap Bytes(e) = Bytes(e) \cap Bytes(b)
  BY Zenon
<1>. QED  BY <1>a, <1>1, <1>2, <1>3, <1>4, <1>5, <1>6, Zenon DEF RegionsApart

Handed == [b \in live |-> Bytes(b)]

(* A step that adds an allocation is an allocation of Heap.                *)
LEMMA AddsAllocates ==
  ASSUME HeapInv', Adds
  PROVE  H!Next
<1>1. PICK a : a \notin live /\ live' = live \cup {a}
  BY DEF Adds
<1>2. \A b : Bytes(b)' = Bytes(b)
  BY Zenon DEF Bytes
<1>3. RegionsApart'
  BY Apart, PTL
<1>4. /\ a \in live' /\ Bytes(a) # {}
      /\ Bytes(a) \subseteq Page \X (0..(PageBytes - 1))
      /\ \A b \in live : Bytes(a) \cap Bytes(b) = {}
  BY <1>1, <1>2, <1>3, Zenon DEF RegionsApart
<1>5. /\ DOMAIN Handed = live /\ DOMAIN Handed' = live \cup {a}
      /\ \A b \in live : Handed[b] = Bytes(b)
      /\ \A b \in live \cup {a} : Handed'[b] = Bytes(b)
  BY <1>1, <1>2, Zenon DEF Handed
<1>6. H!Alloc(a)
  BY <1>1, <1>4, <1>5, Zenon DEF H!Alloc, Handed
<1>. QED  BY <1>4, <1>6, Zenon DEF H!Next

(* A step that takes one back is a deallocation of Heap.                   *)
LEMMA RemovesFrees ==
  ASSUME NEW a \in live, live' = live \ {a}
  PROVE  H!Next
<1>1. \A b : Bytes(b)' = Bytes(b)
  BY Zenon DEF Bytes
<1>2. H!Free(a)
  BY <1>1, Zenon DEF H!Free
<1>. QED  BY <1>2, Zenon DEF H!Next

(* Every step is a step of Heap or leaves what is handed out alone.        *)
LEMMA HeapSimulates ==
  ASSUME HeapOK, [Next]_vars
  PROVE  [H!Next]_Handed
<1>1. CASE Next /\ phase = "running"
  <2>1. \/ HeapInv' /\ Adds
        \/ \E b \in live : live' = live \ {b}
        \/ live' = live
    BY <1>1, HeapStep, Zenon DEF HeapOK
  <2>2. live' = live => Handed' = Handed
    BY Zenon DEF Handed, Bytes
  <2>. QED  BY <2>1, <2>2, AddsAllocates, RemovesFrees, Zenon
<1>2. CASE Next /\ phase # "running"
  <2>1. Halted
    BY <1>2, Zenon DEF Next, allocate_block, allocate_first_bucket,
       allocate_next_bucket, allocate_box_fails, allocate_pages, allocate_fails,
       allocate_asserts, deallocate_block, drop_bucket_panics, deallocate_pages
  <2>. QED  BY <2>1, Zenon DEF Halted, vars, Handed, Bytes
<1>3. CASE UNCHANGED vars
  BY <1>3, Zenon DEF vars, Handed, Bytes
<1>. QED  BY <1>1, <1>2, <1>3, Zenon

(* The buckets implement the abstract heap, for every set of classes,      *)
(* layouts and pages: a call of allocate that succeeds adds one allocation *)
(* whose bytes are in no other, also across size classes; deallocate takes *)
(* away just the one it is given; failures and panics change none.         *)
THEOREM HeapRefined == Spec => ImplementsHeap
<1>1. Init => H!Init
  BY DEF Init, H!Init
<1>2. HeapOK /\ [Next]_vars => [H!Next]_Handed
  BY HeapSimulates
<1>. QED  BY <1>1, <1>2, HeapInvariance, PTL DEF Spec, ImplementsHeap, H!Spec, Handed
=============================================================================
