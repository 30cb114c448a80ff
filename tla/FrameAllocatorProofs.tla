------------------------ MODULE FrameAllocatorProofs ------------------------
(***************************************************************************)
(* What FrameAllocator guarantees for every memory map and word size.      *)
(***************************************************************************)
EXTENDS FrameAllocator, WellFoundedInduction, FiniteSetTheorems, TLAPS

(* A non-empty set of naturals has a least element.                        *)
LEMMA LeastNat ==
  ASSUME NEW S \in SUBSET Nat, S # {}
  PROVE  \E n \in S : \A m \in S : n <= m
<1> DEFINE less == OpToRel(<, Nat)
<1>1. \E x \in S : \A y \in S : ~ (<<y, x>> \in less)
  BY NatLessThanWellFounded, WFMin
<1>2. \A x, y \in Nat : x < y => <<x, y>> \in less
  BY DEF OpToRel
<1>3. \E x \in S : \A y \in S : ~ (y < x)
  BY <1>1, <1>2, Zenon
<1> QED
  BY <1>3

(* A non-empty set of naturals that has a bound has a greatest element.    *)
LEMMA GreatestNat ==
  ASSUME NEW S \in SUBSET Nat, S # {}, NEW b \in Nat, \A m \in S : m <= b
  PROVE  \E n \in S : \A m \in S : m <= n
<1> DEFINE bounds == {k \in Nat : \A m \in S : m <= k}
<1>1. bounds \in SUBSET Nat /\ bounds # {}
  OBVIOUS
<1>2. PICK k \in bounds : \A j \in bounds : k <= j
  BY <1>1, LeastNat, Zenon
<1>3. k \in Nat /\ \A m \in S : m \in Nat /\ m <= k
  BY <1>2
<1>4. k \in S
  <2> SUFFICES ASSUME k \notin S PROVE FALSE
    OBVIOUS
  <2>1. \A m \in S : m < k /\ m <= k - 1
    BY <1>3
  <2>2. k > 0
    <3>1. PICK m \in S : TRUE
      BY Zenon
    <3> QED
      BY <1>3, <2>1, <3>1
  <2>3. k - 1 \in Nat /\ k - 1 \in bounds
    BY <1>3, <2>1, <2>2
  <2> QED
    BY <1>2, <1>3, <2>3
<1> QED
  BY <1>3, <1>4

(* Rounding a division up covers the dividend.                             *)
LEMMA CeilDiv ==
  ASSUME NEW t \in Nat, NEW b \in Nat, b > 0, t > 0
  PROVE  /\ (t + b - 1) \div b \in Nat
         /\ (t + b - 1) \div b >= 1
         /\ ((t + b - 1) \div b) * b >= t
<1> DEFINE x == t + b - 1
           q == x \div b
           r == x % b
<1>1. x \in Nat /\ x >= b
  OBVIOUS
<1>2. q \in Int /\ r \in 0..(b - 1) /\ x = b * q + r
  BY <1>1
<1> HIDE DEF q, r
<1>3. q >= 1
  <2> SUFFICES ASSUME q <= 0 PROVE FALSE
    BY <1>2
  <2>1. b * q <= 0
    BY <1>2
  <2> QED
    BY <1>1, <1>2, <2>1
<1>4. q * b = b * q
  BY <1>2
<1>5. q * b >= t
  BY <1>2, <1>4
<1> QED
  BY <1>2, <1>3, <1>5 DEF q

-----------------------------------------------------------------------------
(* A finite set of naturals has a bound.                                   *)
LEMMA FiniteBound ==
  ASSUME NEW S \in SUBSET Nat, IsFiniteSet(S)
  PROVE  \E b \in Nat : \A m \in S : m <= b
<1>1. PICK n \in Nat : ExistsBijection(1..n, S)
  BY FS_NatBijection
<1>2. PICK q \in [1..n -> S] : \A m \in S : \E k \in 1..n : q[k] = m
  BY <1>1 DEF ExistsBijection, Bijection, Surjection, Injection
<1>3. \A k \in 1..n : q[k] \in Nat
  BY <1>2, Zenon
<1> DEFINE bounded(k) == \E b \in Nat : \A j \in 1..k : q[j] <= b
           bad == {k \in 0..n : ~ bounded(k)}
<1>4. bad = {}
  <2> SUFFICES ASSUME bad # {} PROVE FALSE
    BY Zenon
  <2>1. bad \in SUBSET Nat
    OBVIOUS
  <2>2. PICK k \in bad : \A j \in bad : k <= j
    <3> HIDE DEF bad
    <3> QED
      BY <2>1, LeastNat, Zenon
  <2>3. k \in Nat /\ k <= n /\ ~ bounded(k)
    BY <2>2
  <2>4. k # 0
    <3>1. \A j \in 1..0 : q[j] <= 0
      OBVIOUS
    <3> QED
      BY <2>3, <3>1
  <2>5. k - 1 \in 0..n /\ k - 1 \notin bad
    <3> HIDE DEF bad
    <3> QED
      BY <2>1, <2>2, <2>3, <2>4
  <2>6. bounded(k - 1)
    BY <2>5
  <2>7. PICK b \in Nat : \A j \in 1..(k - 1) : q[j] <= b
    BY <2>6, Zenon
  <2>8. PICK c \in Nat : c = q[k]
    <3>1. k \in 1..n
      BY <2>3, <2>4
    <3> QED
      BY <1>3, <3>1, Zenon
  <2>9. ASSUME NEW j \in 1..k PROVE q[j] <= b + c
    <3>1. CASE j = k
      BY <2>8, <3>1
    <3>2. CASE j # k
      <4>1. j \in 1..(k - 1) /\ j \in 1..n
        BY <2>3, <3>2
      <4>2. q[j] <= b /\ q[j] \in Nat
        BY <1>3, <2>7, <4>1, Zenon
      <4>3. \A x, y, z \in Nat : x <= y => x <= y + z
        OBVIOUS
      <4> QED
        BY <4>2, <4>3, Zenon
    <3> QED
      BY <3>1, <3>2
  <2>10. b + c \in Nat
    OBVIOUS
  <2> QED
    BY <2>3, <2>9, <2>10, Zenon
<1>5. bounded(n)
  <2>1. n \in 0..n
    OBVIOUS
  <2> QED
    BY <1>4, <2>1, Zenon
<1> QED
  BY <1>2, <1>5, Zenon

(* Frames of a set of usable regions are finitely many, so counting them   *)
(* gives a natural number.                                                 *)
LEMMA FramesFinite ==
  ASSUME NEW rs \in SUBSET usable_regions
  PROVE  IsFiniteSet(Frames(rs)) /\ Cardinality(Frames(rs)) \in Nat
<1>1. IsFiniteSet(rs)
  BY FS_Subset, RegionsAssumption DEF usable_regions
<1>2. ASSUME NEW i \in rs PROVE IsFiniteSet({i} \X (0..(FramesIn(i) - 1)))
  <2>1. FramesIn(i) - 1 \in Int
    BY RegionsAssumption DEF usable_regions, FramesIn
  <2>2. IsFiniteSet(0..(FramesIn(i) - 1))
    BY <2>1, FS_Interval
  <2>3. IsFiniteSet({i})
    BY FS_Singleton, Zenon
  <2> QED
    BY <2>2, <2>3, FS_Product, Zenon
<1> DEFINE part(i) == {i} \X (0..(FramesIn(i) - 1))
           parts == {part(i) : i \in rs}
<1>3. IsFiniteSet(parts)
  <2> DEFINE f == [i \in rs |-> part(i)]
  <2> HIDE DEF part
  <2>1. f \in Surjection(rs, parts)
    BY DEF Surjection
  <2> QED
    BY <1>1, <2>1, FS_Surjection
<1>4. \A p \in parts : IsFiniteSet(p)
  BY <1>2
<1>5. IsFiniteSet(UNION parts)
  BY <1>3, <1>4, FS_UNION, Zenon
<1> QED
  BY <1>5, FS_CardinalityType DEF Frames

(* FramesBefore is a count, and zero ahead of the first usable region.     *)
LEMMA FramesBeforeType ==
  ASSUME NEW i \in usable_regions
  PROVE  /\ FramesBefore(i) \in Nat
         /\ (~ \E j \in usable_regions : j < i) => FramesBefore(i) = 0
<1>1. FramesBefore(i) \in Nat
  BY FramesFinite DEF FramesBefore
<1>2. ASSUME ~ \E j \in usable_regions : j < i
      PROVE  FramesBefore(i) = 0
  <2>1. {j \in usable_regions : j < i} = {}
    BY <1>2
  <2>2. Frames({}) = {}
    BY DEF Frames
  <2> QED
    BY <2>1, <2>2, FS_EmptySet DEF FramesBefore
<1> QED
  BY <1>1, <1>2

(* The address of an index lies in a region of that index.                 *)
LEMMA AddressInRegion ==
  ASSUME NEW n \in Nat, frame_to_address(n) # NoFrame
  PROVE  \E i \in usable_regions :
            /\ InRegion(frame_to_address(n), i)
            /\ frame_to_address(n) = Regions[i].start + (n - FramesBefore(i))
            /\ FramesBefore(i) \in Nat
            /\ FramesBefore(i) <= n
<1> DEFINE i == CHOOSE i \in RegionsOfIndex(n) : TRUE
<1>1. RegionsOfIndex(n) # {}
  BY DEF frame_to_address
<1>2. i \in RegionsOfIndex(n)
  BY <1>1
<1>3. /\ i \in usable_regions
      /\ FramesBefore(i) <= n
      /\ n < FramesBefore(i) + FramesIn(i)
  BY <1>2 DEF RegionsOfIndex
<1>4. frame_to_address(n) = Regions[i].start + (n - FramesBefore(i))
  BY <1>1 DEF frame_to_address
<1>5. FramesBefore(i) \in Nat
  BY <1>3, FramesBeforeType
<1>6. i \in DOMAIN Regions
  BY <1>3 DEF usable_regions
<1>7. Regions[i].start \in Nat /\ Regions[i].end \in Nat
  BY <1>6, RegionsAssumption
<1> HIDE DEF i
<1>8. InRegion(frame_to_address(n), i)
  BY <1>3, <1>4, <1>5, <1>7 DEF InRegion, FramesIn
<1> QED
  BY <1>3, <1>4, <1>5, <1>8

(* An address lies in one region only.                                     *)
LEMMA RegionUnique ==
  ASSUME NEW a \in Nat, NEW i \in usable_regions, NEW j \in usable_regions,
         InRegion(a, i), InRegion(a, j)
  PROVE  i = j
<1>1. i \in DOMAIN Regions /\ j \in DOMAIN Regions
  BY DEF usable_regions
<1>2. /\ Regions[i].start \in Nat /\ Regions[i].end \in Nat
      /\ Regions[j].start \in Nat /\ Regions[j].end \in Nat
  BY <1>1, RegionsAssumption
<1>3. i # j => \/ Regions[i].end <= Regions[j].start
               \/ Regions[j].end <= Regions[i].start
  BY <1>1, RegionsAssumption
<1> QED
  BY <1>2, <1>3 DEF InRegion

(* Addresses are frame numbers.                                            *)
LEMMA AddressType ==
  ASSUME NEW n \in Nat
  PROVE  frame_to_address(n) \in Nat \cup {NoFrame}
<1> SUFFICES ASSUME frame_to_address(n) # NoFrame
             PROVE  frame_to_address(n) \in Nat
  OBVIOUS
<1>1. PICK i \in usable_regions :
            /\ frame_to_address(n) = Regions[i].start + (n - FramesBefore(i))
            /\ FramesBefore(i) \in Nat
            /\ FramesBefore(i) <= n
  BY AddressInRegion
<1>2. Regions[i].start \in Nat
  BY RegionsAssumption DEF usable_regions
<1> QED
  BY <1>1, <1>2

(* Two indices never share an address.                                     *)
LEMMA AddressInjective ==
  ASSUME NEW m \in Nat, NEW n \in Nat,
         frame_to_address(m) = frame_to_address(n),
         frame_to_address(n) # NoFrame
  PROVE  m = n
<1>1. PICK i \in usable_regions :
            /\ InRegion(frame_to_address(m), i)
            /\ frame_to_address(m) = Regions[i].start + (m - FramesBefore(i))
            /\ FramesBefore(i) \in Nat
            /\ FramesBefore(i) <= m
  BY AddressInRegion
<1>2. PICK j \in usable_regions :
            /\ InRegion(frame_to_address(n), j)
            /\ frame_to_address(n) = Regions[j].start + (n - FramesBefore(j))
            /\ FramesBefore(j) \in Nat
            /\ FramesBefore(j) <= n
  BY AddressInRegion
<1>3. frame_to_address(n) \in Nat
  BY AddressType
<1>4. i = j
  BY <1>1, <1>2, <1>3, RegionUnique
<1>5. Regions[i].start \in Nat
  BY RegionsAssumption DEF usable_regions
<1>6. frame_to_address(n) = Regions[i].start + (n - FramesBefore(i))
  BY <1>2, <1>4
<1>7. Regions[i].start + (m - FramesBefore(i)) = Regions[i].start + (n - FramesBefore(i))
  BY <1>1, <1>6, Zenon
<1> QED
  BY <1>1, <1>5, <1>7

(* When address_to_frame does not panic it inverts frame_to_address.       *)
LEMMA RoundTrip ==
  ASSUME NEW n \in Nat,
         frame_to_address(n) # NoFrame,
         address_to_frame(frame_to_address(n)) # NoFrame
  PROVE  address_to_frame(frame_to_address(n)) = n
<1> DEFINE a == frame_to_address(n)
           hit == {i \in usable_regions :
                     /\ InRegion(a, i)
                     /\ ~ \E j \in usable_regions : j < i}
           k == CHOOSE i \in hit : TRUE
<1>1. hit # {}
  BY DEF address_to_frame
<1>2. k \in hit
  BY <1>1
<1>3. address_to_frame(a) = a - Regions[k].start
  BY <1>1 DEF address_to_frame
<1>4. PICK i \in usable_regions :
            /\ InRegion(a, i)
            /\ a = Regions[i].start + (n - FramesBefore(i))
            /\ FramesBefore(i) \in Nat
            /\ FramesBefore(i) <= n
  BY AddressInRegion
<1>5. a \in Nat
  BY AddressType
<1>6. /\ k \in usable_regions
      /\ InRegion(a, k)
      /\ ~ \E j \in usable_regions : j < k
  BY <1>2
<1> HIDE DEF k, hit, a
<1>7. i = k
  BY <1>4, <1>5, <1>6, RegionUnique
<1>8. FramesBefore(k) = 0
  BY <1>6, FramesBeforeType
<1>9. Regions[k].start \in Nat
  BY <1>6, RegionsAssumption DEF usable_regions
<1>10. address_to_frame(a) = n
  BY <1>3, <1>4, <1>5, <1>7, <1>8, <1>9
<1> QED
  BY <1>10 DEF a

-----------------------------------------------------------------------------
(* Sizes of the bitmap.                                                    *)

(* There is a usable frame.                                                *)
LEMMA TotalFramesType == TotalFrames \in Nat /\ TotalFrames > 0
<1>1. PICK i \in usable_regions : TRUE
  BY RegionsAssumption DEF usable_regions
<1>2. FramesIn(i) \in Nat /\ FramesIn(i) > 0
  BY RegionsAssumption DEF usable_regions, FramesIn
<1>3. <<i, 0>> \in Frames(usable_regions)
  BY <1>2 DEF Frames
<1>4. IsFiniteSet(Frames(usable_regions)) /\ TotalFrames \in Nat
  BY FramesFinite DEF TotalFrames
<1>5. Frames(usable_regions) # {}
  BY <1>3
<1> QED
  BY <1>4, <1>5, FS_EmptySet DEF TotalFrames

(* The bitmap has a bit for every usable frame, and at least two words.    *)
LEMMA BitmapSize ==
  /\ BitsPerFrame \in Nat /\ BitsPerFrame > WordBits
  /\ BitmapFrames \in Nat /\ BitmapFrames >= 1
  /\ BitmapFrames * BitsPerFrame \in Nat
  /\ BitmapFrames * BitsPerFrame >= TotalFrames
  /\ BitmapFrames * BitsPerFrame > WordBits
  /\ BitmapFrames * WordsPerFrame >= 1
<1>1. BitsPerFrame \in Nat /\ BitsPerFrame > WordBits
  BY SizesAssumption DEF BitsPerFrame
<1>2. BitsPerFrame > 0
  BY <1>1, SizesAssumption
<1>3. /\ BitmapFrames \in Nat /\ BitmapFrames >= 1
      /\ BitmapFrames * BitsPerFrame >= TotalFrames
  BY <1>1, <1>2, TotalFramesType, CeilDiv DEF BitmapFrames
<1>4. /\ BitmapFrames * BitsPerFrame \in Nat
      /\ BitmapFrames * BitsPerFrame >= BitsPerFrame
  BY <1>1, <1>3
<1>5. BitmapFrames * WordsPerFrame >= 1
  BY <1>3, SizesAssumption
<1> QED
  BY <1>1, <1>3, <1>4, <1>5, SizesAssumption

(* With a bit of word 0 set, first_free_frame looks at word 0 only: it     *)
(* returns the first clear bit of that word, or the index after it.        *)
LEMMA FirstFreeFrame ==
  ASSUME NEW bm, 0 \in bm
  PROVE  /\ NonzeroWords(bm) # {}
         /\ first_free_frame(bm) \in 0..WordBits
         /\ first_free_frame(bm) \notin bm \/ first_free_frame(bm) = WordBits
         /\ 0..(first_free_frame(bm) - 1) \subseteq bm
<1> DEFINE ws == NonzeroWords(bm)
           i == CHOOSE i \in ws : \A j \in ws : i <= j
<1>1. 0 \in ws
  <2>1. 0 \in 0..(BitmapFrames * WordsPerFrame - 1)
    BY BitmapSize, SizesAssumption
  <2>2. 0 \in Word(0)
    BY SizesAssumption DEF Word
  <2> QED
    BY <2>1, <2>2 DEF NonzeroWords
<1>2. ws \subseteq Nat
  BY DEF NonzeroWords
<1>3. i = 0
  <2>1. \A j \in ws : 0 <= j
    BY <1>2
  <2>2. i \in ws /\ \A j \in ws : i <= j
    BY <1>1, <2>1
  <2> QED
    BY <1>1, <1>2, <2>2
<1>4. first_free_frame(bm) = LeadingOnesEnd(bm, 0)
  BY <1>3, Zenon DEF first_free_frame
<1> DEFINE P(n) == /\ n \notin bm \/ n = WordBits
                   /\ 0..(n - 1) \subseteq bm
<1>5. LeadingOnesEnd(bm, 0) = CHOOSE n \in 0..WordBits : P(n)
  BY SizesAssumption DEF LeadingOnesEnd
<1>6. \E n \in 0..WordBits : P(n)
  <2> DEFINE ends == {n \in 0..WordBits : n \notin bm \/ n = WordBits}
  <2>1. ends \in SUBSET Nat /\ WordBits \in ends
    BY SizesAssumption
  <2>2. PICK n \in ends : \A m \in ends : n <= m
    BY <2>1, LeastNat, Zenon
  <2>3. ASSUME NEW k \in 0..(n - 1) PROVE k \in bm
    BY <2>1, <2>2, SizesAssumption
  <2> QED
    BY <2>2, <2>3
<1> QED
  BY <1>1, <1>4, <1>5, <1>6

-----------------------------------------------------------------------------
(***************************************************************************)
(* The inductive invariant.  NoSharing alone is not inductive: that the    *)
(* frame handed out next has no holder follows from every held frame       *)
(* being marked, and that a freed bit belongs to nobody else from every    *)
(* held frame of the first word having one holder.                         *)
(***************************************************************************)

(* A held frame is the frame of some index up to WordBits, which is marked *)
(* (unless it is the overflow frame) and is not a boot frame.              *)
HeldMarked ==
  \A h \in Handles : held[h] # NoFrame =>
     \E n \in 0..WordBits :
        /\ held[h] = frame_to_address(n)
        /\ n = WordBits \/ (n \in bitmap /\ n >= reserved)

(* The boot frames of the first word stay marked, and there is one.        *)
BootMarked ==
  /\ \A n \in 0..(WordBits - 1) : n < reserved => n \in bitmap
  /\ phase = "running" => reserved >= 1
  /\ phase = "boot" => bitmap = {}

IInv ==
  /\ TypeOK
  /\ BootMarked
  /\ HeldMarked
  /\ OnlyOverflowFrameShared
  /\ NoLostFrame

(* IInv holds initially.                                                   *)
LEMMA InitIInv == Init => IInv
<1> SUFFICES ASSUME Init PROVE IInv
  OBVIOUS
<1> USE DEF Init
<1>1. TypeOK
  BY DEF TypeOK
<1>2. BootMarked
  BY DEF BootMarked
<1>3. HeldMarked /\ OnlyOverflowFrameShared
  BY DEF HeldMarked, OnlyOverflowFrameShared
<1>4. NoLostFrame
  BY DEF NoLostFrame
<1> QED
  BY <1>1, <1>2, <1>3, <1>4 DEF IInv

(* Building the bitmap establishes BootMarked; nothing is held yet because *)
(* nothing was marked before.                                              *)
LEMMA AllocateBitmapStep ==
  ASSUME IInv, NEW tables \in 0..MaxTables, allocate_bitmap(tables)
  PROVE  IInv'
<1> USE DEF IInv
<1>1. \A h \in Handles :
         held[h] = NoFrame \/ held[h] = frame_to_address(WordBits)
  BY DEF HeldMarked, BootMarked, allocate_bitmap
<1>2. CASE BitmapFrames + tables <= TotalFrames /\ is_contiguous
  <2>1. /\ reserved' = BitmapFrames + tables
        /\ bitmap' = 0..(BitmapFrames + tables - 1)
        /\ phase' = "running"
        /\ held' = held
    BY <1>2 DEF allocate_bitmap
  <2>2. BitmapFrames + tables \in Nat /\ BitmapFrames + tables >= 1
    BY BitmapSize, SizesAssumption
  <2>3. TypeOK'
    BY <1>2, <2>1, <2>2, BitmapSize, TotalFramesType DEF TypeOK
  <2>4. BootMarked'
    <3>1. \A n \in 0..(WordBits - 1) : n < reserved' => n \in bitmap'
      BY <2>1, <2>2, BitmapSize
    <3> QED
      BY <2>1, <2>2, <3>1 DEF BootMarked
  <2>5. HeldMarked'
    BY <1>1, <2>1, SizesAssumption DEF HeldMarked
  <2>6. OnlyOverflowFrameShared'
    BY <2>1 DEF OnlyOverflowFrameShared
  <2>7. NoLostFrame'
    <3>1. \A n \in 0..(WordBits - 1) : n \in bitmap' => n < reserved'
      BY <2>1, <2>2, BitmapSize
    <3> QED
      BY <3>1 DEF NoLostFrame
  <2> QED
    BY <2>3, <2>4, <2>5, <2>6, <2>7
<1>3. CASE ~ (BitmapFrames + tables <= TotalFrames /\ is_contiguous)
  <2>1. /\ phase' = "panicked"
        /\ UNCHANGED <<bitmap, reserved, held>>
    BY <1>3 DEF allocate_bitmap, Panic
  <2> QED
    BY <2>1 DEF TypeOK, BootMarked, HeldMarked, OnlyOverflowFrameShared,
                NoLostFrame
<1> QED
  BY <1>2, <1>3

(* The frame handed out is unmarked, so nobody holds it, or it is the      *)
(* overflow frame.                                                         *)
LEMMA AllocateFrameStep ==
  ASSUME IInv, NEW h \in Handles, allocate_frame(h)
  PROVE  IInv'
<1> USE DEF IInv
<1> DEFINE frame == first_free_frame(bitmap)
<1>1. 0 \in bitmap
  BY SizesAssumption DEF BootMarked, TypeOK, allocate_frame
<1>2. /\ NonzeroWords(bitmap) # {}
      /\ frame \in 0..WordBits
      /\ frame \notin bitmap \/ frame = WordBits
  BY <1>1, FirstFreeFrame
<1>3. /\ bitmap' = bitmap \cup {frame}
      /\ held' = [held EXCEPT ![h] = frame_to_address(frame)]
      /\ held[h] = NoFrame
      /\ UNCHANGED <<reserved, phase>>
  BY <1>2 DEF allocate_frame, mark_frame_used
<1> HIDE DEF frame
<1>4. frame \in Nat
  BY <1>2, SizesAssumption
<1>5. TypeOK'
  <2>1. frame \in 0..(BitmapFrames * BitsPerFrame - 1)
    BY <1>2, <1>4, BitmapSize, SizesAssumption
  <2>2. frame_to_address(frame) \in Nat \cup {NoFrame}
    BY <1>4, AddressType
  <2>3. ASSUME NEW g \in Handles, held'[g] # NoFrame
        PROVE  \E i \in usable_regions : InRegion(held'[g], i)
    <3>1. CASE g = h
      <4>1. held'[g] = frame_to_address(frame)
        BY <1>3, <3>1 DEF TypeOK
      <4> QED
        BY <1>4, <2>3, <4>1, AddressInRegion
    <3>2. CASE g # h
      BY <1>3, <2>3, <3>2 DEF TypeOK
    <3> QED
      BY <3>1, <3>2
  <2> QED
    BY <1>3, <2>1, <2>2, <2>3 DEF TypeOK
<1>6. BootMarked'
  <2>1. phase = "running"
    BY DEF allocate_frame
  <2> QED
    BY <1>3, <2>1 DEF BootMarked
<1>7. frame = WordBits \/ frame >= reserved
  BY <1>2, <1>4, SizesAssumption DEF BootMarked, TypeOK
<1>8. HeldMarked'
  <2> SUFFICES ASSUME NEW g \in Handles, held'[g] # NoFrame
               PROVE  \E n \in 0..WordBits :
                         /\ held'[g] = frame_to_address(n)
                         /\ n = WordBits \/ (n \in bitmap' /\ n >= reserved')
    BY DEF HeldMarked
  <2>1. CASE g = h
    <3>1. held'[g] = frame_to_address(frame)
      BY <1>3, <2>1 DEF TypeOK
    <3> QED
      BY <1>2, <1>3, <1>7, <3>1
  <2>2. CASE g # h
    <3>1. held'[g] = held[g]
      BY <1>3, <2>2 DEF TypeOK
    <3>2. PICK n \in 0..WordBits :
             /\ held[g] = frame_to_address(n)
             /\ n = WordBits \/ (n \in bitmap /\ n >= reserved)
      BY <3>1 DEF HeldMarked
    <3> QED
      BY <1>3, <3>1, <3>2
  <2> QED
    BY <2>1, <2>2
<1>9. ASSUME NEW g \in Handles, g # h,
             held[g] = frame_to_address(frame), held[g] # NoFrame
      PROVE  frame = WordBits
  <2>1. PICK n \in 0..WordBits :
           /\ held[g] = frame_to_address(n)
           /\ n = WordBits \/ n \in bitmap
    BY <1>9 DEF HeldMarked
  <2>2. n \in Nat /\ frame_to_address(n) = frame_to_address(frame)
    BY <1>9, <2>1, SizesAssumption
  <2>3. n = frame
    BY <1>4, <1>9, <2>2, AddressInjective
  <2> QED
    BY <1>2, <2>1, <2>3
<1>10. OnlyOverflowFrameShared'
  BY <1>3, <1>9 DEF OnlyOverflowFrameShared, TypeOK
<1>11. NoLostFrame'
  <2> SUFFICES ASSUME NEW n \in 0..(WordBits - 1),
                      n \in bitmap', frame_to_address(n) # NoFrame
               PROVE  \/ n < reserved'
                      \/ \E g \in Handles : held'[g] = frame_to_address(n)
    BY DEF NoLostFrame
  <2>1. CASE n = frame
    BY <1>3, <2>1 DEF TypeOK
  <2>2. CASE n # frame
    <3>1. n < reserved \/ \E g \in Handles : held[g] = frame_to_address(n)
      BY <1>3, <2>2 DEF NoLostFrame
    <3> QED
      BY <1>3, <3>1 DEF TypeOK
  <2> QED
    BY <2>1, <2>2
<1> QED
  BY <1>5, <1>6, <1>8, <1>10, <1>11

(* The bit that is cleared is the one of the frame given back: anybody     *)
(* else who holds that frame holds the overflow frame.                     *)
LEMMA DeallocateFrameStep ==
  ASSUME IInv, NEW h \in Handles, deallocate_frame(h)
  PROVE  IInv'
<1> USE DEF IInv
<1> DEFINE frame == address_to_frame(held[h])
<1>1. CASE frame = NoFrame
  <2>1. phase' = "panicked" /\ UNCHANGED <<bitmap, held, reserved>>
    BY <1>1 DEF deallocate_frame, Panic
  <2> QED
    BY <2>1 DEF TypeOK, BootMarked, HeldMarked, OnlyOverflowFrameShared,
                NoLostFrame
<1>2. CASE frame # NoFrame
  <2>1. /\ bitmap' = bitmap \ {frame}
        /\ held' = [held EXCEPT ![h] = NoFrame]
        /\ held[h] # NoFrame
        /\ phase = "running"
        /\ UNCHANGED <<phase, reserved>>
    BY <1>2 DEF deallocate_frame, mark_frame_free
  <2>2. PICK k \in 0..WordBits :
           /\ held[h] = frame_to_address(k)
           /\ k = WordBits \/ (k \in bitmap /\ k >= reserved)
    BY <2>1 DEF HeldMarked
  <2>3. k \in Nat
    BY SizesAssumption
  <2>4. frame = k
    BY <1>2, <2>1, <2>2, <2>3, RoundTrip
  <2> HIDE DEF frame
  <2>5. TypeOK'
    <3>1. \A g \in Handles : held'[g] # NoFrame => held'[g] = held[g]
      BY <2>1 DEF TypeOK
    <3>2. /\ bitmap' \subseteq 0..(BitmapFrames * BitsPerFrame - 1)
          /\ held' \in [Handles -> Nat \cup {NoFrame}]
      BY <2>1, Zenon DEF TypeOK
    <3> QED
      BY <2>1, <3>1, <3>2, Zenon DEF TypeOK
  <2>6. BootMarked'
    BY <2>1, <2>2, <2>3, <2>4, SizesAssumption DEF BootMarked, TypeOK
  <2>7. ASSUME NEW n \in Nat, frame_to_address(n) = held[h]
        PROVE  n = k
    BY <2>1, <2>2, <2>3, <2>7, AddressInjective
  <2>8. HeldMarked'
    <3> SUFFICES ASSUME NEW g \in Handles, held'[g] # NoFrame
                 PROVE  \E n \in 0..WordBits :
                           /\ held'[g] = frame_to_address(n)
                           /\ n = WordBits \/ (n \in bitmap' /\ n >= reserved')
      BY DEF HeldMarked
    <3>1. g # h /\ held'[g] = held[g]
      BY <2>1 DEF TypeOK
    <3>2. PICK n \in 0..WordBits :
             /\ held[g] = frame_to_address(n)
             /\ n = WordBits \/ (n \in bitmap /\ n >= reserved)
      BY <3>1 DEF HeldMarked
    <3>3. n = k => n = WordBits
      <4> SUFFICES ASSUME n = k PROVE n = WordBits
        OBVIOUS
      <4>1. held[g] = frame_to_address(WordBits)
        BY <2>1, <2>2, <3>1, <3>2 DEF OnlyOverflowFrameShared
      <4>2. n \in Nat /\ WordBits \in Nat
        BY SizesAssumption
      <4>3. frame_to_address(n) # NoFrame
        BY <2>1, <2>2, <3>2
      <4> QED
        BY <3>2, <4>1, <4>2, <4>3, AddressInjective, Zenon
    <3> QED
      BY <2>1, <2>4, <3>1, <3>2, <3>3
  <2>9. OnlyOverflowFrameShared'
    BY <2>1 DEF OnlyOverflowFrameShared, TypeOK
  <2>10. NoLostFrame'
    <3> SUFFICES ASSUME NEW n \in 0..(WordBits - 1),
                        n \in bitmap', frame_to_address(n) # NoFrame
                 PROVE  \/ n < reserved'
                        \/ \E g \in Handles : held'[g] = frame_to_address(n)
      BY DEF NoLostFrame
    <3>1. n \in bitmap /\ n # k /\ n \in Nat
      BY <2>1, <2>4, SizesAssumption
    <3>2. CASE n < reserved
      BY <2>1, <3>2
    <3>3. CASE \E g \in Handles : held[g] = frame_to_address(n)
      <4>1. PICK g \in Handles : held[g] = frame_to_address(n)
        BY <3>3
      <4>2. g # h
        BY <2>7, <3>1, <4>1
      <4> QED
        BY <2>1, <4>1, <4>2 DEF TypeOK
    <3> QED
      BY <3>1, <3>2, <3>3 DEF NoLostFrame
  <2> QED
    BY <2>5, <2>6, <2>8, <2>9, <2>10
<1> QED
  BY <1>1, <1>2

(* Every step preserves IInv.                                              *)
LEMMA NextIInv == IInv /\ [Next]_vars => IInv'
<1> SUFFICES ASSUME IInv, [Next]_vars PROVE IInv'
  OBVIOUS
<1>1. CASE \E tables \in 0..MaxTables : allocate_bitmap(tables)
  BY <1>1, AllocateBitmapStep
<1>2. CASE \E h \in Handles : allocate_frame(h)
  BY <1>2, AllocateFrameStep
<1>3. CASE \E h \in Handles : deallocate_frame(h)
  BY <1>3, DeallocateFrameStep
<1>4. CASE Halted \/ UNCHANGED vars
  <2>1. UNCHANGED <<bitmap, reserved, held, phase>>
    BY <1>4 DEF Halted, vars
  <2> QED
    BY <2>1 DEF IInv, TypeOK, BootMarked, HeldMarked,
                OnlyOverflowFrameShared, NoLostFrame
<1> QED
  BY <1>1, <1>2, <1>3, <1>4 DEF Next

(* The inductive invariant holds in every reachable state.                 *)
THEOREM Invariance == Spec => []IInv
BY InitIInv, NextIInv, PTL DEF Spec

(* The state is well typed in every reachable state, for every memory map: *)
(* in particular no bit outside the bitmap slice is ever touched.          *)
THEOREM TypeCorrect == Spec => []TypeOK
<1>1. IInv => TypeOK
  BY DEF IInv
<1> QED
  BY <1>1, Invariance, PTL

(* For every memory map and word size, allocate_frame gives a frame to two *)
(* holders only if it is the frame after the first bitmap word.            *)
THEOREM Exclusion == Spec => []OnlyOverflowFrameShared
<1>1. IInv => OnlyOverflowFrameShared
  BY DEF IInv
<1> QED
  BY <1>1, Invariance, PTL

(* deallocate_frame makes every frame of the first word available again:   *)
(* no frame of it stays marked without a holder.                           *)
THEOREM FramesNotLost == Spec => []NoLostFrame
<1>1. IInv => NoLostFrame
  BY DEF IInv
<1> QED
  BY <1>1, Invariance, PTL

(* The frames of the bitmap and its page tables are never handed out, save *)
(* the frame after the first bitmap word.                                  *)
THEOREM BootFramesSafe == Spec => []BootFramesNeverHandedOut
<1>1. IInv => BootFramesNeverHandedOut
  <2> SUFFICES ASSUME IInv, NEW h \in Handles, held[h] # NoFrame,
                      NEW n \in 0..(reserved - 1), frame_to_address(n) = held[h]
               PROVE  held[h] = frame_to_address(WordBits)
    BY DEF BootFramesNeverHandedOut, BootFrame
  <2>1. PICK k \in 0..WordBits :
           /\ held[h] = frame_to_address(k)
           /\ k = WordBits \/ (k \in bitmap /\ k >= reserved)
    BY DEF IInv, HeldMarked
  <2>2. n \in Nat /\ k \in Nat /\ reserved \in Nat
    BY SizesAssumption DEF IInv, TypeOK
  <2>3. n = k
    BY <2>1, <2>2, AddressInjective
  <2> QED
    BY <2>1, <2>2, <2>3
<1> QED
  BY <1>1, Invariance, PTL

(* A frame that was handed out lies in a usable region, and if             *)
(* address_to_frame does not find it there is a usable region before that. *)
LEMMA NotFoundIsLater ==
  ASSUME IInv, NEW h \in Handles, held[h] # NoFrame,
         address_to_frame(held[h]) = NoFrame
  PROVE  \E i, j \in usable_regions : InRegion(held[h], i) /\ j < i
<1> DEFINE hit == {i \in usable_regions :
                     /\ InRegion(held[h], i)
                     /\ ~ \E j \in usable_regions : j < i}
<1>1. PICK k \in 0..WordBits : held[h] = frame_to_address(k)
  BY DEF IInv, HeldMarked
<1>2. k \in Nat
  BY SizesAssumption
<1>3. PICK i \in usable_regions : InRegion(held[h], i)
  BY <1>1, <1>2, AddressInRegion
<1>4. held[h] \in Nat
  BY DEF IInv, TypeOK
<1>5. hit = {}
  <2> SUFFICES ASSUME hit # {} PROVE FALSE
    OBVIOUS
  <2>1. (CHOOSE r \in hit : TRUE) \in hit
    OBVIOUS
  <2>2. PICK r \in hit : address_to_frame(held[h]) = held[h] - Regions[r].start
    BY <2>1, Zenon DEF address_to_frame
  <2>3. Regions[r].start \in Nat /\ Regions[r].start <= held[h]
    BY <2>2, RegionsAssumption DEF InRegion, usable_regions
  <2>4. held[h] - Regions[r].start \in Nat
    BY <1>4, <2>3
  <2> QED
    BY <2>2, <2>4, SizesAssumption
<1> QED
  BY <1>3, <1>5

(* For every memory map, deallocate_frame succeeds for every frame of the  *)
(* first usable region: it panics only if the frame it is given lies past  *)
(* that region, and no other call of a running allocator panics.           *)
THEOREM FirstRegionFreeable == Spec => PanicsOnlyPastFirstRegion
<1> DEFINE A == phase = "running" /\ phase' = "panicked"
                  => /\ \E h \in Handles : deallocate_frame(h)
                     /\ \A h \in Handles :
                          deallocate_frame(h)
                            => \E i, j \in usable_regions :
                                  InRegion(held[h], i) /\ j < i
<1>1. IInv /\ [Next]_vars => [A]_vars
  <2> SUFFICES ASSUME IInv, Next, phase = "running", phase' = "panicked"
               PROVE  /\ \E h \in Handles : deallocate_frame(h)
                      /\ \A h \in Handles :
                           deallocate_frame(h)
                             => \E i, j \in usable_regions :
                                   InRegion(held[h], i) /\ j < i
    OBVIOUS
  <2>1. \E h \in Handles : deallocate_frame(h)
    BY DEF Next, allocate_bitmap, allocate_frame, Halted
  <2>2. ASSUME NEW h \in Handles, deallocate_frame(h)
        PROVE  \E i, j \in usable_regions : InRegion(held[h], i) /\ j < i
    <3>1. held[h] # NoFrame /\ address_to_frame(held[h]) = NoFrame
      BY <2>2 DEF deallocate_frame
    <3> QED
      BY <3>1, NotFoundIsLater
  <2> QED
    BY <2>1, <2>2
<1> QED
  BY <1>1, Invariance, PTL DEF Spec, PanicsOnlyPastFirstRegion

-----------------------------------------------------------------------------
(* The number of usable frames: when allocate_frame returns None.          *)

(* The frames of the regions up to i are those before it and its own.      *)
LEMMA FramesThrough ==
  ASSUME NEW i \in usable_regions
  PROVE  /\ FramesIn(i) \in Nat
         /\ Cardinality(Frames({j \in usable_regions : j <= i}))
              = FramesBefore(i) + FramesIn(i)
<1> DEFINE before == {j \in usable_regions : j < i}
<1>1. i \in Nat /\ FramesIn(i) \in Nat /\ usable_regions \subseteq Nat
  BY RegionsAssumption DEF usable_regions, FramesIn
<1>2. /\ IsFiniteSet(Frames(before)) /\ Cardinality(Frames(before)) \in Nat
      /\ IsFiniteSet(Frames({i})) /\ Cardinality(Frames({i})) \in Nat
  BY FramesFinite
<1>3. Cardinality(Frames({i})) = FramesIn(i)
  <2>1. Frames({i}) = {i} \X (0..(FramesIn(i) - 1))
    BY DEF Frames
  <2>2. IsFiniteSet({i}) /\ Cardinality({i}) = 1
    BY FS_Singleton, Zenon
  <2>3. 0 \in Int /\ FramesIn(i) - 1 \in Int
    BY <1>1
  <2>4. /\ IsFiniteSet(0..(FramesIn(i) - 1))
        /\ Cardinality(0..(FramesIn(i) - 1))
             = IF 0 > FramesIn(i) - 1 THEN 0 ELSE FramesIn(i) - 1 - 0 + 1
    BY <2>3, FS_Interval, SMTT(30)
  <2>5. Cardinality(0..(FramesIn(i) - 1)) = FramesIn(i)
    BY <1>1, <2>4
  <2>6. Cardinality({i} \X (0..(FramesIn(i) - 1)))
          = Cardinality({i}) * Cardinality(0..(FramesIn(i) - 1))
    BY <2>2, <2>4, FS_Product, Zenon
  <2>7. 1 * FramesIn(i) = FramesIn(i)
    BY <1>1
  <2> QED
    BY <2>1, <2>2, <2>5, <2>6, <2>7, Zenon
<1>4. Frames(before) \cap Frames({i}) = {}
  BY <1>1 DEF Frames
<1>5. Cardinality(Frames(before) \cup Frames({i}))
        = FramesBefore(i) + FramesIn(i)
  <2>1. Cardinality(Frames(before) \cap Frames({i})) = 0
    BY <1>4, FS_EmptySet, Zenon
  <2>2. Cardinality(Frames(before) \cup Frames({i}))
          = Cardinality(Frames(before)) + Cardinality(Frames({i}))
              - Cardinality(Frames(before) \cap Frames({i}))
    BY <1>2, FS_Union, Zenon
  <2> QED
    BY <1>1, <1>2, <1>3, <2>1, <2>2 DEF FramesBefore
<1>6. {j \in usable_regions : j <= i} = before \cup {i}
  <2>1. \A j \in usable_regions : j <= i <=> j < i \/ j = i
    BY <1>1
  <2> QED
    BY <2>1, Zenon
<1>7. Frames(before \cup {i}) = Frames(before) \cup Frames({i})
  BY DEF Frames
<1> QED
  BY <1>1, <1>5, <1>6, <1>7, Zenon

(* Every index below the number of usable frames has one: the regions      *)
(* follow each other without a gap.                                        *)
LEMMA AddressBelowTotal ==
  ASSUME NEW n \in Nat, n < TotalFrames
  PROVE  frame_to_address(n) # NoFrame
<1> DEFINE begun == {i \in usable_regions : FramesBefore(i) <= n}
<1>1. usable_regions \in SUBSET Nat /\ IsFiniteSet(usable_regions)
  BY RegionsAssumption, FS_Subset DEF usable_regions
<1>2. begun # {}
  <2>1. usable_regions # {}
    BY RegionsAssumption DEF usable_regions
  <2>2. PICK i \in usable_regions : \A j \in usable_regions : i <= j
    BY <1>1, <2>1, LeastNat, Zenon
  <2>3. ~ \E j \in usable_regions : j < i
    BY <1>1, <2>2
  <2>4. FramesBefore(i) = 0
    BY <2>3, FramesBeforeType
  <2> QED
    BY <2>4
<1>3. PICK i \in begun : \A j \in begun : j <= i
  <2>1. PICK b \in Nat : \A j \in usable_regions : j <= b
    BY <1>1, FiniteBound, Zenon
  <2>2. begun \in SUBSET Nat /\ \A j \in begun : j <= b
    BY <1>1, <2>1, Zenon
  <2> HIDE DEF begun
  <2> QED
    BY <1>2, <2>2, GreatestNat, Zenon
<1> DEFINE upto == {j \in usable_regions : j <= i}
<1>4. /\ i \in usable_regions /\ i \in Nat /\ FramesBefore(i) \in Nat
      /\ FramesBefore(i) <= n /\ FramesIn(i) \in Nat
      /\ Cardinality(Frames(upto)) = FramesBefore(i) + FramesIn(i)
  BY <1>1, <1>3, FramesThrough, FramesBeforeType
<1>5. n < FramesBefore(i) + FramesIn(i)
  <2> DEFINE after == {j \in usable_regions : i < j}
  <2>1. CASE after = {}
    <3>1. upto = usable_regions
      <4>1. \A j \in usable_regions : j <= i
        BY <1>1, <1>4, <2>1
      <4> QED
        BY <4>1, Zenon
    <3> QED
      BY <1>4, <3>1, Zenon DEF TotalFrames
  <2>2. CASE after # {}
    <3>1. PICK k \in after : \A j \in after : k <= j
      BY <1>1, <2>2, LeastNat, Zenon
    <3>2. {j \in usable_regions : j < k} = upto
      <4>1. \A j \in usable_regions : j < k <=> j <= i
        BY <1>1, <1>4, <3>1
      <4> QED
        BY <4>1, Zenon
    <3>3. FramesBefore(k) = FramesBefore(i) + FramesIn(i)
      BY <1>4, <3>2, Zenon DEF FramesBefore
    <3>4. k \in usable_regions /\ k \in Nat /\ i < k /\ k \notin begun
      BY <1>1, <1>3, <1>4, <3>1
    <3> QED
      BY <1>4, <3>3, <3>4
  <2> QED
    BY <2>1, <2>2
<1>6. RegionsOfIndex(n) # {}
  BY <1>4, <1>5 DEF RegionsOfIndex
<1>7. PICK r \in usable_regions :
         frame_to_address(n) = Regions[r].start + (n - FramesBefore(r))
         /\ FramesBefore(r) <= n
  <2>1. (CHOOSE r \in RegionsOfIndex(n) : TRUE) \in RegionsOfIndex(n)
    BY <1>6
  <2> QED
    BY <1>6, <2>1, Zenon DEF frame_to_address, RegionsOfIndex
<1>8. Regions[r].start \in Nat /\ FramesBefore(r) \in Nat
  BY FramesBeforeType, RegionsAssumption DEF usable_regions
<1>9. frame_to_address(n) \in Nat
  BY <1>7, <1>8
<1> QED
  BY <1>9, SizesAssumption

(* allocate_frame returns None only if the bits of all frames are set.     *)
LEMMA NoneStep ==
  ASSUME IInv, NEW h \in Handles, allocate_frame(h), held'[h] = NoFrame
  PROVE  0..(TotalFrames - 1) \subseteq bitmap
<1> DEFINE frame == first_free_frame(bitmap)
<1>1. 0 \in bitmap
  BY SizesAssumption DEF IInv, BootMarked, TypeOK, allocate_frame
<1>2. /\ NonzeroWords(bitmap) # {}
      /\ frame \in 0..WordBits /\ 0..(frame - 1) \subseteq bitmap
  BY <1>1, FirstFreeFrame
<1>3. held' = [held EXCEPT ![h] = frame_to_address(frame)]
  BY <1>2 DEF allocate_frame
<1> HIDE DEF frame
<1>4. frame \in Nat /\ frame_to_address(frame) = NoFrame
  BY <1>2, <1>3, SizesAssumption DEF IInv, TypeOK
<1>5. frame >= TotalFrames
  BY <1>4, AddressBelowTotal, TotalFramesType
<1> QED
  BY <1>2, <1>4, <1>5, TotalFramesType

(* For every memory map, allocate_frame returns None only when all usable  *)
(* frames are in use, although it marks bits past the last of them.        *)
THEOREM NoneMeansFull == Spec => NoneOnlyWhenFull
<1>1. IInv /\ [Next]_vars =>
        [\A h \in Handles : allocate_frame(h) /\ held'[h] = NoFrame
           => 0..(TotalFrames - 1) \subseteq bitmap]_vars
  BY NoneStep
<1> QED
  BY <1>1, Invariance, PTL DEF Spec, NoneOnlyWhenFull

-----------------------------------------------------------------------------
(* When frames begin to be shared.                                         *)

(* A frame that is handed out while the first word has a clear bit is that *)
(* of a clear bit, and neither a boot frame nor held by anybody.           *)
LEMMA FreshStep ==
  ASSUME IInv, NEW h \in Handles, allocate_frame(h), ~ (Word(0) \subseteq bitmap),
         held'[h] # NoFrame
  PROVE  /\ ~ BootFrame(held'[h])
         /\ \A g \in Handles : held[g] # held'[h]
<1> DEFINE frame == first_free_frame(bitmap)
<1>1. 0 \in bitmap
  BY SizesAssumption DEF IInv, BootMarked, TypeOK, allocate_frame
<1>2. /\ NonzeroWords(bitmap) # {} /\ frame \in 0..WordBits
      /\ frame \notin bitmap \/ frame = WordBits
      /\ 0..(frame - 1) \subseteq bitmap
  BY <1>1, FirstFreeFrame
<1>3. held' = [held EXCEPT ![h] = frame_to_address(frame)]
  BY <1>2 DEF allocate_frame
<1> HIDE DEF frame
<1>4. /\ frame \in Nat /\ frame < WordBits /\ frame \notin bitmap
      /\ WordBits \in Nat
  BY <1>2, SizesAssumption DEF Word
<1>5. held'[h] = frame_to_address(frame)
  BY <1>3 DEF IInv, TypeOK
<1>6. ASSUME NEW n \in Nat, frame_to_address(n) = held'[h] PROVE n = frame
  BY <1>4, <1>5, <1>6, AddressInjective
<1>7. ~ BootFrame(held'[h])
  <2>1. reserved \in Nat
    BY DEF IInv, TypeOK
  <2>2. SUFFICES ASSUME NEW n \in 0..(reserved - 1), frame_to_address(n) = held'[h]
                 PROVE  FALSE
    BY DEF BootFrame
  <2>3. n = frame
    BY <1>6, <2>1, <2>2
  <2> QED
    BY <1>4, <2>1, <2>3 DEF IInv, BootMarked
<1>8. ASSUME NEW g \in Handles, held[g] = held'[h] PROVE FALSE
  <2>1. PICK n \in 0..WordBits :
           held[g] = frame_to_address(n) /\ (n = WordBits \/ n \in bitmap)
    BY <1>8 DEF IInv, HeldMarked
  <2>2. n = frame
    BY <1>4, <1>6, <1>8, <2>1
  <2> QED
    BY <1>4, <2>1, <2>2
<1> QED
  BY <1>7, <1>8

(* A frame that allocate_frame hands out while one of the frames of the    *)
(* first bitmap word is free has no holder, and is not one of the frames   *)
(* that hold the bitmap and its page tables.                               *)
FreshWhileOpen ==
  \A h \in Handles :
     allocate_frame(h) /\ ~ (Word(0) \subseteq bitmap) /\ held'[h] # NoFrame
       => ~ BootFrame(held'[h]) /\ \A g \in Handles : held[g] # held'[h]

(* For every memory map, allocate_frame gives no frame a second holder     *)
(* until every frame of the first bitmap word is in use.                   *)
THEOREM FreshWhileWordOpen == Spec => [][FreshWhileOpen]_vars
<1>1. IInv /\ [Next]_vars => [FreshWhileOpen]_vars
  <2> SUFFICES ASSUME IInv PROVE FreshWhileOpen
    OBVIOUS
  <2> QED
    BY FreshStep DEF FreshWhileOpen
<1> QED
  BY <1>1, Invariance, PTL DEF Spec
=============================================================================
