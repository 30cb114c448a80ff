--------------------------- MODULE FrameAllocator ---------------------------
(***************************************************************************)
(* The physical frame allocator: kernel/src/memory/frame/mod.rs            *)
(* (BitmapFrameAllocator) and kernel/src/memory/frame/boot.rs              *)
(* (BootFrameAllocator, which bootstraps it).                              *)
(*                                                                         *)
(* Addresses are frame numbers (physical address / 4096); a frame INDEX is *)
(* the position of a frame in the concatenation of the usable regions,     *)
(* which is what the bitmap is indexed by.  Words are read from their most *)
(* significant bit, so bit b of word i (from the left) is frame i*64 + b   *)
(* and word.leading_ones() counts the used frames at its start.            *)
(***************************************************************************)
EXTENDS Naturals, FiniteSets

CONSTANTS
  Regions,       \* MemoryRegions of the boot info, in its order
  WordBits,      \* bits of a bitmap word (64: the bitmap is a [u64])
  WordsPerFrame, \* words in one frame of bitmap (4096 / size_of::<u64>())
  MaxTables,     \* page-table frames map_to may take to map the bitmap
  Handles,       \* places that can hold an allocated frame
  NoFrame        \* Option::None

(* The bootloader reports disjoint, page-aligned, non-empty regions        *)
(* (allocate_frame expects "All frame address are page aligned").          *)
ASSUME RegionsAssumption ==
  /\ DOMAIN Regions \subseteq Nat /\ IsFiniteSet(DOMAIN Regions)
  /\ \A i \in DOMAIN Regions :
        /\ Regions[i].kind \in {"Usable", "Reserved"}
        /\ Regions[i].start \in Nat
        /\ Regions[i].end \in Nat
        /\ Regions[i].start < Regions[i].end
  /\ \A i, j \in DOMAIN Regions :
        i # j => \/ Regions[i].end <= Regions[j].start
                 \/ Regions[j].end <= Regions[i].start
  /\ \E i \in DOMAIN Regions : Regions[i].kind = "Usable"

ASSUME SizesAssumption ==
  /\ WordBits \in Nat \ {0}
  /\ WordsPerFrame \in Nat
  /\ WordsPerFrame >= 2
  /\ MaxTables \in Nat
  /\ NoFrame \notin Nat

VARIABLES
  bitmap,    \* indices whose bit is set
  reserved,  \* frames the boot allocator has used (BootFrameAllocator.next)
  held,      \* held[h]: the frame number kept at h, or NoFrame
  phase      \* "boot", "running" or "panicked"

vars == <<bitmap, reserved, held, phase>>

-----------------------------------------------------------------------------
(* Indices and addresses.                                                  *)

usable_regions == {i \in DOMAIN Regions : Regions[i].kind = "Usable"}

FramesIn(i) == Regions[i].end - Regions[i].start

(* Frames of a set of regions, as <<region, offset>> pairs.                *)
Frames(rs) == UNION {{i} \X (0..(FramesIn(i) - 1)) : i \in rs}

FramesBefore(i) == Cardinality(Frames({j \in usable_regions : j < i}))

TotalFrames == Cardinality(Frames(usable_regions))

(* The loop returns from the region that holds the index, after it has     *)
(* subtracted the frames of the regions before it.                         *)
RegionsOfIndex(frame) ==
  {i \in usable_regions : /\ FramesBefore(i) <= frame
                          /\ frame < FramesBefore(i) + FramesIn(i)}

frame_to_address(frame) ==
  IF RegionsOfIndex(frame) = {}
  THEN NoFrame
  ELSE LET i == CHOOSE i \in RegionsOfIndex(frame) : TRUE
       IN  Regions[i].start + (frame - FramesBefore(i))

InRegion(addr, i) == Regions[i].start <= addr /\ addr < Regions[i].end

(* Mutant: the last frame of the region is not looked up.                  *)
address_to_frame_short(addr) ==
  LET hit == {i \in usable_regions :
                /\ InRegion(addr + 1, i)
                /\ ~ \E j \in usable_regions : j < i}
  IN  IF hit = {}
      THEN NoFrame
      ELSE addr - Regions[CHOOSE i \in hit : TRUE].start

(* For every usable region ahead of the one that holds addr the loop adds  *)
(* (region.start - region.end) / 4096, a u64 subtraction below zero: it    *)
(* panics with overflow checks on, and without them gives an index near    *)
(* 2^52, which panics when it indexes the bitmap.  None is the panic.      *)
address_to_frame(addr) ==
  LET hit == {i \in usable_regions :
                /\ InRegion(addr, i)
                /\ ~ \E j \in usable_regions : j < i}
  IN  IF hit = {}
      THEN NoFrame
      ELSE addr - Regions[CHOOSE i \in hit : TRUE].start

-----------------------------------------------------------------------------
(* The bitmap.                                                             *)

BitsPerFrame == WordsPerFrame * WordBits

(* required_bitmap_size().div_ceil(4096).                                  *)
BitmapFrames == (TotalFrames + BitsPerFrame - 1) \div BitsPerFrame

Word(i) == (i * WordBits)..(i * WordBits + WordBits - 1)

(* The words that pass the test `*word != 0`.                              *)
NonzeroWords(bm) ==
  {i \in 0..(BitmapFrames * WordsPerFrame - 1) : Word(i) \cap bm # {}}

(* i * 64 + word.leading_ones(): the first index at or after the word's    *)
(* start whose bit is clear, or the start of the next word.                *)
LeadingOnesEnd(bm, i) ==
  CHOOSE n \in (i * WordBits)..((i + 1) * WordBits) :
    /\ n \notin bm \/ n = (i + 1) * WordBits
    /\ (i * WordBits)..(n - 1) \subseteq bm

(* Mutants of first_free_frame: it reuses the last bit of a full word, or  *)
(* returns the bit after the last used one (64 - trailing_zeros).          *)
first_free_frame_last_bit(bm) ==
  LET i == CHOOSE i \in NonzeroWords(bm) : \A j \in NonzeroWords(bm) : i <= j
      n == LeadingOnesEnd(bm, i)
  IN  IF n = WordBits THEN WordBits - 1 ELSE n

first_free_frame_after_last(bm) ==
  LET i == CHOOSE i \in NonzeroWords(bm) : \A j \in NonzeroWords(bm) : i <= j
      used == Word(i) \cap bm
  IN  1 + CHOOSE n \in used : \A m \in used : m <= n

first_free_frame(bm) ==
  LET i == CHOOSE i \in NonzeroWords(bm) : \A j \in NonzeroWords(bm) : i <= j
  IN  LeadingOnesEnd(bm, i)

(* Mutant: the index of a word instead of that of a bit.                   *)
mark_frame_used_word(bm, frame) == bm \cup {frame * WordBits}

mark_frame_used(bm, frame) == bm \cup {frame}

(* Mutant: the bit stays set.                                              *)
mark_frame_free_keeps(bm, frame) == bm

mark_frame_free(bm, frame) == bm \ {frame}

-----------------------------------------------------------------------------
Init ==
  /\ bitmap = {}
  /\ reserved = 0
  /\ held = [h \in Handles |-> NoFrame]
  /\ phase = "boot"

Panic == phase' = "panicked"

is_contiguous ==
  frame_to_address(BitmapFrames - 1) + 1 - frame_to_address(0) = BitmapFrames

(* Mutant: the frames that map_to took are not marked.                     *)
allocate_bitmap_forgets_tables(tables) ==
  /\ phase = "boot"
  /\ IF BitmapFrames + tables <= TotalFrames /\ is_contiguous
     THEN /\ reserved' = BitmapFrames + tables
          /\ bitmap' = 0..(BitmapFrames - 1)
          /\ phase' = "running"
     ELSE Panic /\ UNCHANGED <<bitmap, reserved>>
  /\ UNCHANGED held

(* BitmapFrameAllocator::new: the boot allocator hands out the first       *)
(* BitmapFrames usable frames for the bitmap and then `tables` more to     *)
(* map_to; running out, or a bitmap that is not contiguous, panics.        *)
allocate_bitmap(tables) ==
  /\ phase = "boot"
  /\ IF BitmapFrames + tables <= TotalFrames /\ is_contiguous
     THEN /\ reserved' = BitmapFrames + tables
          /\ bitmap' = 0..(BitmapFrames + tables - 1)
          /\ phase' = "running"
     ELSE Panic /\ UNCHANGED <<bitmap, reserved>>
  /\ UNCHANGED held

(* Allocation marks the bit before the address is computed: an index past  *)
(* the last usable frame is marked and None is returned.                   *)
allocate_frame(h) ==
  /\ phase = "running"
  /\ held[h] = NoFrame
  /\ IF NonzeroWords(bitmap) = {}
     THEN UNCHANGED <<bitmap, held>>
     ELSE LET frame == first_free_frame(bitmap)
          IN  /\ bitmap' = mark_frame_used(bitmap, frame)
              /\ held' = [held EXCEPT ![h] = frame_to_address(frame)]
  /\ UNCHANGED <<reserved, phase>>

deallocate_frame(h) ==
  /\ phase = "running"
  /\ held[h] # NoFrame
  /\ LET frame == address_to_frame(held[h])
     IN  IF frame = NoFrame
         THEN Panic /\ UNCHANGED <<bitmap, held>>
         ELSE /\ bitmap' = mark_frame_free(bitmap, frame)
              /\ held' = [held EXCEPT ![h] = NoFrame]
              /\ UNCHANGED phase
  /\ UNCHANGED reserved

(* panic() disables interrupts and halts for ever.                         *)
Halted == phase = "panicked" /\ UNCHANGED vars

Next ==
  \/ \E tables \in 0..MaxTables : allocate_bitmap(tables)
  \/ \E h \in Handles : allocate_frame(h)
  \/ \E h \in Handles : deallocate_frame(h)
  \/ Halted

Spec == Init /\ [][Next]_vars

-----------------------------------------------------------------------------
(* Properties.                                                             *)

(* Every bit that is set is a bit of the bitmap slice (an index outside it *)
(* would panic in mark_frame_used), and every held frame lies in a usable  *)
(* region.                                                                 *)
TypeOK ==
  /\ bitmap \subseteq 0..(BitmapFrames * BitsPerFrame - 1)
  /\ reserved \in Nat
  /\ held \in [Handles -> Nat \cup {NoFrame}]
  /\ \A h \in Handles :
       held[h] # NoFrame => \E i \in usable_regions : InRegion(held[h], i)
  /\ phase \in {"boot", "running", "panicked"}

(* A frame the boot allocator used: the bitmap itself or a page table.     *)
BootFrame(addr) == \E n \in 0..(reserved - 1) : frame_to_address(n) = addr

(* No frame is handed out while somebody holds it, as "Find the first free *)
(* frame in the bitmap" promises (mod.rs:126).                             *)
NoSharedFrame ==
  \A g, h \in Handles : held[g] # NoFrame /\ held[g] = held[h] => g = h

(* The only frame that allocate_frame can hand out twice is the one after  *)
(* the first bitmap word: every frame of that word has one holder.         *)
OnlyOverflowFrameShared ==
  \A g, h \in Handles :
     held[g] # NoFrame /\ held[g] = held[h] /\ g # h
       => held[g] = frame_to_address(WordBits)

(* The frames of the bitmap and of its page tables are never handed out    *)
(* ("Mark the bitmap frames as used", mod.rs:104), save the overflow frame *)
(* of the first word, which is one of them once they fill that word.       *)
BootFramesNeverHandedOut ==
  \A h \in Handles :
     held[h] # NoFrame /\ BootFrame(held[h])
       => held[h] = frame_to_address(WordBits)

(* Frames are not lost: a used frame of the first word is a boot frame or  *)
(* somebody holds it, so a freed frame can always be allocated again.      *)
NoLostFrame ==
  \A n \in 0..(WordBits - 1) :
     n \in bitmap /\ frame_to_address(n) # NoFrame
       => n < reserved \/ \E h \in Handles : held[h] = frame_to_address(n)

(* allocate_frame returns None only when no usable frame is free: the      *)
(* phantom indices past the last frame are tried last.                     *)
NoneOnlyWhenFull ==
  [][\A h \in Handles :
        allocate_frame(h) /\ held'[h] = NoFrame
          => 0..(TotalFrames - 1) \subseteq bitmap]_vars

(* Freeing a frame of the first usable region always succeeds: a running   *)
(* allocator panics (mod.rs:182, "frame should be located in regions") in  *)
(* no other call than deallocate_frame, and there only if the very frame   *)
(* that is freed lies in a later region, with a usable one before it.      *)
PanicsOnlyPastFirstRegion ==
  [][phase = "running" /\ phase' = "panicked"
       => /\ \E h \in Handles : deallocate_frame(h)
          /\ \A h \in Handles :
               deallocate_frame(h)
                 => \E i, j \in usable_regions : InRegion(held[h], i) /\ j < i]_vars
=============================================================================
