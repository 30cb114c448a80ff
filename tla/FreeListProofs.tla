--------------------------- MODULE FreeListProofs ---------------------------
(***************************************************************************)
(* The free list of the page allocator (module FreeList) for any pool,     *)
(* requests and number of slots of an entry page.                          *)
(*                                                                         *)
(* Every operation returns a well-formed list (the lemmas named ...Good).  *)
(* While no entry page has been full, the list is a single page: a second  *)
(* one is only made for a full page.  Its entries are then tidy (sorted,   *)
(* disjoint, the slots in use first), and each operation takes out or puts *)
(* back exactly the pages of a range (the lemmas named ...Row and ...One). *)
(* The one way out of tidiness is Stuck: ShiftDown copies the last slot    *)
(* and does not clear it, so a page that was full for a moment keeps a     *)
(* second copy of its last entry.  Then `filled` holds for good.           *)
(***************************************************************************)
EXTENDS FreeList, FiniteSetTheorems, WellFoundedInduction, TLAPS

(* A non-empty set of naturals has a least element.                        *)
LEMMA LeastNat ==
  ASSUME NEW S \in SUBSET Nat, S # {}
  PROVE  \E n \in S : \A m \in S : n <= m
<1> DEFINE less == OpToRel(<, Nat)
<1>1. \E x \in S : \A y \in S : ~ (<<y, x>> \in less)
  BY NatLessThanWellFounded, WFMin, Zenon
<1>2. \A x, y \in Nat : x < y => <<x, y>> \in less
  BY DEF OpToRel
<1>3. \E x \in S : \A y \in S : ~ (y < x)
  BY <1>1, <1>2, Zenon
<1> QED
  BY <1>3

(* Least gives it.                                                         *)
LEMMA LeastIs ==
  ASSUME NEW S \in SUBSET Nat, S # {}
  PROVE  Least(S) \in S /\ \A y \in S : Least(S) <= y
BY LeastNat, Zenon DEF Least

(* A function on 1..m is a sequence of length m.                           *)
LEMMA MakeSeq ==
  ASSUME NEW S, NEW m \in Nat, NEW f \in [1..m -> S]
  PROVE  f \in Seq(S) /\ Len(f) = m
OBVIOUS

-----------------------------------------------------------------------------
(* Types.                                                                  *)

Ranges ==
  {e \in [start : Nat, pages : Nat] :
     1 <= e.start /\ 1 <= e.pages /\ e.start + e.pages <= Pool + 1}

Rows == [Slots -> Ranges \cup {Empty}]

Page == [at : Nat, entries : Rows]

Good(ch) == ch \in Seq(Page) /\ Len(ch) >= 1

(* The slots of an entry page, and a new page is empty.                    *)
LEMMA SlotFacts ==
  /\ ENTRIES_LEN \in Nat /\ ENTRIES_LEN >= 2 /\ Pool \in Nat \ {0}
  /\ 1 \in Slots /\ ENTRIES_LEN \in Slots /\ Slots \subseteq Nat
  /\ Empty \notin Ranges /\ NoEntries \in Rows
BY FreeListAssumption DEF Slots, Ranges, NoEntries, Rows, FreeListAssumption

(* NoPages is no list of entry pages.                                      *)
LEMMA GoodIsList ==
  ASSUME NEW ch, Good(ch)
  PROVE  ch # NoPages
<1> DEFINE E == [start : Nat, pages : Nat] \cup {Empty}
           P == [at : Nat, entries : [1..ENTRIES_LEN -> E]]
<1>1. Page \subseteq P
  BY DEF Page, Rows, Ranges, Slots
<1>2. ch \in Seq(P)
  <2> HIDE DEF P
  <2> QED
    BY <1>1 DEF Good
<1> QED
  BY <1>2, FreeListAssumption, Zenon DEF FreeListAssumption

(* A page of the list has entries in its slots, and Prefix only slots in   *)
(* use.                                                                    *)
LEMMA RowFacts ==
  ASSUME NEW ch, Good(ch), NEW p \in 1..Len(ch)
  PROVE  /\ ch[p] \in Page /\ EntriesOf(ch, p) \in Rows
         /\ Prefix(EntriesOf(ch, p)) \subseteq Slots
         /\ \A s \in Slots : EntriesOf(ch, p)[s] # Empty => EntriesOf(ch, p)[s] \in Ranges
         /\ \A s \in Prefix(EntriesOf(ch, p)) : EntriesOf(ch, p)[s] \in Ranges
<1>1. ch[p] \in Page
  BY DEF Good
<1>2. EntriesOf(ch, p) \in Rows
  BY <1>1 DEF EntriesOf, Page
<1> DEFINE es == EntriesOf(ch, p)
<1>3. \A s \in Slots : es[s] # Empty => es[s] \in Ranges
  BY <1>2 DEF Rows
<1>4. \A s \in Prefix(es) : s \in Slots /\ es[s] # Empty
  BY SlotFacts DEF Prefix, Slots
<1> QED
  BY <1>1, <1>2, <1>3, <1>4, Zenon DEF Prefix

(* SetEntries replaces the entries of one page.                            *)
LEMMA SetEntriesGood ==
  ASSUME NEW ch, Good(ch), NEW k \in 1..Len(ch), NEW es \in Rows
  PROVE  Good(SetEntries(ch, k, es)) /\ Len(SetEntries(ch, k, es)) = Len(ch)
         /\ EntriesOf(SetEntries(ch, k, es), k) = es
<1>1. [ch[k] EXCEPT !.entries = es] \in Page
  BY RowFacts DEF Page
<1>2. SetEntries(ch, k, es) = [ch EXCEPT ![k] = [ch[k] EXCEPT !.entries = es]]
  BY DEF SetEntries
<1>3. /\ SetEntries(ch, k, es) \in Seq(Page)
      /\ Len(SetEntries(ch, k, es)) = Len(ch)
      /\ SetEntries(ch, k, es)[k] = [ch[k] EXCEPT !.entries = es]
  BY <1>1, <1>2 DEF Good
<1>4. [ch[k] EXCEPT !.entries = es].entries = es
  BY RowFacts DEF Page
<1> QED
  BY <1>3, <1>4 DEF Good, EntriesOf

(* A scan ends in a page of the list; the pages before it are full, with   *)
(* nothing of what it looks for.                                           *)
LEMMA ScanEndIs ==
  ASSUME NEW ch, Good(ch), NEW k \in 1..Len(ch), NEW found
  PROVE  /\ ScanEnd(ch, k, found) \in k..Len(ch)
         /\ \/ found[ScanEnd(ch, k, found)] # {}
            \/ Prefix(EntriesOf(ch, ScanEnd(ch, k, found))) # Slots
            \/ ScanEnd(ch, k, found) = Len(ch)
         /\ \A q \in k..Len(ch) :
              found[q] # {} \/ Prefix(EntriesOf(ch, q)) # Slots \/ q = Len(ch)
                => ScanEnd(ch, k, found) <= q
<1> DEFINE S == {p \in k..Len(ch) :
                   found[p] # {} \/ Prefix(EntriesOf(ch, p)) # Slots \/ p = Len(ch)}
<1>1. Len(ch) \in S /\ S \subseteq Nat
  BY DEF Good
<1>2. Least(S) \in S /\ \A y \in S : Least(S) <= y
  BY <1>1, LeastIs, Zenon
<1>3. ScanEnd(ch, k, found) = Least(S)
  BY Zenon DEF ScanEnd
<1> QED
  BY <1>2, <1>3, Zenon

-----------------------------------------------------------------------------
(* The operations on lists of any length.                                  *)

(* ShiftDown returns entries of a page.                                    *)
LEMMA ShiftDownType ==
  ASSUME NEW es \in Rows, NEW idx \in Slots
  PROVE  ShiftDown(es, idx) \in Rows
<1> DEFINE c == [es EXCEPT ![idx] = Empty]
<1>1. c \in Rows
  BY DEF Rows
<1> HIDE DEF c
<1>2. \A s \in Slots : s # ENTRIES_LEN => s + 1 \in Slots
  BY SlotFacts DEF Slots
<1>3. ShiftDown(es, idx) = [s \in Slots |-> IF s < idx \/ s = ENTRIES_LEN THEN c[s] ELSE c[s + 1]]
  BY Zenon DEF ShiftDown, c
<1> QED
  BY <1>1, <1>2, <1>3 DEF Rows

(* remove_entry keeps the list well formed, with page k.                   *)
LEMMA RemoveGood ==
  ASSUME NEW ch, Good(ch), NEW k \in 1..Len(ch), NEW idx \in Slots
  PROVE  /\ Good(remove_entry(ch, k, idx))
         /\ Len(remove_entry(ch, k, idx)) \in k..Len(ch)
<1> DEFINE first == [p \in 1..Len(ch) |-> EntriesOf(ch, p)[1]]
           gone == {p \in (k + 1)..Len(ch) : EntriesOf(ch, p)[1] = Empty}
           left == [p \in 1..Len(ch) |-> ShiftDown(EntriesOf(ch, p), IF p = k THEN idx ELSE 1)]
           pulled == [p \in 1..Len(ch) |->
                        IF p < Len(ch) /\ first[p + 1] # Empty
                        THEN [left[p] EXCEPT ![ENTRIES_LEN] = first[p + 1]]
                        ELSE left[p]]
           m == Len(ch) - Cardinality(gone)
<1>1. Len(ch) \in Nat /\ k \in Nat /\ k <= Len(ch)
  BY DEF Good
<1>2. Cardinality(gone) \in Nat /\ Cardinality(gone) <= Len(ch) - k
  <2>1. IsFiniteSet((k + 1)..Len(ch)) /\ Cardinality((k + 1)..Len(ch)) = Len(ch) - k
    BY <1>1, FS_Interval
  <2>2. gone \subseteq (k + 1)..Len(ch)
    OBVIOUS
  <2> HIDE DEF gone
  <2>3. IsFiniteSet(gone) /\ Cardinality(gone) <= Cardinality((k + 1)..Len(ch))
    BY <2>1, <2>2, FS_Subset, Zenon
  <2> QED
    BY <2>1, <2>3, FS_CardinalityType
<1>3. m \in Nat /\ m \in k..Len(ch)
  <2> HIDE DEF gone
  <2> QED
    BY <1>1, <1>2
<1>4. \A p \in 1..Len(ch) : first[p] \in Ranges \cup {Empty}
  BY RowFacts, SlotFacts DEF Rows
<1>5. \A p \in 1..Len(ch) : left[p] \in Rows
  BY RowFacts, SlotFacts, ShiftDownType
<1> HIDE DEF first, left
<1>6. \A p \in 1..Len(ch) : pulled[p] \in Rows
  <2> SUFFICES ASSUME NEW p \in 1..Len(ch) PROVE pulled[p] \in Rows
    OBVIOUS
  <2>1. CASE p < Len(ch) /\ first[p + 1] # Empty
    <3>1. p + 1 \in 1..Len(ch)
      BY <1>1, <2>1
    <3>2. first[p + 1] \in Ranges \cup {Empty}
      BY <1>4, <3>1
    <3>3. [left[p] EXCEPT ![ENTRIES_LEN] = first[p + 1]] \in Rows
      BY <1>5, <3>2, Zenon DEF Rows
    <3> QED
      BY <2>1, <3>3
  <2>2. CASE ~ (p < Len(ch) /\ first[p + 1] # Empty)
    BY <1>5, <2>2
  <2> QED
    BY <2>1, <2>2
<1> DEFINE es(p) == IF p < k THEN ch[p].entries ELSE pulled[p]
           f == [p \in 1..m |-> [ch[p] EXCEPT !.entries = es(p)]]
<1> HIDE DEF pulled, m
<1>7. f \in [1..m -> Page]
  <2> SUFFICES ASSUME NEW p \in 1..m
               PROVE  [ch[p] EXCEPT !.entries = es(p)] \in Page
    BY Zenon
  <2>1. p \in 1..Len(ch)
    BY <1>1, <1>3
  <2>2. ch[p] \in Page
    BY <2>1, RowFacts
  <2>3. es(p) \in Rows
    BY <1>6, <2>1, <2>2 DEF Page
  <2> HIDE DEF es
  <2> QED
    BY <2>2, <2>3, Zenon DEF Page
<1>8. f = remove_entry(ch, k, idx)
  BY Zenon DEF remove_entry, PagesLeft, f, m, pulled, left, first
<1> HIDE DEF f
<1>9. f \in Seq(Page) /\ Len(f) = m
  BY <1>3, <1>7, MakeSeq
<1> QED
  BY <1>3, <1>8, <1>9 DEF Good

(* find_free_pages returns the start of an entry with at least n pages.    *)
LEMMA FindIs ==
  ASSUME NEW ch, Good(ch), NEW k \in 1..Len(ch), NEW n \in Nat,
         find_free_pages(ch, k, n) # NoPages
  PROVE  \E p \in k..Len(ch) : \E s \in Prefix(EntriesOf(ch, p)) :
            /\ EntriesOf(ch, p)[s].pages >= n
            /\ EntriesOf(ch, p)[s].start = find_free_pages(ch, k, n)
            /\ \A q \in k..(p - 1) : Prefix(EntriesOf(ch, q)) = Slots
<1> DEFINE fit == [p \in 1..Len(ch) |->
                     {s \in Prefix(EntriesOf(ch, p)) : EntriesOf(ch, p)[s].pages >= n}]
           p == ScanEnd(ch, k, fit)
           s == Least(fit[p])
<1>1. find_free_pages(ch, k, n) = IF fit[p] = {} THEN NoPages ELSE EntriesOf(ch, p)[s].start
  BY Zenon DEF find_free_pages
<1> HIDE DEF s
<1>2. fit[p] # {} /\ find_free_pages(ch, k, n) = EntriesOf(ch, p)[s].start
  BY <1>1, Zenon
<1> HIDE DEF fit
<1>3. /\ p \in k..Len(ch)
      /\ \A q \in k..Len(ch) : Prefix(EntriesOf(ch, q)) # Slots => p <= q
  BY ScanEndIs
<1> HIDE DEF p
<1>4. k \in Nat /\ Len(ch) \in Nat /\ p \in 1..Len(ch)
  BY <1>3 DEF Good
<1>5. fit[p] = {x \in Prefix(EntriesOf(ch, p)) : EntriesOf(ch, p)[x].pages >= n}
  BY <1>4, Zenon DEF fit
<1>6. fit[p] \subseteq Nat
  BY <1>4, <1>5, RowFacts, SlotFacts, Zenon
<1>7. s \in fit[p]
  BY <1>2, <1>6, LeastIs, Zenon DEF s
<1>8. \A q \in k..(p - 1) : Prefix(EntriesOf(ch, q)) = Slots
  BY <1>3, <1>4
<1>9. s \in Prefix(EntriesOf(ch, p)) /\ EntriesOf(ch, p)[s].pages >= n
  BY <1>5, <1>7, Zenon
<1> QED
  BY <1>2, <1>3, <1>8, <1>9, Zenon

(* The entry of slot s of page p without its first n pages.                *)
Cut(ch, p, s, n) ==
  LET es == EntriesOf(ch, p)
  IN  IF es[s].pages = n THEN remove_entry(ch, p, s)
      ELSE IF es[s].pages < n THEN NoPages
      ELSE SetEntries(ch, p, [es EXCEPT ![s] = Usable(es[s].start + n, es[s].pages - n)])

(* What alloc_pages does, by the first entry at `start` that its scan      *)
(* meets.                                                                  *)
LEMMA AllocIs ==
  ASSUME NEW ch, Good(ch), NEW k \in 1..Len(ch), NEW start \in Nat, NEW n \in Nat \ {0}
  PROVE  \E p \in k..Len(ch) :
           \/ /\ \A s \in Prefix(EntriesOf(ch, p)) : EntriesOf(ch, p)[s].start # start
              /\ Prefix(EntriesOf(ch, p)) = Slots => p = Len(ch)
              /\ \A q \in k..Len(ch) :
                   (\E s \in Prefix(EntriesOf(ch, q)) : EntriesOf(ch, q)[s].start = start) => p <= q
              /\ alloc_pages(ch, k, start, n) =
                   IF Prefix(EntriesOf(ch, p)) = Slots THEN NoPages ELSE ch
           \/ \E s \in Prefix(EntriesOf(ch, p)) :
                /\ EntriesOf(ch, p)[s].start = start
                /\ alloc_pages(ch, k, start, n) = Cut(ch, p, s, n)
<1> DEFINE hit == [p \in 1..Len(ch) |->
                     {s \in Prefix(EntriesOf(ch, p)) : EntriesOf(ch, p)[s].start = start}]
           p == ScanEnd(ch, k, hit)
           es == EntriesOf(ch, p)
           s == Least(hit[p])
<1>1. alloc_pages(ch, k, start, n) =
        IF hit[p] = {} THEN IF Prefix(es) = Slots THEN NoPages ELSE ch
        ELSE IF es[s].pages = n THEN remove_entry(ch, p, s)
        ELSE IF es[s].pages < n THEN NoPages
        ELSE SetEntries(ch, p, [es EXCEPT ![s] = Usable(start + n, es[s].pages - n)])
  BY Zenon DEF alloc_pages
<1> HIDE DEF hit, s
<1>2. /\ p \in k..Len(ch) /\ (hit[p] # {} \/ Prefix(es) # Slots \/ p = Len(ch))
      /\ \A q \in k..Len(ch) : hit[q] # {} => p <= q
  BY ScanEndIs, Zenon
<1> HIDE DEF p
<1>3. p \in 1..Len(ch) /\ k..Len(ch) \subseteq 1..Len(ch)
  BY <1>2 DEF Good
<1>4. \A q \in 1..Len(ch) :
        hit[q] = {x \in Prefix(EntriesOf(ch, q)) : EntriesOf(ch, q)[x].start = start}
  BY <1>3, Zenon DEF hit
<1>5. hit[p] \subseteq Nat
  BY <1>3, <1>4, RowFacts, SlotFacts, Zenon
<1>6. CASE hit[p] = {}
  <2>1. alloc_pages(ch, k, start, n) = IF Prefix(es) = Slots THEN NoPages ELSE ch
    BY <1>1, <1>6, Zenon
  <2>2. \A x \in Prefix(es) : es[x].start # start
    BY <1>3, <1>4, <1>6, Zenon
  <2>3. \A q \in k..Len(ch) :
          (\E x \in Prefix(EntriesOf(ch, q)) : EntriesOf(ch, q)[x].start = start) => p <= q
    BY <1>2, <1>3, <1>4, Zenon
  <2> QED
    BY <1>2, <1>6, <2>1, <2>2, <2>3, Zenon
<1>7. CASE hit[p] # {}
  <2>1. s \in hit[p]
    BY <1>5, <1>7, LeastIs, Zenon DEF s
  <2>2. s \in Prefix(es) /\ es[s].start = start
    BY <1>3, <1>4, <2>1, Zenon
  <2>3. alloc_pages(ch, k, start, n) = Cut(ch, p, s, n)
    BY <1>1, <1>7, <2>2, Zenon DEF Cut
  <2> QED
    BY <1>2, <2>2, <2>3, Zenon
<1> QED
  BY <1>6, <1>7, Zenon

(* An entry cut from the left stays a range of the pool.                   *)
LEMMA CutRow ==
  ASSUME NEW es \in Rows, NEW s \in Slots, es[s] \in Ranges, NEW n \in Nat \ {0},
         n < es[s].pages
  PROVE  [es EXCEPT ![s] = Usable(es[s].start + n, es[s].pages - n)] \in Rows
<1>1. Usable(es[s].start + n, es[s].pages - n) \in Ranges
  BY SlotFacts DEF Ranges, Usable
<1> QED
  BY <1>1 DEF Rows

(* A list from which alloc_pages has cut a range is a list, with the page  *)
(* of the entry still in it.                                               *)
LEMMA CutGood ==
  ASSUME NEW ch, Good(ch), NEW p \in 1..Len(ch), NEW s \in Prefix(EntriesOf(ch, p)),
         NEW n \in Nat \ {0}, EntriesOf(ch, p)[s].pages >= n
  PROVE  Good(Cut(ch, p, s, n)) /\ Len(Cut(ch, p, s, n)) \in p..Len(ch)
<1> DEFINE es == EntriesOf(ch, p)
<1>1. es \in Rows /\ s \in Slots /\ es[s] \in Ranges
  BY RowFacts, Zenon
<1>2. es[s].pages \in Nat /\ Len(ch) \in p..Len(ch)
  BY <1>1 DEF Ranges, Good
<1> HIDE DEF es
<1>3. CASE es[s].pages = n
  <2>1. Cut(ch, p, s, n) = remove_entry(ch, p, s)
    BY <1>3, Zenon DEF Cut, es
  <2> QED
    BY <1>1, <2>1, RemoveGood, Zenon
<1>4. CASE n < es[s].pages
  <2>1. es[s].pages # n /\ ~ (es[s].pages < n)
    BY <1>2, <1>4
  <2> DEFINE new == [es EXCEPT ![s] = Usable(es[s].start + n, es[s].pages - n)]
  <2>2. Cut(ch, p, s, n) = SetEntries(ch, p, new)
    BY <2>1, Zenon DEF Cut, es
  <2>3. new \in Rows
    BY <1>1, <1>4, CutRow
  <2> HIDE DEF new
  <2>4. Good(SetEntries(ch, p, new)) /\ Len(SetEntries(ch, p, new)) = Len(ch)
    BY <2>3, SetEntriesGood
  <2> QED
    BY <1>2, <2>2, <2>4, Zenon
<1> QED
  BY <1>2, <1>3, <1>4 DEF es

(* With disjoint entries, no two of them start at the same page.           *)
LEMMA StartsDiffer ==
  ASSUME NEW ch, Good(ch), ~ Overlapping(ch),
         NEW p \in 1..Len(ch), NEW s \in Slots, EntriesOf(ch, p)[s] # Empty,
         NEW q \in 1..Len(ch), NEW r \in Slots, EntriesOf(ch, q)[r] # Empty,
         EntriesOf(ch, p)[s].start = EntriesOf(ch, q)[r].start
  PROVE  p = q /\ s = r
<1> DEFINE x == <<p, s>>
           y == <<q, r>>
           a == EntriesOf(ch, p)[s].start
<1>1. x \in Entries(ch) /\ y \in Entries(ch)
  BY DEF Entries
<1>2. a \in PageRange(a, EntriesOf(ch, p)[s].pages) /\ a \in PageRange(a, EntriesOf(ch, q)[r].pages)
  <2>1. EntriesOf(ch, p)[s] \in Ranges /\ EntriesOf(ch, q)[r] \in Ranges
    BY RowFacts
  <2> QED
    BY <2>1 DEF Ranges, PageRange
<1>3. a \in EntryRange(ch, x) /\ a \in EntryRange(ch, y)
  BY <1>2 DEF EntryRange, EntryAt
<1>4. x = y
  BY <1>1, <1>3, Zenon DEF Overlapping
<1> QED
  BY <1>4

(* With disjoint entries, alloc_pages cuts the entry that find_free_pages  *)
(* has found, and does not panic.                                          *)
LEMMA FindAlloc ==
  ASSUME NEW ch, Good(ch), ~ Overlapping(ch), NEW k \in 1..Len(ch), NEW n \in Nat \ {0},
         find_free_pages(ch, k, n) # NoPages
  PROVE  \E p \in k..Len(ch) : \E s \in Prefix(EntriesOf(ch, p)) :
           /\ EntriesOf(ch, p)[s].pages >= n
           /\ EntriesOf(ch, p)[s].start = find_free_pages(ch, k, n)
           /\ alloc_pages(ch, k, find_free_pages(ch, k, n), n) = Cut(ch, p, s, n)
<1> DEFINE a == find_free_pages(ch, k, n)
<1>1. PICK p \in k..Len(ch) : \E s \in Prefix(EntriesOf(ch, p)) :
            /\ EntriesOf(ch, p)[s].pages >= n
            /\ EntriesOf(ch, p)[s].start = a
            /\ \A q \in k..(p - 1) : Prefix(EntriesOf(ch, q)) = Slots
  BY FindIs
<1>2. PICK s \in Prefix(EntriesOf(ch, p)) :
            /\ EntriesOf(ch, p)[s].pages >= n
            /\ EntriesOf(ch, p)[s].start = a
            /\ \A q \in k..(p - 1) : Prefix(EntriesOf(ch, q)) = Slots
  BY <1>1, Zenon
<1> HIDE DEF a
<1>3. p \in 1..Len(ch) /\ k \in Nat /\ Len(ch) \in Nat
  BY DEF Good
<1>4. EntriesOf(ch, p)[s] \in Ranges /\ s \in Slots
  BY <1>3, RowFacts, Zenon
<1>5. a \in Nat
  BY <1>2, <1>4 DEF Ranges
<1>6. PICK q \in k..Len(ch) :
           \/ /\ \A r \in Prefix(EntriesOf(ch, q)) : EntriesOf(ch, q)[r].start # a
              /\ Prefix(EntriesOf(ch, q)) = Slots => q = Len(ch)
              /\ \A t \in k..Len(ch) :
                   (\E r \in Prefix(EntriesOf(ch, t)) : EntriesOf(ch, t)[r].start = a) => q <= t
              /\ alloc_pages(ch, k, a, n) =
                   IF Prefix(EntriesOf(ch, q)) = Slots THEN NoPages ELSE ch
           \/ \E r \in Prefix(EntriesOf(ch, q)) :
                /\ EntriesOf(ch, q)[r].start = a
                /\ alloc_pages(ch, k, a, n) = Cut(ch, q, r, n)
  BY <1>5, AllocIs, Zenon
<1>7. ~ (/\ \A r \in Prefix(EntriesOf(ch, q)) : EntriesOf(ch, q)[r].start # a
         /\ Prefix(EntriesOf(ch, q)) = Slots => q = Len(ch)
         /\ \A t \in k..Len(ch) :
              (\E r \in Prefix(EntriesOf(ch, t)) : EntriesOf(ch, t)[r].start = a) => q <= t)
  <2> SUFFICES ASSUME \A r \in Prefix(EntriesOf(ch, q)) : EntriesOf(ch, q)[r].start # a,
                      Prefix(EntriesOf(ch, q)) = Slots => q = Len(ch),
                      \A t \in k..Len(ch) :
                        (\E r \in Prefix(EntriesOf(ch, t)) : EntriesOf(ch, t)[r].start = a) => q <= t
               PROVE  FALSE
    BY Zenon
  <2>1. q <= p /\ q # p
    BY <1>2, Zenon
  <2>2. q \in k..(p - 1)
    BY <1>3, <2>1
  <2> QED
    BY <1>2, <1>3, <2>1, <2>2
<1>8. PICK r \in Prefix(EntriesOf(ch, q)) :
        EntriesOf(ch, q)[r].start = a /\ alloc_pages(ch, k, a, n) = Cut(ch, q, r, n)
  BY <1>6, <1>7, Zenon
<1>9. q \in 1..Len(ch) /\ q \in Nat
  BY <1>3
<1>10. EntriesOf(ch, q)[r] \in Ranges /\ r \in Slots
  BY <1>9, RowFacts, Zenon
<1>11. p = q /\ s = r
  BY <1>2, <1>3, <1>4, <1>8, <1>9, <1>10, SlotFacts, StartsDiffer
<1> QED
  BY <1>2, <1>8, <1>11, Zenon DEF a

(* So what is left is a list again, and what is taken a range of the pool. *)
LEMMA FindAllocGood ==
  ASSUME NEW ch, Good(ch), ~ Overlapping(ch), NEW k \in 1..Len(ch), NEW n \in Nat \ {0},
         find_free_pages(ch, k, n) # NoPages
  PROVE  /\ Usable(find_free_pages(ch, k, n), n) \in Ranges
         /\ Good(alloc_pages(ch, k, find_free_pages(ch, k, n), n))
         /\ Len(alloc_pages(ch, k, find_free_pages(ch, k, n), n)) \in k..Len(ch)
<1> DEFINE a == find_free_pages(ch, k, n)
           c == alloc_pages(ch, k, a, n)
<1>1. PICK p \in k..Len(ch) : \E s \in Prefix(EntriesOf(ch, p)) :
           /\ EntriesOf(ch, p)[s].pages >= n
           /\ EntriesOf(ch, p)[s].start = a
           /\ c = Cut(ch, p, s, n)
  BY FindAlloc
<1>2. PICK s \in Prefix(EntriesOf(ch, p)) :
           /\ EntriesOf(ch, p)[s].pages >= n
           /\ EntriesOf(ch, p)[s].start = a
           /\ c = Cut(ch, p, s, n)
  BY <1>1, Zenon
<1> HIDE DEF a, c
<1>3. p \in 1..Len(ch) /\ p..Len(ch) \subseteq k..Len(ch)
  BY DEF Good
<1>4. EntriesOf(ch, p)[s] \in Ranges
  BY <1>3, RowFacts, Zenon
<1>5. Usable(a, n) \in Ranges
  BY <1>2, <1>4, SlotFacts DEF Ranges, Usable
<1>6. Good(c) /\ Len(c) \in p..Len(ch)
  BY <1>2, <1>3, CutGood
<1> QED
  BY <1>3, <1>5, <1>6, Zenon DEF a, c

(* add_entry_page: the new page comes last and has no entries.             *)
LEMMA AddPageGood ==
  ASSUME NEW ch, Good(ch), ~ Overlapping(ch), NEW ok \in BOOLEAN
  PROVE  /\ Good(add_entry_page(ch, ok).chain)
         /\ add_entry_page(ch, ok).ok \in BOOLEAN
         /\ Len(add_entry_page(ch, ok).chain) =
              IF add_entry_page(ch, ok).ok THEN Len(ch) + 1 ELSE Len(ch)
         /\ add_entry_page(ch, ok).ok =>
              EntriesOf(add_entry_page(ch, ok).chain, Len(ch) + 1) = NoEntries
<1> DEFINE free == find_free_pages(ch, Len(ch), 1)
           taken == alloc_pages(ch, Len(ch), free, 1)
           new == [at |-> free, entries |-> NoEntries]
<1>1. add_entry_page(ch, ok) =
        IF free = NoPages THEN [ok |-> FALSE, chain |-> ch]
        ELSE IF ~ ok THEN [ok |-> FALSE, chain |-> taken]
        ELSE [ok |-> TRUE, chain |-> Append(taken, new)]
  BY Zenon DEF add_entry_page
<1>2. CASE free = NoPages
  BY <1>1, <1>2
<1>3. CASE free # NoPages
  <2>1. Len(ch) \in 1..Len(ch) /\ 1 \in Nat \ {0}
    BY DEF Good
  <2>2. Usable(free, 1) \in Ranges /\ Good(taken) /\ Len(taken) \in Len(ch)..Len(ch)
    BY <1>3, <2>1, FindAllocGood, Zenon
  <2>3. free \in Nat /\ Len(taken) = Len(ch) /\ Len(ch) \in Nat
    BY <2>2, <2>1 DEF Ranges, Usable, Good
  <2> HIDE DEF free, taken
  <2>4. CASE ~ ok
    BY <1>1, <1>3, <2>2, <2>3, <2>4
  <2>5. CASE ok
    <3>1. new \in Page
      BY <2>3, SlotFacts DEF Page
    <3>2. add_entry_page(ch, ok) = [ok |-> TRUE, chain |-> Append(taken, new)]
      BY <1>1, <1>3, <2>5, Zenon
    <3>3. new.entries = NoEntries
      OBVIOUS
    <3> HIDE DEF new
    <3>4. /\ Append(taken, new) \in Seq(Page) /\ Len(Append(taken, new)) = Len(ch) + 1
          /\ Append(taken, new)[Len(ch) + 1] = new
      BY <2>2, <2>3, <3>1 DEF Good
    <3> QED
      BY <2>3, <3>2, <3>3, <3>4 DEF Good, EntriesOf
  <2> QED
    BY <2>4, <2>5
<1> QED
  BY <1>2, <1>3

(* MakeRoom returns a list in which page RoomAt is the room that was there *)
(* or a new, empty page.                                                   *)
LEMMA MakeRoomGood ==
  ASSUME NEW ch, Good(ch), ~ Overlapping(ch), NEW room \in SUBSET (1..Len(ch)),
         NEW ok \in BOOLEAN
  PROVE  /\ Good(MakeRoom(ch, room, ok).chain)
         /\ MakeRoom(ch, room, ok).ok \in BOOLEAN
         /\ MakeRoom(ch, room, ok).ok =>
              /\ RoomAt(ch, room) \in 1..Len(MakeRoom(ch, room, ok).chain)
              /\ RoomAt(ch, room) <= Len(ch) + 1
              /\ room = {} =>
                   EntriesOf(MakeRoom(ch, room, ok).chain, RoomAt(ch, room)) = NoEntries
              /\ room # {} =>
                   MakeRoom(ch, room, ok).chain = ch /\ RoomAt(ch, room) \in room
<1>1. Len(ch) \in Nat
  BY DEF Good
<1>2. CASE room # {}
  <2>1. Least(room) \in room
    BY <1>1, <1>2, LeastIs
  <2>2. MakeRoom(ch, room, ok) = [ok |-> TRUE, chain |-> ch] /\ RoomAt(ch, room) = Least(room)
    BY <1>2, Zenon DEF MakeRoom, RoomAt
  <2>3. Least(room) \in 1..Len(ch)
    BY <2>1, Zenon
  <2>4. Least(room) <= Len(ch) + 1
    BY <1>1, <2>3
  <2>5. MakeRoom(ch, room, ok).ok = TRUE /\ MakeRoom(ch, room, ok).chain = ch
    BY <2>2
  <2> QED
    BY <1>2, <2>1, <2>2, <2>3, <2>4, <2>5, Zenon
<1>3. CASE room = {}
  <2>1. MakeRoom(ch, room, ok) = add_entry_page(ch, ok) /\ RoomAt(ch, room) = Len(ch) + 1
    BY <1>3, Zenon DEF MakeRoom, RoomAt
  <2> DEFINE r == add_entry_page(ch, ok)
  <2>2. /\ Good(r.chain) /\ r.ok \in BOOLEAN
        /\ r.ok => Len(r.chain) = Len(ch) + 1 /\ EntriesOf(r.chain, Len(ch) + 1) = NoEntries
    BY AddPageGood, Zenon
  <2> HIDE DEF r
  <2>3. r.ok => Len(ch) + 1 \in 1..Len(r.chain) /\ Len(ch) + 1 <= Len(ch) + 1
    BY <1>1, <2>2
  <2> QED
    BY <1>3, <2>1, <2>2, <2>3, Zenon DEF r
<1> QED
  BY <1>2, <1>3

(* ShiftUp returns entries of a page.                                      *)
LEMMA ShiftUpType ==
  ASSUME NEW es \in Rows, NEW idx \in Slots, NEW entry \in Ranges \cup {Empty}
  PROVE  ShiftUp(es, idx, entry) \in Rows
<1>1. \A s \in Slots : ~ (s < idx) /\ s # idx => s - 1 \in Slots
  BY SlotFacts DEF Slots
<1> QED
  BY <1>1 DEF Rows, ShiftUp

(* insert_entry returns a list, with page k still in it.                   *)
LEMMA InsertGood ==
  ASSUME NEW ch, Good(ch), ~ Overlapping(ch), NEW k \in 1..Len(ch), NEW idx \in Slots,
         NEW entry \in Ranges, NEW ok \in BOOLEAN
  PROVE  /\ insert_entry(ch, k, idx, entry, ok).ok \in BOOLEAN
         /\ Good(insert_entry(ch, k, idx, entry, ok).chain)
         /\ insert_entry(ch, k, idx, entry, ok).ok =>
              k \in 1..Len(insert_entry(ch, k, idx, entry, ok).chain)
<1> DEFINE room == {p \in k..Len(ch) : EntriesOf(ch, p)[ENTRIES_LEN] = Empty}
           made == MakeRoom(ch, room, ok)
           Inserted(p) == IF p = k THEN ShiftUp(EntriesOf(made.chain, p), idx, entry)
                          ELSE ShiftUp(EntriesOf(made.chain, p), 1,
                                       EntriesOf(ch, p - 1)[ENTRIES_LEN])
           es(p) == IF p \in k..RoomAt(ch, room) THEN Inserted(p) ELSE made.chain[p].entries
           f == [p \in 1..Len(made.chain) |-> [made.chain[p] EXCEPT !.entries = es(p)]]
<1>1. insert_entry(ch, k, idx, entry, ok) =
        IF ~ made.ok THEN made ELSE [ok |-> TRUE, chain |-> f]
  BY Zenon DEF insert_entry
<1>2. Len(ch) \in Nat /\ k \in Nat /\ k >= 1 /\ k <= Len(ch) /\ room \in SUBSET (1..Len(ch))
      /\ room \in SUBSET (k..Len(ch))
  BY DEF Good
<1> HIDE DEF room
<1>3. /\ Good(made.chain) /\ made.ok \in BOOLEAN
      /\ made.ok => /\ RoomAt(ch, room) \in 1..Len(made.chain)
                    /\ RoomAt(ch, room) <= Len(ch) + 1
  BY <1>2, MakeRoomGood, Zenon
<1>4. RoomAt(ch, room) >= k
  <2>1. CASE room # {}
    <3>1. RoomAt(ch, room) \in room
      BY <1>2, <2>1, LeastIs, room \in SUBSET Nat DEF RoomAt
    <3>2. RoomAt(ch, room) \in k..Len(ch)
      BY <1>2, <3>1, Zenon
    <3> QED
      BY <3>2
  <2>2. CASE room = {}
    BY <1>2, <2>2 DEF RoomAt
  <2> QED
    BY <2>1, <2>2
<1> HIDE DEF made
<1>5. CASE ~ made.ok
  BY <1>1, <1>3, <1>5
<1>6. CASE made.ok
  <2>1. Len(made.chain) \in Nat /\ Len(made.chain) >= 1 /\ k \in 1..Len(made.chain)
    BY <1>2, <1>3, <1>4, <1>6 DEF Good
  <2>2. \A p \in 1..Len(made.chain) : made.chain[p] \in Page /\ EntriesOf(made.chain, p) \in Rows
    BY <1>3, RowFacts
  <2>3. ASSUME NEW p \in 1..Len(made.chain), p \in k..RoomAt(ch, room)
        PROVE  Inserted(p) \in Rows
    <3>1. CASE p = k
      BY <2>2, <3>1, ShiftUpType
    <3>2. CASE p # k
      <4>1. p - 1 \in 1..Len(ch)
        BY <1>2, <1>3, <1>6, <2>3, <3>2
      <4>2. EntriesOf(ch, p - 1) \in Rows
        BY <4>1, RowFacts
      <4>3. EntriesOf(ch, p - 1)[ENTRIES_LEN] \in Ranges \cup {Empty}
        BY <4>2, SlotFacts DEF Rows
      <4>4. ShiftUp(EntriesOf(made.chain, p), 1, EntriesOf(ch, p - 1)[ENTRIES_LEN]) \in Rows
        BY <2>2, <4>3, SlotFacts, ShiftUpType
      <4> QED
        BY <3>2, <4>4, Zenon
    <3> QED
      BY <3>1, <3>2
  <2> HIDE DEF Inserted
  <2>4. f \in [1..Len(made.chain) -> Page]
    <3> SUFFICES ASSUME NEW p \in 1..Len(made.chain)
                 PROVE  [made.chain[p] EXCEPT !.entries = es(p)] \in Page
      BY Zenon
    <3>1. es(p) \in Rows
      BY <2>2, <2>3, Zenon DEF EntriesOf
    <3> HIDE DEF es
    <3> QED
      BY <2>2, <3>1, Zenon DEF Page
  <2> HIDE DEF f
  <2>5. f \in Seq(Page) /\ Len(f) = Len(made.chain)
    BY <2>1, <2>4, MakeSeq
  <2>6. Good(f)
    BY <2>1, <2>5 DEF Good
  <2>7. insert_entry(ch, k, idx, entry, ok) = [ok |-> TRUE, chain |-> f]
    BY <1>1, <1>6, Zenon
  <2> QED
    BY <2>1, <2>5, <2>6, <2>7
<1> QED
  BY <1>3, <1>5, <1>6

(* append_entry returns a list, with page k still in it.                   *)
LEMMA AppendGood ==
  ASSUME NEW ch, Good(ch), ~ Overlapping(ch), NEW k \in 1..Len(ch),
         NEW entry \in Ranges, NEW ok \in BOOLEAN
  PROVE  /\ append_entry(ch, k, entry, ok).ok \in BOOLEAN
         /\ Good(append_entry(ch, k, entry, ok).chain)
         /\ append_entry(ch, k, entry, ok).ok =>
              k \in 1..Len(append_entry(ch, k, entry, ok).chain)
<1> DEFINE room == {p \in k..Len(ch) : \E s \in Slots : EntriesOf(ch, p)[s] = Empty}
           made == MakeRoom(ch, room, ok)
           p == RoomAt(ch, room)
           es == EntriesOf(made.chain, p)
           slots == {s \in Slots : es[s] = Empty}
           new == [es EXCEPT ![Least(slots)] = entry]
<1>1. append_entry(ch, k, entry, ok) =
        IF ~ made.ok THEN made ELSE [ok |-> TRUE, chain |-> SetEntries(made.chain, p, new)]
  BY Zenon DEF append_entry
<1>2. Len(ch) \in Nat /\ k \in Nat /\ k >= 1 /\ k <= Len(ch) /\ room \in SUBSET (1..Len(ch))
      /\ room \in SUBSET (k..Len(ch))
      /\ \A q \in room : \E s \in Slots : EntriesOf(ch, q)[s] = Empty
  BY DEF Good
<1> HIDE DEF room
<1>3. /\ Good(made.chain) /\ made.ok \in BOOLEAN
      /\ made.ok => /\ RoomAt(ch, room) \in 1..Len(made.chain)
                    /\ RoomAt(ch, room) <= Len(ch) + 1
                    /\ room = {} => EntriesOf(made.chain, RoomAt(ch, room)) = NoEntries
                    /\ room # {} => made.chain = ch /\ RoomAt(ch, room) \in room
  BY <1>2, MakeRoomGood, Zenon
<1>4. p >= k
  <2>1. CASE room # {}
    <3>1. RoomAt(ch, room) \in room
      BY <1>2, <2>1, LeastIs, room \in SUBSET Nat DEF RoomAt
    <3>2. RoomAt(ch, room) \in k..Len(ch)
      BY <1>2, <3>1, Zenon
    <3> QED
      BY <3>2
  <2>2. CASE room = {}
    BY <1>2, <2>2 DEF RoomAt
  <2> QED
    BY <2>1, <2>2
<1> HIDE DEF made, p
<1>5. CASE ~ made.ok
  BY <1>1, <1>3, <1>5
<1>6. CASE made.ok
  <2>1. Len(made.chain) \in Nat /\ p \in 1..Len(made.chain) /\ k \in 1..Len(made.chain)
    BY <1>2, <1>3, <1>4, <1>6 DEF Good, p
  <2>2. es \in Rows
    BY <1>3, <2>1, RowFacts
  <2>3. slots # {}
    <3>1. CASE room = {}
      BY <1>3, <1>6, <3>1, SlotFacts DEF NoEntries, p
    <3>2. CASE room # {}
      BY <1>2, <1>3, <1>6, <3>2 DEF p
    <3> QED
      BY <3>1, <3>2
  <2>4. Least(slots) \in Slots
    <3>1. slots \in SUBSET Nat
      BY SlotFacts, Zenon
    <3> HIDE DEF slots
    <3>2. Least(slots) \in slots
      BY <2>3, <3>1, LeastIs
    <3> QED
      BY <3>2 DEF slots
  <2> HIDE DEF slots, es
  <2>5. new \in Rows
    BY <2>2, <2>4 DEF Rows
  <2> HIDE DEF new
  <2>6. Good(SetEntries(made.chain, p, new)) /\ Len(SetEntries(made.chain, p, new)) = Len(made.chain)
    BY <1>3, <2>1, <2>5, SetEntriesGood
  <2>7. append_entry(ch, k, entry, ok) = [ok |-> TRUE, chain |-> SetEntries(made.chain, p, new)]
    BY <1>1, <1>6, Zenon
  <2> QED
    BY <2>1, <2>6, <2>7
<1> QED
  BY <1>3, <1>5, <1>6

-----------------------------------------------------------------------------
(* The loop of squash_entries.                                             *)

LoopStart(ch, k) == [chain |-> ch, page |-> k, slot |-> 1]

IsLoop(f, ch, k, m) ==
  f = [i \in 0..m |-> IF i = 0 THEN LoopStart(ch, k) ELSE SquashTurn(f[i - 1])]

(* The recursion of squash_entries has a solution: by the least number of  *)
(* turns without one.                                                      *)
LEMMA LoopExists ==
  ASSUME NEW ch, NEW k, NEW m \in Nat
  PROVE  \E f : IsLoop(f, ch, k, m)
<1> DEFINE Bad == {j \in Nat : ~ \E f : IsLoop(f, ch, k, j)}
<1> SUFFICES ASSUME Bad # {} PROVE FALSE
  OBVIOUS
<1>1. PICK j \in Bad : \A i \in Bad : j <= i
  <2>1. Bad \in SUBSET Nat
    OBVIOUS
  <2> HIDE DEF Bad
  <2> QED
    BY <2>1, LeastNat, Zenon
<1>2. j # 0
  <2> DEFINE g == [i \in 0..0 |-> LoopStart(ch, k)]
  <2>1. \A i \in 0..0 : i = 0
    OBVIOUS
  <2>2. IsLoop(g, ch, k, 0)
    BY <2>1 DEF IsLoop
  <2> QED
    BY <2>2
<1>3. j \in Nat /\ j - 1 \in Nat /\ j - 1 \notin Bad
  BY <1>1, <1>2
<1>4. PICK f : IsLoop(f, ch, k, j - 1)
  BY <1>3
<1> DEFINE g == [i \in 0..j |-> IF i = j THEN SquashTurn(f[j - 1]) ELSE f[i]]
<1>5. \A i \in 0..(j - 1) :
        f[i] = IF i = 0 THEN LoopStart(ch, k) ELSE SquashTurn(f[i - 1])
  BY <1>4, Zenon DEF IsLoop
<1>6. \A i \in 0..j : g[i] = IF i = 0 THEN LoopStart(ch, k) ELSE SquashTurn(g[i - 1])
  <2> SUFFICES ASSUME NEW i \in 0..j
               PROVE  g[i] = IF i = 0 THEN LoopStart(ch, k) ELSE SquashTurn(g[i - 1])
    BY Zenon
  <2>1. CASE i = j
    <3>1. g[i] = SquashTurn(f[j - 1])
      BY <2>1, Zenon
    <3>2. j - 1 \in 0..j /\ j - 1 # j /\ i # 0
      BY <1>2, <1>3, <2>1
    <3>3. g[i - 1] = f[j - 1]
      BY <2>1, <3>2
    <3> QED
      BY <2>1, <3>1, <3>2, <3>3, Zenon
  <2>2. CASE i # j
    <3>1. i \in 0..(j - 1) /\ g[i] = f[i]
      BY <1>3, <2>2
    <3>2. i # 0 => i - 1 \in 0..j /\ i - 1 # j
      BY <1>3, <2>2
    <3>3. i # 0 => g[i - 1] = f[i - 1]
      BY <3>2
    <3> QED
      BY <1>5, <3>1, <3>3, Zenon
  <2> QED
    BY <2>1, <2>2
<1>7. IsLoop(g, ch, k, j)
  <2>1. g = [i \in 0..j |-> g[i]]
    BY Zenon
  <2> HIDE DEF g
  <2> QED
    BY <1>6, <2>1, Zenon DEF IsLoop
<1> HIDE DEF g
<1> QED
  BY <1>1, <1>7

(* What every turn keeps is true of the end of the loop.                   *)
LEMMA SquashReaches ==
  ASSUME NEW ch, Good(ch), NEW k, NEW Q,
         LoopStart(ch, k) \in Q,
         \A w \in Q : SquashTurn(w) \in Q
  PROVE  \E w \in Q : squash_entries(ch, k) = w.chain
<1> DEFINE m == Turns(ch)
           turn == CHOOSE f : IsLoop(f, ch, k, m)
<1>1. m \in Nat
  BY SlotFacts DEF Turns, Good
<1>2. squash_entries(ch, k) = turn[m].chain
  BY Zenon DEF squash_entries, IsLoop, LoopStart
<1>3. IsLoop(turn, ch, k, m)
  BY <1>1, LoopExists, Zenon
<1> HIDE DEF turn, m
<1>4. \A i \in 0..m : turn[i] = IF i = 0 THEN LoopStart(ch, k) ELSE SquashTurn(turn[i - 1])
  BY <1>3, Zenon DEF IsLoop
<1> DEFINE Bad == {i \in 0..m : turn[i] \notin Q}
<1>5. Bad = {}
  <2> SUFFICES ASSUME Bad # {} PROVE FALSE
    OBVIOUS
  <2>1. Bad \in SUBSET Nat
    OBVIOUS
  <2>2. PICK j \in Bad : \A i \in Bad : j <= i
    <3> HIDE DEF Bad
    <3> QED
      BY <2>1, LeastNat, Zenon
  <2>3. j # 0
    BY <1>4
  <2>4. j \in Nat /\ j - 1 \in 0..m /\ j - 1 \notin Bad
    BY <1>1, <2>2, <2>3
  <2>5. turn[j - 1] \in Q
    BY <2>4
  <2> QED
    BY <1>4, <2>3, <2>5
<1>6. turn[m] \in Q
  BY <1>1, <1>5
<1> QED
  BY <1>2, <1>6, Zenon

Loops ==
  {w \in [chain : Seq(Page), page : Nat, slot : Slots] : w.page \in 1..Len(w.chain)}

(* Two entries that touch make one range of the pool.                      *)
LEMMA MergeType ==
  ASSUME NEW e \in Ranges, NEW f \in Ranges, e.start + e.pages = f.start
  PROVE  Usable(e.start, e.pages + f.pages) \in Ranges
BY SlotFacts DEF Ranges, Usable

(* A turn of the loop of squash_entries keeps a list and a slot in it.     *)
LEMMA SquashTurnGood ==
  ASSUME NEW w \in Loops
  PROVE  SquashTurn(w) \in Loops
<1> DEFINE ch == w.chain
           p == w.page
           i == w.slot
           es == EntriesOf(ch, p)
           new == [es EXCEPT ![i] = Usable(es[i].start, es[i].pages + es[i + 1].pages)]
           rest == remove_entry(SetEntries(ch, p, new), p, i + 1)
<1>1. SquashTurn(w) =
        IF i = ENTRIES_LEN
        THEN IF p < Len(ch) THEN [w EXCEPT !.page = @ + 1, !.slot = 1] ELSE w
        ELSE IF es[i] = Empty \/ es[i + 1] = Empty THEN w
        ELSE IF es[i].start + es[i].pages = es[i + 1].start
        THEN [w EXCEPT !.chain = rest]
        ELSE [w EXCEPT !.slot = @ + 1]
  BY Zenon DEF SquashTurn
<1>2. Good(ch) /\ p \in 1..Len(ch) /\ i \in Slots /\ Len(ch) \in Nat
  BY DEF Loops, Good
<1>3. es \in Rows /\ \A s \in Slots : es[s] # Empty => es[s] \in Ranges
  BY <1>2, RowFacts
<1> HIDE DEF es
<1>4. CASE i = ENTRIES_LEN
  <2>1. CASE p < Len(ch)
    <3>1. SquashTurn(w) = [w EXCEPT !.page = @ + 1, !.slot = 1]
      BY <1>1, <1>4, <2>1, Zenon
    <3>2. w = [chain |-> ch, page |-> p, slot |-> i]
      BY DEF Loops
    <3>3. SquashTurn(w) = [chain |-> ch, page |-> p + 1, slot |-> 1]
      BY <3>1, <3>2, Zenon
    <3>4. p + 1 \in Nat /\ p + 1 \in 1..Len(ch) /\ ch \in Seq(Page)
      BY <1>2, <2>1 DEF Good
    <3> QED
      BY <3>3, <3>4, SlotFacts DEF Loops
  <2>2. CASE ~ (p < Len(ch))
    BY <1>1, <1>4, <2>2, Zenon
  <2> QED
    BY <2>1, <2>2
<1>5. CASE i # ENTRIES_LEN /\ (es[i] = Empty \/ es[i + 1] = Empty)
  BY <1>1, <1>5, Zenon
<1>6. CASE i # ENTRIES_LEN /\ es[i] # Empty /\ es[i + 1] # Empty
  <2>1. i + 1 \in Slots
    BY <1>2, <1>6, SlotFacts DEF Slots
  <2>2. CASE es[i].start + es[i].pages = es[i + 1].start
    <3>1. Usable(es[i].start, es[i].pages + es[i + 1].pages) \in Ranges
      BY <1>2, <1>3, <1>6, <2>1, <2>2, MergeType
    <3>2. new \in Rows
      BY <1>3, <3>1, Zenon DEF Rows
    <3>3. SquashTurn(w) = [w EXCEPT !.chain = rest]
      BY <1>1, <1>6, <2>2, Zenon
    <3> HIDE DEF new
    <3>4. Good(SetEntries(ch, p, new)) /\ Len(SetEntries(ch, p, new)) = Len(ch)
      BY <1>2, <3>2, SetEntriesGood
    <3>5. Good(rest) /\ Len(rest) \in p..Len(ch)
      BY <1>2, <2>1, <3>4, RemoveGood, Zenon
    <3> HIDE DEF rest
    <3>6. rest \in Seq(Page) /\ p \in 1..Len(rest)
      BY <1>2, <3>5 DEF Good
    <3> QED
      BY <3>3, <3>6 DEF Loops
  <2>3. CASE es[i].start + es[i].pages # es[i + 1].start
    <3>1. SquashTurn(w) = [w EXCEPT !.slot = @ + 1]
      BY <1>1, <1>6, <2>3, Zenon
    <3> QED
      BY <2>1, <3>1 DEF Loops
  <2> QED
    BY <2>2, <2>3
<1> QED
  BY <1>4, <1>5, <1>6

(* squash_entries returns a list.                                          *)
LEMMA SquashGood ==
  ASSUME NEW ch, Good(ch), NEW k \in 1..Len(ch)
  PROVE  Good(squash_entries(ch, k))
<1>1. LoopStart(ch, k) \in Loops
  BY SlotFacts DEF LoopStart, Loops, Good
<1>2. PICK w \in Loops : squash_entries(ch, k) = w.chain
  BY <1>1, SquashReaches, SquashTurnGood, Zenon
<1> QED
  BY <1>2 DEF Loops, Good

(* So does Squashed, and keeps the result of the operation before it.      *)
LEMMA SquashedGood ==
  ASSUME NEW r, r.ok \in BOOLEAN, Good(r.chain), NEW k, r.ok => k \in 1..Len(r.chain)
  PROVE  Squashed(r, k).ok = r.ok /\ Good(Squashed(r, k).chain)
<1>1. CASE r.ok
  BY <1>1, SquashGood DEF Squashed
<1>2. CASE ~ r.ok
  BY <1>2 DEF Squashed
<1> QED
  BY <1>1, <1>2

(* dealloc_pages returns a list, whatever becomes of it.                   *)
LEMMA DeallocGood ==
  ASSUME NEW ch, Good(ch), ~ Overlapping(ch), NEW k \in 1..Len(ch),
         NEW start, NEW n, Usable(start, n) \in Ranges, NEW ok \in BOOLEAN
  PROVE  /\ dealloc_pages(ch, k, start, n, ok).ok \in BOOLEAN
         /\ Good(dealloc_pages(ch, k, start, n, ok).chain)
<1> DEFINE after == [p \in 1..Len(ch) |->
                       {s \in Prefix(EntriesOf(ch, p)) : EntriesOf(ch, p)[s].start >= start}]
           p == ScanEnd(ch, k, after)
           es == EntriesOf(ch, p)
           s == Least(after[p])
           new == [es EXCEPT ![s] = Usable(start, es[s].pages + n)]
           ins == insert_entry(ch, p, s, Usable(start, n), ok)
           app == append_entry(ch, p, Usable(start, n), ok)
           res == dealloc_pages(ch, k, start, n, ok)
<1>1. res = IF after[p] # {}
            THEN IF es[s].start = start + n
                 THEN [ok |-> TRUE, chain |-> SetEntries(ch, p, new)]
                 ELSE Squashed(ins, p)
            ELSE IF Prefix(es) # Slots THEN [ok |-> TRUE, chain |-> ch]
            ELSE Squashed(app, p)
  BY Zenon DEF dealloc_pages
<1> HIDE DEF after, res, s
<1>2. p \in k..Len(ch)
  BY ScanEndIs
<1>3. p \in 1..Len(ch)
  BY <1>2 DEF Good
<1> HIDE DEF p
<1>4. /\ es \in Rows /\ Prefix(es) \subseteq Slots
      /\ \A x \in Prefix(es) : es[x] \in Ranges
  BY <1>3, RowFacts, Zenon
<1>5. after[p] = {x \in Prefix(es) : es[x].start >= start}
  BY <1>3, Zenon DEF after
<1> HIDE DEF es
<1>6. CASE after[p] # {}
  <2>1. after[p] \in SUBSET Nat
    BY <1>4, <1>5, SlotFacts, Zenon
  <2>2. s \in after[p]
    BY <1>6, <2>1, LeastIs, Zenon DEF s
  <2>3. s \in Slots /\ es[s] \in Ranges
    BY <1>4, <1>5, <2>2, Zenon
  <2>4. CASE es[s].start = start + n
    <3>1. Usable(start, es[s].pages + n) \in Ranges
      BY <2>3, <2>4, SlotFacts, SMTT(20) DEF Ranges, Usable
    <3>2. new \in Rows
      BY <1>4, <2>3, <3>1 DEF Rows
    <3>3. res = [ok |-> TRUE, chain |-> SetEntries(ch, p, new)]
      BY <1>1, <1>6, <2>4, Zenon
    <3> HIDE DEF new
    <3>4. Good(SetEntries(ch, p, new))
      BY <1>3, <3>2, SetEntriesGood
    <3> QED
      BY <3>3, <3>4 DEF res
  <2>5. CASE es[s].start # start + n
    <3>1. res = Squashed(ins, p)
      BY <1>1, <1>6, <2>5, Zenon
    <3>2. ins.ok \in BOOLEAN /\ Good(ins.chain) /\ (ins.ok => p \in 1..Len(ins.chain))
      BY <1>3, <2>3, InsertGood, Zenon
    <3> HIDE DEF ins
    <3>3. Squashed(ins, p).ok = ins.ok /\ Good(Squashed(ins, p).chain)
      BY <3>2, SquashedGood
    <3> QED
      BY <3>1, <3>2, <3>3, Zenon DEF res
  <2> QED
    BY <2>4, <2>5
<1>7. CASE after[p] = {} /\ Prefix(es) # Slots
  <2>1. res = [ok |-> TRUE, chain |-> ch]
    BY <1>1, <1>7, Zenon
  <2> QED
    BY <2>1 DEF res
<1>8. CASE after[p] = {} /\ Prefix(es) = Slots
  <2>1. res = Squashed(app, p)
    BY <1>1, <1>8, Zenon
  <2>2. app.ok \in BOOLEAN /\ Good(app.chain) /\ (app.ok => p \in 1..Len(app.chain))
    BY <1>3, AppendGood, Zenon
  <2> HIDE DEF app
  <2>3. Squashed(app, p).ok = app.ok /\ Good(Squashed(app, p).chain)
    BY <2>2, SquashedGood
  <2> QED
    BY <2>1, <2>2, <2>3, Zenon DEF res
<1> QED
  BY <1>6, <1>7, <1>8, Zenon

-----------------------------------------------------------------------------
(* The rows of one entry page.                                             *)

End(e) == e.start + e.pages

In(x, e) == e.start <= x /\ x < End(e)

(* Page x is in some entry.                                                *)
Held(es, x) == \E s \in Slots : es[s] # Empty /\ In(x, es[s])

(* The slots in use come first, in the order of the pages, without overlap.*)
Tidy(es) ==
  \A r, s \in Slots :
    r < s /\ es[s] # Empty => es[r] # Empty /\ End(es[r]) <= es[s].start

(* The last slot has been copied and not cleared.                          *)
Stuck(es) ==
  /\ es[ENTRIES_LEN] # Empty /\ es[ENTRIES_LEN - 1] # Empty
  /\ End(es[ENTRIES_LEN - 1]) > es[ENTRIES_LEN].start

(* The numbers of an entry.                                                *)
LEMMA RangeNums ==
  ASSUME NEW e \in Ranges
  PROVE  /\ e.start \in Nat /\ e.pages \in Nat /\ End(e) \in Nat
         /\ 1 <= e.start /\ e.start < End(e) /\ End(e) <= Pool + 1
BY SlotFacts DEF Ranges, End

(* The entry that Usable makes.                                            *)
LEMMA UsableNums ==
  ASSUME NEW a \in Nat, NEW n \in Nat
  PROVE  Usable(a, n).start = a /\ Usable(a, n).pages = n /\ End(Usable(a, n)) = a + n
BY DEF Usable, End

(* A slot other than the last one has a next one.                          *)
LEMMA SlotNext ==
  ASSUME NEW s \in Slots, s # ENTRIES_LEN
  PROVE  s + 1 \in Slots
BY SlotFacts DEF Slots

(* Two slots are the same or one comes first.                              *)
LEMMA SlotOrder ==
  ASSUME NEW r \in Slots, NEW s \in Slots
  PROVE  r < s \/ r = s \/ s < r
BY SlotFacts DEF Slots

(* ShiftDown slot by slot: the last slot keeps what it had unless it is the*)
(* one removed.                                                            *)
LEMMA ShiftDownIs ==
  ASSUME NEW es \in Rows, NEW idx \in Slots, NEW s \in Slots
  PROVE  ShiftDown(es, idx)[s] =
           IF s < idx THEN es[s]
           ELSE IF s # ENTRIES_LEN THEN es[s + 1]
           ELSE IF idx = ENTRIES_LEN THEN Empty ELSE es[s]
<1> DEFINE c == [es EXCEPT ![idx] = Empty]
<1>1. ShiftDown(es, idx)[s] = IF s < idx \/ s = ENTRIES_LEN THEN c[s] ELSE c[s + 1]
  BY Zenon DEF ShiftDown, c
<1>2. \A r \in Slots : c[r] = IF r = idx THEN Empty ELSE es[r]
  BY DEF Rows
<1> HIDE DEF c
<1>3. s # ENTRIES_LEN => s + 1 \in Slots
  BY SlotFacts DEF Slots
<1>4. s \in Nat /\ idx \in Nat /\ s <= ENTRIES_LEN /\ idx <= ENTRIES_LEN
  BY SlotFacts DEF Slots
<1> QED
  BY <1>1, <1>2, <1>3, <1>4

(* Taking an entry out of a page that is not full.                         *)
LEMMA RemoveRow ==
  ASSUME NEW es \in Rows, Tidy(es), es[ENTRIES_LEN] = Empty,
         NEW idx \in Slots, es[idx] # Empty
  PROVE  /\ Tidy(ShiftDown(es, idx))
         /\ \A x \in Nat : Held(ShiftDown(es, idx), x) <=> Held(es, x) /\ ~ In(x, es[idx])
<1> DEFINE new == ShiftDown(es, idx)
<1>1. idx \in Nat /\ idx < ENTRIES_LEN /\ ENTRIES_LEN \in Nat
  BY SlotFacts DEF Slots
<1>2. \A s \in Slots : /\ s \in Nat /\ 1 <= s /\ s <= ENTRIES_LEN
                       /\ s < ENTRIES_LEN => s + 1 \in Slots
                       /\ 1 < s => s - 1 \in Slots
                       /\ es[s] # Empty => s < ENTRIES_LEN
  BY SlotFacts DEF Slots
<1>3. \A s \in Slots : es[s] # Empty => es[s] \in Ranges
  BY DEF Rows
<1>4. \A s \in Slots : new[s] = IF s < idx THEN es[s]
                                ELSE IF s < ENTRIES_LEN THEN es[s + 1] ELSE Empty
  BY <1>1, <1>2, ShiftDownIs
<1> HIDE DEF new
<1>5. Tidy(new)
  <2> SUFFICES ASSUME NEW r \in Slots, NEW s \in Slots, r < s, new[s] # Empty
               PROVE  new[r] # Empty /\ End(new[r]) <= new[s].start
    BY DEF Tidy
  <2> DEFINE to(q) == IF q < idx THEN q ELSE q + 1
  <2>1. s < ENTRIES_LEN /\ r < ENTRIES_LEN
    BY <1>1, <1>2, <1>4
  <2>2. to(r) \in Slots /\ to(s) \in Slots /\ to(r) < to(s)
    BY <1>1, <1>2, <2>1
  <2>3. new[r] = es[to(r)] /\ new[s] = es[to(s)]
    BY <1>1, <1>4, <2>1, Zenon
  <2> HIDE DEF to
  <2> QED
    BY <2>2, <2>3 DEF Tidy
<1>6. ASSUME NEW x \in Nat
      PROVE  Held(new, x) <=> Held(es, x) /\ ~ In(x, es[idx])
  <2>1. ASSUME NEW s \in Slots, new[s] # Empty, In(x, new[s])
        PROVE  \E r \in Slots : r # idx /\ es[r] # Empty /\ In(x, es[r])
    <3>1. s < ENTRIES_LEN
      BY <1>1, <1>2, <1>4, <2>1
    <3>2. CASE s < idx
      BY <1>1, <1>4, <2>1, <3>2
    <3>3. CASE ~ (s < idx)
      <4>1. s + 1 \in Slots /\ s + 1 # idx /\ new[s] = es[s + 1]
        BY <1>1, <1>2, <1>4, <3>1, <3>3
      <4> QED
        BY <2>1, <4>1
    <3> QED
      BY <3>2, <3>3
  <2>2. ASSUME NEW r \in Slots, r # idx, es[r] # Empty, In(x, es[r])
        PROVE  \E s \in Slots : new[s] # Empty /\ In(x, new[s])
    <3>1. CASE r < idx
      BY <1>1, <1>4, <2>2, <3>1
    <3>2. CASE ~ (r < idx)
      <4>1. r - 1 \in Slots /\ ~ (r - 1 < idx) /\ r - 1 < ENTRIES_LEN /\ (r - 1) + 1 = r
        BY <1>1, <1>2, <2>2, <3>2
      <4>2. new[r - 1] = es[r]
        BY <1>4, <4>1
      <4> QED
        BY <2>2, <4>1, <4>2
    <3> QED
      BY <3>1, <3>2
  <2>3. ASSUME NEW r \in Slots, r # idx, es[r] # Empty, In(x, es[r]), In(x, es[idx])
        PROVE  FALSE
    <3>1. es[r] \in Ranges /\ es[idx] \in Ranges
      BY <1>3, <2>3
    <3>2. End(es[r]) <= es[idx].start \/ End(es[idx]) <= es[r].start
      <4>1. r < idx \/ idx < r
        BY <1>1, <1>2, <2>3
      <4> QED
        BY <4>1, <2>3 DEF Tidy
    <3> QED
      BY <2>3, <3>1, <3>2, RangeNums DEF In
  <2> QED
    BY <2>1, <2>2, <2>3, Zenon DEF Held
<1> QED
  BY <1>5, <1>6 DEF new

(* An entry replaced by one that keeps clear of the others.                *)
LEMMA ReplaceRow ==
  ASSUME NEW es \in Rows, Tidy(es), NEW s \in Slots, es[s] # Empty, NEW e \in Ranges,
         \A r \in Slots : r < s => End(es[r]) <= e.start,
         End(e) <= End(es[s])
  PROVE  /\ [es EXCEPT ![s] = e] \in Rows
         /\ Tidy([es EXCEPT ![s] = e])
         /\ [es EXCEPT ![s] = e][ENTRIES_LEN] = Empty <=> es[ENTRIES_LEN] = Empty
         /\ \A x \in Nat : Held([es EXCEPT ![s] = e], x) <=>
               In(x, e) \/ \E r \in Slots : r # s /\ es[r] # Empty /\ In(x, es[r])
<1> DEFINE new == [es EXCEPT ![s] = e]
<1>1. new \in Rows /\ \A r \in Slots : new[r] = IF r = s THEN e ELSE es[r]
  BY DEF Rows
<1>2. \A r \in Slots : r \in Nat /\ (es[r] # Empty => es[r] \in Ranges)
  BY SlotFacts DEF Rows
<1>3. e # Empty /\ ENTRIES_LEN \in Slots
  BY SlotFacts
<1> HIDE DEF new
<1>4. Tidy(new)
  <2> SUFFICES ASSUME NEW r \in Slots, NEW t \in Slots, r < t, new[t] # Empty
               PROVE  new[r] # Empty /\ End(new[r]) <= new[t].start
    BY DEF Tidy
  <2>1. CASE t = s
    <3>1. es[r] # Empty /\ r # s
      BY <1>2, <2>1 DEF Tidy
    <3> QED
      BY <1>1, <2>1, <3>1
  <2>2. CASE t # s /\ r = s
    <3>1. new[r] = e /\ new[t] = es[t] /\ End(es[s]) <= es[t].start
      BY <1>1, <2>2 DEF Tidy
    <3>2. es[s] \in Ranges /\ es[t] \in Ranges
      BY <1>1, <1>2, <2>2
    <3> QED
      BY <1>3, <3>1, <3>2, RangeNums
  <2>3. CASE t # s /\ r # s
    BY <1>1, <2>3 DEF Tidy
  <2> QED
    BY <2>1, <2>2, <2>3
<1>5. new[ENTRIES_LEN] = Empty <=> es[ENTRIES_LEN] = Empty
  BY <1>1, <1>3
<1>6. ASSUME NEW x \in Nat
      PROVE  Held(new, x) <=> In(x, e) \/ \E r \in Slots : r # s /\ es[r] # Empty /\ In(x, es[r])
  BY <1>1, <1>3, Zenon DEF Held
<1> QED
  BY <1>1, <1>4, <1>5, <1>6, Zenon DEF new

(* A range that no entry touches goes in front of the first entry behind   *)
(* it; the last slot, which is Empty, falls out.                           *)
LEMMA InsertRow ==
  ASSUME NEW es \in Rows, Tidy(es), es[ENTRIES_LEN] = Empty,
         NEW idx \in Slots, es[idx] # Empty, NEW e \in Ranges,
         \A r \in Slots : r < idx => End(es[r]) <= e.start,
         End(e) <= es[idx].start
  PROVE  /\ Tidy(ShiftUp(es, idx, e))
         /\ \A x \in Nat : Held(ShiftUp(es, idx, e), x) <=> Held(es, x) \/ In(x, e)
<1> DEFINE new == ShiftUp(es, idx, e)
<1>1. \A s \in Slots : new[s] = IF s < idx THEN es[s] ELSE IF s = idx THEN e ELSE es[s - 1]
  BY DEF ShiftUp
<1>2. \A s \in Slots : /\ s \in Nat /\ 1 <= s /\ s <= ENTRIES_LEN
                       /\ s < ENTRIES_LEN => s + 1 \in Slots
                       /\ 1 < s => s - 1 \in Slots
                       /\ es[s] # Empty => s < ENTRIES_LEN
  BY SlotFacts DEF Slots
<1>3. e # Empty /\ ENTRIES_LEN \in Nat
  BY SlotFacts
<1>4. \A s \in Slots : es[s] # Empty => es[s] \in Ranges
  BY DEF Rows
<1> HIDE DEF new
<1>5. Tidy(new)
  <2> SUFFICES ASSUME NEW r \in Slots, NEW s \in Slots, r < s, new[s] # Empty
               PROVE  new[r] # Empty /\ End(new[r]) <= new[s].start
    BY DEF Tidy
  <2>1. CASE s < idx
    BY <1>1, <1>2, <2>1 DEF Tidy
  <2>2. CASE s = idx
    <3>1. new[s] = e /\ new[r] = es[r] /\ es[r] # Empty
      BY <1>1, <1>2, <2>2 DEF Tidy
    <3> QED
      BY <2>2, <3>1
  <2>3. CASE idx < s
    <3>1. s - 1 \in Slots /\ new[s] = es[s - 1] /\ idx <= s - 1 /\ s - 1 \in Nat
      BY <1>1, <1>2, <2>3
    <3>2. es[s - 1] \in Ranges /\ es[idx] \in Ranges
      BY <1>4, <3>1
    <3>3. es[idx].start <= es[s - 1].start
      <4>1. CASE idx = s - 1
        BY <3>2, <4>1, RangeNums
      <4>2. CASE idx < s - 1
        <5>1. End(es[idx]) <= es[s - 1].start
          BY <3>1, <4>2 DEF Tidy
        <5> QED
          BY <3>2, <5>1, RangeNums
      <4> QED
        BY <1>2, <3>1, <4>1, <4>2
    <3>4. CASE r < idx
      <4>1. r < s - 1 /\ new[r] = es[r]
        BY <1>1, <1>2, <3>1, <3>4
      <4> QED
        BY <3>1, <4>1 DEF Tidy
    <3>5. CASE r = idx
      <4>1. new[r] = e /\ End(e) <= es[s - 1].start
        BY <1>1, <1>2, <3>2, <3>3, <3>5, RangeNums
      <4> QED
        BY <1>3, <3>1, <4>1
    <3>6. CASE idx < r
      <4>1. r - 1 \in Slots /\ r - 1 < s - 1 /\ new[r] = es[r - 1]
        BY <1>1, <1>2, <3>6
      <4> QED
        BY <3>1, <4>1 DEF Tidy
    <3>7. r < idx \/ r = idx \/ idx < r
      BY SlotOrder, Zenon
    <3> QED
      BY <3>4, <3>5, <3>6, <3>7, Zenon
  <2>4. s < idx \/ s = idx \/ idx < s
    BY SlotOrder, Zenon
  <2> QED
    BY <2>1, <2>2, <2>3, <2>4, Zenon
<1>6. ASSUME NEW x \in Nat
      PROVE  Held(new, x) <=> Held(es, x) \/ In(x, e)
  <2>1. ASSUME NEW s \in Slots, new[s] # Empty, In(x, new[s])
        PROVE  Held(es, x) \/ In(x, e)
    <3>1. CASE s < idx
      BY <1>1, <1>2, <2>1, <3>1 DEF Held
    <3>2. CASE s = idx
      BY <1>1, <1>2, <2>1, <3>2
    <3>3. CASE idx < s
      <4>1. s - 1 \in Slots /\ new[s] = es[s - 1]
        BY <1>1, <1>2, <3>3
      <4> QED
        BY <2>1, <4>1 DEF Held
    <3> QED
      BY <1>2, <3>1, <3>2, <3>3
  <2>2. ASSUME NEW r \in Slots, es[r] # Empty, In(x, es[r])
        PROVE  Held(new, x)
    <3>1. CASE r < idx
      BY <1>1, <1>2, <2>2, <3>1 DEF Held
    <3>2. CASE ~ (r < idx)
      <4>1. r + 1 \in Slots /\ ~ (r + 1 < idx) /\ r + 1 # idx /\ (r + 1) - 1 = r
        BY <1>2, <2>2, <3>2
      <4>2. new[r + 1] = es[r]
        BY <1>1, <4>1
      <4> QED
        BY <2>2, <4>1, <4>2 DEF Held
    <3> QED
      BY <3>1, <3>2
  <2>3. In(x, e) => Held(new, x)
    BY <1>1, <1>2, <1>3 DEF Held
  <2> QED
    BY <2>1, <2>2, <2>3, Zenon DEF Held
<1> QED
  BY <1>5, <1>6 DEF new

(* Row `new` is es with the entries i and i + 1 replaced by m.             *)
IsMerge(es, i, m, new) ==
  \A s \in Slots : new[s] = IF s < i THEN es[s]
                            ELSE IF s = i THEN m
                            ELSE IF s # ENTRIES_LEN THEN es[s + 1]
                            ELSE IF i + 1 = ENTRIES_LEN THEN Empty ELSE es[s]

(* The entries i and i + 1 touch, and m is both.                           *)
Touch(es, i, m) ==
  /\ i # ENTRIES_LEN /\ es[i] # Empty /\ es[i + 1] # Empty
  /\ End(es[i]) = es[i + 1].start
  /\ m.start = es[i].start /\ End(m) = End(es[i + 1])

(* What a turn of squash_entries that joins slots i and i + 1 does to the  *)
(* page.                                                                   *)
LEMMA MergeIs ==
  ASSUME NEW es \in Rows, NEW i \in Slots, i # ENTRIES_LEN, NEW m \in Ranges
  PROVE  IsMerge(es, i, m, ShiftDown([es EXCEPT ![i] = m], i + 1))
<1> DEFINE e2 == [es EXCEPT ![i] = m]
           new == ShiftDown(e2, i + 1)
<1>1. e2 \in Rows /\ \A s \in Slots : e2[s] = IF s = i THEN m ELSE es[s]
  BY DEF Rows
<1>2. i + 1 \in Slots /\ i \in Nat /\ i < ENTRIES_LEN
  BY SlotFacts DEF Slots
<1>3. \A s \in Slots : s \in Nat /\ s <= ENTRIES_LEN /\ (s # ENTRIES_LEN => s + 1 \in Slots)
  BY SlotFacts DEF Slots
<1> HIDE DEF e2
<1>4. \A s \in Slots : new[s] = IF s < i + 1 THEN e2[s]
                                ELSE IF s # ENTRIES_LEN THEN e2[s + 1]
                                ELSE IF i + 1 = ENTRIES_LEN THEN Empty ELSE e2[s]
  BY <1>1, <1>2, ShiftDownIs
<1> HIDE DEF new
<1> SUFFICES ASSUME NEW s \in Slots
             PROVE  new[s] = IF s < i THEN es[s]
                             ELSE IF s = i THEN m
                             ELSE IF s # ENTRIES_LEN THEN es[s + 1]
                             ELSE IF i + 1 = ENTRIES_LEN THEN Empty ELSE es[s]
  BY Zenon DEF IsMerge, new, e2
<1>5. CASE s < i
  <2>1. s < i + 1 /\ s # i
    BY <1>2, <1>3, <1>5
  <2> QED
    BY <1>1, <1>4, <1>5, <2>1, Zenon
<1>6. CASE s = i
  <2>1. s < i + 1 /\ ~ (s < i)
    BY <1>2, <1>3, <1>6
  <2> QED
    BY <1>1, <1>4, <1>6, <2>1, Zenon
<1>7. CASE i < s
  <2>1. ~ (s < i + 1) /\ ~ (s < i) /\ s # i /\ s + 1 # i
    BY <1>2, <1>3, <1>7
  <2>2. s # ENTRIES_LEN => e2[s + 1] = es[s + 1]
    BY <1>1, <1>3, <2>1, Zenon
  <2>3. e2[s] = es[s]
    BY <1>1, <2>1, Zenon
  <2> QED
    BY <1>4, <2>1, <2>2, <2>3, Zenon
<1>8. s < i \/ s = i \/ i < s
  BY <1>2, <1>3
<1> QED
  BY <1>5, <1>6, <1>7, <1>8, Zenon

(* Merging two entries that touch: the pages stay the same, or the last    *)
(* slot is left behind.                                                    *)
LEMMA MergeRow ==
  ASSUME NEW es \in Rows, NEW i \in Slots, NEW m \in Ranges, Touch(es, i, m),
         NEW new, IsMerge(es, i, m, new)
  PROVE  /\ Stuck(es) => Stuck(new)
         /\ Tidy(es) =>
              \/ Stuck(new)
              \/ Tidy(new) /\ \A x \in Nat : Held(new, x) <=> Held(es, x)
<1>1. \A s \in Slots : /\ s \in Nat /\ 1 <= s /\ s <= ENTRIES_LEN
                       /\ s < ENTRIES_LEN => s + 1 \in Slots
                       /\ 1 < s => s - 1 \in Slots
  BY SlotFacts DEF Slots
<1>2. \A s \in Slots : es[s] # Empty => es[s] \in Ranges
  BY DEF Rows
<1>3. ENTRIES_LEN \in Slots /\ ENTRIES_LEN \in Nat /\ i + 1 \in Slots /\ i < ENTRIES_LEN
      /\ ENTRIES_LEN - 1 \in Slots
  BY <1>1, SlotFacts DEF Touch
<1>4. /\ es[i] \in Ranges /\ es[i + 1] \in Ranges /\ End(es[i]) = es[i + 1].start
      /\ es[i] # Empty /\ es[i + 1] # Empty
  BY <1>2, <1>3 DEF Touch
<1>5. m.start = es[i].start /\ End(m) = End(es[i + 1]) /\ m # Empty
  BY SlotFacts DEF Touch
<1>6. \A s \in Slots : new[s] = IF s < i THEN es[s]
                                ELSE IF s = i THEN m
                                ELSE IF s # ENTRIES_LEN THEN es[s + 1]
                                ELSE IF i + 1 = ENTRIES_LEN THEN Empty ELSE es[s]
  BY Zenon DEF IsMerge
<1>7. ASSUME es[ENTRIES_LEN] # Empty, i + 1 # ENTRIES_LEN
      PROVE  Stuck(new)
  <2>1. new[ENTRIES_LEN] = es[ENTRIES_LEN] /\ new[ENTRIES_LEN - 1] = es[ENTRIES_LEN]
    <3>1. ~ (ENTRIES_LEN < i) /\ ENTRIES_LEN # i
      BY <1>1, <1>3
    <3>2. ~ (ENTRIES_LEN - 1 < i) /\ ENTRIES_LEN - 1 # i /\ ENTRIES_LEN - 1 # ENTRIES_LEN
          /\ (ENTRIES_LEN - 1) + 1 = ENTRIES_LEN
      BY <1>1, <1>3, <1>7
    <3>3. new[ENTRIES_LEN] = es[ENTRIES_LEN]
      BY <1>3, <1>6, <1>7, <3>1
    <3>4. new[ENTRIES_LEN - 1] = es[(ENTRIES_LEN - 1) + 1]
      BY <1>3, <1>6, <3>2, Zenon
    <3> QED
      BY <3>2, <3>3, <3>4
  <2>2. es[ENTRIES_LEN] \in Ranges
    BY <1>2, <1>3, <1>7
  <2> QED
    BY <1>7, <2>1, <2>2, RangeNums DEF Stuck
<1>8. ASSUME Stuck(es) PROVE Stuck(new)
  <2>1. i + 1 # ENTRIES_LEN
    <3> SUFFICES ASSUME i + 1 = ENTRIES_LEN PROVE FALSE
      OBVIOUS
    <3>1. i = ENTRIES_LEN - 1
      BY <1>1, <1>3
    <3> QED
      BY <1>4, <1>8, <3>1, RangeNums DEF Stuck
  <2> QED
    BY <1>7, <1>8, <2>1 DEF Stuck
<1>9. ASSUME Tidy(es), i + 1 = ENTRIES_LEN \/ es[ENTRIES_LEN] = Empty
       PROVE  Tidy(new) /\ \A x \in Nat : Held(new, x) <=> Held(es, x)
  <2>1. \A s \in Slots : new[s] = IF s < i THEN es[s] ELSE IF s = i THEN m
                                  ELSE IF s # ENTRIES_LEN THEN es[s + 1] ELSE Empty
    BY <1>6, <1>9
  <2>2. \A s \in Slots : es[s] # Empty /\ i + 1 < s => s < ENTRIES_LEN
    BY <1>1, <1>3, <1>9
  <2>3. Tidy(new)
    <3> SUFFICES ASSUME NEW r \in Slots, NEW s \in Slots, r < s, new[s] # Empty
                 PROVE  new[r] # Empty /\ End(new[r]) <= new[s].start
      BY DEF Tidy
    <3>1. CASE s < i
      BY <1>9, <1>1, <2>1, <3>1 DEF Tidy
    <3>2. CASE s = i
      <4>1. new[r] = es[r] /\ new[s] = m /\ es[r] # Empty /\ End(es[r]) <= es[i].start
        <5>1. es[r] # Empty /\ End(es[r]) <= es[i].start
          BY <1>4, <1>9, <3>2 DEF Tidy
        <5>2. r < i
          BY <3>2
        <5>3. ~ (i < i)
          BY <1>3
        <5> QED
          BY <2>1, <3>2, <5>1, <5>2, <5>3, Zenon
      <4> QED
        BY <1>5, <4>1
    <3>3. CASE i < s
      <4>1. s # ENTRIES_LEN /\ s + 1 \in Slots /\ new[s] = es[s + 1]
        <5>1. ~ (s < i) /\ s # i
          BY <1>1, <3>3
        <5>2. s # ENTRIES_LEN /\ new[s] = es[s + 1]
          BY <2>1, <5>1, Zenon
        <5> QED
          BY <5>2, SlotNext, Zenon
      <4>2. CASE r < i
        <5>1. new[r] = es[r] /\ r < s + 1
          BY <1>1, <2>1, <4>2
        <5> QED
          BY <1>9, <4>1, <5>1 DEF Tidy
      <4>3. CASE r = i
        <5>1. new[r] = m /\ i + 1 < s + 1
          BY <1>1, <2>1, <3>3, <4>3
        <5>2. End(es[i + 1]) <= es[s + 1].start
          BY <1>9, <1>3, <4>1, <5>1 DEF Tidy
        <5> QED
          BY <1>5, <4>1, <5>1, <5>2
      <4>4. CASE i < r
        <5>1. r # ENTRIES_LEN /\ r + 1 \in Slots /\ r + 1 < s + 1 /\ new[r] = es[r + 1]
          <6>1. r \in Nat /\ s \in Nat /\ i \in Nat /\ s <= ENTRIES_LEN
            BY <1>1, Zenon
          <6>2. ~ (r < i) /\ r # i /\ r # ENTRIES_LEN /\ r + 1 < s + 1
            BY <1>3, <4>4, <6>1
          <6> QED
            BY <2>1, <6>2, SlotNext, Zenon
        <5> QED
          BY <1>9, <4>1, <5>1 DEF Tidy
      <4> QED
        BY <4>2, <4>3, <4>4, SlotOrder, Zenon
    <3> QED
      BY <3>1, <3>2, <3>3, SlotOrder, Zenon
  <2>4. ASSUME NEW x \in Nat
        PROVE  Held(new, x) <=> Held(es, x)
    <3>1. In(x, m) <=> In(x, es[i]) \/ In(x, es[i + 1])
      BY <1>4, <1>5, RangeNums DEF In
    <3>2. ASSUME NEW s \in Slots, new[s] # Empty, In(x, new[s])
          PROVE  Held(es, x)
      <4>1. CASE s < i
        BY <1>1, <2>1, <3>2, <4>1 DEF Held
      <4>2. CASE s = i
        <5>1. new[s] = m
          BY <1>1, <2>1, <4>2
        <5> QED
          BY <1>3, <1>4, <3>1, <3>2, <5>1, Zenon DEF Held
      <4>3. CASE i < s
        <5>1. s + 1 \in Slots /\ new[s] = es[s + 1]
          <6>1. ~ (s < i) /\ s # i
            BY <1>1, <4>3
          <6>2. s # ENTRIES_LEN /\ new[s] = es[s + 1]
            BY <2>1, <3>2, <6>1, Zenon
          <6> QED
            BY <6>2, SlotNext, Zenon
        <5> QED
          BY <3>2, <5>1, Zenon DEF Held
      <4> QED
        BY <4>1, <4>2, <4>3, SlotOrder, Zenon
    <3>3. ASSUME NEW r \in Slots, es[r] # Empty, In(x, es[r])
          PROVE  Held(new, x)
      <4>1. CASE r < i
        BY <1>1, <2>1, <3>3, <4>1 DEF Held
      <4>2. CASE r = i \/ r = i + 1
        <5>1. new[i] = m /\ In(x, m)
          BY <1>1, <2>1, <3>1, <3>3, <4>2
        <5> QED
          BY <1>5, <5>1, Zenon DEF Held
      <4>3. CASE i + 1 < r
        <5>1. r - 1 \in Slots /\ ~ (r - 1 < i) /\ r - 1 # i /\ r - 1 # ENTRIES_LEN
              /\ (r - 1) + 1 = r
          BY <1>1, <2>2, <3>3, <4>3
        <5>2. new[r - 1] = es[r]
          BY <2>1, <5>1
        <5> QED
          BY <3>3, <5>1, <5>2, Zenon DEF Held
      <4> QED
        BY <1>1, <4>1, <4>2, <4>3
    <3> QED
      BY <3>2, <3>3, Zenon DEF Held
  <2> QED
    BY <2>3, <2>4
<1> QED
  BY <1>7, <1>8, <1>9, Zenon

-----------------------------------------------------------------------------
(* Lists of one entry page.                                                *)

Row(ch) == EntriesOf(ch, 1)

One(ch) == Good(ch) /\ Len(ch) = 1

(* A list of one page, and its entries.                                    *)
LEMMA OneRow ==
  ASSUME NEW ch, One(ch)
  PROVE  /\ Good(ch) /\ 1 \in 1..Len(ch) /\ Row(ch) \in Rows
         /\ \A s \in Slots : Row(ch)[s] # Empty => Row(ch)[s] \in Ranges
         /\ \A p \in 1..Len(ch) : p = 1
<1>1. Good(ch) /\ 1 \in 1..Len(ch) /\ \A p \in 1..Len(ch) : p = 1
  BY DEF One
<1> QED
  BY <1>1, RowFacts, Zenon DEF Row

(* PageRange in terms of In.                                               *)
LEMMA InRange ==
  ASSUME NEW e \in Ranges, NEW x
  PROVE  x \in PageRange(e.start, e.pages) <=> x \in Nat /\ In(x, e)
BY RangeNums DEF PageRange, In, End

(* The pages of the entries.                                               *)
LEMMA OneFree ==
  ASSUME NEW ch, One(ch), NEW x
  PROVE  x \in FreePages(ch) <=> x \in Nat /\ Held(Row(ch), x)
<1>1. ASSUME x \in FreePages(ch) PROVE x \in Nat /\ Held(Row(ch), x)
  <2>1. PICK y \in Entries(ch) : x \in EntryRange(ch, y)
    BY <1>1, Zenon DEF FreePages
  <2>2. y[1] = 1 /\ y[2] \in Slots /\ Row(ch)[y[2]] # Empty
    BY OneRow DEF Entries, Row
  <2>3. x \in PageRange(Row(ch)[y[2]].start, Row(ch)[y[2]].pages)
    BY <2>1, <2>2 DEF EntryRange, EntryAt, Row
  <2> QED
    BY <2>2, <2>3, OneRow, InRange, Zenon DEF Held
<1>2. ASSUME x \in Nat, Held(Row(ch), x) PROVE x \in FreePages(ch)
  <2>1. PICK s \in Slots : Row(ch)[s] # Empty /\ In(x, Row(ch)[s])
    BY <1>2, Zenon DEF Held
  <2>2. x \in PageRange(Row(ch)[s].start, Row(ch)[s].pages)
    BY <1>2, <2>1, OneRow, InRange, Zenon
  <2>3. <<1, s>> \in Entries(ch)
    BY <2>1, OneRow DEF Entries, Row
  <2>4. x \in EntryRange(ch, <<1, s>>)
    BY <2>2 DEF EntryRange, EntryAt, Row
  <2> QED
    BY <2>3, <2>4, Zenon DEF FreePages
<1> QED
  BY <1>1, <1>2, Zenon

(* A tidy page has no two entries that overlap, and its entries are sorted.*)
LEMMA TidyFacts ==
  ASSUME NEW ch, One(ch), Tidy(Row(ch))
  PROVE  /\ ~ Overlapping(ch)
         /\ \A k \in 1..Len(ch) : \A s \in Slots :
              /\ EntriesOf(ch, k)[s] # Empty => s \in Prefix(EntriesOf(ch, k))
              /\ s > 1 /\ EntriesOf(ch, k)[s] # Empty =>
                   EntriesOf(ch, k)[s - 1].start + EntriesOf(ch, k)[s - 1].pages
                     <= EntriesOf(ch, k)[s].start
<1> DEFINE es == Row(ch)
<1>1. \A s \in Slots : es[s] # Empty => es[s] \in Ranges
  BY OneRow
<1>2. \A x, y \in Entries(ch) : x # y => EntryRange(ch, x) \cap EntryRange(ch, y) = {}
  <2> SUFFICES ASSUME NEW x \in Entries(ch), NEW y \in Entries(ch), x # y,
                      NEW a, a \in EntryRange(ch, x), a \in EntryRange(ch, y)
               PROVE  FALSE
    BY Zenon
  <2>1. /\ x = <<1, x[2]>> /\ x[2] \in Slots /\ es[x[2]] # Empty
        /\ y = <<1, y[2]>> /\ y[2] \in Slots /\ es[y[2]] # Empty
    BY OneRow DEF Entries, Row
  <2> DEFINE r == x[2]
             s == y[2]
  <2>2. r # s
    BY <2>1
  <2>3. a \in PageRange(es[r].start, es[r].pages) /\ a \in PageRange(es[s].start, es[s].pages)
    BY <2>1 DEF EntryRange, EntryAt, Row
  <2> HIDE DEF r, s
  <2>4. r \in Slots /\ s \in Slots /\ es[r] # Empty /\ es[s] # Empty
    BY <2>1 DEF r, s
  <2> HIDE DEF es
  <2>5. es[r] \in Ranges /\ es[s] \in Ranges
    BY <1>1, <2>4, Zenon
  <2>6. a \in Nat /\ In(a, es[r]) /\ In(a, es[s])
    BY <2>3, <2>5, InRange, Zenon
  <2>7. End(es[r]) <= es[s].start \/ End(es[s]) <= es[r].start
    BY <2>2, <2>4, SlotOrder, Zenon DEF Tidy, es
  <2> QED
    BY <2>5, <2>6, <2>7, RangeNums DEF In
<1>3. ~ Overlapping(ch)
  BY <1>2, Zenon DEF Overlapping
<1>4. ASSUME NEW s \in Slots, es[s] # Empty
      PROVE  /\ s \in Prefix(es)
             /\ s > 1 => es[s - 1].start + es[s - 1].pages <= es[s].start
  <2>1. ASSUME NEW r \in 1..s PROVE es[r] # Empty
    <3>1. r \in Slots /\ (r < s \/ r = s)
      BY SlotFacts DEF Slots
    <3> QED
      BY <1>4, <3>1 DEF Tidy
  <2>2. s > 1 => s - 1 \in Slots /\ s - 1 < s
    BY SlotFacts DEF Slots
  <2>3. s > 1 => es[s - 1].start + es[s - 1].pages <= es[s].start
    BY <1>4, <2>2 DEF Tidy, End
  <2> QED
    BY <2>1, <2>3, Zenon DEF Prefix
<1> QED
  BY <1>3, <1>4, OneRow, Zenon DEF Row

(* remove_entry on a list of one page shifts the entries down.             *)
LEMMA RemoveOne ==
  ASSUME NEW ch, One(ch), NEW idx \in Slots
  PROVE  /\ One(remove_entry(ch, 1, idx))
         /\ Row(remove_entry(ch, 1, idx)) = ShiftDown(Row(ch), idx)
<1>1. Good(remove_entry(ch, 1, idx)) /\ Len(remove_entry(ch, 1, idx)) \in 1..Len(ch)
  BY OneRow, RemoveGood
<1>2. One(remove_entry(ch, 1, idx))
  BY <1>1, OneRow, Zenon DEF One
<1> DEFINE first == [p \in 1..Len(ch) |-> EntriesOf(ch, p)[1]]
           gone == {p \in (1 + 1)..Len(ch) : EntriesOf(ch, p)[1] = Empty}
           left == [p \in 1..Len(ch) |-> ShiftDown(EntriesOf(ch, p), IF p = 1 THEN idx ELSE 1)]
           pulled == [p \in 1..Len(ch) |->
                        IF p < Len(ch) /\ first[p + 1] # Empty
                        THEN [left[p] EXCEPT ![ENTRIES_LEN] = first[p + 1]]
                        ELSE left[p]]
           m == Len(ch) - Cardinality(gone)
           f == [p \in 1..m |-> [ch[p] EXCEPT !.entries = IF p < 1 THEN @ ELSE pulled[p]]]
<1>3. f = remove_entry(ch, 1, idx)
  BY Zenon DEF remove_entry, PagesLeft
<1>4. 1 \in 1..m
  <2>1. Len(ch) = 1
    BY DEF One
  <2>2. gone = {}
    BY <2>1
  <2> HIDE DEF gone
  <2>3. Cardinality(gone) = 0
    BY <2>2, FS_EmptySet
  <2> QED
    BY <2>1, <2>3
<1>5. left[1] = ShiftDown(Row(ch), idx)
  BY OneRow, Zenon DEF Row
<1>6. ~ (1 < Len(ch)) /\ ~ (1 < 1)
  BY DEF One
<1> HIDE DEF left, first, m
<1>7. pulled[1] = left[1]
  BY <1>6, OneRow, Zenon
<1> HIDE DEF pulled
<1>8. f[1] = [ch[1] EXCEPT !.entries = pulled[1]]
  BY <1>4, <1>6, Zenon
<1>9. ch[1] \in Page
  BY OneRow, RowFacts, Zenon
<1>10. f[1].entries = pulled[1]
  BY <1>8, <1>9 DEF Page
<1> HIDE DEF f
<1> QED
  BY <1>2, <1>3, <1>5, <1>7, <1>10, Zenon DEF Row, EntriesOf

(* SetEntries on a list of one page.                                       *)
LEMMA SetOne ==
  ASSUME NEW ch, One(ch), NEW es \in Rows
  PROVE  One(SetEntries(ch, 1, es)) /\ Row(SetEntries(ch, 1, es)) = es
BY OneRow, SetEntriesGood DEF One, Row

(* The page of a list of one page where a scan ends.                       *)
LEMMA ScanOne ==
  ASSUME NEW ch, One(ch), NEW found
  PROVE  ScanEnd(ch, 1, found) = 1
BY OneRow, ScanEndIs, Zenon

(* alloc_pages on a page that is not full takes the pages and leaves it    *)
(* tidy.                                                                   *)
LEMMA CutOne ==
  ASSUME NEW ch, One(ch), Tidy(Row(ch)), Row(ch)[ENTRIES_LEN] = Empty,
         NEW s \in Prefix(Row(ch)), NEW n \in Nat \ {0}, Row(ch)[s].pages >= n
  PROVE  /\ One(Cut(ch, 1, s, n)) /\ Tidy(Row(Cut(ch, 1, s, n)))
         /\ \A x \in Nat : Held(Row(Cut(ch, 1, s, n)), x) <=>
              Held(Row(ch), x) /\ ~ In(x, Usable(Row(ch)[s].start, n))
<1> DEFINE es == Row(ch)
           c == Cut(ch, 1, s, n)
<1>1. es \in Rows /\ s \in Slots /\ es[s] # Empty /\ es[s] \in Ranges
  BY OneRow, RowFacts, SlotFacts, Zenon DEF Row
<1>2. es[s].pages \in Nat /\ es[s].start \in Nat /\ es[s].pages >= 1
  BY <1>1, RangeNums DEF Ranges
<1>3. EntriesOf(ch, 1) = es
  BY DEF Row
<1>4. Usable(es[s].start, n).start = es[s].start /\ End(Usable(es[s].start, n)) = es[s].start + n
  BY <1>2, UsableNums, Zenon
<1> HIDE DEF es
<1>5. CASE es[s].pages = n
  <2>1. c = remove_entry(ch, 1, s)
    BY <1>3, <1>5, Zenon DEF Cut
  <2>2. One(c) /\ Row(c) = ShiftDown(es, s)
    BY <1>1, <2>1, RemoveOne, Zenon DEF es
  <2> HIDE DEF c
  <2>3. /\ Tidy(ShiftDown(es, s))
        /\ \A x \in Nat : Held(ShiftDown(es, s), x) <=> Held(es, x) /\ ~ In(x, es[s])
    BY <1>1, RemoveRow DEF es
  <2>4. \A x \in Nat : In(x, es[s]) <=> In(x, Usable(es[s].start, n))
    BY <1>4, <1>5 DEF In, End
  <2> QED
    BY <2>2, <2>3, <2>4, Zenon DEF c, es
<1>6. CASE n < es[s].pages
  <2> DEFINE e == Usable(es[s].start + n, es[s].pages - n)
             new == [es EXCEPT ![s] = e]
  <2>1. es[s].pages # n /\ ~ (es[s].pages < n)
    BY <1>2, <1>6
  <2>2. c = SetEntries(ch, 1, new)
    BY <1>3, <2>1, Zenon DEF Cut
  <2>3. e \in Ranges
    BY <1>1, <1>6, SlotFacts DEF Ranges, Usable
  <2>4. e.start = es[s].start + n /\ End(e) = End(es[s])
    BY <1>2, <1>6 DEF Usable, End
  <2>5. \A r \in Slots : r < s => End(es[r]) <= e.start
    <3> SUFFICES ASSUME NEW r \in Slots, r < s PROVE End(es[r]) <= e.start
      OBVIOUS
    <3>1. es[r] # Empty /\ End(es[r]) <= es[s].start
      BY <1>1 DEF Tidy, es
    <3>2. es[r] \in Ranges
      BY <3>1, OneRow, Zenon DEF es
    <3> HIDE DEF e
    <3> QED
      BY <1>2, <2>4, <3>1, <3>2, RangeNums
  <2> HIDE DEF e
  <2>6. End(es[s]) \in Nat /\ End(e) <= End(es[s])
    BY <1>1, <2>4, RangeNums
  <2>7. /\ new \in Rows /\ Tidy(new)
        /\ \A x \in Nat : Held(new, x) <=>
             In(x, e) \/ \E r \in Slots : r # s /\ es[r] # Empty /\ In(x, es[r])
    BY <1>1, <2>3, <2>5, <2>6, ReplaceRow, Zenon DEF es
  <2> HIDE DEF new, c
  <2>8. One(c) /\ Row(c) = new
    BY <2>2, <2>7, SetOne
  <2>9. ASSUME NEW x \in Nat
        PROVE  Held(new, x) <=> Held(es, x) /\ ~ In(x, Usable(es[s].start, n))
    <3>1. In(x, e) <=> In(x, es[s]) /\ ~ In(x, Usable(es[s].start, n))
      BY <1>1, <1>2, <1>4, <1>6, <2>4, RangeNums DEF In
    <3>2. ASSUME NEW r \in Slots, r # s, es[r] # Empty, In(x, es[r])
          PROVE  ~ In(x, Usable(es[s].start, n))
      <4>1. es[r] \in Ranges
        BY <3>2, OneRow, Zenon DEF es
      <4>2. End(es[r]) <= es[s].start \/ End(es[s]) <= es[r].start
        BY <1>1, <3>2, SlotOrder, Zenon DEF Tidy, es
      <4>3. es[s].start + n < End(es[s])
        BY <1>2, <1>6 DEF End
      <4> QED
        BY <1>1, <1>2, <1>4, <3>2, <4>1, <4>2, <4>3, RangeNums DEF In
    <3>3. Held(es, x) <=> In(x, es[s]) \/ \E r \in Slots : r # s /\ es[r] # Empty /\ In(x, es[r])
      BY <1>1, Zenon DEF Held
    <3> QED
      BY <2>7, <3>1, <3>2, <3>3, Zenon
  <2> QED
    BY <2>7, <2>8, <2>9, Zenon DEF c, es
<1> QED
  BY <1>2, <1>5, <1>6 DEF es

(* What squash_entries leaves of a tidy page: a tidy page with the same    *)
(* pages, or one whose last slot has been left behind.                     *)
SquashedRow(es, new) ==
  \/ Stuck(new)
  \/ Tidy(new) /\ \A x \in Nat : Held(new, x) <=> Held(es, x)

(* A turn of squash_entries on one page keeps what SquashedRow says of the *)
(* entries.                                                                *)
LEMMA SquashTurnOne ==
  ASSUME NEW es, NEW w \in Loops, One(w.chain), SquashedRow(es, Row(w.chain))
  PROVE  One(SquashTurn(w).chain) /\ SquashedRow(es, Row(SquashTurn(w).chain))
<1> DEFINE ch == w.chain
           i == w.slot
           row == Row(ch)
           m == Usable(row[i].start, row[i].pages + row[i + 1].pages)
           new == [row EXCEPT ![i] = m]
           rest == remove_entry(SetEntries(ch, 1, new), 1, i + 1)
<1>1. w.page = 1 /\ ~ (1 < Len(ch)) /\ i \in Slots /\ w = [chain |-> ch, page |-> 1, slot |-> i]
  <2>1. w \in [chain : Seq(Page), page : Nat, slot : Slots] /\ w.page \in 1..Len(ch)
    BY DEF Loops
  <2>2. w.page = 1 /\ ~ (1 < Len(ch))
    BY <2>1, OneRow DEF One
  <2> QED
    BY <2>1, <2>2
<1>2. SquashTurn(w) =
        IF i = ENTRIES_LEN THEN w
        ELSE IF row[i] = Empty \/ row[i + 1] = Empty THEN w
        ELSE IF row[i].start + row[i].pages = row[i + 1].start
        THEN [w EXCEPT !.chain = rest]
        ELSE [w EXCEPT !.slot = @ + 1]
  BY <1>1, Zenon DEF SquashTurn, Row
<1>3. row \in Rows /\ \A s \in Slots : row[s] # Empty => row[s] \in Ranges
  BY OneRow
<1> HIDE DEF row
<1>4. CASE i # ENTRIES_LEN /\ row[i] # Empty /\ row[i + 1] # Empty
           /\ row[i].start + row[i].pages = row[i + 1].start
  <2>1. i + 1 \in Slots /\ row[i] \in Ranges
    BY <1>1, <1>3, <1>4, SlotNext, Zenon
  <2>2. row[i + 1] \in Ranges
    BY <1>3, <1>4, <2>1, Zenon
  <2>3. m \in Ranges
    BY <1>4, <2>1, <2>2, MergeType
  <2>4. m.start = row[i].start /\ End(m) = End(row[i + 1])
    <3>1. m.start = row[i].start /\ m.pages = row[i].pages + row[i + 1].pages
      BY DEF Usable
    <3>2. /\ row[i].start \in Nat /\ row[i].pages \in Nat
          /\ row[i + 1].start \in Nat /\ row[i + 1].pages \in Nat
      BY <2>1, <2>2, RangeNums
    <3> HIDE DEF m
    <3> QED
      BY <1>4, <3>1, <3>2 DEF End
  <2> HIDE DEF m
  <2>5. Touch(row, i, m)
    BY <1>4, <2>4, Zenon DEF Touch, End
  <2>6. new \in Rows
    BY <1>3, <2>3, Zenon DEF Rows
  <2>7. IsMerge(row, i, m, ShiftDown(new, i + 1))
    BY <1>1, <1>3, <1>4, <2>3, MergeIs
  <2> HIDE DEF new
  <2>8. One(SetEntries(ch, 1, new)) /\ Row(SetEntries(ch, 1, new)) = new
    BY <2>6, SetOne
  <2>9. One(rest) /\ Row(rest) = ShiftDown(new, i + 1)
    BY <2>1, <2>8, RemoveOne
  <2> HIDE DEF rest
  <2>10. /\ Stuck(row) => Stuck(Row(rest))
         /\ Tidy(row) => \/ Stuck(Row(rest))
                         \/ Tidy(Row(rest)) /\ \A x \in Nat : Held(Row(rest), x) <=> Held(row, x)
    <3> DEFINE r == Row(rest)
    <3>1. IsMerge(row, i, m, r)
      BY <2>7, <2>9, Zenon
    <3> HIDE DEF r
    <3>2. /\ Stuck(row) => Stuck(r)
          /\ Tidy(row) => Stuck(r) \/ (Tidy(r) /\ \A x \in Nat : Held(r, x) <=> Held(row, x))
      BY <1>1, <1>3, <2>3, <2>5, <3>1, MergeRow, Zenon
    <3> QED
      BY <3>2, Zenon DEF r
  <2>11. SquashedRow(es, Row(rest))
    BY <2>10, Zenon DEF SquashedRow, row
  <2>12. SquashTurn(w) = [w EXCEPT !.chain = rest]
    BY <1>2, <1>4, Zenon
  <2>13. SquashTurn(w).chain = rest
    BY <1>1, <2>12
  <2> QED
    BY <2>9, <2>11, <2>13, Zenon
<1>5. CASE ~ (i # ENTRIES_LEN /\ row[i] # Empty /\ row[i + 1] # Empty
              /\ row[i].start + row[i].pages = row[i + 1].start)
  <2>1. SquashTurn(w) = w \/ SquashTurn(w) = [w EXCEPT !.slot = @ + 1]
    BY <1>2, <1>5, Zenon
  <2>2. SquashTurn(w).chain = ch
    BY <1>1, <2>1
  <2> QED
    BY <2>2, Zenon
<1> QED
  BY <1>4, <1>5, Zenon

(* So does squash_entries.                                                 *)
LEMMA SquashOne ==
  ASSUME NEW ch, One(ch), Tidy(Row(ch))
  PROVE  One(squash_entries(ch, 1)) /\ SquashedRow(Row(ch), Row(squash_entries(ch, 1)))
<1> DEFINE es == Row(ch)
           Q == {w \in Loops : One(w.chain) /\ SquashedRow(es, Row(w.chain))}
<1>1. LoopStart(ch, 1) \in Loops /\ LoopStart(ch, 1).chain = ch
  <2>1. ch \in Seq(Page) /\ 1 \in 1..Len(ch) /\ 1 \in Nat /\ 1 \in Slots
    BY OneRow, SlotFacts DEF Good
  <2> QED
    BY <2>1 DEF LoopStart, Loops
<1>2. LoopStart(ch, 1) \in Q
  BY <1>1, Zenon DEF SquashedRow
<1>3. \A w \in Q : SquashTurn(w) \in Q
  BY SquashTurnOne, SquashTurnGood, Zenon
<1>4. \A w \in Q : One(w.chain) /\ SquashedRow(es, Row(w.chain))
  OBVIOUS
<1> HIDE DEF Q
<1>5. PICK w \in Q : squash_entries(ch, 1) = w.chain
  BY <1>2, <1>3, SquashReaches, OneRow, Zenon
<1> QED
  BY <1>4, <1>5, Zenon

(* insert_entry into a page with room.                                     *)
LEMMA InsertOne ==
  ASSUME NEW ch, One(ch), ~ Overlapping(ch), Row(ch)[ENTRIES_LEN] = Empty,
         NEW idx \in Slots, NEW e \in Ranges, NEW ok \in BOOLEAN
  PROVE  /\ insert_entry(ch, 1, idx, e, ok).ok = TRUE
         /\ One(insert_entry(ch, 1, idx, e, ok).chain)
         /\ Row(insert_entry(ch, 1, idx, e, ok).chain) = ShiftUp(Row(ch), idx, e)
<1> DEFINE room == {p \in 1..Len(ch) : EntriesOf(ch, p)[ENTRIES_LEN] = Empty}
           made == MakeRoom(ch, room, ok)
           Inserted(p) == IF p = 1 THEN ShiftUp(EntriesOf(made.chain, p), idx, e)
                          ELSE ShiftUp(EntriesOf(made.chain, p), 1,
                                       EntriesOf(ch, p - 1)[ENTRIES_LEN])
           es(p) == IF p \in 1..RoomAt(ch, room) THEN Inserted(p) ELSE made.chain[p].entries
           f == [p \in 1..Len(made.chain) |-> [made.chain[p] EXCEPT !.entries = es(p)]]
           ins == insert_entry(ch, 1, idx, e, ok)
<1>1. ins = IF ~ made.ok THEN made ELSE [ok |-> TRUE, chain |-> f]
  BY Zenon DEF insert_entry
<1>2. room = {1}
  BY OneRow DEF Row, One
<1> HIDE DEF room
<1>3. RoomAt(ch, room) = 1
  <2>1. Least(room) \in room
    BY <1>2, LeastIs
  <2> QED
    BY <1>2, <2>1, Zenon DEF RoomAt
<1>4. made = [ok |-> TRUE, chain |-> ch]
  BY <1>2, Zenon DEF MakeRoom
<1>5. made.ok = TRUE /\ made.chain = ch
  BY <1>4
<1> HIDE DEF made
<1>6. ins = [ok |-> TRUE, chain |-> f]
  BY <1>1, <1>5, Zenon
<1>7. f = [p \in 1..Len(ch) |-> [ch[p] EXCEPT !.entries = es(p)]]
  BY <1>5, Zenon
<1>8. es(1) = ShiftUp(Row(ch), idx, e)
  <2>1. 1 \in 1..1
    OBVIOUS
  <2> QED
    BY <1>3, <1>5, <2>1, Zenon DEF Row
<1> HIDE DEF es, f
<1>9. f[1] = [ch[1] EXCEPT !.entries = es(1)] /\ DOMAIN f = 1..Len(ch)
  BY <1>7, OneRow, Zenon
<1>10. f[1].entries = es(1)
  <2>1. ch[1] \in Page
    BY OneRow, RowFacts, Zenon
  <2> QED
    BY <1>9, <2>1 DEF Page
<1>11. ins.ok = TRUE /\ ins.chain = f
  BY <1>6
<1> HIDE DEF ins
<1>12. Good(f)
  BY <1>11, OneRow, InsertGood, Zenon DEF ins
<1>13. One(f)
  BY <1>9, <1>12, SMTT(20) DEF One, Good
<1> QED
  BY <1>8, <1>10, <1>11, <1>13, Zenon DEF Row, EntriesOf, ins

(* dealloc_pages of a range that no entry has: the range is not taken, or  *)
(* the page stays tidy and gets its pages, or it fills up.                 *)
LEMMA DeallocOne ==
  ASSUME NEW ch, One(ch), Tidy(Row(ch)), Row(ch)[ENTRIES_LEN] = Empty,
         NEW start, NEW n, Usable(start, n) \in Ranges, NEW ok \in BOOLEAN,
         \A x \in Nat : ~ (Held(Row(ch), x) /\ In(x, Usable(start, n)))
  PROVE  LET res == dealloc_pages(ch, 1, start, n, ok) IN
         /\ res.ok = TRUE
         /\ \/ res.chain = ch
            \/ /\ One(res.chain)
               /\ \/ Stuck(Row(res.chain))
                  \/ /\ Tidy(Row(res.chain))
                     /\ \A x \in Nat : Held(Row(res.chain), x) <=>
                          Held(Row(ch), x) \/ In(x, Usable(start, n))
<1> DEFINE after == [p \in 1..Len(ch) |->
                       {s \in Prefix(EntriesOf(ch, p)) : EntriesOf(ch, p)[s].start >= start}]
           es == Row(ch)
           s == Least(after[1])
           e == Usable(start, n)
           new == [es EXCEPT ![s] = Usable(start, es[s].pages + n)]
           ins == insert_entry(ch, 1, s, e, ok)
           res == dealloc_pages(ch, 1, start, n, ok)
<1>1. ~ Overlapping(ch)
  BY TidyFacts, Zenon
<1>2. Prefix(es) # Slots
  <2>1. ENTRIES_LEN \in 1..ENTRIES_LEN
    BY SlotFacts
  <2> QED
    BY <2>1, SlotFacts, Zenon DEF Prefix
<1>3. ScanEnd(ch, 1, after) = 1
  BY ScanOne
<1>4. res = IF after[1] # {}
            THEN IF es[s].start = start + n
                 THEN [ok |-> TRUE, chain |-> SetEntries(ch, 1, new)]
                 ELSE Squashed(ins, 1)
            ELSE [ok |-> TRUE, chain |-> ch]
  <2> DEFINE R(q) == LET row == EntriesOf(ch, q)
                         t == Least(after[q])
                     IN  IF after[q] # {}
                         THEN IF row[t].start = start + n
                              THEN [ok |-> TRUE, chain |-> SetEntries(ch, q,
                                      [row EXCEPT ![t] = Usable(start, row[t].pages + n)])]
                              ELSE Squashed(insert_entry(ch, q, t, e, ok), q)
                         ELSE IF Prefix(row) # Slots THEN [ok |-> TRUE, chain |-> ch]
                         ELSE Squashed(append_entry(ch, q, e, ok), q)
  <2>1. res = R(ScanEnd(ch, 1, after))
    BY Zenon DEF dealloc_pages
  <2>2. R(1) = IF after[1] # {}
               THEN IF es[s].start = start + n
                    THEN [ok |-> TRUE, chain |-> SetEntries(ch, 1, new)]
                    ELSE Squashed(ins, 1)
               ELSE [ok |-> TRUE, chain |-> ch]
    <3>1. Prefix(EntriesOf(ch, 1)) # Slots
      BY <1>2, Zenon DEF Row
    <3>2. CASE after[1] # {}
      <4> HIDE DEF after
      <4>1. CASE es[s].start = start + n
        BY <3>2, <4>1, Zenon DEF Row
      <4>2. CASE es[s].start # start + n
        BY <3>2, <4>2, Zenon DEF Row
      <4> QED
        BY <4>1, <4>2
    <3>3. CASE after[1] = {}
      BY <3>1, <3>3, Zenon
    <3> QED
      BY <3>2, <3>3, Zenon
  <2> HIDE DEF R
  <2> QED
    BY <1>3, <2>1, <2>2, Zenon
<1>5. after[1] = {x \in Prefix(es) : es[x].start >= start}
  BY OneRow, Zenon DEF Row
<1>6. /\ es \in Rows /\ Prefix(es) \subseteq Slots
      /\ \A x \in Slots : es[x] # Empty => es[x] \in Ranges
      /\ \A x \in Prefix(es) : es[x] \in Ranges
  BY OneRow, RowFacts, Zenon DEF Row
<1>7. start \in Nat /\ n \in Nat /\ n >= 1 /\ e.start = start /\ End(e) = start + n
      /\ e \in Ranges
  BY UsableNums DEF Ranges, Usable
<1> HIDE DEF after, s, es, e, res
<1>8. CASE after[1] = {}
  <2>1. res = [ok |-> TRUE, chain |-> ch]
    BY <1>4, <1>8, Zenon
  <2>2. res.ok = TRUE /\ res.chain = ch
    BY <2>1, SMTT(20)
  <2> QED
    BY <2>2, Zenon DEF res
<1>9. CASE after[1] # {}
  <2>1. after[1] \in SUBSET Nat
    BY <1>5, <1>6, SlotFacts, Zenon
  <2>2. s \in after[1] /\ \A y \in after[1] : s <= y
    BY <1>9, <2>1, LeastIs, Zenon DEF s
  <2>3. s \in Slots /\ es[s] \in Ranges /\ es[s].start >= start /\ s \in Prefix(es)
    BY <1>5, <1>6, <2>2, Zenon
  <2>4. es[s] # Empty
    BY <2>3, SlotFacts, Zenon
  <2>5. ASSUME NEW r \in Slots, es[r] # Empty
        PROVE  End(es[r]) <= start \/ start + n <= es[r].start
    <3>1. es[r] \in Ranges
      BY <1>6, <2>5
    <3>2. es[r].start \in Nat /\ End(es[r]) \in Nat /\ es[r].start < End(es[r])
      BY <3>1, RangeNums
    <3>3. \A x \in Nat : ~ (In(x, es[r]) /\ In(x, e))
      BY <2>5, Zenon DEF Held, es, e
    <3>4. ~ (es[r].start <= start /\ start < End(es[r]))
      <4>1. In(start, e)
        BY <1>7 DEF In
      <4> QED
        BY <1>7, <3>3, <4>1 DEF In
    <3>5. ~ (start <= es[r].start /\ es[r].start < start + n)
      <4>1. In(es[r].start, es[r])
        BY <3>2 DEF In
      <4> QED
        BY <1>7, <3>2, <3>3, <4>1 DEF In
    <3> QED
      BY <1>7, <3>2, <3>4, <3>5
  <2>6. ASSUME NEW r \in Slots, r < s
        PROVE  End(es[r]) <= start
    <3>1. es[r] # Empty /\ es[r] \in Ranges
      BY <1>6, <2>3, <2>4, <2>6 DEF Tidy, es
    <3>2. r \in Prefix(es)
      <4>1. 1..r \subseteq 1..s
        BY <2>3, <2>6, SlotFacts
      <4> QED
        BY <2>3, <4>1, Zenon DEF Prefix
    <3>3. ~ (s <= r)
      BY <2>3, <2>6, SlotFacts
    <3>4. ~ (es[r].start >= start)
      BY <1>5, <2>2, <3>2, <3>3, Zenon
    <3>5. es[r].start \in Nat
      BY <3>1, RangeNums
    <3>6. ~ (start + n <= es[r].start)
      BY <1>7, <3>4, <3>5
    <3> QED
      BY <2>5, <3>1, <3>6, Zenon
  <2>7. start + n <= es[s].start
    <3>1. es[s].start \in Nat /\ End(es[s]) \in Nat /\ es[s].start < End(es[s])
      BY <2>3, RangeNums
    <3>2. End(es[s]) <= start \/ start + n <= es[s].start
      BY <2>3, <2>4, <2>5, Zenon
    <3> QED
      BY <1>7, <2>3, <3>1, <3>2
  <2>8. CASE es[s].start = start + n
    <3> DEFINE big == Usable(start, es[s].pages + n)
    <3>1. es[s].pages \in Nat /\ es[s].start \in Nat
      BY <2>3, RangeNums
    <3>2. big \in Ranges /\ big.start = start /\ End(big) = End(es[s])
      BY <1>7, <2>3, <2>8, <3>1, SlotFacts DEF Ranges, Usable, End
    <3> HIDE DEF big
    <3>3. \A r \in Slots : r < s => End(es[r]) <= big.start
      BY <2>6, <3>2, Zenon
    <3>4. End(big) <= End(es[s])
      BY <2>3, <3>2, RangeNums
    <3>5. /\ [es EXCEPT ![s] = big] \in Rows
          /\ Tidy([es EXCEPT ![s] = big])
          /\ \A x \in Nat : Held([es EXCEPT ![s] = big], x) <=>
               In(x, big) \/ \E r \in Slots : r # s /\ es[r] # Empty /\ In(x, es[r])
      BY <1>6, <2>3, <2>4, <3>2, <3>3, <3>4, ReplaceRow, Zenon DEF es
    <3>6. new = [es EXCEPT ![s] = big]
      BY Zenon DEF big
    <3> HIDE DEF new
    <3>7. One(SetEntries(ch, 1, new)) /\ Row(SetEntries(ch, 1, new)) = new
      BY <3>5, <3>6, SetOne
    <3>8. \A x \in Nat : In(x, big) <=> In(x, es[s]) \/ In(x, e)
      BY <1>7, <2>3, <2>8, <3>2, RangeNums DEF In
    <3>9. \A x \in Nat : Held(new, x) <=> Held(es, x) \/ In(x, e)
      BY <2>3, <2>4, <3>5, <3>6, <3>8, Zenon DEF Held
    <3>10. res = [ok |-> TRUE, chain |-> SetEntries(ch, 1, new)]
      BY <1>4, <1>9, <2>8, Zenon
    <3>11. res.ok = TRUE /\ res.chain = SetEntries(ch, 1, new)
      BY <3>10
    <3> QED
      BY <3>5, <3>6, <3>7, <3>9, <3>11, Zenon DEF res, es, e
  <2>9. CASE es[s].start # start + n
    <3>1. \A r \in Slots : r < s => End(es[r]) <= e.start
      BY <1>7, <2>6, Zenon
    <3>2. End(e) <= es[s].start
      BY <1>7, <2>7, Zenon
    <3>3. /\ Tidy(ShiftUp(es, s, e))
          /\ \A x \in Nat : Held(ShiftUp(es, s, e), x) <=> Held(es, x) \/ In(x, e)
      BY <1>6, <1>7, <2>3, <2>4, <3>1, <3>2, InsertRow, Zenon DEF es
    <3>4. ins.ok = TRUE /\ One(ins.chain) /\ Row(ins.chain) = ShiftUp(es, s, e)
      BY <1>1, <1>7, <2>3, InsertOne, Zenon DEF es
    <3> HIDE DEF ins
    <3> DEFINE last == squash_entries(ins.chain, 1)
    <3>5. One(last) /\ SquashedRow(Row(ins.chain), Row(last))
      BY <3>3, <3>4, SquashOne, Zenon
    <3>6. res = [ok |-> TRUE, chain |-> last]
      BY <1>4, <1>9, <2>9, <3>4, Zenon DEF Squashed
    <3>7. res.ok = TRUE /\ res.chain = last
      BY <3>6
    <3> HIDE DEF last
    <3> QED
      BY <3>3, <3>4, <3>5, <3>7, Zenon DEF SquashedRow, res, es, e
  <2> QED
    BY <2>8, <2>9, Zenon
<1> QED
  BY <1>8, <1>9, Zenon

-----------------------------------------------------------------------------
(* The inductive invariant.  As long as no page has been full, the list is *)
(* one tidy page, and every page of the pool is in an entry, in one        *)
(* allocated range, or dropped.                                            *)

Taken(x) == \E r \in out : In(x, r)

Parted ==
  /\ One(chain) /\ Tidy(Row(chain)) /\ Row(chain)[ENTRIES_LEN] = Empty
  /\ \A x \in 1..Pool : ~ (Held(Row(chain), x) /\ Taken(x))
  /\ \A x \in 1..Pool : Held(Row(chain), x) \/ Taken(x) \/ x \in dropped
  /\ \A q, r \in out : q # r => \A x \in 1..Pool : ~ (In(x, q) /\ In(x, r))

ListInv ==
  /\ Good(chain) /\ out \subseteq Ranges /\ dropped \subseteq 1..Pool
  /\ phase = "running" /\ filled \in BOOLEAN
  /\ ~ filled => Parted

(* A page of an entry is a page of the pool.                               *)
LEMMA InPool ==
  ASSUME NEW e \in Ranges, NEW x \in Nat, In(x, e)
  PROVE  x \in 1..Pool
BY RangeNums, SlotFacts DEF In

(* So are the pages of a range.                                            *)
LEMMA RangePages ==
  ASSUME NEW e \in Ranges
  PROVE  PageRange(e.start, e.pages) \subseteq 1..Pool
BY InRange, InPool, Zenon

(* And the pages of a list.                                                *)
LEMMA FreeInPool ==
  ASSUME NEW ch, Good(ch)
  PROVE  FreePages(ch) \subseteq 1..Pool
<1> SUFFICES ASSUME NEW y \in Entries(ch) PROVE EntryRange(ch, y) \subseteq 1..Pool
  BY Zenon DEF FreePages
<1>1. y[1] \in 1..Len(ch) /\ y[2] \in Slots /\ EntryAt(ch, y) # Empty
  BY DEF Entries, EntryAt
<1>2. EntryAt(ch, y) \in Ranges
  BY <1>1, RowFacts, Zenon DEF EntryAt
<1> QED
  BY <1>2, RangePages, Zenon DEF EntryRange

(* The list starts as one tidy page.                                       *)
LEMMA ListInit == Init => ListInv
<1> SUFFICES ASSUME Init PROVE ListInv
  OBVIOUS
<1> DEFINE e == Usable(1, Pool)
           es == [NoEntries EXCEPT ![1] = e]
           pg == [at |-> 0, entries |-> es]
<1>1. chain = <<pg>> /\ out = {} /\ filled = FALSE /\ dropped = {} /\ phase = "running"
  BY Zenon DEF Init
<1>2. e \in Ranges /\ e.start = 1 /\ End(e) = 1 + Pool /\ e # Empty
  BY SlotFacts DEF Ranges, Usable, End
<1> HIDE DEF e
<1>3. es \in Rows /\ \A s \in Slots : es[s] = IF s = 1 THEN e ELSE Empty
  BY <1>2, SlotFacts DEF Rows, NoEntries
<1> HIDE DEF es
<1>4. pg \in Page /\ pg.entries = es
  BY <1>3 DEF Page
<1> HIDE DEF pg
<1>5. One(chain) /\ chain[1] = pg
  BY <1>1, <1>4 DEF One, Good
<1>6. Row(chain) = es
  BY <1>4, <1>5 DEF Row, EntriesOf
<1>7. Tidy(es)
  <2> SUFFICES ASSUME NEW r \in Slots, NEW s \in Slots, r < s, es[s] # Empty PROVE FALSE
    BY DEF Tidy
  <2>1. s = 1
    BY <1>3
  <2> QED
    BY <2>1, SlotFacts DEF Slots
<1>8. es[ENTRIES_LEN] = Empty
  <2>1. ENTRIES_LEN # 1
    BY SlotFacts
  <2> QED
    BY <1>3, <2>1, SlotFacts, Zenon
<1>9. \A x \in 1..Pool : Held(es, x)
  <2>1. \A x \in 1..Pool : In(x, e)
    BY <1>2, SlotFacts DEF In
  <2>2. es[1] = e
    BY <1>3, SlotFacts, Zenon
  <2> QED
    BY <1>2, <2>1, <2>2, SlotFacts, Zenon DEF Held
<1>10. \A x \in 1..Pool : ~ Taken(x)
  BY <1>1, Zenon DEF Taken
<1>11. Parted
  BY <1>1, <1>5, <1>6, <1>7, <1>8, <1>9, <1>10, Zenon DEF Parted
<1>12. Good(chain)
  BY <1>5 DEF One
<1> QED
  BY <1>1, <1>11, <1>12, Zenon DEF ListInv

(* A list that is not full has its last slot Empty.                        *)
LEMMA NotFull ==
  ASSUME NEW ch, Good(ch), ~ HasFullPage(ch)
  PROVE  Row(ch)[ENTRIES_LEN] = Empty
<1>1. 1 \in 1..Len(ch)
  BY DEF Good
<1> QED
  BY <1>1, Zenon DEF HasFullPage, Row

(* Allocate keeps the invariant: the pages that leave the list are those of*)
(* the new range.                                                          *)
LEMMA AllocateStep ==
  ASSUME ListInv, NEW n \in 1..MaxRequest, Allocate(n)
  PROVE  ListInv'
<1> DEFINE start == find_free_pages(chain, 1, n)
           ch == alloc_pages(chain, 1, start, n)
           e == Usable(start, n)
<1>1. /\ ~ Overlapping(chain) /\ start # NoPages
      /\ IF ch = NoPages
         THEN phase' = "panicked" /\ UNCHANGED <<chain, out>>
         ELSE chain' = ch /\ out' = out \cup {e} /\ UNCHANGED phase
      /\ filled' = (filled \/ HasFullPage(chain')) /\ dropped' = dropped
  BY Zenon DEF Allocate
<1>2. Good(chain) /\ 1 \in 1..Len(chain) /\ n \in Nat \ {0}
  BY FreeListAssumption DEF ListInv, Good, FreeListAssumption
<1>3. e \in Ranges /\ Good(ch)
  BY <1>1, <1>2, FindAllocGood, Zenon
<1>4. ch # NoPages
  BY <1>3, GoodIsList, Zenon
<1>5. chain' = ch /\ out' = out \cup {e} /\ phase' = phase
  BY <1>1, <1>4, Zenon
<1>6. PICK p \in 1..Len(chain) : \E s \in Prefix(EntriesOf(chain, p)) :
           /\ EntriesOf(chain, p)[s].pages >= n
           /\ EntriesOf(chain, p)[s].start = start
           /\ ch = Cut(chain, p, s, n)
  BY <1>1, <1>2, FindAlloc, Zenon
<1> HIDE DEF start, ch
<1>7. ASSUME ~ filled' PROVE Parted'
  <2>1. ~ filled /\ ~ HasFullPage(ch)
    BY <1>1, <1>5, <1>7, Zenon
  <2>2. Parted
    BY <2>1, Zenon DEF ListInv
  <2>3. One(chain) /\ p = 1
    BY <2>2, OneRow, Zenon DEF Parted
  <2> DEFINE es == Row(chain)
  <2>4. PICK s \in Prefix(es) : es[s].pages >= n /\ es[s].start = start /\ ch = Cut(chain, 1, s, n)
    BY <1>6, <2>3, Zenon DEF Row
  <2>5. /\ One(ch) /\ Tidy(Row(ch))
        /\ \A x \in Nat : Held(Row(ch), x) <=> Held(es, x) /\ ~ In(x, e)
    BY <1>2, <2>2, <2>4, CutOne, Zenon DEF Parted
  <2>6. Row(ch)[ENTRIES_LEN] = Empty
    BY <1>3, <2>1, NotFull, Zenon
  <2>7. s \in Slots /\ es[s] # Empty /\ es[s] \in Ranges
    <3>1. /\ es \in Rows /\ Prefix(es) \subseteq Slots
          /\ \A t \in Prefix(es) : es[t] \in Ranges
      BY <1>2, RowFacts, Zenon DEF Row
    <3> HIDE DEF es
    <3> QED
      BY <2>4, <3>1, SlotFacts, Zenon
  <2> HIDE DEF es
  <2>8. ASSUME NEW x \in 1..Pool, In(x, e) PROVE Held(es, x)
    <3>1. e.start = es[s].start /\ End(e) = es[s].start + n
      BY <1>2, <2>4, <2>7, RangeNums, UsableNums, Zenon
    <3>2. es[s].start \in Nat /\ es[s].pages \in Nat
      BY <2>7, RangeNums
    <3> HIDE DEF e
    <3>3. In(x, es[s])
      BY <1>2, <2>4, <2>8, <3>1, <3>2 DEF In, End
    <3> QED
      BY <2>7, <3>3, Zenon DEF Held
  <2> HIDE DEF e
  <2>9. \A x \in 1..Pool : x \in Nat
    OBVIOUS
  <2>10. \A x \in 1..Pool : Taken(x)' <=> Taken(x) \/ In(x, e)
    BY <1>5, Zenon DEF Taken
  <2>11. /\ \A x \in 1..Pool : ~ (Held(es, x) /\ Taken(x))
         /\ \A x \in 1..Pool : Held(es, x) \/ Taken(x) \/ x \in dropped
         /\ \A q, r \in out : q # r => \A x \in 1..Pool : ~ (In(x, q) /\ In(x, r))
    BY <2>2, Zenon DEF Parted, es
  <2>12. \A x \in 1..Pool : Held(Row(ch), x) <=> Held(es, x) /\ ~ In(x, e)
    BY <2>5, <2>9, Zenon
  <2>13. \A x \in 1..Pool : ~ (Held(Row(ch), x) /\ Taken(x)')
    BY <2>10, <2>11, <2>12, Zenon
  <2>14. \A x \in 1..Pool : Held(Row(ch), x) \/ Taken(x)' \/ x \in dropped'
    BY <1>1, <2>10, <2>11, <2>12, Zenon
  <2>15. ASSUME NEW q \in out', NEW r \in out', q # r, NEW x \in 1..Pool, In(x, q), In(x, r)
         PROVE  FALSE
    <3>1. q \in out \/ q = e
      BY <1>5, Zenon
    <3>2. r \in out \/ r = e
      BY <1>5, Zenon
    <3> QED
      BY <2>8, <2>11, <2>15, <3>1, <3>2, Zenon DEF Taken
  <2>16. Row(chain)' = Row(ch) /\ One(chain)' = One(ch) /\ Tidy(Row(chain))' = Tidy(Row(ch))
    BY <1>5, Zenon DEF Row, EntriesOf, One, Good, Tidy
  <2>17. \A x \in 1..Pool : Held(Row(chain), x)' <=> Held(Row(ch), x)
    BY <1>5, Zenon DEF Held, Row, EntriesOf
  <2> QED
    BY <2>5, <2>6, <2>13, <2>14, <2>15, <2>16, <2>17, Zenon DEF Parted
<1> HIDE DEF e
<1>8. /\ Good(chain') /\ out' \subseteq Ranges /\ dropped' \subseteq 1..Pool
      /\ phase' = "running" /\ filled' \in BOOLEAN
  <2>1. filled' \in BOOLEAN
    BY <1>1, Zenon DEF ListInv, HasFullPage
  <2> QED
    BY <1>1, <1>3, <1>5, <2>1, Zenon DEF ListInv
<1> QED
  BY <1>7, <1>8, Zenon DEF ListInv, Good

(* Deallocate keeps it: the pages of the range are in the list again or    *)
(* dropped, or the page has been full.                                     *)
LEMMA DeallocateStep ==
  ASSUME ListInv, NEW r \in out, NEW ok \in BOOLEAN, Deallocate(r, ok)
  PROVE  ListInv'
<1> DEFINE res == dealloc_pages(chain, 1, r.start, r.pages, ok)
           listed == FreePages(res.chain) \cup EntryPages(res.chain)
<1>1. /\ ~ Overlapping(chain) /\ chain' = res.chain
      /\ IF res.ok
         THEN /\ out' = out \ {r}
              /\ dropped' = dropped \cup (PageRange(r.start, r.pages) \ listed)
         ELSE /\ dropped' = dropped \cup (FreePages(chain) \ listed)
              /\ UNCHANGED out
      /\ filled' = (filled \/ HasFullPage(chain')) /\ phase' = phase
  BY Zenon DEF Deallocate
<1>2. Good(chain) /\ 1 \in 1..Len(chain)
  BY DEF ListInv, Good
<1>3. r \in Ranges
  BY Zenon DEF ListInv
<1>4. Usable(r.start, r.pages) = r
  BY <1>3 DEF Ranges, Usable
<1>5. res.ok \in BOOLEAN /\ Good(res.chain)
  BY <1>1, <1>2, <1>3, <1>4, DeallocGood, Zenon
<1>6. PageRange(r.start, r.pages) \subseteq 1..Pool /\ FreePages(chain) \subseteq 1..Pool
  BY <1>2, <1>3, RangePages, FreeInPool, Zenon
<1>7. ASSUME ~ filled' PROVE Parted'
  <2>1. ~ filled /\ ~ HasFullPage(res.chain)
    BY <1>1, <1>7, Zenon
  <2>2. Parted
    BY <2>1, Zenon DEF ListInv
  <2> DEFINE es == Row(chain)
             ch == res.chain
  <2>3. /\ One(chain) /\ Tidy(es) /\ es[ENTRIES_LEN] = Empty
        /\ \A x \in 1..Pool : ~ (Held(es, x) /\ Taken(x))
        /\ \A x \in 1..Pool : Held(es, x) \/ Taken(x) \/ x \in dropped
        /\ \A p, q \in out : p # q => \A x \in 1..Pool : ~ (In(x, p) /\ In(x, q))
    BY <2>2, Zenon DEF Parted
  <2>4. \A x \in Nat : ~ (Held(es, x) /\ In(x, r))
    BY <1>3, <2>3, InPool, Zenon DEF Taken
  <2>5. /\ res.ok = TRUE
        /\ \/ ch = chain
           \/ /\ One(ch)
              /\ \/ Stuck(Row(ch))
                 \/ /\ Tidy(Row(ch))
                    /\ \A x \in Nat : Held(Row(ch), x) <=> Held(es, x) \/ In(x, r)
    <3> DEFINE u == Usable(r.start, r.pages)
    <3>1. u \in Ranges /\ \A x \in Nat : ~ (Held(es, x) /\ In(x, u))
      BY <1>3, <1>4, <2>4, Zenon
    <3>2. /\ res.ok = TRUE
          /\ \/ ch = chain
             \/ /\ One(ch)
                /\ \/ Stuck(Row(ch))
                   \/ /\ Tidy(Row(ch))
                      /\ \A x \in Nat : Held(Row(ch), x) <=> Held(es, x) \/ In(x, u)
      BY <2>3, <3>1, DeallocOne, Zenon
    <3> HIDE DEF res
    <3> QED
      BY <1>4, <3>2, Zenon
  <2> HIDE DEF res
  <2>6. Row(ch)[ENTRIES_LEN] = Empty
    BY <1>5, <2>1, NotFull, Zenon
  <2>7. ~ Stuck(Row(ch))
    BY <2>6, Zenon DEF Stuck
  <2>8. One(ch) /\ Tidy(Row(ch))
    BY <2>3, <2>5, <2>7, Zenon
  <2>9. \A x \in 1..Pool : /\ Held(es, x) => Held(Row(ch), x)
                           /\ Held(Row(ch), x) => Held(es, x) \/ In(x, r)
    <3>1. \A x \in 1..Pool : x \in Nat
      OBVIOUS
    <3> QED
      BY <2>5, <2>7, <3>1, Zenon
  <2>10. out' = out \ {r} /\ dropped' = dropped \cup (PageRange(r.start, r.pages) \ listed)
    BY <1>1, <2>5, Zenon
  <2>11. \A x \in listed : x \in Nat => Held(Row(ch), x)
    <3>1. EntryPages(ch) = {}
      <4>1. 2..Len(ch) = {}
        BY <2>8 DEF One
      <4> QED
        BY <4>1, Zenon DEF EntryPages
    <3> QED
      BY <2>8, <3>1, OneFree, Zenon
  <2> HIDE DEF listed, es, ch
  <2>12. \A x \in 1..Pool : Taken(x)' => Taken(x)
    BY <2>10, Zenon DEF Taken
  <2>13. ASSUME NEW x \in 1..Pool, Taken(x)', Held(Row(ch), x) PROVE FALSE
    <3>1. PICK q \in out : q # r /\ In(x, q)
      BY <2>10, <2>13, Zenon DEF Taken
    <3>2. ~ In(x, r)
      BY <2>3, <3>1, Zenon
    <3> QED
      BY <2>3, <2>9, <2>12, <2>13, <3>2, Zenon
  <2>14. ASSUME NEW x \in 1..Pool PROVE Held(Row(ch), x) \/ Taken(x)' \/ x \in dropped'
    <3>1. CASE Held(es, x)
      BY <2>9, <3>1, Zenon
    <3>2. CASE x \in dropped
      BY <2>10, <3>2, Zenon
    <3>3. CASE In(x, r)
      <4>1. x \in Nat
        OBVIOUS
      <4>2. x \in PageRange(r.start, r.pages)
        BY <1>3, <3>3, <4>1, InRange, Zenon
      <4> QED
        BY <2>10, <2>11, <4>1, <4>2, Zenon
    <3>4. CASE Taken(x) /\ ~ In(x, r)
      <4>1. PICK q \in out : In(x, q)
        BY <3>4, Zenon DEF Taken
      <4>2. q \in out'
        BY <2>10, <3>4, <4>1, Zenon
      <4> QED
        BY <4>1, <4>2, Zenon DEF Taken
    <3> QED
      BY <2>3, <3>1, <3>2, <3>3, <3>4, Zenon
  <2>15. \A p, q \in out' : p # q => \A x \in 1..Pool : ~ (In(x, p) /\ In(x, q))
    BY <2>3, <2>10, Zenon
  <2>16. chain' = ch
    BY <1>1, Zenon DEF ch
  <2>17. Row(chain)' = Row(ch) /\ One(chain)' = One(ch) /\ Tidy(Row(chain))' = Tidy(Row(ch))
    BY <2>16, Zenon DEF Row, EntriesOf, One, Good, Tidy
  <2>18. \A x \in 1..Pool : Held(Row(chain), x)' <=> Held(Row(ch), x)
    BY <2>16, Zenon DEF Held, Row, EntriesOf
  <2> QED
    BY <2>6, <2>8, <2>13, <2>14, <2>15, <2>17, <2>18, Zenon DEF Parted
<1> HIDE DEF res, listed
<1>8. Good(chain') /\ phase' = "running" /\ filled' \in BOOLEAN
  BY <1>1, <1>5, Zenon DEF ListInv, HasFullPage
<1>9. out' \subseteq Ranges /\ dropped' \subseteq 1..Pool
  <2>1. CASE res.ok
    BY <1>1, <1>6, <2>1, Zenon DEF ListInv
  <2>2. CASE ~ res.ok
    BY <1>1, <1>6, <2>2, Zenon DEF ListInv
  <2> QED
    BY <2>1, <2>2
<1> QED
  BY <1>7, <1>8, <1>9, Zenon DEF ListInv, Good

(* A step of the callers keeps the invariant.                              *)
LEMMA ListStep == ListInv /\ [Next]_vars => ListInv'
<1> SUFFICES ASSUME ListInv, [Next]_vars PROVE ListInv'
  OBVIOUS
<1>1. ASSUME NEW n \in 1..MaxRequest, Allocate(n) PROVE ListInv'
  BY <1>1, AllocateStep
<1>2. ASSUME NEW r \in out, NEW ok \in BOOLEAN, Deallocate(r, ok) PROVE ListInv'
  BY <1>2, DeallocateStep
<1>3. CASE UNCHANGED vars
  BY <1>3, Zenon DEF vars, ListInv, Parted, Taken, Row, EntriesOf, One, Good, Tidy, Held
<1> QED
  BY <1>1, <1>2, <1>3, Zenon DEF Next

(* Every state of the free list satisfies ListInv: a well-formed list,     *)
(* which is one tidy page apart from the allocated ranges as long as no    *)
(* entry page has been full (FPAInner's find_free_pages, alloc_pages and   *)
(* dealloc_pages).                                                         *)
THEOREM ListInvariant == Spec => []ListInv
BY ListInit, ListStep, PTL DEF Spec

(* The invariant is what the property says.                                *)
LEMMA ListInvPartitioned == ListInv => PoolPartitioned
<1> SUFFICES ASSUME ListInv PROVE PoolPartitioned
  OBVIOUS
<1>1. Good(chain) /\ \A q \in out : q \in Ranges
  BY Zenon DEF ListInv
<1>2. TypeOK
  <2>1. \A k \in 1..Len(chain) : DOMAIN chain[k].entries = Slots
    BY <1>1, RowFacts DEF Rows, EntriesOf
  <2>2. FreePages(chain) \subseteq 1..Pool
    BY <1>1, FreeInPool, Zenon
  <2>3. ASSUME NEW y \in Entries(chain) PROVE EntryAt(chain, y).pages >= 1
    <3>1. y[1] \in 1..Len(chain) /\ y[2] \in Slots /\ EntryAt(chain, y) # Empty
      BY DEF Entries, EntryAt
    <3>2. EntryAt(chain, y) \in Ranges
      BY <1>1, <3>1, RowFacts, Zenon DEF EntryAt
    <3> QED
      BY <3>2 DEF Ranges
  <2>4. OutPages \subseteq 1..Pool
    BY <1>1, RangePages, Zenon DEF OutPages
  <2>5. dropped \subseteq 1..Pool
    BY Zenon DEF ListInv
  <2> QED
    BY <2>1, <2>2, <2>3, <2>4, <2>5, Zenon DEF TypeOK
<1>3. ASSUME ~ filled
      PROVE  /\ ~ Overlapping(chain)
             /\ FreePages(chain) \cap OutPages = {}
             /\ FreePages(chain) \cup OutPages \cup dropped = 1..Pool
             /\ EntriesSorted
  <2>1. /\ One(chain) /\ Tidy(Row(chain))
        /\ \A x \in 1..Pool : ~ (Held(Row(chain), x) /\ Taken(x))
        /\ \A x \in 1..Pool : Held(Row(chain), x) \/ Taken(x) \/ x \in dropped
    BY <1>3, Zenon DEF ListInv, Parted
  <2>2. \A x \in 1..Pool : x \in FreePages(chain) <=> Held(Row(chain), x)
    <3>1. \A x \in 1..Pool : x \in Nat
      OBVIOUS
    <3> QED
      BY <2>1, <3>1, OneFree, Zenon
  <2>3. \A x \in 1..Pool : x \in OutPages <=> Taken(x)
    <3>1. \A x \in 1..Pool : x \in Nat
      OBVIOUS
    <3> QED
      BY <1>1, <3>1, InRange, Zenon DEF OutPages, Taken
  <2>4. FreePages(chain) \subseteq 1..Pool /\ OutPages \subseteq 1..Pool /\ dropped \subseteq 1..Pool
    BY <1>2, Zenon DEF TypeOK
  <2>5. ~ Overlapping(chain) /\ EntriesSorted
    BY <2>1, TidyFacts, Zenon DEF EntriesSorted
  <2>6. FreePages(chain) \cap OutPages = {}
    BY <2>1, <2>2, <2>3, <2>4, Zenon
  <2>7. FreePages(chain) \cup OutPages \cup dropped = 1..Pool
    BY <2>1, <2>2, <2>3, <2>4, Zenon
  <2> QED
    BY <2>5, <2>6, <2>7, Zenon
<1> QED
  BY <1>2, <1>3, Zenon DEF PoolPartitioned

(* find_free_pages, alloc_pages and dealloc_pages keep the pool: entries   *)
(* and allocated ranges are parts of it at all times, and as long as no    *)
(* entry page has been full, no page is lost or in two places, and the     *)
(* entries are sorted; for every number of slots and pages.                *)
THEOREM PoolStaysPartitioned == Spec => []PoolPartitioned
BY ListInvariant, ListInvPartitioned, PTL

(* alloc_pages never panics on the range that find_free_pages has just     *)
(* returned, as long as no two entries overlap: in FullPageAllocator's     *)
(* allocate the entry is there and is large enough, on a list of any       *)
(* length, full pages or not.                                              *)
THEOREM AllocateNeverPanics == Spec => [](phase = "running")
<1>1. ListInv => phase = "running"
  BY DEF ListInv
<1> QED
  BY <1>1, ListInvariant, PTL

-----------------------------------------------------------------------------
(* The list of the running kernel, where nothing is given back.            *)

(* Entry e (or none) in the first slot of the only page.                   *)
OnlyEntry(ch, e) ==
  /\ One(ch) /\ Row(ch)[1] = e
  /\ \A s \in Slots : s # 1 => Row(ch)[s] = Empty

(* Such a page is tidy, and Prefix has slot 1 or nothing.                  *)
LEMMA OnlyTidy ==
  ASSUME NEW ch, NEW e, OnlyEntry(ch, e)
  PROVE  /\ Tidy(Row(ch)) /\ ~ Overlapping(ch)
         /\ \A s \in Prefix(Row(ch)) : s = 1 /\ e # Empty
         /\ e # Empty => 1 \in Prefix(Row(ch))
<1>1. One(ch) /\ Row(ch)[1] = e /\ \A s \in Slots : s # 1 => Row(ch)[s] = Empty
  BY Zenon DEF OnlyEntry
<1>2. Tidy(Row(ch))
  <2>1. \A r, s \in Slots : r < s => s # 1
    BY SlotFacts DEF Slots
  <2> QED
    BY <1>1, <2>1, Zenon DEF Tidy
<1>3. \A s \in Slots : s \in 1..s
  BY SlotFacts DEF Slots
<1>4. \A r \in 1..1 : r = 1
  OBVIOUS
<1>5. /\ \A s \in Prefix(Row(ch)) : s = 1 /\ e # Empty
      /\ e # Empty => 1 \in Prefix(Row(ch))
  BY <1>1, <1>3, <1>4, SlotFacts, Zenon DEF Prefix
<1> QED
  BY <1>1, <1>2, <1>5, TidyFacts, Zenon

(* find_free_pages and alloc_pages on a list with one entry: a request     *)
(* that is larger than the entry fails; any other takes the first n pages  *)
(* and leaves the rest as the one entry.  It is what module KernelPages    *)
(* has as its step `reserve`.                                              *)
THEOREM OneEntryStays ==
  ASSUME NEW ch, NEW e \in Ranges \cup {Empty}, OnlyEntry(ch, e), NEW n \in Nat \ {0}
  PROVE  IF e = Empty \/ e.pages < n
         THEN find_free_pages(ch, 1, n) = NoPages
         ELSE /\ find_free_pages(ch, 1, n) = e.start
              /\ OnlyEntry(alloc_pages(ch, 1, e.start, n),
                           IF e.pages = n THEN Empty
                           ELSE [start |-> e.start + n, pages |-> e.pages - n])
<1> DEFINE es == Row(ch)
           a == find_free_pages(ch, 1, n)
<1>1. /\ One(ch) /\ Good(ch) /\ 1 \in 1..Len(ch) /\ es \in Rows /\ es[1] = e
      /\ \A s \in Slots : s # 1 => es[s] = Empty
  BY OneRow, Zenon DEF OnlyEntry
<1>2. /\ ~ Overlapping(ch) /\ \A s \in Prefix(es) : s = 1 /\ e # Empty
      /\ e # Empty => 1 \in Prefix(es)
  BY OnlyTidy, Zenon
<1>3. ASSUME a # NoPages
      PROVE  e # Empty /\ e.pages >= n /\ a = e.start
             /\ alloc_pages(ch, 1, e.start, n) = Cut(ch, 1, 1, n)
  <2>1. PICK p \in 1..Len(ch) : \E s \in Prefix(EntriesOf(ch, p)) :
           /\ EntriesOf(ch, p)[s].pages >= n
           /\ EntriesOf(ch, p)[s].start = a
           /\ alloc_pages(ch, 1, a, n) = Cut(ch, p, s, n)
    BY <1>1, <1>2, <1>3, FindAlloc, Zenon
  <2>2. p = 1
    BY <1>1, OneRow, Zenon
  <2>3. PICK s \in Prefix(es) :
           es[s].pages >= n /\ es[s].start = a /\ alloc_pages(ch, 1, a, n) = Cut(ch, 1, s, n)
    BY <2>1, <2>2, Zenon DEF Row
  <2>4. s = 1 /\ e # Empty
    BY <1>2, <2>3, Zenon
  <2> HIDE DEF a, es
  <2> QED
    BY <1>1, <2>3, <2>4, Zenon
<1>4. CASE e = Empty \/ e.pages < n
  <2>1. e # Empty => ~ (e.pages >= n)
    BY <1>4 DEF Ranges
  <2> QED
    BY <1>3, <1>4, <2>1, Zenon
<1>5. CASE ~ (e = Empty \/ e.pages < n)
  <2>1. e \in Ranges /\ e.start \in Nat /\ e.pages \in Nat /\ e.pages >= n /\ e # Empty
    BY <1>5 DEF Ranges
  <2>2. a # NoPages
    <3> DEFINE fit == [p \in 1..Len(ch) |->
                         {s \in Prefix(EntriesOf(ch, p)) : EntriesOf(ch, p)[s].pages >= n}]
               F(p) == IF fit[p] = {} THEN NoPages ELSE EntriesOf(ch, p)[Least(fit[p])].start
    <3>1. a = F(ScanEnd(ch, 1, fit))
      BY Zenon DEF find_free_pages
    <3>2. ScanEnd(ch, 1, fit) = 1
      BY <1>1, ScanOne
    <3>3. a = F(1)
      <4> HIDE DEF F, a, fit
      <4> QED
        BY <3>1, <3>2, Zenon
    <3>4. fit[1] = {s \in Prefix(es) : es[s].pages >= n}
      BY <1>1, Zenon DEF Row
    <3>5. fit[1] = {1}
      BY <1>1, <1>2, <2>1, <3>4, Zenon
    <3> HIDE DEF fit
    <3>6. Least(fit[1]) = 1
      <4>1. Least(fit[1]) \in fit[1]
        BY <3>5, LeastIs
      <4> QED
        BY <3>5, <4>1, Zenon
    <3>7. a = e.start
      <4>1. a = EntriesOf(ch, 1)[Least(fit[1])].start
        BY <3>3, <3>5, Zenon
      <4> HIDE DEF a
      <4> QED
        BY <1>1, <3>6, <4>1, Zenon DEF Row
    <3> HIDE DEF a
    <3> QED
      BY <2>1, <3>7, FreeListAssumption DEF FreeListAssumption
  <2> DEFINE c == alloc_pages(ch, 1, e.start, n)
  <2>3. a = e.start /\ c = Cut(ch, 1, 1, n)
    BY <1>3, <2>2, Zenon
  <2> HIDE DEF c
  <2>4. EntriesOf(ch, 1) = es
    BY Zenon DEF Row
  <2> HIDE DEF es
  <2>5. CASE e.pages = n
    <3>1. c = remove_entry(ch, 1, 1)
      BY <1>1, <2>3, <2>4, <2>5, Zenon DEF Cut
    <3>2. One(c) /\ Row(c) = ShiftDown(es, 1)
      BY <1>1, <3>1, RemoveOne, SlotFacts, Zenon DEF es
    <3>3. \A s \in Slots : ShiftDown(es, 1)[s] = Empty
      <4> SUFFICES ASSUME NEW s \in Slots PROVE ShiftDown(es, 1)[s] = Empty
        OBVIOUS
      <4>1. /\ ~ (s < 1) /\ (s # ENTRIES_LEN => s + 1 \in Slots /\ s + 1 # 1)
            /\ ENTRIES_LEN # 1 /\ ENTRIES_LEN \in Slots /\ 1 \in Slots
        BY SlotFacts DEF Slots
      <4>2. ShiftDown(es, 1)[s] = IF s < 1 THEN es[s]
                                  ELSE IF s # ENTRIES_LEN THEN es[s + 1]
                                  ELSE IF 1 = ENTRIES_LEN THEN Empty ELSE es[s]
        BY <1>1, <4>1, ShiftDownIs
      <4> QED
        BY <1>1, <4>1, <4>2, Zenon
    <3>4. OnlyEntry(c, Empty)
      BY <3>2, <3>3, SlotFacts, Zenon DEF OnlyEntry
    <3> QED
      BY <1>5, <2>3, <2>5, <3>4, Zenon DEF c
  <2>6. CASE e.pages # n
    <3> DEFINE f == Usable(e.start + n, e.pages - n)
               new == [es EXCEPT ![1] = f]
    <3>1. ~ (e.pages < n)
      BY <1>5, Zenon
    <3>2. c = SetEntries(ch, 1, new)
      BY <1>1, <2>3, <2>4, <2>6, <3>1, Zenon DEF Cut
    <3>3. n < es[1].pages /\ es[1] \in Ranges
      BY <1>1, <2>1, <2>6
    <3>4. new \in Rows
      BY <1>1, <3>3, CutRow, SlotFacts
    <3>5. new[1] = f /\ \A s \in Slots : s # 1 => new[s] = Empty
      BY <1>1, SlotFacts DEF Rows
    <3> HIDE DEF new, f
    <3>6. One(c) /\ Row(c) = new
      BY <1>1, <3>2, <3>4, SetOne, Zenon
    <3>7. OnlyEntry(c, f)
      BY <3>5, <3>6, Zenon DEF OnlyEntry
    <3>8. f = [start |-> e.start + n, pages |-> e.pages - n]
      BY Zenon DEF f, Usable
    <3> QED
      BY <1>5, <2>3, <2>6, <3>7, <3>8, Zenon DEF c
  <2> QED
    BY <2>5, <2>6
<1> QED
  BY <1>4, <1>5
=============================================================================
