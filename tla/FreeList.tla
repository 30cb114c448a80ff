------------------------------ MODULE FreeList ------------------------------
(***************************************************************************)
(* The free list of the page allocator: FPAInner of                        *)
(* kernel/src/memory/allocator/page.rs.  Entries (ranges of free pages) are *)
(* kept in entry pages of ENTRIES_LEN slots that form a doubly linked list; *)
(* the slots in use come first, sorted by address.  An entry page lives in *)
(* a page taken from the list itself.                                      *)
(*                                                                         *)
(* `chain` is the linked list from the first entry page on: [at, entries]; *)
(* the methods take the position k of `self` in it.  `frames_ok` says      *)
(* whether alloc_kpage gets a frame.  FullPageAllocator uses find_free_pages *)
(* and alloc_pages; dealloc_pages, their inverse, has no caller yet.       *)
(***************************************************************************)
EXTENDS Naturals, Sequences, FiniteSets

CONSTANTS
  ENTRIES_LEN, \* slots of an entry page (170)
  Pool,        \* pages in the first entry
  MaxRequest,  \* bound: pages of one request
  MaxChain,    \* bound: entry pages
  Empty,       \* Entry::Empty
  NoPages      \* Option::None of find_free_pages

ASSUME FreeListAssumption ==
  /\ ENTRIES_LEN \in Nat /\ ENTRIES_LEN >= 2
  /\ Pool \in Nat \ {0}
  /\ MaxRequest \in Nat \ {0}
  /\ MaxChain \in Nat \ {0}
  /\ Empty \notin [start : Nat, pages : Nat]
  /\ NoPages \notin Nat
  /\ NoPages \notin Seq([at : Nat, entries :
       [1..ENTRIES_LEN -> [start : Nat, pages : Nat] \cup {Empty}]])

VARIABLES
  chain,     \* the entry pages
  out,       \* ranges that were allocated and not given back
  filled,    \* some entry page has been full
  dropped,   \* pages that dealloc_pages has lost
  phase      \* "running" or "panicked"

vars == <<chain, out, filled, dropped, phase>>

Slots == 1..ENTRIES_LEN
Usable(start, pages) == [start |-> start, pages |-> pages]
NoEntries == [s \in Slots |-> Empty]

EntriesOf(ch, k) == ch[k].entries

SetEntries(ch, k, es) == [ch EXCEPT ![k].entries = es]

(* Slots before the first Empty one, which is where the loops stop.        *)
Prefix(es) == {s \in Slots : \A r \in 1..s : es[r] # Empty}

Least(S) == CHOOSE x \in S : \A y \in S : x <= y

-----------------------------------------------------------------------------
(* The page where a scan from page k on ends: the first one with a slot    *)
(* that it looks for, or with an Empty one, and otherwise the last.        *)
ScanEnd(ch, k, found) ==
  Least({p \in k..Len(ch) :
           found[p] # {} \/ Prefix(EntriesOf(ch, p)) # Slots \/ p = Len(ch)})

find_free_pages(ch, k, n) ==
  LET fit == [p \in 1..Len(ch) |->
                {s \in Prefix(EntriesOf(ch, p)) : EntriesOf(ch, p)[s].pages >= n}]
      p == ScanEnd(ch, k, fit)
  IN  IF fit[p] = {} THEN NoPages ELSE EntriesOf(ch, p)[Least(fit[p])].start

(* Mutant: the removed entry stays.                                        *)
ShiftDownKeeps(es, idx) == es

(* copy_within(idx + 1.., idx): the last slot is copied, not cleared.      *)
ShiftDown(es, idx) ==
  LET cleared == [es EXCEPT ![idx] = Empty]
  IN  [s \in Slots |-> IF s < idx \/ s = ENTRIES_LEN
                       THEN cleared[s]
                       ELSE cleared[s + 1]]

(* remove_entry_page takes the last page off the list, for each page that  *)
(* has no entry to give to the page in front of it.                        *)
PagesLeft(ch, k) ==
  Len(ch) - Cardinality({p \in (k + 1)..Len(ch) : EntriesOf(ch, p)[1] = Empty})

(* remove_entry pulls the first entry of the next page into the last slot, *)
(* and that page the first one of the page after it.  If there is none to  *)
(* pull, the last slot keeps what it had.                                  *)
remove_entry(ch, k, idx) ==
  LET first == [p \in 1..Len(ch) |-> EntriesOf(ch, p)[1]]
      left == [p \in 1..Len(ch) |-> ShiftDown(EntriesOf(ch, p), IF p = k THEN idx ELSE 1)]
      pulled == [p \in 1..Len(ch) |->
                   IF p < Len(ch) /\ first[p + 1] # Empty
                   THEN [left[p] EXCEPT ![ENTRIES_LEN] = first[p + 1]]
                   ELSE left[p]]
  IN  [p \in 1..PagesLeft(ch, k) |->
         [ch[p] EXCEPT !.entries = IF p < k THEN @ ELSE pulled[p]]]

(* alloc_pages(start, n); NoPages is its panic: no entry matches, or, in a *)
(* build with overflow checks, the one that does is smaller than n.        *)
alloc_pages(ch, k, start, n) ==
  LET hit == [p \in 1..Len(ch) |->
                {s \in Prefix(EntriesOf(ch, p)) : EntriesOf(ch, p)[s].start = start}]
      p == ScanEnd(ch, k, hit)
      es == EntriesOf(ch, p)
      s == Least(hit[p])
  IN  IF hit[p] = {}
      THEN IF Prefix(es) = Slots THEN NoPages ELSE ch
      ELSE IF es[s].pages = n THEN remove_entry(ch, p, s)
      ELSE IF es[s].pages < n THEN NoPages
      ELSE SetEntries(ch, p, [es EXCEPT ![s] = Usable(start + n, es[s].pages - n)])

(* add_entry_page on the last entry page.  The results of the operations   *)
(* that can return AllocError are [ok, chain].                             *)
add_entry_page(ch, frames_ok) ==
  LET free == find_free_pages(ch, Len(ch), 1)
      taken == alloc_pages(ch, Len(ch), free, 1)
  IN  IF free = NoPages THEN [ok |-> FALSE, chain |-> ch]
      ELSE IF ~ frames_ok THEN [ok |-> FALSE, chain |-> taken]
      ELSE [ok |-> TRUE, chain |-> Append(taken, [at |-> free, entries |-> NoEntries])]

(* A list with room for an entry: in one of the pages of room, or in a new *)
(* one, and the page where the room is.                                    *)
MakeRoom(ch, room, frames_ok) ==
  IF room # {} THEN [ok |-> TRUE, chain |-> ch] ELSE add_entry_page(ch, frames_ok)

RoomAt(ch, room) == IF room # {} THEN Least(room) ELSE Len(ch) + 1

ShiftUp(es, idx, entry) ==
  [s \in Slots |-> IF s < idx THEN es[s]
                   ELSE IF s = idx THEN entry ELSE es[s - 1]]

(* The last entry of a full page moves to the front of the next page, and  *)
(* so on up to a page whose last slot is Empty.                            *)
insert_entry(ch, k, idx, entry, frames_ok) ==
  LET room == {p \in k..Len(ch) : EntriesOf(ch, p)[ENTRIES_LEN] = Empty}
      made == MakeRoom(ch, room, frames_ok)
      Inserted(p) == IF p = k THEN ShiftUp(EntriesOf(made.chain, p), idx, entry)
                     ELSE ShiftUp(EntriesOf(made.chain, p), 1,
                                  EntriesOf(ch, p - 1)[ENTRIES_LEN])
  IN  IF ~ made.ok THEN made
      ELSE [ok |-> TRUE,
            chain |-> [p \in 1..Len(made.chain) |->
                         [made.chain[p] EXCEPT !.entries =
                            IF p \in k..RoomAt(ch, room) THEN Inserted(p) ELSE @]]]

append_entry(ch, k, entry, frames_ok) ==
  LET room == {p \in k..Len(ch) : \E s \in Slots : EntriesOf(ch, p)[s] = Empty}
      made == MakeRoom(ch, room, frames_ok)
      p == RoomAt(ch, room)
      es == EntriesOf(made.chain, p)
  IN  IF ~ made.ok THEN made
      ELSE [ok |-> TRUE,
            chain |-> SetEntries(made.chain, p,
                        [es EXCEPT ![Least({s \in Slots : es[s] = Empty})] = entry])]

(* One turn of the loop of squash_entries, at slot w.slot of page w.page;  *)
(* a loop that has ended stays as it is.                                   *)
SquashTurn(w) ==
  LET es == EntriesOf(w.chain, w.page)
      i == w.slot
  IN  IF i = ENTRIES_LEN
      THEN IF w.page < Len(w.chain) THEN [w EXCEPT !.page = @ + 1, !.slot = 1] ELSE w
      ELSE IF es[i] = Empty \/ es[i + 1] = Empty THEN w
      ELSE IF es[i].start + es[i].pages = es[i + 1].start
      THEN [w EXCEPT !.chain =
              remove_entry(
                SetEntries(@, w.page,
                  [es EXCEPT ![i] = Usable(es[i].start, es[i].pages + es[i + 1].pages)]),
                w.page, i + 1)]
      ELSE [w EXCEPT !.slot = @ + 1]

(* A turn goes on by a slot or takes an entry out.                         *)
Turns(ch) == 2 * ENTRIES_LEN * Len(ch)

squash_entries(ch, k) ==
  LET turn[i \in 0..Turns(ch)] ==
        IF i = 0 THEN [chain |-> ch, page |-> k, slot |-> 1] ELSE SquashTurn(turn[i - 1])
  IN  turn[Turns(ch)].chain

Squashed(r, k) ==
  IF r.ok THEN [ok |-> TRUE, chain |-> squash_entries(r.chain, k)] ELSE r

(* dealloc_pages stops at an Empty slot and returns Ok(()).                *)
dealloc_pages(ch, k, start, n, frames_ok) ==
  LET after == [p \in 1..Len(ch) |->
                  {s \in Prefix(EntriesOf(ch, p)) : EntriesOf(ch, p)[s].start >= start}]
      p == ScanEnd(ch, k, after)
      es == EntriesOf(ch, p)
      s == Least(after[p])
  IN  IF after[p] # {}
      THEN IF es[s].start = start + n
           THEN [ok |-> TRUE,
                 chain |-> SetEntries(ch, p, [es EXCEPT ![s] = Usable(start, es[s].pages + n)])]
           ELSE Squashed(insert_entry(ch, p, s, Usable(start, n), frames_ok), p)
      ELSE IF Prefix(es) # Slots THEN [ok |-> TRUE, chain |-> ch]
      ELSE Squashed(append_entry(ch, p, Usable(start, n), frames_ok), p)

-----------------------------------------------------------------------------
(* The callers.                                                            *)

PageRange(start, n) == start .. (start + n - 1)

Entries(ch) ==
  {x \in (1..Len(ch)) \X Slots : EntriesOf(ch, x[1])[x[2]] # Empty}

EntryAt(ch, x) == EntriesOf(ch, x[1])[x[2]]

EntryRange(ch, x) == PageRange(EntryAt(ch, x).start, EntryAt(ch, x).pages)

FreePages(ch) ==
  UNION {EntryRange(ch, x) : x \in Entries(ch)}

OutPages == UNION {PageRange(r.start, r.pages) : r \in out}

(* Two entries overlap: remove_entry has left a range in two slots.  What  *)
(* the list does from then on is of no interest: the actions stop there.   *)
Overlapping(ch) ==
  \E x, y \in Entries(ch) : x # y /\ EntryRange(ch, x) \cap EntryRange(ch, y) # {}

HasFullPage(ch) == \E k \in 1..Len(ch) : EntriesOf(ch, k)[ENTRIES_LEN] # Empty

(* The pages of the entry pages that add_entry_page made.                  *)
EntryPages(ch) == {ch[k].at : k \in 2..Len(ch)}

(* The list after add_entry_page(None): one entry with the whole pool.     *)
Init ==
  /\ chain = <<[at |-> 0, entries |-> [NoEntries EXCEPT ![1] = Usable(1, Pool)]]>>
  /\ out = {}
  /\ filled = FALSE
  /\ dropped = {}
  /\ phase = "running"

(* find_free_pages and alloc_pages, as FullPageAllocator::allocate calls   *)
(* them; with no range that fits it returns AllocError.                    *)
Allocate(n) ==
  LET start == find_free_pages(chain, 1, n)
      ch == alloc_pages(chain, 1, start, n)
  IN  /\ phase = "running" /\ ~ Overlapping(chain)
      /\ start # NoPages
      /\ IF ch = NoPages
         THEN phase' = "panicked" /\ UNCHANGED <<chain, out>>
         ELSE /\ chain' = ch
              /\ out' = out \cup {Usable(start, n)}
              /\ UNCHANGED phase
      /\ filled' = (filled \/ HasFullPage(chain'))
      /\ UNCHANGED dropped

(* dealloc_pages of an allocated range, up to MaxChain entry pages.  After *)
(* AllocError the caller still has the range.                              *)
Deallocate(r, frames_ok) ==
  LET res == dealloc_pages(chain, 1, r.start, r.pages, frames_ok)
      listed == FreePages(res.chain) \cup EntryPages(res.chain)
  IN  /\ phase = "running" /\ ~ Overlapping(chain)
      /\ Len(res.chain) <= MaxChain
      /\ chain' = res.chain
      /\ IF res.ok
         THEN /\ out' = out \ {r}
              /\ dropped' = dropped \cup (PageRange(r.start, r.pages) \ listed)
         ELSE /\ dropped' = dropped \cup (FreePages(chain) \ listed)
              /\ UNCHANGED out
      /\ filled' = (filled \/ HasFullPage(chain'))
      /\ UNCHANGED phase

Next ==
  \/ \E n \in 1..MaxRequest : Allocate(n)
  \/ \E r \in out, frames_ok \in BOOLEAN : Deallocate(r, frames_ok)

Spec == Init /\ [][Next]_vars

-----------------------------------------------------------------------------
(* Properties.                                                             *)

(* Entries and allocated ranges are non-empty parts of the pool.           *)
TypeOK ==
  /\ \A k \in 1..Len(chain) : DOMAIN chain[k].entries = Slots
  /\ FreePages(chain) \subseteq 1..Pool
  /\ \A x \in Entries(chain) : EntryAt(chain, x).pages >= 1
  /\ OutPages \subseteq 1..Pool
  /\ dropped \subseteq 1..Pool

(* The slots in use come first and are sorted by address, which the scans  *)
(* of dealloc_pages and find_free_pages rely on.                           *)
EntriesSorted ==
  \A k \in 1..Len(chain) : \A s \in Slots :
     LET es == EntriesOf(chain, k)
     IN  /\ es[s] # Empty => s \in Prefix(es)
         /\ s > 1 /\ es[s] # Empty
              => es[s - 1].start + es[s - 1].pages <= es[s].start

(* While no entry page has been full, the entries, the allocated ranges    *)
(* and what dealloc_pages drops make up the pool: no page is in two        *)
(* entries, or both free and allocated, alloc_pages loses none, and the    *)
(* scans find the entries in order.                                        *)
PoolPartitioned ==
  /\ TypeOK
  /\ ~ filled =>
       /\ ~ Overlapping(chain)
       /\ FreePages(chain) \cap OutPages = {}
       /\ FreePages(chain) \cup OutPages \cup dropped = 1..Pool
       /\ EntriesSorted
=============================================================================
