# A TLA+ model of rustyos

rustyos is a small x86-64 kernel in Rust: one CPU, one kernel thread, interrupt
handlers on top of it. The modules here model its memory management, its start-up,
console and faults, the calibration of its timer, the RAM file system, paths and
the directory cache, each from the code under `src/kernel/src/`. TLC checks them
on small instances. TLAPS proves the main safety properties of the frame
allocator, the page allocator and its entry list, the heap, the console, the
calibration, the RAM file system and the directory cache for every value of the
constants.

## 1. The system and its parts

| part | source (`src/kernel/src/`) | module | how much |
|---|---|---|---|
| frame allocator | `memory/frame/{mod,boot}.rs` | `FrameAllocator`, `FrameAllocatorProofs` | all |
| page mapping | `memory/mod.rs` | `KernelPages`, `KernelPagesProofs` | all |
| page allocator | `memory/allocator/page.rs` | `KernelPages`, `FreeList`, `FreeListProofs` | all |
| kernel heap | `memory/allocator/mod.rs` | `KAllocator`, `KAllocatorProofs`, `Heap` | all |
| memory layout | `memory/layout.rs` | a parameter of `KernelPages` | the allocator's region |
| start-up | `main.rs` | `Console`, `ConsoleProofs` | all |
| serial console | `serial.rs` | `Console`, `ConsoleProofs` | all |
| interrupts | `trap.rs` | `Console`, `ConsoleProofs` | all vectors |
| panic handler | `panic.rs` | `Console`; "panicked" elsewhere | all |
| APICs | `apic.rs` | `Console`, `Pit` | locks, delivery, the timer's count |
| ticks, APIC timer | `time.rs` | `Console`, `Pit`, `PitProofs` | all |
| interval timer | `pit.rs` | `Pit`, `PitProofs` | channel 0, the only one in use |
| RAM file system | `fs/ramfs/mod.rs` | `RamFs`, `RamFsProofs` | all |
| VFS traits | `fs/vfs/*` | `RamFs`, `DirCache` | through ramfs |
| mount table | `fs/mod.rs`, `fs/mount.rs` | `DirCache`, `RamFs` | all |
| directory cache | `fs/dentry.rs` | `DirCache`, `DirCacheProofs` | all |
| paths | `fs/path/*` | `PathStrings`, `Paths` | all but conversions and capacity |
| ext2 | `fs/ext2/*` | none | not compiled |
| ACPI, MP, host runner | `acpi.rs`, `mp.rs`, `src/main.rs`, `build.rs` | none | see section 8 |

How they interact: `kmain` sets up the frame allocator, the interrupt
controllers, the console and the timer, turns interrupts on and prints. The heap
(`KAllocator`) takes pages from the page allocator, which reserves addresses in
its entry list and backs them, page by page, with frames mapped in the page
table. A path is looked up in the directory cache, which takes the path apart,
finds the nearest ancestor it has and fills in the rest from the file system
that ancestor belongs to; the mount table says which of its entries must stay.

## 2. Modules and code

**FrameAllocator.** `bitmap` is the set of indices whose bit is set, `reserved`
the number of frames the boot allocator used, `held` who holds which frame.
Actions: `allocate_bitmap` (`BitmapFrameAllocator::new`), `allocate_frame`,
`deallocate_frame`. Marking comes before the address is computed, as in the code,
so indices past the last frame can be marked too. The underflow in
`address_to_frame` is a panic: with overflow checks the subtraction panics, and
without them the index it gives is outside the bitmap slice.

**KernelPages** instantiates `FrameAllocator`; its holders of frames are pages
and page tables. A call (`call`) takes one step per frame it asks for or gives
back, since each can fail and leave the earlier ones behind. Callers hold the
lock of `KAllocator.buckets`, so calls do not interleave. The x86_64 crate's page
table is external and has one level of tables. `deallocate` does not put
addresses back in the entry list, so the list is one entry, `inner`; that it stays
one is `OneEntryStays` of `FreeListProofs`. A page table is modelled by the frame
it is in, not by what that frame contains. Once the frame allocator has handed out
a frame that is in use, or one of the boot frames (`frames_shared`, section 4),
page tables, the entry page or the bitmap may be overwritten. The module then stops
(`Intact`, `Ready`) and its properties claim nothing.

**PageSource** is what the heap needs of the page allocator: no page is given out
twice. `KernelPages` implements it (`ImplementsPageSource`), and `KAllocator`
uses just that promise.

**FreeList** is the entry list itself (`FPAInner`): the methods are operators on the
chain of entry pages, with the splitting, merging, spilling and removal of entry
pages. A method that calls itself on the next page is written as what it does to all
pages at once: where a scan along the pages ends (`ScanEnd`), which entry each page
hands to its neighbour (`insert_entry`, `remove_entry`) and how many pages are left
(`PagesLeft`). The loop of `squash_entries` is a recursive function over its turns.
`dealloc_pages` has no caller in the kernel yet; the module calls it with ranges
that were allocated. The actions stop once two entries overlap.

**KAllocator** has the chains of buckets, their bitmaps, the Box pages and the
fall back to pages. The lock is held for a whole call, so a call is one step. A
request that fails after its addresses were reserved uses them up. The page allocator
can also panic inside any call; the step then does what the call had done so far, and
the heap takes no more steps, as its lock is never released. When that happens while a
bucket is dropped (`drop_bucket_panics`), the buckets behind it have been taken out of
the chain already. Each allocation is a record of its own: the field `owner` tells two
callers apart that have the same block, so that a block given out twice would show.
That pages have memory of their own is taken from `KernelPages`, and holds as long as
no frame is shared.
**Heap** is the promise of a global allocator: it has the region, a set of bytes, of
each allocation. `Alloc` adds one allocation whose region is disjoint from all others,
`Free` removes one. `KAllocator` implements it with the regions computed from its
blocks and pages (`ImplementsHeap`).

**Console** has `kmain` at `pc`, the handler on top of it at `handler`, the locks
COM1 and LAPIC, the Lazy statics, and the devices (UART, APICs, timer; external).
A handler runs with interrupts off; a taken spin lock does not let its taker move.
`Fault` is any of the vectors whose handler prints and panics. There is at most
one fault in a boot, and none inside a handler.

**Pit** is `start_timer`: the wait on the counter, whose two bytes are read one
after the other while it counts, and the arithmetic that turns the APIC timer's
count into a tick, in words of `WordSize` values.

**RamFs** has the superblock's table, the callers' copies of inodes and, apart
from both, the blocks that all clones of an inode share through an `Arc`. The
error codes are one value, "Err"; a panic and an endless spin are results too.

**PathStrings** has the operations of `Path` and `Components` as operators and
recursive functions on sequences of bytes, with `Parts` as the reference: what a
path is as a sequence of names. The alphabet is a separator, a dot, a letter and one
character of two bytes, `"w" "v"`, because some operations mix byte offsets and
character counts. An operation that may panic or return `None` gives a set, empty in
that case. `position` and `rposition` are the iterator methods of that name that the
code finds separators with. **Paths** is a `PathBuf` that is changed while nobody
borrows it, and an iterator that is moved from both ends.

**DirCache** instantiates `RamFs`. A `DEntry` is an identifier (its name and a
number); the cache, the mount table and the callers hold identifiers, and one
that nobody holds is free again. The inode inside a `DEntry` is a copy in
`RamFs`'s sense, so what the cache has can be older than the table, and writing
it back is possible. Keys of the cache are the texts that `push` makes. A new DEntry
takes a free identifier (`New`); a path outside of `Keys`, or more than `MaxAlike`
DEntries of one name, are beyond the bounds and the call is not made. Callers use the file
systems as the commented example in `kmain` does: `create_inode`, then `create` or
`mkdir` in a directory of the same file system, then `write_inode`. `link`,
`symlink` and `unlink` are exercised in `RamFs`'s own run. `get`, `reload`,
`mount_fs` and the others are one step each: only the kernel thread calls them,
and no interrupt handler touches the file systems.

The `MC*` modules define memory maps, layouts, names and symmetry sets for TLC.

## 3. Passing runs

| run | properties | what is shown | bounds |
|---|---|---|---|
| `frames` | `TypeOK`, `OnlyOverflowFrameShared`, `BootFramesNeverHandedOut`, `NoLostFrame`, `PanicsOnlyPastFirstRegion` | bits stay in the slice; only the frame after the first word is ever shared, or handed out though it is a boot frame; no frame of the word is lost; freeing panics only past the first region | 8 frames in two regions, words of 6 bits, up to 7 boot frames, 5 holders |
| `pages` | `LiveBacked`, `NoStrayFrame`, `MappingNeverConflicts`, `LiveFramesStable`, `NoneOnlyWhenFull`, `ImplementsPageSource` | live memory stays backed by its own frames, each frame is accounted for, the mapper never meets a conflict (these as long as no frame is shared), `None` only when full, no address is given out twice, also not after it was freed | one word of 8 frames for 8 pages and their tables (2 pages each), requests up to 3 pages |
| `heap` | `BitmapMatchesLive`, `LiveServed`, `PagesAccounted`, `ImplementsHeap` | no two allocations overlap; bitmaps match what is handed out; blocks fit, are aligned and stay so after a panic; all pages are accounted for and buckets behind the head are in use | 5 pages of 4 bytes, two classes, a chain of three buckets, 2 owners |
| `freelist` | `PoolPartitioned` | entries and allocations partition the pool and stay sorted until a page of entries is full | 4 slots, 9 pages, 3 entry pages |
| `console` | `HandlersNeverSpin`, `TicksCounted`, `EveryByteEchoed`, `BootCompletes`, `PanicReported` | no handler spins, no tick is lost but for merged expirations, every byte is echoed in order, start-up ends, panics and faults are reported | 2 lines, 4 bytes received, a buffer of 3, 3 expirations |
| `pit` | `WaitAlmostExact`, `CalibrationRight` | torn reads shorten the wait by less than 256 periods (modulo a pass); a wait that ends on the first pass gives a tick right to within that | base 4, divisor 11, 2^6 for 2^32, 40 periods |
| `ramfs` | `NamesUnique`, `EntriesResolve`, `EntriesStable`, `OkMeansListed`, `FailureChangesNothing` | names stay unique, entries resolve and stay, Ok means listed, a failure changes no directory | 1 file system, 2 copies, 3 names, 2 slots a block, 2 inodes |
| `paths` | `TypeOK`, `EachPartOnce`, `PopRemovesLast`, `AncestorsStrip`, `ComparesParts`, `ExtensionOnly`, `PrefixToFirstDot`, `JoinsBehindSeparator` | the buffer stays UTF-8 and the operations agree with the reading of a path as parts | all texts up to 4 characters, 8 arguments, 8 bytes of buffer |
| `dircache` | `GetFindsFile`, `EntriesSound`, `MountsStayCached`, `EvictsLeastRecent` | a lookup finds just what the file system has; entries belong where they are; mount points stay and the least recent entry goes | 2 file systems, a cache of 2, 3 inodes, 1 DEntry held by callers, 1 tick |

The bounds are the smallest at which the cases of interest happen: a word of the
bitmap overflows into the next, a region ends inside a word, a request fails
after its first page, a page table is shared by two allocations, a bucket in the
middle of a chain empties, a class has a bitmap larger than its page, an entry
page spills, a byte arrives while the handler is returning, a timer expiration
meets a pending one, the two bytes of the count straddle a borrow, a poll misses
the pass through 0, a directory needs a second block, a path has `.` and repeated
separators between two names, the two ends of an iterator meet, a
cache is full of mount points, a lookup evicts an entry it has just made. In
`DirCache`, `MaxAlike` is as many DEntries of one name as the other bounds let exist
at once (one cached, one being made, one for each mount, one for each that a caller
holds), and `GetFindsFile` also says that the bounds cut no lookup off.

Restrictions, and what happens outside them:

* `KernelPages`: as long as no frame is shared. The `pages` run has one word of frames,
  so that requests fail for want of a frame; there none is ever shared. With a map of
  two words, which TLC was also given, the module reaches a shared frame and stops.
* `FreeList`: until an entry page was full (`filled`); see section 4.
* `OkMeansListed`: not of inode 0, see section 4. `FailureChangesNothing`: not of
  `symlink` with too long a target, which is entered before the length is checked.
* `ExtensionOnly`: not when the stem is `.` or `..`, which is no name;
  `with_extension` only of an ASCII name or a path that ends in its name;
  `PrefixToFirstDot`: of ASCII names. See section 4.
* `GetFindsFile`: of paths that start with one separator. `push` turns the first
  name under `/` into `//name`, so below the root the keys all start with `//`
  and such a lookup meets only `/` in the cache, then reads the directories
  afresh. That is why it is never stale. A lookup that starts with `//` does hit
  the cache, and may find an old inode or another file (`dircache_names`).
  If `push` put separators where they belong, ordinary lookups would hit the
  cache and be stale until `reload`.
* `console`: faults at every step but those at which `kmain` has COM1 locked, and
  bytes only when `kmain` is idle; see section 4.

Deadlock checking is off for `Console` (a halted or idle kernel), `Pit` (the wait
is over) and `FreeList` (the entry list is exhausted or the actions have stopped).

**Fairness.** Only `Console` has liveness. It assumes weak fairness of the
processor (it executes its next instruction, and takes an interrupt that stays
requested while enabled) and of the UART reporting a byte it has received (the
character time-out of its buffer). Nothing is assumed of the keyboard, the timer
or faults. Bytes do not arrive between `init_serial`, which empties the receiver,
and `enable_interrupts`: these are a few instructions apart and a character takes
260 microseconds. In the passing run bytes arrive only when `kmain` is idle, since
one that is reported during a `kprintln!` hangs the kernel; `console_hangs` has
bytes at any time after `enable_interrupts`, the 10 ms of `start_timer` included.

## 4. Where the code departs from its documentation

| run | property | what happens | the text it contradicts |
|---|---|---|---|
| `frames_shared` | `NoSharedFrame` | once the first word is full, one frame is handed out for ever | `frame/mod.rs:126` |
| `console_hangs` | `BootCompletes` | a byte during `kprintln!` hangs the kernel on COM1 | `serial.rs:31` |
| `dircache_names` | `GetFindsNamedFile` | `push` leaves the separator out, so `//a/b` is cached as `//ab` and found under that name | `path/pathbuf.rs:61` |

Other departures have no run of their own. Each of the following formulas was
violated when TLC was given it as an invariant or a property of the module, under
the cfg of its passing run unless the row says otherwise; a reader can add it to
repeat that.

| module | formula that fails | what happens | text |
|---|---|---|---|
| `FrameAllocator` | `\A h \in Handles : held[h] # NoFrame => ~ BootFrame(held[h])` | with more boot frames than a word has bits, the frame after the word is handed out though the bitmap lies in it (64 bitmap frames are 8 GiB of memory) | `frame/mod.rs:104` |
| `FrameAllocator` | `[][phase = "running" => phase' # "panicked"]_vars` | freeing a frame of the second region panics | `frame/mod.rs:182` |
| `KernelPages` | `\A b \in live : PagesOf(b) \subseteq Start .. (Start + Size - 1)` | the first entry ends two pages behind the region | `layout.rs:52` |
| `FreeList` | `dropped = {}` | `dealloc_pages` loses pages behind the last entry | `page.rs:298` |
| `FreeList` | `~ Overlapping(chain)` | removal from a full last page leaves its last entry twice | `page.rs:210` |
| `Console`, `Faults = {"write"}` | `PanicReported` | a fault during `kprintln!` hangs on COM1 and is never reported | `trap.rs:19` |
| `Pit` | `[][pc = "hi" /\ pc' = "done" => count = 0]_vars` | the wait ends before the counter is 0 | `time.rs:45` |
| `Pit` | `[][pc = "hi" /\ pc' = "done" => waited' <= Divisor]_vars` | a poll that misses the last 256 periods waits a whole pass (55 ms) more | `time.rs:38` |
| `RamFs` | `result # "spins"` | `symlink` spins on its own guard | `vfs/mod.rs:60` |
| `RamFs` | `[][\A d, p \in Handles, name \in Names : link(d, p, name) /\ result' = "Ok" => \E e \in Listing(copy[p].private.arc)' : e.name = name]_vars` | a link to inode 0 returns Ok and is not listed | `vfs/mod.rs:58` |
| `RamFs` | `[][\A a \in Arcs : Listing(a)' # Listing(a) => \E f \in FileSystems, h \in Handles : write_inode(f, h)]_vars` | a new entry is visible before `write_inode` | `vfs/mod.rs:51` |
| `RamFs`, two file systems | `\A f \in FileSystems : \A n \in DOMAIN inodes[f] : inodes[f][n].arc[1] = f` | `write_inode` takes an inode of another ramfs | `vfs/error.rs:13` |
| `Paths` | `iters = {} => \A q \in Args : with_extension(buf, q) # {}` | the copy is cut inside a character and the call panics | `path/mod.rs:163` |
| `Paths` | `\A n \in file_name(buf) : file_prefix(buf) # {}` | a count of characters is used as an offset in bytes, and the call panics | `path/mod.rs:276` |
| `Paths` | `iters = {} /\ file_name(buf) # {} => Parts(set_file_name(buf, <<"a">>)) = Front(Parts(buf)) \o <<<<"a">>>>` | the name is pushed without a separator: of `/a/b` and `c` it makes `/ac` | `path/pathbuf.rs:61` |
| `DirCache` | `[][\A m \in mounts' \ mounts : copy'[entries'[m.dentry[1]].dentry] = R!From(inodes'[m.fs][0])]_vars` | a mount with `dest` caches `dest`, and the new root cannot be reached | `fs/mod.rs:54` |
| `DirCache` | `result = "panics" => RootDir \notin MountPaths` | after `delete` or `unmount` of `/` lookups panic though it is still mounted | `fs/dentry.rs:90` |
| `DirCache` | `\A d \in held : d[1] \in DOMAIN entries => copy[d] = copy[entries[d[1]].dentry]` | a later lookup caches another DEntry of the path; `reload` refreshes only one | `fs/dentry.rs:45` |

## 5. What is proved

Every theorem is for all constants that satisfy the named assumptions of its
module; an invariant is proved from a stronger, inductive one.

**FrameAllocatorProofs**, from `RegionsAssumption` (finitely many disjoint
non-empty regions, at least one of them usable) and `SizesAssumption` (a word has
a bit, a frame at least two words):

* `TypeCorrect`: every set bit lies in the bitmap slice, so marking never panics;
* `Exclusion`: only the frame after the first word can have two holders;
* `FramesNotLost`: a used bit of the first word has a holder or is a boot frame;
* `BootFramesSafe`: boot frames are never handed out, save the frame after the
  first word;
* `FirstRegionFreeable`: freeing panics only if the frame being freed is past the first
  region;
* `NoneMeansFull`: `allocate_frame` returns `None` only when the bit of every frame
  is set, so bits marked past the last frame never hide a free one;
* `FreshWhileWordOpen`: as long as the first word has a clear bit, `allocate_frame`
  returns a frame that nobody holds and that is no boot frame, on any memory map. So
  frames begin to be shared only when the first word is full.

`OnlyOverflowFrameShared` is not inductive: that no two holders share a frame of
the first word rests on its bit being set for as long as it is held. The
invariant `IInv` adds this link between `held` and `bitmap`, that held frames are
addresses of indices up to `WordBits`, and that the boot indices are set. The
argument: `first_free_frame` always answers from word 0, which is never empty
because index 0 is a frame of the bitmap (`FirstFreeFrame`). So its answer is a
clear bit of word 0 or the index after it. `AddressInjective` and `RoundTrip` say
that different indices have different addresses and that freeing clears the bit
of the index that was allocated. For `NoneMeansFull`, every index below
`TotalFrames` has an address (`AddressBelowTotal`: the regions are finitely many, so
there is a last one that begins at or below the index), and below the index that
`first_free_frame` returns all bits are set. A least counterexample (`LeastNat`, in
this and in other proof modules) stands in for induction.

**KernelPagesProofs**, from `KernelPagesAssumption` (a non-empty region, any page
table size): `LiveAlwaysBacked`, `UnwrapsHold`, `FramesStable` and
`PageSourceRefined`, that is `LiveBacked`, `MappingNeverConflicts`,
`LiveFramesStable` and the refinement of `PageSource`. Whether a page is backed
depends on how far the call in progress has come, so `PagesInv` says where that
call works: the entry only moves up, the ranges of the live allocations and of
the call are disjoint and below it (`RangesApart`), and which pages are mapped
follows from the range they are in and the call's position (`Backing`). The first
three results are about a kernel in which no frame is shared (`Intact`), since the model
does not say what page tables contain. How long that is, is `IntactWhileWordOpen`: a step
that ends it leaves the first word of the bitmap full. The converse of `LiveBacked` is
`StrayInvariance`: `StrayInv` adds who accounts for each mapped page (the entry
page, a live or a failed allocation, or the call in progress up to its position),
that failed ranges stay apart from all others, and that a page table has a frame
only while a page under it is mapped, except for the one table that
`free_kpage` is about to look at.

Its last part instantiates `FrameAllocatorProofs` with the constants of
`KernelPages`. It needs `FramesAssumption`, the frame allocator's two assumptions
on the memory map, which `KernelPages` declares. Every step of `KernelPages` is a
step of the frame allocator or leaves it alone, so the frame allocator's invariant
holds in it as well (`FramesInvariance`). `FramesAccounted` is `NoStrayFrame`, from
`PagesInv`, `StrayInv` and that invariant together; `RefusedOnlyWhenFull` is
`NoneOnlyWhenFull`. With these two every property of the `pages` run is proved.

**FreeListProofs**, from `FreeListAssumption` (at least two slots a page, a pool of at
least one page, requests of at least one page, `Empty` and `NoPages` different from
entries, addresses and lists):

* `PoolStaysPartitioned`: `PoolPartitioned`, for any number of slots, pages and entry
  pages;
* `AllocateNeverPanics`: `alloc_pages` never panics on the range that `find_free_pages`
  has just returned, on a list of any length, as long as no two entries overlap;
* `OneEntryStays`: on a list of one entry, `find_free_pages` and `alloc_pages` fail if the
  entry is too small and else move up its start, which is the step `reserve` of
  `KernelPages`.

`PoolPartitioned` speaks of sets of pages; the methods move slots. `ListInv` says of
the slots what the partition needs: as long as no page of entries has been full
(`filled`), the list is one page (`One`), its used slots come first, in order and
apart (`Tidy`), its last slot is Empty, every page of the pool is in an entry,
allocated or dropped and not in two of these (`Parted`), and allocated ranges do not
overlap. The last slot is what matters: `copy_within` does not clear it, so only
while it is Empty does removing an entry leave the others once each. Of a full list
`ListInv` keeps the shape (`Good`): each entry is still a range of the pool. The
merging loop is the hard case. It may fill and empty slots on its way, so its lemma
is about every turn: either the row is still tidy and holds the same pages, or the
last slot was copied and is `Stuck`, full from then on, in which case `filled` holds
and nothing is claimed. Turns are counted by `LeastNat`.

**KAllocatorProofs**, from `KAllocatorAssumption` (an alignment that is not larger
than a block size divides it; any classes, layouts and bitmap sizes):
`BitmapExact`, `RequestsServed`, `PagesExact` and `HeapRefined`, that is every
property of the `heap` run. That regions never overlap needs more than exact
bitmaps: `HeapInv` adds that a page has one use for ever, as one bucket, one Box
or one large allocation (`PagesApart`), because the page allocator never gives a
page out twice, and that the bits of a bucket and its blocks correspond one to
one (`BlocksExact`). All this is about a running heap: a panic can leave a chain cut
off. `HeapOK` says it of a running heap and adds `LiveServed` in every state, because
what callers have stays theirs through a panic too (`FailureStep`, `PanicStep`). The
refinement shows that each call changes the abstract allocations by just the one it
returns or takes, and that the region of a new one is apart from every other (`Apart`).

**PitProofs**, from `PitAssumption` (the divisor fits the counter, a second of the
APIC timer's counts fits a word): `WaitExact` and `CalibrationExact`. `PitInv`
ties the counter to the time since it was loaded (`CountAt`); the wait ends on a
high byte of 0, so the counter was below `Base` at that moment, whatever the low
byte was. The kernel's own numbers, 11931 and two bytes, are an instance.

**ConsoleProofs**, from `ConsoleAssumption`, for any number of lines, bytes and
expirations, any buffer of the UART and faults at any place:

* `TicksAreExact`: `TicksCounted`;
* `LocksAreFree`: `HandlersNeverSpin`, if `Typing \subseteq {"hlt"}`, that is if bytes
  arrive only when `kmain` is idle, as in the `console` run. Without that hypothesis
  it is false (`console_hangs`);
* `LockMetTakenOnlyInLine`: without that hypothesis, `ack_lapic` still finds LAPIC
  free, and `com1_handler` finds COM1 taken only if it interrupted `kmain` in the
  middle of a line. So the hang of section 4 is the only one a handler can have;
* `EchoesInOrder`: at any time what was echoed is the echo of the first bytes
  received, and the UART has the others: no byte is lost, repeated or swapped. This
  is the safety half of `EveryByteEchoed`.

`ConsoleInv` says where `kmain` can be while interrupts are on or a handler runs
(`Control`) and who can have the two locks there (`Locks`). `kmain` has LAPIC only
with interrupts off and COM1 only while it sets the port up or writes a line, and a
panic keeps interrupts off. The echo of a sequence of bytes is a recursive function;
that it is one, and that it distributes over appending a byte, is proved with
`LeastNat`.

**RamFsProofs**, from `RamFsAssumption` (a block has a slot, a table room for an
inode), for any number of file systems, copies, names and slots: `NoNameTwice`,
`NothingUnlisted`, `OkIsListed` and `FailuresAreClean`, that is `NamesUnique`,
`EntriesStable`, `OkMeansListed` and `FailureChangesNothing`; and `ListedIsInTable`,
that is `EntriesResolve`, if there is one file system (`OneFileSystem`). With two of
them an entry can carry the number of an inode of the other, since nothing checks
where an inode comes from (section 4). `RamInv` has the shape of the tables, blocks
and copies and `NamesUnique` itself. The central lemmas say what `add_dir_entry`
does to the blocks: nothing, or it fills one free slot, of an old block or of a new
one at the end, with a name that no block lists (`AppendEntry`, `AddFacts`). For
`EntriesResolve` the invariant `Registered` adds that the number of every copy that
a caller holds is in the table, committed or not.

**DirCacheProofs**, from `DirCacheAssumption` (a cache of at least one entry, any
paths, file systems and bounds, `NoFs` and `NoInode` different from file systems and
inodes) and `FsAssumption` (that of `RamFs`). With these theorems every property of the
`dircache` run but `GetFindsFile` is proved.

*Eviction*: `MountsAreNotEvicted` and `LeastRecentGoes`, that is `MountsStayCached` and
`EvictsLeastRecent`, and `OutgrownOnlyByMounts`, that is `CacheBounded`. One lookup inserts
an entry for each component, and each insertion may evict. `InsertFacts` says what one
insertion does, and `LeastGoneOn` that this composes: an entry inserted early in a walk
may be evicted later in it, but it carries the time of now, so nothing that stays was
used before what went. `WalkFacts` carries that over the walk by `LeastNat`. Of the paths
the proof uses only that they have a length. `CacheInv` adds that access times are not in
the future and that the cache and the mount table are finite.

*Soundness*: `CacheStaysSound`, that is `EntriesSound`. It speaks of cached DEntries, but
a caller or the mount table may bring back one that was evicted long ago (`mount_dest`),
so `SoundInv` says it of all DEntries in use: each has a file system, its inode is a
copy of one with the `Arc` of that file system, and its number is in the table
(`InodeOf`). What makes it inductive is that tables only grow, with the inode of number n
at place n (`TableOK`), so that a number once in a table stays in it whatever is
deleted from the cache. The inode being created (`Dst`) is included, because
`write_inode` puts it in a table and `create` lists its number. Inside a lookup the
same holds of the DEntry the walk has come to (`SoundWalk`), which an insertion may
already have evicted. `BlocksOK` adds the shape of the directories, which `TypeOK`
asks for.

## 6. What is only model-checked

Everything of `Paths`, and `GetFindsFile` of `DirCache`: they rest on what the recursive
functions over texts compute (`next`, `next_back`, `trim_left`, `trim_right`, `ancestors`,
`Words`) for every text. The proof system's induction theorems cannot be used for that,
and the argument by least counterexample, which the proofs use for the echo of
`Console`, the walk of `DirCache` and the loop of `FreeList`, has to be made for each of
these functions and for how they agree. That has not been done.

The liveness properties of `Console` (`EveryByteEchoed`, `BootCompletes`,
`PanicReported`) are outside what the proof system handles; of the first one the
safety half is proved.

## 7. What could come next

1. Facts about the component iterator of `PathStrings`: first that `trim_right` and
   `next_back` cut a text only at separators, which is what `TypeOK` of `Paths` needs,
   then `EachPartOnce`.
2. With these, `GetFindsFile` of `DirCache`.

## 8. Not modelled, and why

* `fs/ext2/*`: declarations only, not compiled. `mp.rs`: empty.
* `acpi.rs`: addresses for the acpi crate; its failure is a panic in `Console`.
* The `unwrap()` in the arguments of `kmain`'s second line (`main.rs:57`). `kprintln!`
  evaluates its arguments with COM1 locked (`serial.rs:30`), so the panic would hang;
  but `BOOT_CONFIG` asks for the mapping that is unwrapped.
* Calls on a RAM file system before `init_super`, where `root()` panics
  (`ramfs/mod.rs:67`), and a second `init_super`, which would move the root from inode 0:
  `mount_nodev` initialises a file system once, before anybody else has it.
* Faults inside a handler and second faults: the panic of the first one is what
  a property could speak of.
* Register encodings of the PIT, the APICs and the UART: no state that a property
  here tells apart. `calc_cpu_freq` has no caller and waits as `start_timer` does.
* The output side of the UART: `write_byte` does not look at the line status, so
  bytes written to a full transmitter are lost; the model says nothing of them.
* Permissions, owners, times and sizes of inodes, and file contents.
* Conversions between `Path`, `PathBuf` and strings, which keep the text, and the
  capacity methods of `PathBuf`.
* `src/main.rs` and `build.rs`: run on the host.
