------------------------------ MODULE DirCache -------------------------------
(***************************************************************************)
(* The directory cache and the mount table over the RAM file system:       *)
(* kernel/src/fs/dentry.rs, fs/mod.rs and fs/mount.rs, with the state of   *)
(* module RamFs below them.                                                *)
(*                                                                         *)
(* A DEntry is an Arc: the cache, the mount table and the callers share    *)
(* it, and it is freed with its last clone.  Its vfs::Inode is the copy    *)
(* that RamFs keeps at the place with its identifier; place Dst is the     *)
(* inode a caller is creating a file with.  The keys of the cache are the  *)
(* texts that PathBuf::push makes.  Calls run one after the other.         *)
(***************************************************************************)
EXTENDS PathStrings, FiniteSets, FiniteSetsExt, Functions

CONSTANTS
  FileSystems,      \* ramfs::FileSystem values; all of them have one name
  Populated,        \* bound: those in which callers create files
  FileNames,        \* names that callers give to files
  DirNames,         \* and to directories
  Queries,          \* paths that callers ask for
  CACHE_SIZE,       \* 0x8000 / size_of::<DEntry>()
  EntriesPerBlock, MaxInodes, NoName, NoInode,  \* of RamFs
  LongName, BadName,                            \* of RamFs, not used here
  Keys,             \* the texts that push makes of the paths
  NoFs,             \* no DEntry has this identifier
  MaxAlike,         \* bound: DEntries of one name alive at once
  MaxHeld,          \* bound: DEntries that callers hold
  MaxTicks          \* bound: TICKS

ASSUME DirCacheAssumption ==
  /\ CACHE_SIZE \in Nat \ {0}
  /\ MaxAlike \in Nat /\ MaxHeld \in Nat /\ MaxTicks \in Nat
  /\ NoFs \notin FileSystems
  /\ LET Modes == {"none", "dir", "file", "symlink"}
     IN  NoInode \notin [num : Nat, mode : Modes,
                        private : [num : Nat, mode : Modes, arc : FileSystems \X Nat]]
  /\ FileNames \subseteq Str /\ DirNames \subseteq Str /\ Queries \subseteq Str /\ Keys \subseteq Str

VARIABLES
  inodes, blocks, copy, result,  \* of RamFs; result also of the cache's calls
  entries,   \* DirectoryCache.entries: path -> DEntry and last access
  dentries,  \* the file system of each DEntry
  mounts,    \* Mounts.mounts: file system and DEntry of each mount
  held,      \* the DEntries callers have got from the cache
  ticks      \* TICKS

fsVars == <<inodes, blocks, copy, result>>
vars == <<inodes, blocks, copy, result, entries, dentries, mounts, held, ticks>>

(* A DEntry is known by its name and a number.                             *)
DEntries == Keys \X (1..MaxAlike)
Dst == <<None, 0>>
Places == DEntries \cup {Dst}

R == INSTANCE RamFs WITH Handles <- Places, Names <- FileNames \cup DirNames

ASSUME FsAssumption == R!RamFsAssumption

Alive == R!Alive

Init ==
  /\ R!Init
  /\ entries = <<>>
  /\ dentries = [d \in DEntries |-> NoFs]
  /\ mounts = {} /\ held = {}
  /\ ticks = 0

-----------------------------------------------------------------------------
(* The cache as a function of what it was.                                 *)

(* The paths for which is_mount_path holds.                                *)
MountPaths == {m.dentry[1] : m \in mounts}

(* Mutants: mount paths go too; the entry used last goes.                  *)
evict_entry_any(mps, es) ==
  LET lru == {k \in DOMAIN es : \A j \in DOMAIN es : es[k].last <= es[j].last}
  IN  {Restrict(es, DOMAIN es \ {k}) : k \in lru}

evict_entry_most_recent(mps, es) ==
  LET open == DOMAIN es \ mps
      mru == {k \in open : \A j \in open : es[k].last >= es[j].last}
  IN  IF mru = {} THEN {es} ELSE {Restrict(es, DOMAIN es \ {k}) : k \in mru}

(* The least recently used entry that is no mount path goes; the hash map  *)
(* decides between entries of the same tick.                               *)
evict_entry(mps, es) ==
  LET open == DOMAIN es \ mps
      lru == {k \in open : \A j \in open : es[k].last <= es[j].last}
  IN  IF lru = {} THEN {es} ELSE {Restrict(es, DOMAIN es \ {k}) : k \in lru}

insert_entry(mps, es, d) ==
  {[k \in DOMAIN room \cup {d[1]} |->
      IF k = d[1] THEN [dentry |-> d, last |-> ticks] ELSE room[k]] :
     room \in IF Cardinality(DOMAIN es) >= CACHE_SIZE THEN evict_entry(mps, es) ELSE {es}}

(* The DEntries of a cache, the mount table and the callers.               *)
Used(es, ms, hs) ==
  {es[k].dentry : k \in DOMAIN es} \cup {m.dentry : m \in ms} \cup hs

(* DEntry::new takes an identifier that is not in use; {}: beyond the      *)
(* bounds Keys and MaxAlike.                                               *)
New(path, used) ==
  {d \in DEntries \ used :
     d[1] = path /\ \A e \in DEntries \ used : e[1] = path => d[2] <= e[2]}

(* A walk of fill_path: where it is, the components that are left, and the *)
(* cache as it has made it.                                                *)

(* Mutant: a DEntry that is cached already is taken as it is.              *)
fill_component_cached(w) ==
  LET comp == next[w.comps].comp
      comps == next[w.comps].it
      inode == w.copy[w.at]
      fs == w.dentries[w.at]
      found == {e \in R!Listing(inode.private.arc) : e.name = comp}
      path == push(w.parent, comp)
      new == New(path, Used(w.entries, mounts, held) \cup {w.at})
      d == CHOOSE x \in new : TRUE
  IN  IF w.result # "Ok" \/ comp = None THEN {w}
      ELSE IF path \in DOMAIN w.entries
      THEN {[w EXCEPT !.at = w.entries[path].dentry, !.parent = path, !.comps = comps]}
      ELSE IF inode.private.mode # "dir" \/ found = {} THEN {[w EXCEPT !.result = "Err"]}
      ELSE IF new = {} THEN {}
      ELSE UNION {{[w EXCEPT !.entries = es,
                             !.copy[d] = R!From(inodes[fs][e.inode]),
                             !.dentries[d] = fs,
                             !.at = d,
                             !.parent = path,
                             !.comps = comps] :
                     es \in insert_entry(MountPaths, w.entries, d)} :
                  e \in found}

(* One component: the entry of that name is listed, its inode fetched and  *)
(* a new DEntry of it cached.                                              *)
fill_component(w) ==
  LET comp == next[w.comps].comp
      comps == next[w.comps].it
      inode == w.copy[w.at]
      fs == w.dentries[w.at]
      found == {e \in R!Listing(inode.private.arc) : e.name = comp}
      path == push(w.parent, comp)
      new == New(path, Used(w.entries, mounts, held) \cup {w.at})
      d == CHOOSE x \in new : TRUE
  IN  IF w.result # "Ok" \/ comp = None THEN {w}
      ELSE IF \/ inode.mode # "dir" /\ next[comps].comp # None
              \/ inode.private.mode # "dir"
              \/ found = {}
              \/ \E e \in found : e.inode \notin DOMAIN inodes[fs]
      THEN {[w EXCEPT !.result = "Err"]}
      ELSE IF new = {} THEN {}
      ELSE UNION {{[w EXCEPT !.entries = es,
                             !.copy[d] = R!From(inodes[fs][e.inode]),
                             !.dentries[d] = fs,
                             !.at = d,
                             !.parent = path,
                             !.comps = comps] :
                     es \in insert_entry(MountPaths, w.entries, d)} :
                  e \in found}

(* From the DEntry of the nearest cached ancestor, whose access time is    *)
(* updated.  A path of n bytes has at most n components.                   *)
fill_path(near, rest, n) ==
  LET walk[i \in 0..n] ==
        IF i = 0
        THEN {[entries |-> [entries EXCEPT ![near].last = ticks],
               copy |-> copy, dentries |-> dentries, comps |-> Components(rest),
               at |-> entries[near].dentry, parent |-> near, result |-> "Ok"]}
        ELSE UNION {fill_component(w) : w \in walk[i - 1]}
  IN  walk[n]

(* The first of the ancestors, the path itself being one, that is cached;  *)
(* {}: "No disk mounted at root".                                          *)
Nearest(path) ==
  LET up == ancestors[path]
  IN  {up[i] : i \in {i \in DOMAIN up :
                       /\ up[i] \in DOMAIN entries
                       /\ \A j \in 1..(i - 1) : up[j] \notin DOMAIN entries}}

_get(path) ==
  UNION {fill_path(near, CHOOSE rest \in strip_prefix(path, near) : TRUE, Len(path)) :
           near \in Nearest(path)}

-----------------------------------------------------------------------------
(* The calls.                                                              *)

(* The new cache, mount table and callers; DEntries nobody uses are freed. *)
Store(es, ms, hs, ds, inode) ==
  LET used == Used(es, ms, hs)
  IN  /\ entries' = es /\ mounts' = ms /\ held' = hs
      /\ dentries' = [d \in DEntries |-> IF d \in used THEN ds[d] ELSE NoFs]
      /\ copy' = [h \in Places |-> IF h \in used \cup {Dst} THEN inode[h] ELSE NoInode]
      /\ UNCHANGED <<blocks, ticks>>

Retain(keep) ==
  /\ Store(Restrict(entries, keep), mounts, held, dentries, copy)
  /\ result' = "Ok"
  /\ UNCHANGED inodes

(* mount_fs without dest: the root of the new file system becomes "/".     *)
mount_root(f) ==
  /\ ~R!mounted(f)
  /\ inodes' = [inodes EXCEPT ![f] = R!Insert(f, "dir")]
  /\ \E d \in New(RootDir, Used(entries, mounts, held)) :
       \E es \in insert_entry(MountPaths \cup {RootDir}, entries, d) :
         Store(es, mounts \cup {[fs |-> f, dentry |-> d]}, held, [dentries EXCEPT ![d] = f],
               [copy EXCEPT ![d] = R!From(inodes'[f][0])])
  /\ result' = "Ok"

(* Mutant: dest gets the root inode of a file system that is not its own.  *)
mount_dest_root(f, dest) ==
  /\ ~R!mounted(f)
  /\ inodes' = [inodes EXCEPT ![f] = R!Insert(f, "dir")]
  /\ \E es \in insert_entry(MountPaths \cup {dest[1]}, entries, dest) :
        Store(es, mounts \cup {[fs |-> f, dentry |-> dest]}, held, dentries,
              [copy EXCEPT ![dest] = R!From(inodes'[f][0])])
  /\ result' = "Ok"

(* mount_fs with dest: what is entered and cached is dest itself.          *)
mount_dest(f, dest) ==
  /\ ~R!mounted(f)
  /\ inodes' = [inodes EXCEPT ![f] = R!Insert(f, "dir")]
  /\ \E es \in insert_entry(MountPaths \cup {dest[1]}, entries, dest) :
        Store(es, mounts \cup {[fs |-> f, dentry |-> dest]}, held, dentries, copy)
  /\ result' = "Ok"

get(path) ==
  /\ Cardinality(held) < MaxHeld
  /\ \/ /\ Nearest(path) = {}
        /\ result' = "panics"
        /\ UNCHANGED <<inodes, blocks, copy, entries, dentries, mounts, held, ticks>>
     \/ \E w \in _get(path) :
           /\ Store(w.entries, mounts, IF w.result = "Ok" THEN held \cup {w.at} ELSE held,
                    w.dentries, w.copy)
           /\ result' = w.result
           /\ UNCHANGED inodes

(* A caller drops its clone.                                               *)
Drop(d) ==
  /\ Store(entries, mounts, held \ {d}, dentries, copy)
  /\ UNCHANGED <<inodes, result>>

(* The DEntry is updated for all who share it, or its path forgotten.      *)
reload(d) ==
  LET fs == dentries[d]
      num == copy[d].num
  IN  IF num \in DOMAIN inodes[fs]
      THEN /\ Store(entries, mounts, held, dentries, [copy EXCEPT ![d] = R!From(inodes[fs][num])])
           /\ result' = "Ok"
           /\ UNCHANGED inodes
      ELSE Retain(DOMAIN entries \ {d[1]})

delete(path) == Retain(DOMAIN entries \ {path})

(* File systems are compared by name, and all of them are "ramfs".         *)
delete_inode(num) == Retain({k \in DOMAIN entries : copy[entries[k].dentry].num # num})

unmount == Retain({})

(* The callers' use of the file systems, as in kernel_main's example: a    *)
(* new inode, its entry in the directory of a DEntry, its way to the table. *)
Elsewhere == UNCHANGED <<entries, dentries, mounts, held, ticks>>

create_inode(f) == f \in Populated /\ R!create_inode(f, Dst) /\ Elsewhere

(* A caller enters a new inode in a directory of the same file system.     *)
Fresh(p) ==
  /\ copy[Dst] # NoInode /\ copy[Dst].mode = "none"
  /\ copy[Dst].private.arc[1] = dentries[p]

create(p, name) == Fresh(p) /\ R!create(Dst, p, name) /\ Elsewhere

mkdir(p, name) == Fresh(p) /\ R!mkdir(Dst, p, name) /\ Elsewhere

write_inode(h) ==
  copy[h] # NoInode /\ R!write_inode(copy[h].private.arc[1], h) /\ Elsewhere

Tick ==
  /\ ticks < MaxTicks
  /\ ticks' = ticks + 1
  /\ UNCHANGED <<fsVars, entries, dentries, mounts, held>>

(* panic.rs: a panicked kernel halts.                                      *)
Halted == ~Alive /\ UNCHANGED vars

Next ==
  \/ /\ Alive
     /\ \/ \E f \in FileSystems :
              mount_root(f) \/ create_inode(f) \/ \E d \in held : mount_dest(f, d)
        \/ \E path \in Queries : get(path)
        \/ \E d \in held :
              \/ Drop(d)
              \/ reload(d)
              \/ \E name \in FileNames : create(d, name)
              \/ \E name \in DirNames : mkdir(d, name)
        \/ \E h \in held \cup {Dst} : write_inode(h)
        \/ \E path \in DOMAIN entries : delete(path)
        \/ \E num \in 0..(MaxInodes - 1) : delete_inode(num)
        \/ unmount
        \/ Tick
  \/ Halted

Spec == Init /\ [][Next]_vars

-----------------------------------------------------------------------------
(* Reference: the file that a path leads to.                               *)

(* From inode n of file system f along names: at most one inode number.    *)
Lookup(f, n, names) ==
  LET reached[i \in 0..Len(names)] ==
        IF i = 0 THEN {n}
        ELSE UNION {{e.inode : e \in {e \in R!Listing(<<f, m>>) :
                                         inodes[f][m].mode = "dir" /\ e.name = names[i]}} :
                      m \in reached[i - 1]}
  IN  reached[Len(names)]

(* The root file system: the one "/" is cached for.                        *)
RootFs == dentries[entries[RootDir].dentry]

-----------------------------------------------------------------------------
(* Properties.                                                             *)

(* Every DEntry that the cache, the mount table or a caller has is alive,  *)
(* with an inode and a file system, and no other one is.                   *)
TypeOK ==
  /\ R!TypeOK
  /\ \A k \in DOMAIN entries : entries[k].dentry \in DEntries /\ entries[k].last \in 0..ticks
  /\ held \subseteq DEntries
  /\ mounts \subseteq [fs : FileSystems, dentry : DEntries]
  /\ \A d \in DEntries :
        IF d \in Used(entries, mounts, held)
        THEN dentries[d] \in FileSystems /\ copy[d] # NoInode
        ELSE dentries[d] = NoFs /\ copy[d] = NoInode

(* Whatever the cache holds, has evicted or has not been told of, get      *)
(* gives the file that the names of the path lead to from the root, with   *)
(* the inode as it was last written, and fails when there is none.         *)
(* (Of paths that start with one separator.)                               *)
GetFindsFile ==
  RootDir \in DOMAIN entries =>
    \A path \in {q \in Queries : Len(q) < 2 \/ SubSeq(q, 1, 2) # <<"/", "/">>} :
      LET file == Lookup(RootFs, 0, Tail(Parts(path)))
      IN  /\ _get(path) # {}
          /\ \A w \in _get(path) :
               IF file = {} THEN w.result = "Err"
               ELSE /\ w.result = "Ok"
                    /\ {w.copy[w.at]} = {R!From(inodes[RootFs][n]) : n \in file}

(* The cache grows past its size only for mount points, which are never    *)
(* evicted, and then by one entry.                                         *)
CacheBounded ==
  Cardinality(DOMAIN entries) <= Max({CACHE_SIZE, Cardinality(MountPaths) + 1})

(* A DEntry is cached under its own name, its inode is one of its own file *)
(* system, and there are no more of them than there is room for.           *)
EntriesSound ==
  /\ TypeOK
  /\ CacheBounded
  /\ \A k \in DOMAIN entries :
       LET d == entries[k].dentry
       IN  /\ d[1] = k
           /\ copy[d].private.arc[1] = dentries[d]
           /\ copy[d].num \in DOMAIN inodes[dentries[d]]

(* A step that puts a DEntry into the cache: a lookup or a mount.          *)
Inserts ==
  \/ mounts' # mounts
  \/ \E k \in DOMAIN entries' :
        k \notin DOMAIN entries \/ entries'[k].dentry # entries[k].dentry

(* A lookup or a mount evicts no mount point, so that "/" stays cached.    *)
MountsStayCached ==
  [][Inserts => DOMAIN entries \cap MountPaths \subseteq DOMAIN entries']_vars

(* What a lookup or a mount evicts was used no later than what it leaves   *)
(* ("Evicts the least recently used entry if the cache is full").          *)
EvictsLeastRecent ==
  [][Inserts => \A k \in DOMAIN entries \ DOMAIN entries' :
                  \A j \in (DOMAIN entries \cap DOMAIN entries') \ MountPaths' :
                    entries[k].last <= entries'[j].last]_vars

-----------------------------------------------------------------------------
(* What the comments say, and the code does not do.                        *)

(* "a separator is needed if the rightmost byte is not a separator": the   *)
(* parts of a cached name are those of the path it was cached for, so that *)
(* get gives the file that the path names, however many separators it      *)
(* starts with.                                                            *)
GetFindsNamedFile ==
  RootDir \in DOMAIN entries =>
    \A path \in Queries : \A w \in _get(path) :
      w.result = "Ok" => {w.copy[w.at].num} = Lookup(RootFs, 0, Tail(Parts(path)))
=============================================================================
