--------------------------- MODULE DirCacheProofs ---------------------------
(***************************************************************************)
(* The directory cache (module DirCache), for any paths, any size of the   *)
(* cache and any number of file systems and mounts.                        *)
(*                                                                         *)
(* Eviction: mount points stay, what goes was not used later than what     *)
(* stays, and the cache outgrows its size only for mount points.           *)
(* Soundness: a cached DEntry has its own name and an inode that its own   *)
(* file system has in the table, and DEntries are alive while in use.      *)
(*                                                                         *)
(* Both arguments are about one insertion (InsertFacts) and then about the *)
(* insertions of a lookup, one for each component (FillComponentFacts,     *)
(* WalkFacts).  Of paths they use only that they are finite.               *)
(***************************************************************************)
EXTENDS DirCache, FiniteSetTheorems, WellFoundedInduction, TLAPS

(* A non-empty set of naturals has a least element.                        *)
LEMMA LeastNat ==
  ASSUME NEW S \in SUBSET Nat, S # {}
  PROVE  \E n \in S : \A m \in S : n <= m
<1> DEFINE less == OpToRel(<, Nat)
<1>1. \E x \in S : \A y \in S : ~ (<<y, x>> \in less)
  BY NatLessThanWellFounded, WFMin, Zenon
<1>2. \A x, y \in Nat : x < y => <<x, y>> \in less
  BY DEF OpToRel
<1>3. \E x \in S : \A y \in S : ~ (y < x)
  BY <1>1, <1>2, Zenon
<1> QED
  BY <1>3

(* The entries of a cache carry times that have been.                      *)
CacheOK(es) ==
  /\ IsFiniteSet(DOMAIN es)
  /\ \A k \in DOMAIN es : /\ es[k] = [dentry |-> es[k].dentry, last |-> es[k].last]
                          /\ es[k].last \in Nat /\ es[k].last <= ticks

(* A cache of at most CACHE_SIZE entries, or of mount points mps and one.  *)
Bounded(es, mps) ==
  \/ Cardinality(DOMAIN es) <= CACHE_SIZE
  \/ Cardinality(DOMAIN es) <= Cardinality(mps) + 1

(* What evictions from old leave, given that they spare mps.               *)
LeastGone(old, es, mps) ==
  /\ DOMAIN old \cap mps \subseteq DOMAIN es
  /\ \A k \in DOMAIN old \cap DOMAIN es : old[k].last <= es[k].last
  /\ \A k \in DOMAIN old \ DOMAIN es : \A j \in DOMAIN es \ mps :
       old[k].last <= es[j].last

(* c is the vfs::Inode of an inode in the table of file system f.          *)
InodeOf(c, f, tabs) ==
  /\ c.private \in R!Private /\ c = R!From(c.private)
  /\ c.private.arc = <<f, c.private.num>>
  /\ c.private.num \in DOMAIN tabs[f]

(* DEntry d has a file system and an inode of it.                          *)
Has(d, ds, inode, tabs) == ds[d] \in FileSystems /\ InodeOf(inode[d], ds[d], tabs)

(* DEntries are cached under their names.                                  *)
NamedBy(es) == \A k \in DOMAIN es : es[k].dentry \in DEntries /\ es[k].dentry[1] = k

(* The table of file system f holds the inodes below some number, each     *)
(* with the Arc that was made for it.                                      *)
TableOK(f, tabs) ==
  \E c \in 0..MaxInodes :
    /\ DOMAIN tabs[f] = 0..(c - 1)
    /\ \A n \in 0..(c - 1) :
         tabs[f][n] \in R!Private /\ tabs[f][n].num = n /\ tabs[f][n].arc = <<f, n>>

TablesOK(tabs) == DOMAIN tabs = FileSystems /\ \A f \in FileSystems : TableOK(f, tabs)

(* The DEntries in use are sound, and no other one is alive.               *)
SoundInv ==
  /\ TablesOK(inodes)
  /\ NamedBy(entries)
  /\ held \subseteq DEntries
  /\ mounts \subseteq [fs : FileSystems, dentry : DEntries]
  /\ DOMAIN dentries = DEntries /\ DOMAIN copy = Places
  /\ copy[Dst] # NoInode => \E f \in FileSystems : InodeOf(copy[Dst], f, inodes)
  /\ \A d \in DEntries : IF d \in Used(entries, mounts, held) THEN Has(d, dentries, copy, inodes)
                         ELSE dentries[d] = NoFs /\ copy[d] = NoInode

CacheInv ==
  /\ ticks \in Nat
  /\ IsFiniteSet(mounts)
  /\ CacheOK(entries)
  /\ Bounded(entries, MountPaths)

(* evict_entry takes out nothing, if all entries are mount points, or the  *)
(* least recently used one of the others.                                  *)
LEMMA EvictFacts ==
  ASSUME NEW es, NEW mps, NEW room, ticks \in Nat, CacheOK(es),
         room \in evict_entry(mps, es)
  PROVE  \/ DOMAIN es \subseteq mps /\ room = es
         \/ \E k \in DOMAIN es \ mps :
              /\ DOMAIN room = DOMAIN es \ {k}
              /\ \A j \in DOMAIN room : room[j] = es[j]
              /\ \A j \in DOMAIN es \ mps : es[k].last <= es[j].last
<1> DEFINE open == DOMAIN es \ mps
           lru == {k \in open : \A j \in open : es[k].last <= es[j].last}
<1>1. room \in IF lru = {} THEN {es} ELSE {Restrict(es, DOMAIN es \ {k}) : k \in lru}
  BY DEF evict_entry
<1>2. open # {} => lru # {}
  <2> SUFFICES ASSUME open # {} PROVE lru # {}
    OBVIOUS
  <2> DEFINE times == {es[k].last : k \in open}
  <2>1. times \in SUBSET Nat /\ times # {}
    BY DEF CacheOK
  <2>2. PICK t \in times : \A u \in times : t <= u
    <3> HIDE DEF times
    <3> QED
      BY <2>1, LeastNat, Zenon
  <2>3. PICK k \in open : t = es[k].last
    BY <2>2
  <2>4. k \in lru
    BY <2>2, <2>3
  <2> QED
    BY <2>4, Zenon
<1>3. CASE lru = {}
  <2>1. room = es /\ open = {}
    BY <1>1, <1>2, <1>3, Zenon
  <2> QED
    BY <2>1
<1>4. CASE lru # {}
  <2> HIDE DEF lru
  <2>1. PICK k \in lru : room = Restrict(es, DOMAIN es \ {k})
    BY <1>1, <1>4, Zenon
  <2>2. k \in open /\ \A j \in open : es[k].last <= es[j].last
    BY <2>1 DEF lru
  <2>3. DOMAIN room = DOMAIN es \ {k} /\ \A j \in DOMAIN room : room[j] = es[j]
    BY <2>1 DEF Restrict
  <2> QED
    BY <2>2, <2>3, Zenon
<1> QED
  BY <1>3, <1>4, Zenon

(* One insertion: the entry is there with the time of now, the others are  *)
(* as they were, and what had to go was no mount point and not used later. *)
LEMMA InsertFacts ==
  ASSUME NEW es, NEW mps, NEW d, NEW new, ticks \in Nat, CacheOK(es), IsFiniteSet(mps),
         new \in insert_entry(mps, es, d)
  PROVE  /\ CacheOK(new)
         /\ Bounded(es, mps) => Bounded(new, mps)
         /\ d[1] \in DOMAIN new /\ new[d[1]].last = ticks /\ new[d[1]].dentry = d
         /\ \A k \in DOMAIN new : k # d[1] => k \in DOMAIN es /\ new[k] = es[k]
         /\ LeastGone(es, new, mps)
<1>1. PICK room :
        /\ room \in IF Cardinality(DOMAIN es) >= CACHE_SIZE THEN evict_entry(mps, es)
                    ELSE {es}
        /\ new = [k \in DOMAIN room \cup {d[1]} |->
                    IF k = d[1] THEN [dentry |-> d, last |-> ticks] ELSE room[k]]
  BY Zenon DEF insert_entry
<1>2. /\ DOMAIN new = DOMAIN room \cup {d[1]}
      /\ new[d[1]] = [dentry |-> d, last |-> ticks]
      /\ \A k \in DOMAIN new : k # d[1] => k \in DOMAIN room /\ new[k] = room[k]
  BY <1>1, Zenon
<1> DEFINE full == Cardinality(DOMAIN es) >= CACHE_SIZE
           Gone(k) == /\ full /\ k \in DOMAIN es \ mps
                      /\ DOMAIN room = DOMAIN es \ {k}
                      /\ \A j \in DOMAIN room : room[j] = es[j]
                      /\ \A j \in DOMAIN es \ mps : es[k].last <= es[j].last
<1>3. \/ room = es /\ (full => DOMAIN es \subseteq mps)
      \/ \E k : Gone(k)
  <2>1. CASE full
    <3>1. room \in evict_entry(mps, es)
      BY <1>1, <2>1, Zenon
    <3>2. \/ DOMAIN es \subseteq mps /\ room = es
          \/ \E k \in DOMAIN es \ mps :
               /\ DOMAIN room = DOMAIN es \ {k}
               /\ \A j \in DOMAIN room : room[j] = es[j]
               /\ \A j \in DOMAIN es \ mps : es[k].last <= es[j].last
      BY <3>1, EvictFacts
    <3> QED
      BY <2>1, <3>2, Zenon
  <2>2. CASE ~ full
    BY <1>1, <2>2, Zenon
  <2> QED
    BY <2>1, <2>2, Zenon
<1>4. DOMAIN room \subseteq DOMAIN es /\ \A j \in DOMAIN room : room[j] = es[j]
  BY <1>3, Zenon
<1>5. \A k \in DOMAIN new : k # d[1] => k \in DOMAIN es /\ new[k] = es[k]
  BY <1>2, <1>4, Zenon
<1>6. new[d[1]].last = ticks /\ d[1] \in DOMAIN new /\ new[d[1]].dentry = d
  BY <1>2
<1>7. CacheOK(new)
  <2>1. IsFiniteSet(DOMAIN new)
    <3>1. IsFiniteSet(DOMAIN room)
      BY <1>4, FS_Subset, Zenon DEF CacheOK
    <3> QED
      BY <1>2, <3>1, FS_AddElement, Zenon
  <2>2. ASSUME NEW k \in DOMAIN new
        PROVE  /\ new[k] = [dentry |-> new[k].dentry, last |-> new[k].last]
               /\ new[k].last \in Nat /\ new[k].last <= ticks
    <3>1. CASE k = d[1]
      BY <1>2, <3>1
    <3>2. CASE k # d[1]
      BY <1>5, <3>2, Zenon DEF CacheOK
    <3> QED
      BY <3>1, <3>2, Zenon
  <2> QED
    BY <2>1, <2>2, Zenon DEF CacheOK
<1>8. Bounded(es, mps) => Bounded(new, mps)
  <2>0. /\ IsFiniteSet(DOMAIN es) /\ Cardinality(DOMAIN es) \in Nat
        /\ Cardinality(mps) \in Nat /\ CACHE_SIZE \in Nat
    BY FS_CardinalityType, DirCacheAssumption, Zenon DEF CacheOK
  <2>1. CASE room = es /\ (full => DOMAIN es \subseteq mps)
    <3>1. \/ Cardinality(DOMAIN new) = Cardinality(DOMAIN es) + 1
          \/ Cardinality(DOMAIN new) = Cardinality(DOMAIN es)
      <4>1. DOMAIN new = DOMAIN es \cup {d[1]}
        BY <1>2, <2>1, Zenon
      <4> QED
        BY <2>0, <4>1, FS_AddElement, Zenon
    <3>2. full => Cardinality(DOMAIN es) <= Cardinality(mps)
      BY <2>1, FS_Subset, Zenon
    <3> QED
      BY <2>0, <3>1, <3>2 DEF Bounded
  <2>2. ASSUME NEW k, Gone(k)
        PROVE  Bounded(es, mps) => Bounded(new, mps)
    <3>1. Cardinality(DOMAIN room) = Cardinality(DOMAIN es) - 1 /\ IsFiniteSet(DOMAIN room)
      <4>1. DOMAIN room = DOMAIN es \ {k} /\ k \in DOMAIN es
        BY <2>2, Zenon
      <4>2. /\ IsFiniteSet(DOMAIN es \ {k})
            /\ Cardinality(DOMAIN es \ {k}) = Cardinality(DOMAIN es) - 1
        BY <2>0, <4>1, FS_RemoveElement, Zenon
      <4> QED
        BY <4>1, <4>2, Zenon
    <3>2. \/ Cardinality(DOMAIN new) = Cardinality(DOMAIN room) + 1
          \/ Cardinality(DOMAIN new) = Cardinality(DOMAIN room)
      BY <1>2, <3>1, FS_AddElement, Zenon
    <3> QED
      BY <2>0, <3>1, <3>2 DEF Bounded
  <2> QED
    BY <1>3, <2>1, <2>2, Zenon
<1>9. LeastGone(es, new, mps)
  <2>1. DOMAIN es \cap mps \subseteq DOMAIN new
    BY <1>2, <1>3, Zenon
  <2>2. ASSUME NEW k \in DOMAIN es \cap DOMAIN new PROVE es[k].last <= new[k].last
    <3>1. es[k].last \in Nat /\ es[k].last <= ticks
      BY Zenon DEF CacheOK
    <3> QED
      BY <1>5, <1>6, <3>1
  <2>3. ASSUME NEW k \in DOMAIN es \ DOMAIN new, NEW j \in DOMAIN new \ mps
        PROVE  es[k].last <= new[j].last
    <3>1. es[k].last <= ticks
      BY Zenon DEF CacheOK
    <3>2. CASE j = d[1]
      BY <1>6, <3>1, <3>2
    <3>3. CASE j # d[1]
      <4>1. j \in DOMAIN es \ mps /\ new[j] = es[j]
        BY <1>5, <3>3, Zenon
      <4>2. Gone(k)
        BY <1>2, <1>3, Zenon
      <4> QED
        BY <4>1, <4>2, Zenon
    <3> QED
      BY <3>2, <3>3, Zenon
  <2> QED
    BY <2>1, <2>2, <2>3, Zenon DEF LeastGone
<1> QED
  BY <1>5, <1>6, <1>7, <1>8, <1>9, Zenon

(* Insertions one after the other.                                         *)
LEMMA LeastGoneOn ==
  ASSUME NEW old, NEW es, NEW mps, NEW d, NEW new, ticks \in Nat, CacheOK(old),
         CacheOK(es), IsFiniteSet(mps), LeastGone(old, es, mps),
         new \in insert_entry(mps, es, d)
  PROVE  LeastGone(old, new, mps)
<1>1. /\ CacheOK(new) /\ LeastGone(es, new, mps)
      /\ d[1] \in DOMAIN new /\ new[d[1]].last = ticks
      /\ \A k \in DOMAIN new : k # d[1] => k \in DOMAIN es /\ new[k] = es[k]
  BY InsertFacts
<1>2. DOMAIN old \cap mps \subseteq DOMAIN new
  BY <1>1 DEF LeastGone
<1>3. \A k \in DOMAIN old : old[k].last \in Nat /\ old[k].last <= ticks
  BY Zenon DEF CacheOK
<1>4. \A k \in DOMAIN es : es[k].last \in Nat
  BY Zenon DEF CacheOK
<1>5. \A k \in DOMAIN new : new[k].last \in Nat
  BY <1>1, Zenon DEF CacheOK
<1>6. ASSUME NEW k \in DOMAIN old \cap DOMAIN new PROVE old[k].last <= new[k].last
  <2>1. CASE k = d[1]
    BY <1>1, <1>3, <2>1
  <2>2. CASE k # d[1]
    BY <1>1, <2>2, Zenon DEF LeastGone
  <2> QED
    BY <2>1, <2>2, Zenon
<1>7. ASSUME NEW k \in DOMAIN old \ DOMAIN new, NEW j \in DOMAIN new \ mps
      PROVE  old[k].last <= new[j].last
  <2>1. CASE k \in DOMAIN es
    <3>1. old[k].last <= es[k].last /\ es[k].last <= new[j].last
      BY <1>1, <2>1, Zenon DEF LeastGone
    <3> QED
      BY <1>3, <1>4, <1>5, <2>1, <3>1
  <2>2. CASE k \notin DOMAIN es
    <3>1. CASE j = d[1]
      BY <1>1, <1>3, <3>1
    <3>2. CASE j # d[1]
      BY <1>1, <2>2, <3>2, Zenon DEF LeastGone
    <3> QED
      BY <3>1, <3>2, Zenon
  <2> QED
    BY <2>1, <2>2, Zenon
<1> QED
  BY <1>2, <1>6, <1>7, Zenon DEF LeastGone

-----------------------------------------------------------------------------
(* Lookups.                                                                *)

Fields == {"entries", "copy", "dentries", "comps", "at", "parent", "result"}

(* What a walk of a lookup has found so far.                               *)
SoundWalk(w) ==
  /\ NamedBy(w.entries) /\ w.at \in DEntries
  /\ DOMAIN w.dentries = DEntries /\ DOMAIN w.copy = Places
  /\ w.copy[Dst] = copy[Dst]
  /\ \A d \in Used(w.entries, mounts, held) \cup {w.at} : Has(d, w.dentries, w.copy, inodes)

Walked(w) ==
  /\ DOMAIN w = Fields
  /\ CacheOK(w.entries) /\ Bounded(w.entries, MountPaths)
  /\ LeastGone(entries, w.entries, MountPaths)
  /\ SoundInv => SoundWalk(w)

(* The paths of finitely many mounts are finitely many.                    *)
LEMMA MountPathsFinite ==
  ASSUME IsFiniteSet(mounts)
  PROVE  IsFiniteSet(MountPaths)
<1> DEFINE f == [m \in mounts |-> m.dentry[1]]
<1>1. f \in Surjection(mounts, MountPaths)
  BY DEF Surjection, MountPaths
<1> QED
  BY <1>1, FS_Surjection

(* A component of a lookup leaves the walk as it is, ends it, or goes on   *)
(* to a new DEntry of an inode that is in the table.                       *)
LEMMA FillCases ==
  ASSUME NEW w, NEW v, DOMAIN w = Fields, v \in fill_component(w)
  PROVE  \/ v = w
         \/ v = [w EXCEPT !.result = "Err"]
         \/ \E d, es, n :
              /\ d \in DEntries \ (Used(w.entries, mounts, held) \cup {w.at})
              /\ es \in insert_entry(MountPaths, w.entries, d)
              /\ n \in DOMAIN inodes[w.dentries[w.at]]
              /\ DOMAIN v = Fields /\ v.entries = es /\ v.at = d
              /\ v.copy = [w.copy EXCEPT ![d] = R!From(inodes[w.dentries[w.at]][n])]
              /\ v.dentries = [w.dentries EXCEPT ![d] = w.dentries[w.at]]
<1> DEFINE comp == next[w.comps].comp
           comps == next[w.comps].it
           inode == w.copy[w.at]
           fs == w.dentries[w.at]
           found == {e \in R!Listing(inode.private.arc) : e.name = comp}
           path == push(w.parent, comp)
           used == Used(w.entries, mounts, held) \cup {w.at}
           new == New(path, used)
           d == CHOOSE x \in new : TRUE
           to(e, es) == [w EXCEPT !.entries = es,
                                     !.copy[d] = R!From(inodes[fs][e.inode]),
                                     !.dentries[d] = fs,
                                     !.at = d,
                                     !.parent = path,
                                     !.comps = comps]
<1>1. \/ v = w
      \/ v = [w EXCEPT !.result = "Err"]
      \/ /\ new # {}
         /\ v \in UNION {{to(e, es) : es \in insert_entry(MountPaths, w.entries, d)} :
                         e \in found}
         /\ \A e \in found : e.inode \in DOMAIN inodes[fs]
  BY Zenon DEF fill_component
<1>2. new \subseteq DEntries \ used
  BY Zenon DEF New
<1> HIDE DEF found, used, new, comps, path, fs
<1>3. new # {} => d \in DEntries \ used
  BY <1>2, Zenon
<1> HIDE DEF d
<1>4. \A e, es : /\ DOMAIN to(e, es) = Fields
                 /\ to(e, es).entries = es /\ to(e, es).at = d
                 /\ to(e, es).copy = [w.copy EXCEPT ![d] = R!From(inodes[fs][e.inode])]
                 /\ to(e, es).dentries = [w.dentries EXCEPT ![d] = fs]
  BY DEF Fields
<1> HIDE DEF to
<1>5. ASSUME NEW e \in found,
             v \in {to(e, es) : es \in insert_entry(MountPaths, w.entries, d)}
      PROVE  \E es : /\ es \in insert_entry(MountPaths, w.entries, d)
                     /\ DOMAIN v = Fields /\ v.entries = es /\ v.at = d
                     /\ v.copy = [w.copy EXCEPT ![d] = R!From(inodes[fs][e.inode])]
                     /\ v.dentries = [w.dentries EXCEPT ![d] = fs]
  <2>1. PICK es \in insert_entry(MountPaths, w.entries, d) : v = to(e, es)
    BY <1>5, Zenon
  <2> QED
    BY <1>4, <2>1, Zenon
<1> QED
  BY <1>1, <1>3, <1>5, Zenon DEF fs, used

(* The vfs::Inode made of a private inode.                                 *)
LEMMA FromFacts ==
  ASSUME NEW p \in R!Private
  PROVE  /\ R!From(p).private = p /\ R!From(p).num = p.num /\ R!From(p).mode = p.mode
         /\ R!From(p) # NoInode
<1>1. /\ R!From(p).private = p /\ R!From(p).num = p.num /\ R!From(p).mode = p.mode
  BY DEF R!From
<1>2. R!From(p) \in [num : Nat, mode : R!Modes,
                    private : [num : Nat, mode : R!Modes, arc : FileSystems \X Nat]]
  <2>1. MaxInodes \in Nat /\ 0..(MaxInodes - 1) \subseteq Nat
    BY FsAssumption DEF R!RamFsAssumption
  <2>2. p.num \in 0..(MaxInodes - 1) /\ p.mode \in R!Modes /\ p.arc \in R!Arcs
    BY DEF R!Private
  <2>3. p.num \in Nat /\ p.arc \in FileSystems \X Nat
    BY <2>1, <2>2 DEF R!Arcs
  <2>4. p = [num |-> p.num, mode |-> p.mode, arc |-> p.arc]
    BY DEF R!Private
  <2> QED
    BY <2>2, <2>3, <2>4 DEF R!From
<1> QED
  BY <1>1, <1>2, DirCacheAssumption, Zenon DEF DirCacheAssumption, R!Modes

(* The DEntries in use have identifiers, and Dst is none of them.          *)
LEMMA UsedFacts ==
  ASSUME NEW es, NamedBy(es), NEW ms, ms \subseteq [fs : FileSystems, dentry : DEntries],
         NEW hs, hs \subseteq DEntries
  PROVE  Used(es, ms, hs) \subseteq DEntries /\ Dst \notin DEntries
<1>1. Dst \notin DEntries
  BY DEF Dst, DEntries
<1>2. \A m \in ms : m.dentry \in DEntries
  OBVIOUS
<1> QED
  BY <1>1, <1>2, Zenon DEF Used, NamedBy

(* What get_inode gives is an inode of the file system.                    *)
LEMMA GetInode ==
  ASSUME NEW tabs, NEW f \in FileSystems, TableOK(f, tabs), NEW n \in DOMAIN tabs[f]
  PROVE  InodeOf(R!From(tabs[f][n]), f, tabs)
<1>1. tabs[f][n] \in R!Private /\ tabs[f][n].num = n /\ tabs[f][n].arc = <<f, n>>
  BY Zenon DEF TableOK
<1> QED
  BY <1>1, FromFacts, Zenon DEF InodeOf

(* One component of a lookup, whatever it is.                              *)
LEMMA FillComponentFacts ==
  ASSUME CacheInv, NEW w, NEW v, Walked(w), v \in fill_component(w)
  PROVE  Walked(v)
<1> DEFINE fs == w.dentries[w.at]
           Goes(d, es, n) ==
              /\ d \in DEntries \ (Used(w.entries, mounts, held) \cup {w.at})
              /\ es \in insert_entry(MountPaths, w.entries, d)
              /\ n \in DOMAIN inodes[fs]
              /\ DOMAIN v = Fields /\ v.entries = es /\ v.at = d
              /\ v.copy = [w.copy EXCEPT ![d] = R!From(inodes[fs][n])]
              /\ v.dentries = [w.dentries EXCEPT ![d] = fs]
<1>1. \/ v = w
      \/ v = [w EXCEPT !.result = "Err"]
      \/ \E d, es, n : Goes(d, es, n)
  BY FillCases, Zenon DEF Walked
<1>2. CASE v = w
  BY <1>2, Zenon
<1>3. CASE v = [w EXCEPT !.result = "Err"]
  <2>1. /\ DOMAIN v = Fields /\ v.entries = w.entries /\ v.at = w.at
        /\ v.copy = w.copy /\ v.dentries = w.dentries
    BY <1>3 DEF Walked, Fields
  <2> QED
    BY <2>1, Zenon DEF Walked, SoundWalk
<1>4. ASSUME NEW d, NEW es, NEW n, Goes(d, es, n)
      PROVE  Walked(v)
  <2>1. DOMAIN v = Fields /\ v.entries = es /\ es \in insert_entry(MountPaths, w.entries, d)
    BY <1>4, Zenon
  <2>2. ticks \in Nat /\ IsFiniteSet(MountPaths) /\ CacheOK(entries)
    BY MountPathsFinite, Zenon DEF CacheInv
  <2>3. /\ CacheOK(es) /\ Bounded(es, MountPaths)
        /\ d[1] \in DOMAIN es /\ es[d[1]].dentry = d
        /\ \A k \in DOMAIN es : k # d[1] => k \in DOMAIN w.entries /\ es[k] = w.entries[k]
    BY <2>1, <2>2, InsertFacts DEF Walked
  <2>4. LeastGone(entries, es, MountPaths)
    BY <2>1, <2>2, LeastGoneOn DEF Walked
  <2>5. ASSUME SoundInv PROVE SoundWalk(v)
    <3> DEFINE old == Used(w.entries, mounts, held) \cup {w.at}
               new == Used(es, mounts, held) \cup {d}
    <3>1. SoundWalk(w)
      BY <2>5, Zenon DEF Walked
    <3>2. d \in DEntries /\ d \notin old
      BY <1>4, Zenon
    <3>3. NamedBy(es)
      BY <2>3, <3>1, <3>2, ZenonT(30) DEF SoundWalk, NamedBy
    <3>4. new \subseteq old \cup {d}
      BY <2>3, Zenon DEF Used
    <3>5. old \subseteq DEntries /\ Dst \notin DEntries
      BY <2>5, <3>1, UsedFacts, Zenon DEF SoundWalk, SoundInv
    <3>6. fs \in FileSystems /\ InodeOf(R!From(inodes[fs][n]), fs, inodes)
      <4>1. fs \in FileSystems
        BY <3>1, Zenon DEF SoundWalk, Has
      <4>2. n \in DOMAIN inodes[fs] /\ TableOK(fs, inodes)
        BY <1>4, <2>5, <4>1, Zenon DEF SoundInv, TablesOK
      <4> QED
        BY <4>1, <4>2, GetInode, Zenon
    <3>7. /\ DOMAIN w.copy = Places /\ DOMAIN w.dentries = DEntries
          /\ DEntries \subseteq Places /\ Dst \in Places
      BY <3>1 DEF SoundWalk, Places
    <3> HIDE DEF fs
    <3>8. /\ DOMAIN v.copy = Places /\ DOMAIN v.dentries = DEntries
          /\ v.copy[d] = R!From(inodes[fs][n]) /\ v.dentries[d] = fs
          /\ \A x \in Places : x # d => v.copy[x] = w.copy[x]
          /\ \A x \in DEntries : x # d => v.dentries[x] = w.dentries[x]
      BY <1>4, <3>2, <3>7
    <3>9. v.copy[Dst] = copy[Dst]
      BY <3>1, <3>2, <3>5, <3>7, <3>8, Zenon DEF SoundWalk
    <3>10. Has(d, v.dentries, v.copy, inodes)
      BY <3>6, <3>8, Zenon DEF Has
    <3>11. \A x \in old : Has(x, v.dentries, v.copy, inodes)
      BY <3>1, <3>2, <3>5, <3>7, <3>8, Zenon DEF Has, SoundWalk
    <3>12. v.entries = es /\ v.at = d
      BY <1>4, Zenon
    <3> QED
      BY <3>2, <3>3, <3>4, <3>8, <3>9, <3>10, <3>11, <3>12, Zenon DEF SoundWalk
  <2> QED
    BY <2>1, <2>3, <2>4, <2>5, Zenon DEF Walked
<1> HIDE DEF Goes
<1> QED
  BY <1>1, <1>2, <1>3, <1>4, Zenon

Start(near, rest) ==
  [entries |-> [entries EXCEPT ![near].last = ticks],
   copy |-> copy, dentries |-> dentries, comps |-> Components(rest),
   at |-> entries[near].dentry, parent |-> near, result |-> "Ok"]

Further(ws) == UNION {fill_component(w) : w \in ws}

(* The walks of n components from ws, as fill_path has them.               *)
Walks(ws, n) == CHOOSE f : f = [i \in 0..n |-> IF i = 0 THEN ws ELSE Further(f[i - 1])]

AreWalks(f, ws, k) == f = [i \in 0..k |-> IF i = 0 THEN ws ELSE Further(f[i - 1])]

(* The recursion of fill_path has a solution: by the least k without one.  *)
LEMMA WalksExist ==
  ASSUME NEW ws, NEW k \in Nat
  PROVE  \E f : AreWalks(f, ws, k)
<1> DEFINE Bad == {j \in Nat : ~ \E f : AreWalks(f, ws, j)}
<1> SUFFICES ASSUME Bad # {} PROVE FALSE
  OBVIOUS
<1>1. PICK j \in Bad : \A i \in Bad : j <= i
  <2>1. Bad \in SUBSET Nat
    OBVIOUS
  <2> HIDE DEF Bad
  <2> QED
    BY <2>1, LeastNat, Zenon
<1>2. j # 0
  <2> DEFINE g == [i \in 0..0 |-> ws]
  <2>1. \A i \in 0..0 : i = 0
    OBVIOUS
  <2>2. AreWalks(g, ws, 0)
    BY <2>1 DEF AreWalks
  <2> QED
    BY <2>2
<1>3. j \in Nat /\ j - 1 \in Nat /\ j - 1 \notin Bad
  BY <1>1, <1>2
<1>4. PICK f : AreWalks(f, ws, j - 1)
  BY <1>3
<1> DEFINE g == [i \in 0..j |-> IF i = j THEN Further(f[j - 1]) ELSE f[i]]
<1>5. \A i \in 0..(j - 1) : f[i] = IF i = 0 THEN ws ELSE Further(f[i - 1])
  BY <1>4, Zenon DEF AreWalks
<1>6. ASSUME NEW i \in 0..j
      PROVE  g[i] = IF i = 0 THEN ws ELSE Further(g[i - 1])
  <2>1. CASE i = j
    <3>1. j - 1 \in 0..j /\ j - 1 # j /\ i # 0
      BY <1>2, <1>3, <2>1
    <3>2. g[i - 1] = f[j - 1]
      BY <2>1, <3>1
    <3>3. g[i] = Further(f[j - 1])
      BY <2>1, Zenon
    <3> QED
      BY <3>1, <3>2, <3>3, Zenon
  <2>2. CASE i # j
    <3>1. i \in 0..(j - 1) /\ g[i] = f[i]
      BY <1>3, <2>2
    <3>2. i # 0 => i - 1 \in 0..j /\ i - 1 # j
      BY <1>3, <2>2
    <3>3. i # 0 => g[i - 1] = f[i - 1]
      BY <3>2
    <3> QED
      BY <1>5, <3>1, <3>3, Zenon
  <2> QED
    BY <2>1, <2>2
<1>7. AreWalks(g, ws, j)
  <2>1. g = [i \in 0..j |-> g[i]]
    OBVIOUS
  <2> HIDE DEF g
  <2> QED
    BY <1>6, <2>1, Zenon DEF AreWalks
<1> QED
  BY <1>7

(* However far a lookup walks, the cache it makes is sound.                *)
LEMMA WalkFacts ==
  ASSUME CacheInv, NEW ws, \A w \in ws : Walked(w), NEW n \in Nat
  PROVE  \A w \in Walks(ws, n)[n] : Walked(w)
<1> DEFINE f == Walks(ws, n)
<1>1. AreWalks(f, ws, n)
  <2>1. \E g : AreWalks(g, ws, n)
    BY WalksExist, Zenon
  <2> QED
    BY <2>1, Zenon DEF Walks, AreWalks
<1> HIDE DEF f
<1>2. \A i \in 0..n : f[i] = IF i = 0 THEN ws ELSE Further(f[i - 1])
  BY <1>1, Zenon DEF AreWalks
<1> DEFINE Bad == {i \in 0..n : ~ \A w \in f[i] : Walked(w)}
<1>3. Bad = {}
  <2> SUFFICES ASSUME Bad # {} PROVE FALSE
    BY Zenon
  <2>1. PICK i \in Bad : \A j \in Bad : i <= j
    <3>1. Bad \in SUBSET Nat
      OBVIOUS
    <3> HIDE DEF Bad
    <3> QED
      BY <3>1, LeastNat, Zenon
  <2>2. i \in 0..n /\ ~ \A w \in f[i] : Walked(w)
    BY <2>1, Zenon
  <2>3. i # 0
    BY <1>2, <2>2, Zenon
  <2>4. i - 1 \in 0..n /\ ~ (i <= i - 1)
    BY <2>2, <2>3
  <2>5. \A w \in f[i - 1] : Walked(w)
    BY <2>1, <2>4, Zenon
  <2>6. f[i] = Further(f[i - 1])
    BY <1>2, <2>2, <2>3, Zenon
  <2>7. \A v \in f[i] : Walked(v)
    <3> SUFFICES ASSUME NEW v \in f[i] PROVE Walked(v)
      BY Zenon
    <3>1. PICK w \in f[i - 1] : v \in fill_component(w)
      BY <2>6, Zenon DEF Further
    <3> QED
      BY <2>5, <3>1, FillComponentFacts, Zenon
  <2> QED
    BY <2>2, <2>7, Zenon
<1>4. n \in 0..n
  OBVIOUS
<1> QED
  BY <1>3, <1>4, Zenon DEF f

(* A lookup starts with the cache as it is, but for one time of access.    *)
LEMMA StartFacts ==
  ASSUME CacheInv, NEW near \in DOMAIN entries, NEW rest
  PROVE  Walked(Start(near, rest))
<1> DEFINE es == [entries EXCEPT ![near].last = ticks]
<1>1. DOMAIN Start(near, rest) = Fields /\ Start(near, rest).entries = es
  BY DEF Start, Fields
<1>2. DOMAIN es = DOMAIN entries
  OBVIOUS
<1>3. \A k \in DOMAIN entries : k # near => es[k] = entries[k]
  OBVIOUS
<1>4. near \in DOMAIN entries => es[near] = [entries[near] EXCEPT !.last = ticks]
  OBVIOUS
<1>5. near \in DOMAIN entries =>
        es[near] = [dentry |-> entries[near].dentry, last |-> ticks]
  <2>1. near \in DOMAIN entries =>
          entries[near] = [dentry |-> entries[near].dentry, last |-> entries[near].last]
    BY Zenon DEF CacheInv, CacheOK
  <2> QED
    BY <1>4, <2>1
<1> HIDE DEF es
<1>6. ASSUME NEW k \in DOMAIN es
      PROVE  /\ es[k] = [dentry |-> es[k].dentry, last |-> es[k].last]
             /\ es[k].last \in Nat /\ es[k].last <= ticks
             /\ entries[k].last <= es[k].last
  <2>1. /\ entries[k] = [dentry |-> entries[k].dentry, last |-> entries[k].last]
        /\ entries[k].last \in Nat /\ entries[k].last <= ticks /\ ticks \in Nat
    BY <1>2, Zenon DEF CacheInv, CacheOK
  <2>2. CASE k = near
    BY <1>2, <1>5, <2>1, <2>2
  <2>3. CASE k # near
    <3>1. es[k] = entries[k]
      BY <1>2, <1>3, <2>3, Zenon
    <3> QED
      BY <2>1, <3>1
  <2> QED
    BY <2>2, <2>3, Zenon
<1>7. CacheOK(es)
  BY <1>2, <1>6, Zenon DEF CacheOK, CacheInv
<1>8. Bounded(es, MountPaths)
  BY <1>2, Zenon DEF Bounded, CacheInv
<1>9. LeastGone(entries, es, MountPaths)
  BY <1>2, <1>6, Zenon DEF LeastGone
<1>10. ASSUME SoundInv PROVE SoundWalk(Start(near, rest))
  <2> DEFINE w == Start(near, rest)
  <2>1. w.entries = es /\ w.copy = copy /\ w.dentries = dentries /\ w.at = entries[near].dentry
    BY DEF Start, es
  <2> HIDE DEF w
  <2>2. \A k \in DOMAIN es : es[k].dentry = entries[k].dentry
    BY <1>2, <1>3, <1>5
  <2>3. NamedBy(es)
    BY <1>2, <1>10, <2>2, Zenon DEF NamedBy, SoundInv
  <2>4. Used(es, mounts, held) = Used(entries, mounts, held)
    BY <1>2, <2>2 DEF Used
  <2>5. /\ Used(entries, mounts, held) \subseteq DEntries
        /\ entries[near].dentry \in Used(entries, mounts, held)
    BY <1>10, UsedFacts, Zenon DEF SoundInv, Used
  <2> QED
    BY <1>10, <2>1, <2>3, <2>4, <2>5, Zenon DEF SoundWalk, SoundInv, w
<1> QED
  BY <1>1, <1>7, <1>8, <1>9, <1>10, Zenon DEF Walked

(* The lookups of get leave a sound cache.                                 *)
LEMMA GetFacts ==
  ASSUME CacheInv, NEW path \in Queries, NEW w \in _get(path)
  PROVE  Walked(w)
<1> DEFINE n == Len(path)
<1>1. n \in Nat
  BY DirCacheAssumption DEF DirCacheAssumption, Str
<1>2. \A near, rest : fill_path(near, rest, n) = Walks({Start(near, rest)}, n)[n]
  BY Zenon DEF fill_path, Walks, Further, Start
<1>3. \A near \in DOMAIN entries : \A rest : \A v \in fill_path(near, rest, n) : Walked(v)
  <2> SUFFICES ASSUME NEW near \in DOMAIN entries, NEW rest
               PROVE  \A v \in fill_path(near, rest, n) : Walked(v)
    BY Zenon
  <2>1. \A v \in {Start(near, rest)} : Walked(v)
    BY StartFacts, Zenon
  <2> HIDE DEF n
  <2>2. \A v \in Walks({Start(near, rest)}, n)[n] : Walked(v)
    BY <1>1, <2>1, WalkFacts, Zenon
  <2> QED
    BY <1>2, <2>2, Zenon
<1>4. PICK near \in Nearest(path) :
        w \in fill_path(near, CHOOSE rest \in strip_prefix(path, near) : TRUE, n)
  BY Zenon DEF _get
<1>5. near \in DOMAIN entries
  BY <1>4, Zenon DEF Nearest
<1> HIDE DEF n
<1> QED
  BY <1>3, <1>4, <1>5, Zenon

-----------------------------------------------------------------------------
(* What a step does to the cache: nothing, forget entries, look a path up, *)
(* or enter a mount.                                                       *)
Keeps == entries' = entries /\ mounts' = mounts /\ ticks' \in {ticks, ticks + 1}

Forgets ==
  /\ \E keep \in SUBSET DOMAIN entries : entries' = Restrict(entries, keep)
  /\ mounts' = mounts /\ ticks' = ticks

LooksUp ==
  /\ \E path \in Queries : \E w \in _get(path) : entries' = w.entries
  /\ mounts' = mounts /\ ticks' = ticks

Mounts ==
  /\ \E f, d : /\ entries' \in insert_entry(MountPaths \cup {d[1]}, entries, d)
               /\ mounts' = mounts \cup {[fs |-> f, dentry |-> d]}
  /\ ticks' = ticks

(* There are no other steps.                                               *)
LEMMA StepCases ==
  ASSUME [Next]_vars
  PROVE  Keeps \/ Forgets \/ LooksUp \/ Mounts
<1>1. ASSUME NEW f, mount_root(f) PROVE Mounts
  <2>1. PICK d \in New(RootDir, Used(entries, mounts, held)) :
          /\ entries' \in insert_entry(MountPaths \cup {RootDir}, entries, d)
          /\ mounts' = mounts \cup {[fs |-> f, dentry |-> d]} /\ ticks' = ticks
    BY <1>1, Zenon DEF mount_root, Store
  <2>2. d[1] = RootDir
    BY <2>1, Zenon DEF New
  <2> QED
    BY <2>1, <2>2, Zenon DEF Mounts
<1>2. ASSUME NEW f, NEW d, mount_dest(f, d) PROVE Mounts
  BY <1>2, Zenon DEF mount_dest, Store, Mounts
<1>3. ASSUME NEW path \in Queries, get(path) PROVE Keeps \/ LooksUp
  <2>1. CASE UNCHANGED <<inodes, blocks, copy, entries, dentries, mounts, held, ticks>>
    BY <2>1 DEF Keeps
  <2>2. ASSUME NEW w \in _get(path),
               Store(w.entries, mounts, IF w.result = "Ok" THEN held \cup {w.at} ELSE held,
                     w.dentries, w.copy)
        PROVE  LooksUp
    BY <2>2, Zenon DEF Store, LooksUp
  <2> QED
    BY <1>3, <2>1, <2>2, Zenon DEF get
<1>4. ASSUME NEW keep \in SUBSET DOMAIN entries, Retain(keep) PROVE Forgets
  BY <1>4, Zenon DEF Retain, Store, Forgets
<1>5. ASSUME NEW d, Drop(d) PROVE Keeps
  BY <1>5 DEF Drop, Store, Keeps
<1>6. ASSUME NEW d, reload(d) PROVE Keeps \/ Forgets
  <2>1. \/ Store(entries, mounts, held, dentries,
                 [copy EXCEPT ![d] = R!From(inodes[dentries[d]][copy[d].num])])
        \/ Retain(DOMAIN entries \ {d[1]})
    BY <1>6, Zenon DEF reload
  <2>2. DOMAIN entries \ {d[1]} \in SUBSET DOMAIN entries
    OBVIOUS
  <2> QED
    BY <1>4, <2>1, <2>2, Zenon DEF Store, Keeps
<1>7. ASSUME NEW path, delete(path) PROVE Forgets
  <2>1. DOMAIN entries \ {path} \in SUBSET DOMAIN entries
    OBVIOUS
  <2> QED
    BY <1>4, <1>7, <2>1, Zenon DEF delete
<1>8. ASSUME NEW num, delete_inode(num) PROVE Forgets
  BY <1>4, <1>8, Zenon DEF delete_inode
<1>9. ASSUME unmount PROVE Forgets
  BY <1>4, <1>9, Zenon DEF unmount
<1>10. ASSUME Elsewhere PROVE Keeps
  BY <1>10 DEF Elsewhere, Keeps
<1>11. ASSUME Tick PROVE Keeps
  BY <1>11 DEF Tick, Keeps
<1>12. ASSUME UNCHANGED vars PROVE Keeps
  BY <1>12 DEF vars, Keeps
<1>13. ASSUME NEW f, create_inode(f) PROVE Keeps
  BY <1>10, <1>13, Zenon DEF create_inode
<1>14. ASSUME NEW d, NEW name, create(d, name) \/ mkdir(d, name) PROVE Keeps
  BY <1>10, <1>14, Zenon DEF create, mkdir
<1>15. ASSUME NEW h, write_inode(h) PROVE Keeps
  BY <1>10, <1>15, Zenon DEF write_inode
<1> QED
  BY <1>1, <1>2, <1>3, <1>5, <1>6, <1>7, <1>8, <1>9, <1>11, <1>12, <1>13, <1>14, <1>15,
     Zenon DEF Next, Halted

(* The mount that is entered adds its path to those spared.                *)
LEMMA MountStep ==
  ASSUME CacheInv, Mounts
  PROVE  /\ IsFiniteSet(mounts') /\ IsFiniteSet(MountPaths')
         /\ MountPaths \subseteq MountPaths'
         /\ \E d : entries' \in insert_entry(MountPaths', entries, d)
<1>1. PICK f, d : /\ entries' \in insert_entry(MountPaths \cup {d[1]}, entries, d)
                  /\ mounts' = mounts \cup {[fs |-> f, dentry |-> d]}
  BY Zenon DEF Mounts
<1>2. MountPaths' = MountPaths \cup {d[1]}
  <2> DEFINE m == [fs |-> f, dentry |-> d]
  <2>1. m.dentry = d
    OBVIOUS
  <2> HIDE DEF m
  <2>2. mounts' = mounts \cup {m}
    BY <1>1, Zenon DEF m
  <2> QED
    BY <2>1, <2>2 DEF MountPaths
<1>3. IsFiniteSet(mounts') /\ IsFiniteSet(MountPaths')
  <2>1. IsFiniteSet(mounts) /\ IsFiniteSet(MountPaths)
    BY MountPathsFinite, Zenon DEF CacheInv
  <2> QED
    BY <1>1, <1>2, <2>1, FS_AddElement, Zenon
<1> QED
  BY <1>1, <1>2, <1>3, Zenon

(* More mount points leave more room.                                      *)
LEMMA BoundedMore ==
  ASSUME NEW es, NEW mps, NEW more, IsFiniteSet(DOMAIN es), IsFiniteSet(more),
         mps \subseteq more, Bounded(es, mps)
  PROVE  Bounded(es, more)
<1>1. IsFiniteSet(mps) /\ Cardinality(mps) <= Cardinality(more)
  BY FS_Subset, Zenon
<1>2. Cardinality(mps) \in Nat /\ Cardinality(more) \in Nat /\ Cardinality(DOMAIN es) \in Nat
  BY <1>1, FS_CardinalityType, Zenon
<1> QED
  BY <1>1, <1>2 DEF Bounded

(* What steps do to the cache, as long as it is sound: it stays so, and an *)
(* insertion takes the least recently used entries that are no mounts.     *)
LEMMA CacheStep ==
  ASSUME CacheInv, Keeps \/ Forgets \/ LooksUp \/ Mounts
  PROVE  CacheInv' /\ (Inserts => LeastGone(entries, entries', MountPaths'))
<1> USE DEF CacheInv
<1>1. CASE Keeps
  <2>1. entries' = entries /\ mounts' = mounts /\ MountPaths' = MountPaths
    BY <1>1 DEF Keeps, MountPaths
  <2>2. ticks' \in Nat /\ ticks <= ticks'
    BY <1>1 DEF Keeps
  <2>3. CacheOK(entries)'
    BY <2>1, <2>2 DEF CacheOK
  <2>4. Bounded(entries, MountPaths)'
    BY <2>1, Zenon DEF Bounded
  <2>5. ~Inserts
    BY <2>1, Zenon DEF Inserts
  <2> QED
    BY <2>1, <2>2, <2>3, <2>4, <2>5, Zenon
<1>2. CASE Forgets
  <2>1. mounts' = mounts /\ MountPaths' = MountPaths /\ ticks' = ticks
    BY <1>2 DEF Forgets, MountPaths
  <2>2. PICK keep \in SUBSET DOMAIN entries : entries' = Restrict(entries, keep)
    BY <1>2, Zenon DEF Forgets
  <2>3. DOMAIN entries' = keep /\ \A k \in keep : entries'[k] = entries[k]
    BY <2>2, Zenon DEF Restrict
  <2>4. IsFiniteSet(keep) /\ Cardinality(keep) <= Cardinality(DOMAIN entries)
    BY <2>2, FS_Subset, Zenon DEF CacheOK
  <2>5. CacheOK(entries)'
    BY <2>1, <2>2, <2>3, <2>4, Zenon DEF CacheOK
  <2>6. Bounded(entries, MountPaths)'
    <3>1. IsFiniteSet(MountPaths) /\ IsFiniteSet(DOMAIN entries)
      BY MountPathsFinite, Zenon DEF CacheOK
    <3>2. /\ Cardinality(MountPaths) \in Nat /\ Cardinality(keep) \in Nat
          /\ Cardinality(DOMAIN entries) \in Nat
      BY <2>4, <3>1, FS_CardinalityType, Zenon
    <3> QED
      BY <2>1, <2>3, <2>4, <3>2, DirCacheAssumption DEF Bounded, DirCacheAssumption
  <2>7. ~Inserts
    BY <2>1, <2>2, <2>3, Zenon DEF Inserts
  <2> QED
    BY <2>1, <2>5, <2>6, <2>7, Zenon
<1>3. CASE LooksUp
  <2>1. mounts' = mounts /\ MountPaths' = MountPaths /\ ticks' = ticks
    BY <1>3 DEF LooksUp, MountPaths
  <2>2. PICK path \in Queries : \E w \in _get(path) : entries' = w.entries
    BY <1>3, Zenon DEF LooksUp
  <2>3. PICK w \in _get(path) : entries' = w.entries
    BY <2>2, Zenon
  <2>4. Walked(w)
    BY <2>3, GetFacts, Zenon
  <2>5. CacheOK(entries)'
    BY <2>1, <2>3, <2>4, Zenon DEF Walked, CacheOK
  <2>6. Bounded(entries, MountPaths)' /\ LeastGone(entries, entries', MountPaths')
    BY <2>1, <2>3, <2>4, Zenon DEF Walked, Bounded
  <2> QED
    BY <2>1, <2>5, <2>6, Zenon
<1>4. CASE Mounts
  <2>1. /\ IsFiniteSet(mounts') /\ IsFiniteSet(MountPaths')
        /\ MountPaths \subseteq MountPaths'
    BY <1>4, MountStep, Zenon
  <2>2. PICK d : entries' \in insert_entry(MountPaths', entries, d)
    BY <1>4, MountStep, Zenon
  <2>3. ticks' = ticks
    BY <1>4, Zenon DEF Mounts
  <2>4. Bounded(entries, MountPaths')
    BY <2>1, BoundedMore, Zenon DEF CacheOK
  <2>5. /\ CacheOK(entries') /\ LeastGone(entries, entries', MountPaths')
        /\ Bounded(entries', MountPaths')
    BY <2>1, <2>2, <2>4, InsertFacts, Zenon
  <2>6. CacheOK(entries)'
    BY <2>3, <2>5, Zenon DEF CacheOK
  <2>7. Bounded(entries, MountPaths)'
    BY <2>5, Zenon DEF Bounded
  <2> QED
    BY <2>1, <2>3, <2>5, <2>6, <2>7, Zenon
<1> QED
  BY <1>1, <1>2, <1>3, <1>4, Zenon

(* The cache is sound from the start.                                      *)
LEMMA CacheInit ==
  ASSUME Init
  PROVE  CacheInv
<1>1. entries = <<>> /\ mounts = {} /\ ticks = 0
  BY Zenon DEF Init
<1>2. DOMAIN entries = {}
  BY <1>1
<1>3. IsFiniteSet({}) /\ Cardinality({}) = 0
  BY FS_EmptySet, Zenon
<1>4. CacheOK(entries)
  BY <1>2, <1>3, Zenon DEF CacheOK
<1>5. Bounded(entries, MountPaths)
  BY <1>2, <1>3, DirCacheAssumption DEF Bounded, DirCacheAssumption
<1> QED
  BY <1>1, <1>3, <1>4, <1>5 DEF CacheInv

(* Times of access are of the past, and only mount points make the cache   *)
(* outgrow its size, whatever is looked up, mounted and forgotten.         *)
THEOREM CacheInvariant == Spec => []CacheInv
<1>1. Init => CacheInv
  BY CacheInit
<1>2. CacheInv /\ [Next]_vars => CacheInv'
  BY StepCases, CacheStep, Zenon
<1> QED
  BY <1>1, <1>2, PTL DEF Spec

(* dentry.rs, insert_entry: the cache has at most CACHE_SIZE entries, or,  *)
(* if there are that many mount points, one entry more than these.         *)
THEOREM OutgrownOnlyByMounts == Spec => []CacheBounded
<1>1. CacheInv => CacheBounded
  <2> SUFFICES ASSUME CacheInv PROVE CacheBounded
    OBVIOUS
  <2> DEFINE a == CACHE_SIZE
             b == Cardinality(MountPaths) + 1
             n == Cardinality(DOMAIN entries)
  <2>1. a \in Nat
    BY DirCacheAssumption DEF DirCacheAssumption
  <2>2. IsFiniteSet(MountPaths) /\ IsFiniteSet(DOMAIN entries)
    BY MountPathsFinite, Zenon DEF CacheInv, CacheOK
  <2>3. Cardinality(MountPaths) \in Nat /\ n \in Nat
    BY <2>2, FS_CardinalityType, Zenon
  <2>4. b \in Nat
    BY <2>3
  <2>5. n <= a \/ n <= b
    BY Zenon DEF CacheInv, Bounded
  <2> HIDE DEF a, b, n
  <2>6. Max({a, b}) \in {a, b} /\ \A y \in {a, b} : Max({a, b}) >= y
    <3>1. \E x \in {a, b} : \A y \in {a, b} : x >= y
      BY <2>1, <2>4
    <3> QED
      BY <3>1, Zenon DEF Max
  <2>7. n <= Max({a, b})
    BY <2>1, <2>3, <2>4, <2>5, <2>6
  <2> QED
    BY <2>7, Zenon DEF CacheBounded, a, b, n
<1> QED
  BY <1>1, CacheInvariant, PTL

(* dentry.rs, evict_entry: no lookup and no mount evicts a mount point.    *)
THEOREM MountsAreNotEvicted == Spec => MountsStayCached
<1>1. CacheInv /\ [Next]_vars =>
        [Inserts => DOMAIN entries \cap MountPaths \subseteq DOMAIN entries']_vars
  <2> SUFFICES ASSUME CacheInv, [Next]_vars, Inserts
               PROVE  DOMAIN entries \cap MountPaths \subseteq DOMAIN entries'
    BY Zenon
  <2>1. DOMAIN entries \cap MountPaths' \subseteq DOMAIN entries'
    BY StepCases, CacheStep, Zenon DEF LeastGone
  <2>2. MountPaths \subseteq MountPaths'
    BY StepCases, MountStep, Zenon DEF Keeps, Forgets, LooksUp, MountPaths
  <2> QED
    BY <2>1, <2>2, Zenon
<1> QED
  BY <1>1, CacheInvariant, PTL DEF Spec, MountsStayCached

(* dentry.rs, insert_entry: what an insertion evicts, or all the           *)
(* insertions of one lookup, was used no later than what is left.          *)
THEOREM LeastRecentGoes == Spec => EvictsLeastRecent
<1>1. CacheInv /\ [Next]_vars =>
        [Inserts => \A k \in DOMAIN entries \ DOMAIN entries' :
                      \A j \in (DOMAIN entries \cap DOMAIN entries') \ MountPaths' :
                        entries[k].last <= entries'[j].last]_vars
  <2> SUFFICES ASSUME CacheInv, [Next]_vars, Inserts
               PROVE  \A k \in DOMAIN entries \ DOMAIN entries' :
                        \A j \in (DOMAIN entries \cap DOMAIN entries') \ MountPaths' :
                          entries[k].last <= entries'[j].last
    BY Zenon
  <2>1. LeastGone(entries, entries', MountPaths')
    BY StepCases, CacheStep, Zenon
  <2> QED
    BY <2>1, Zenon DEF LeastGone
<1> QED
  BY <1>1, CacheInvariant, PTL DEF Spec, EvictsLeastRecent

-----------------------------------------------------------------------------
(* DEntries and inodes.                                                    *)

(* The calls on the cache end with Store: the DEntries in use are sound if *)
(* those given to it are.                                                  *)
LEMMA StoreFacts ==
  ASSUME NEW es, NEW ms, NEW hs, NEW ds, NEW ino, Store(es, ms, hs, ds, ino),
         NamedBy(es), ms \subseteq [fs : FileSystems, dentry : DEntries], hs \subseteq DEntries,
         TablesOK(inodes'),
         ino[Dst] # NoInode => \E f \in FileSystems : InodeOf(ino[Dst], f, inodes'),
         \A d \in Used(es, ms, hs) : Has(d, ds, ino, inodes')
  PROVE  SoundInv'
<1> DEFINE used == Used(es, ms, hs)
<1>1. /\ entries' = es /\ mounts' = ms /\ held' = hs
      /\ dentries' = [d \in DEntries |-> IF d \in used THEN ds[d] ELSE NoFs]
      /\ copy' = [h \in Places |-> IF h \in used \cup {Dst} THEN ino[h] ELSE NoInode]
  BY Zenon DEF Store
<1>2. /\ Dst \in Places /\ Dst \notin DEntries /\ DEntries \subseteq Places
      /\ used \subseteq DEntries
  BY UsedFacts, Zenon DEF Places
<1>3. used = Used(entries, mounts, held)'
  BY <1>1, Zenon DEF Used
<1> HIDE DEF used
<1>4. DOMAIN dentries' = DEntries /\ DOMAIN copy' = Places /\ copy'[Dst] = ino[Dst]
  BY <1>1, <1>2, Zenon
<1>5. ASSUME NEW d \in DEntries
      PROVE  /\ dentries'[d] = IF d \in used THEN ds[d] ELSE NoFs
             /\ copy'[d] = IF d \in used THEN ino[d] ELSE NoInode
  BY <1>1, <1>2, Zenon
<1>6. ASSUME NEW d \in DEntries
      PROVE  IF d \in used THEN Has(d, dentries', copy', inodes')
             ELSE dentries'[d] = NoFs /\ copy'[d] = NoInode
  BY <1>5, Zenon DEF Has, used
<1>7. NamedBy(entries') /\ held' \subseteq DEntries
      /\ mounts' \subseteq [fs : FileSystems, dentry : DEntries]
  BY <1>1, Zenon
<1>8. NamedBy(entries)'
  BY <1>7, Zenon DEF NamedBy
<1>9. copy'[Dst] # NoInode => \E f \in FileSystems : InodeOf(copy'[Dst], f, inodes')
  BY <1>4, Zenon
<1> QED
  BY <1>3, <1>4, <1>6, <1>7, <1>8, <1>9, Zenon DEF SoundInv

(* A table that grows keeps its inodes.                                    *)
LEMMA GrownTable ==
  ASSUME NEW c, NEW f, NEW tabs, NEW more, InodeOf(c, f, tabs),
         DOMAIN tabs[f] \subseteq DOMAIN more[f]
  PROVE  InodeOf(c, f, more)
BY Zenon DEF InodeOf

(* SuperBlock.count is the first number that the table does not have.      *)
LEMMA CountFacts ==
  ASSUME NEW f \in FileSystems, TableOK(f, inodes)
  PROVE  /\ R!count(f) \in Nat /\ DOMAIN inodes[f] = 0..(R!count(f) - 1)
         /\ ~ R!mounted(f) => R!count(f) = 0
<1>1. PICK c \in 0..MaxInodes : DOMAIN inodes[f] = 0..(c - 1)
  BY Zenon DEF TableOK
<1>2. c \in Nat
  BY <1>1, FsAssumption DEF R!RamFsAssumption
<1>3. Cardinality(0..(c - 1)) = c
  <2>1. Cardinality(0..(c - 1)) = IF 0 > c - 1 THEN 0 ELSE (c - 1) - 0 + 1
    BY <1>2, FS_Interval
  <2> QED
    BY <1>2, <2>1
<1>4. R!count(f) = c
  <2>1. R!Cardinality(DOMAIN inodes[f]) = Cardinality(DOMAIN inodes[f])
    BY Zenon DEF R!Cardinality, Cardinality
  <2> QED
    BY <1>1, <1>3, <2>1, Zenon DEF R!count
<1>5. ASSUME inodes[f] = <<>> PROVE c = 0
  <2>1. 0 \notin 0..(c - 1)
    BY <1>1, <1>5
  <2> QED
    BY <1>2, <2>1
<1> QED
  BY <1>1, <1>2, <1>4, <1>5 DEF R!mounted

(* Insert enters an inode under the next number and keeps the others.      *)
LEMMA InsertInode ==
  ASSUME TablesOK(inodes), NEW f \in FileSystems, R!count(f) < MaxInodes,
         NEW mode \in R!Modes, NEW tabs, tabs = [inodes EXCEPT ![f] = R!Insert(f, mode)]
  PROVE  /\ TablesOK(tabs)
         /\ \A g \in FileSystems : DOMAIN inodes[g] \subseteq DOMAIN tabs[g]
         /\ R!count(f) \in DOMAIN tabs[f]
         /\ tabs[f][R!count(f)] = R!Inode(R!count(f), mode, <<f, R!count(f)>>)
<1> DEFINE c == R!count(f)
           new == R!Inode(c, mode, <<f, c>>)
           t == [n \in 0..c |-> IF n = c THEN new ELSE inodes[f][n]]
<1>1. c \in Nat /\ DOMAIN inodes[f] = 0..(c - 1)
  BY CountFacts, Zenon DEF TablesOK
<1>2. MaxInodes \in Nat /\ c \in 0..(MaxInodes - 1) /\ c + 1 \in 0..MaxInodes
  BY <1>1, FsAssumption DEF R!RamFsAssumption
<1>3. new \in R!Private /\ new.num = c /\ new.arc = <<f, c>>
  BY <1>2 DEF R!Inode, R!Private, R!Arcs
<1>4. R!Insert(f, mode) = t
  BY Zenon DEF R!Insert
<1>5. DOMAIN tabs = FileSystems /\ tabs[f] = t /\ \A g \in FileSystems : g # f => tabs[g] = inodes[g]
  BY <1>4 DEF TablesOK
<1>6. ASSUME NEW n \in 0..(c - 1)
      PROVE  inodes[f][n] \in R!Private /\ inodes[f][n].num = n /\ inodes[f][n].arc = <<f, n>>
  BY <1>1, <1>6, Zenon DEF TablesOK, TableOK
<1> HIDE DEF new
<1>7. t[c] = new /\ \A n \in 0..(c - 1) : t[n] = inodes[f][n]
  BY <1>1
<1>8. DOMAIN t = 0..c /\ c \in 0..c /\ \A n \in 0..c : n = c \/ n \in 0..(c - 1)
  BY <1>1
<1> HIDE DEF t
<1>9. 0..c = 0..((c + 1) - 1)
  BY <1>1
<1>10. \A n \in 0..c : t[n] \in R!Private /\ t[n].num = n /\ t[n].arc = <<f, n>>
  BY <1>3, <1>6, <1>7, <1>8, Zenon
<1>11. TableOK(f, tabs)
  BY <1>2, <1>5, <1>8, <1>9, <1>10, Zenon DEF TableOK
<1>12. \A g \in FileSystems : g # f => TableOK(g, tabs)
  BY <1>5, ZenonT(30) DEF TablesOK, TableOK
<1>13. 0..(c - 1) \subseteq 0..c
  BY <1>1
<1> QED
  BY <1>1, <1>5, <1>7, <1>8, <1>11, <1>12, <1>13, Zenon DEF TablesOK, new

(* The DEntries in use, now and with larger tables.                        *)
LEMMA UsedSound ==
  ASSUME SoundInv, NEW tabs,
         \A f \in FileSystems : DOMAIN inodes[f] \subseteq DOMAIN tabs[f]
  PROVE  /\ Used(entries, mounts, held) \subseteq DEntries /\ Dst \notin DEntries
         /\ held \subseteq Used(entries, mounts, held)
         /\ \A d \in Used(entries, mounts, held) : Has(d, dentries, copy, tabs)
         /\ copy[Dst] # NoInode => \E f \in FileSystems : InodeOf(copy[Dst], f, tabs)
<1>1. Used(entries, mounts, held) \subseteq DEntries /\ Dst \notin DEntries
  BY UsedFacts, Zenon DEF SoundInv
<1>2. held \subseteq Used(entries, mounts, held)
  BY Zenon DEF Used
<1>3. \A d \in Used(entries, mounts, held) : Has(d, dentries, copy, inodes)
  BY <1>1, Zenon DEF SoundInv
<1>4. \A d \in Used(entries, mounts, held) : Has(d, dentries, copy, tabs)
  BY <1>3, GrownTable, Zenon DEF Has
<1>5. copy[Dst] # NoInode => \E f \in FileSystems : InodeOf(copy[Dst], f, tabs)
  BY GrownTable, Zenon DEF SoundInv
<1> QED
  BY <1>1, <1>2, <1>4, <1>5, Zenon

(* Forgetting paths.                                                       *)
LEMMA RetainSound ==
  ASSUME SoundInv, NEW keep \in SUBSET DOMAIN entries, Retain(keep)
  PROVE  SoundInv'
<1> DEFINE es == Restrict(entries, keep)
<1>1. Store(es, mounts, held, dentries, copy) /\ inodes' = inodes
  BY Zenon DEF Retain
<1>2. DOMAIN es = keep /\ \A k \in keep : es[k] = entries[k]
  BY Zenon DEF Restrict
<1> HIDE DEF es
<1>3. NamedBy(es)
  BY <1>2, Zenon DEF NamedBy, SoundInv
<1>4. Used(es, mounts, held) \subseteq Used(entries, mounts, held)
  BY <1>2, Zenon DEF Used
<1>5. \A d \in Used(es, mounts, held) : Has(d, dentries, copy, inodes')
  BY <1>1, <1>4, UsedSound, Zenon
<1>6. copy[Dst] # NoInode => \E f \in FileSystems : InodeOf(copy[Dst], f, inodes')
  BY <1>1, UsedSound, Zenon
<1>7. /\ TablesOK(inodes') /\ held \subseteq DEntries
      /\ mounts \subseteq [fs : FileSystems, dentry : DEntries]
  BY <1>1, Zenon DEF SoundInv
<1> QED
  BY <1>1, <1>3, <1>5, <1>6, <1>7, StoreFacts, Zenon

(* A mount: d is entered in the cache and in the mount table.              *)
LEMMA MountSound ==
  ASSUME CacheInv, SoundInv, NEW f \in FileSystems, NEW d \in DEntries, NEW ds, NEW ino,
         NEW es, es \in insert_entry(MountPaths \cup {d[1]}, entries, d),
         Store(es, mounts \cup {[fs |-> f, dentry |-> d]}, held, ds, ino),
         TablesOK(inodes'),
         ino[Dst] # NoInode => \E g \in FileSystems : InodeOf(ino[Dst], g, inodes'),
         \A x \in Used(entries, mounts, held) \cup {d} : Has(x, ds, ino, inodes')
  PROVE  SoundInv'
<1> DEFINE m == [fs |-> f, dentry |-> d]
           ms == mounts \cup {m}
<1>1. m.dentry = d /\ m \in [fs : FileSystems, dentry : DEntries]
  OBVIOUS
<1> HIDE DEF m
<1>2. IsFiniteSet(MountPaths \cup {d[1]}) /\ ticks \in Nat /\ CacheOK(entries)
  BY MountPathsFinite, FS_AddElement, Zenon DEF CacheInv
<1>3. /\ d[1] \in DOMAIN es /\ es[d[1]].dentry = d
      /\ \A k \in DOMAIN es : k # d[1] => k \in DOMAIN entries /\ es[k] = entries[k]
  BY <1>2, InsertFacts
<1>4. NamedBy(es)
  <2>1. \A k \in DOMAIN entries : entries[k].dentry \in DEntries /\ entries[k].dentry[1] = k
    BY Zenon DEF SoundInv, NamedBy
  <2>2. ASSUME NEW k \in DOMAIN es
        PROVE  es[k].dentry \in DEntries /\ es[k].dentry[1] = k
    BY <1>3, <2>1, <2>2, Zenon
  <2> QED
    BY <2>2, Zenon DEF NamedBy
<1>5. Used(es, ms, held) \subseteq Used(entries, mounts, held) \cup {d}
  BY <1>1, <1>3, Zenon DEF Used
<1>6. ms \subseteq [fs : FileSystems, dentry : DEntries] /\ held \subseteq DEntries
  BY <1>1, Zenon DEF SoundInv
<1>7. Store(es, ms, held, ds, ino)
  BY Zenon DEF m
<1> HIDE DEF ms
<1>8. \A x \in Used(es, ms, held) : Has(x, ds, ino, inodes')
  BY <1>5, Zenon
<1> QED
  BY <1>4, <1>6, <1>7, <1>8, StoreFacts, Zenon

(* mount_fs, with and without dest.                                        *)
LEMMA MountsSound ==
  ASSUME CacheInv, SoundInv, NEW f \in FileSystems,
         mount_root(f) \/ \E d \in held : mount_dest(f, d)
  PROVE  SoundInv'
<1> DEFINE used == Used(entries, mounts, held)
<1>1. ~ R!mounted(f) /\ inodes' = [inodes EXCEPT ![f] = R!Insert(f, "dir")]
  BY Zenon DEF mount_root, mount_dest
<1>2. R!count(f) = 0 /\ R!count(f) < MaxInodes /\ "dir" \in R!Modes
  <2>1. R!count(f) = 0
    BY <1>1, CountFacts, Zenon DEF SoundInv, TablesOK
  <2> QED
    BY <2>1, FsAssumption DEF R!RamFsAssumption, R!Modes
<1>3. /\ TablesOK(inodes') /\ 0 \in DOMAIN inodes'[f]
      /\ \A g \in FileSystems : DOMAIN inodes[g] \subseteq DOMAIN inodes'[g]
  <2>1. TablesOK(inodes)
    BY Zenon DEF SoundInv
  <2> QED
    BY <1>1, <1>2, <2>1, InsertInode, Zenon
<1>4. /\ used \subseteq DEntries /\ Dst \notin DEntries /\ held \subseteq used
      /\ \A x \in used : Has(x, dentries, copy, inodes')
      /\ copy[Dst] # NoInode => \E g \in FileSystems : InodeOf(copy[Dst], g, inodes')
  BY <1>3, UsedSound, Zenon
<1>5. ASSUME NEW d \in held, mount_dest(f, d) PROVE SoundInv'
  <2>1. PICK es \in insert_entry(MountPaths \cup {d[1]}, entries, d) :
          Store(es, mounts \cup {[fs |-> f, dentry |-> d]}, held, dentries, copy)
    BY <1>5, Zenon DEF mount_dest
  <2>2. d \in DEntries /\ used \cup {d} \subseteq used
    BY <1>4, <1>5, Zenon
  <2>3. \A x \in used \cup {d} : Has(x, dentries, copy, inodes')
    BY <1>4, <2>2, Zenon
  <2> HIDE DEF used
  <2> QED
    BY <1>3, <1>4, <2>1, <2>2, <2>3, MountSound, Zenon DEF used
<1>6. ASSUME mount_root(f) PROVE SoundInv'
  <2> DEFINE root == R!From(inodes'[f][0])
  <2>1. PICK d \in New(RootDir, used) :
          \E es \in insert_entry(MountPaths \cup {RootDir}, entries, d) :
            Store(es, mounts \cup {[fs |-> f, dentry |-> d]}, held, [dentries EXCEPT ![d] = f],
                  [copy EXCEPT ![d] = root])
    BY <1>6, Zenon DEF mount_root
  <2>2. d \in DEntries \ used /\ d[1] = RootDir
    BY <2>1, Zenon DEF New
  <2> DEFINE ds == [dentries EXCEPT ![d] = f]
             ino == [copy EXCEPT ![d] = root]
  <2>3. PICK es \in insert_entry(MountPaths \cup {d[1]}, entries, d) :
          Store(es, mounts \cup {[fs |-> f, dentry |-> d]}, held, ds, ino)
    BY <2>1, <2>2, Zenon
  <2>4. InodeOf(root, f, inodes')
    BY <1>3, GetInode, Zenon DEF TablesOK
  <2> HIDE DEF root, used
  <2>5. /\ DOMAIN dentries = DEntries /\ DOMAIN copy = Places
        /\ DEntries \subseteq Places /\ Dst \in Places
    BY Zenon DEF SoundInv, Places
  <2>6. /\ ds[d] = f /\ ino[d] = root
        /\ \A x \in DEntries : x # d => ds[x] = dentries[x]
        /\ \A x \in Places : x # d => ino[x] = copy[x]
    BY <2>2, <2>5
  <2> HIDE DEF ds, ino
  <2>7. \A x \in used \cup {d} : Has(x, ds, ino, inodes')
    BY <1>4, <2>2, <2>4, <2>5, <2>6, Zenon DEF Has
  <2>8. ino[Dst] = copy[Dst]
    BY <1>4, <2>2, <2>5, <2>6, Zenon
  <2>9. ino[Dst] # NoInode => \E g \in FileSystems : InodeOf(ino[Dst], g, inodes')
    BY <1>4, <2>8, Zenon
  <2> QED
    BY <1>3, <2>2, <2>3, <2>7, <2>9, MountSound, Zenon DEF used
<1> QED
  BY <1>5, <1>6, Zenon

(* Nothing that SoundInv speaks of changes.                                *)
LEMMA SameSound ==
  ASSUME SoundInv, UNCHANGED <<inodes, copy, entries, dentries, mounts, held>>
  PROVE  SoundInv'
<1>1. /\ inodes' = inodes /\ copy' = copy /\ entries' = entries /\ dentries' = dentries
      /\ mounts' = mounts /\ held' = held
  OBVIOUS
<1>2. Used(entries, mounts, held)' = Used(entries, mounts, held)
  BY <1>1, Zenon DEF Used
<1>3. NamedBy(entries)' /\ TablesOK(inodes')
  BY <1>1, Zenon DEF SoundInv, NamedBy
<1> QED
  BY <1>1, <1>2, <1>3, Zenon DEF SoundInv

(* A lookup keeps its walk, and gives the caller the DEntry where it ends. *)
LEMMA GetSound ==
  ASSUME CacheInv, SoundInv, NEW path \in Queries, get(path)
  PROVE  SoundInv'
<1>1. CASE UNCHANGED <<inodes, blocks, copy, entries, dentries, mounts, held, ticks>>
  <2>1. UNCHANGED <<inodes, copy, entries, dentries, mounts, held>>
    BY <1>1
  <2> QED
    BY <2>1, SameSound, Zenon
<1>2. ASSUME NEW w \in _get(path), inodes' = inodes,
             Store(w.entries, mounts, IF w.result = "Ok" THEN held \cup {w.at} ELSE held,
                   w.dentries, w.copy)
      PROVE  SoundInv'
  <2> DEFINE hs == IF w.result = "Ok" THEN held \cup {w.at} ELSE held
  <2>1. SoundWalk(w)
    BY GetFacts, Zenon DEF Walked
  <2>2. hs \subseteq held \cup {w.at}
    BY Zenon
  <2>3. Store(w.entries, mounts, hs, w.dentries, w.copy)
    BY <1>2, Zenon
  <2> HIDE DEF hs
  <2>4. Used(w.entries, mounts, hs) \subseteq Used(w.entries, mounts, held) \cup {w.at}
    BY <2>2, Zenon DEF Used
  <2>5. \A d \in Used(w.entries, mounts, hs) : Has(d, w.dentries, w.copy, inodes')
    BY <1>2, <2>1, <2>4, Zenon DEF SoundWalk
  <2>6. w.copy[Dst] # NoInode => \E f \in FileSystems : InodeOf(w.copy[Dst], f, inodes')
    BY <1>2, <2>1, Zenon DEF SoundWalk, SoundInv
  <2>7. /\ NamedBy(w.entries) /\ hs \subseteq DEntries /\ TablesOK(inodes')
        /\ mounts \subseteq [fs : FileSystems, dentry : DEntries]
    BY <1>2, <2>1, <2>2, Zenon DEF SoundWalk, SoundInv
  <2> QED
    BY <2>3, <2>5, <2>6, <2>7, StoreFacts, Zenon
<1> QED
  BY <1>1, <1>2, Zenon DEF get

(* Dropping a DEntry, and reading its inode again.                         *)
LEMMA HeldSound ==
  ASSUME SoundInv, NEW d \in held, Drop(d) \/ reload(d)
  PROVE  SoundInv'
<1> DEFINE used == Used(entries, mounts, held)
<1>1. /\ used \subseteq DEntries /\ Dst \notin DEntries /\ held \subseteq used
      /\ \A x \in used : Has(x, dentries, copy, inodes)
      /\ copy[Dst] # NoInode => \E g \in FileSystems : InodeOf(copy[Dst], g, inodes)
  BY UsedSound, Zenon
<1>2. /\ TablesOK(inodes) /\ NamedBy(entries) /\ held \subseteq DEntries
      /\ mounts \subseteq [fs : FileSystems, dentry : DEntries]
      /\ DOMAIN copy = Places /\ DEntries \subseteq Places /\ Dst \in Places
  BY Zenon DEF SoundInv, Places
<1>3. ASSUME Drop(d) PROVE SoundInv'
  <2>1. Store(entries, mounts, held \ {d}, dentries, copy) /\ inodes' = inodes
    BY <1>3 DEF Drop
  <2>2. Used(entries, mounts, held \ {d}) \subseteq used
    BY Zenon DEF Used
  <2>3. \A x \in Used(entries, mounts, held \ {d}) : Has(x, dentries, copy, inodes')
    BY <1>1, <2>1, <2>2, Zenon
  <2>4. held \ {d} \subseteq DEntries
    BY <1>2, Zenon
  <2> HIDE DEF used
  <2> QED
    BY <1>1, <1>2, <2>1, <2>3, <2>4, StoreFacts, Zenon
<1>4. ASSUME reload(d) PROVE SoundInv'
  <2> DEFINE fs == dentries[d]
             num == copy[d].num
             ino == [copy EXCEPT ![d] = R!From(inodes[fs][num])]
  <2>1. CASE Retain(DOMAIN entries \ {d[1]})
    BY <2>1, RetainSound, Zenon
  <2>2. ASSUME num \in DOMAIN inodes[fs], inodes' = inodes,
               Store(entries, mounts, held, dentries, ino)
        PROVE  SoundInv'
    <3>1. fs \in FileSystems /\ InodeOf(R!From(inodes[fs][num]), fs, inodes)
      BY <1>1, <1>2, <2>2, GetInode, Zenon DEF TablesOK, Has
    <3> HIDE DEF fs, num
    <3>2. d \in Places /\ d # Dst
      BY <1>1, <1>2, Zenon
    <3>3. /\ ino[d] = R!From(inodes[fs][num])
          /\ \A x \in Places : x # d => ino[x] = copy[x]
      BY <1>2, <3>2
    <3>4. Store(entries, mounts, held, dentries, ino)
      BY <2>2, Zenon
    <3> HIDE DEF ino
    <3>5. ino[Dst] = copy[Dst]
      BY <1>2, <3>2, <3>3, Zenon
    <3>6. \A x \in used : Has(x, dentries, ino, inodes')
      BY <1>1, <1>2, <2>2, <3>1, <3>3, Zenon DEF Has, fs
    <3>7. ino[Dst] # NoInode => \E g \in FileSystems : InodeOf(ino[Dst], g, inodes')
      BY <1>1, <2>2, <3>5, Zenon
    <3>8. TablesOK(inodes')
      BY <1>2, <2>2, Zenon
    <3> QED
      BY <1>2, <3>4, <3>6, <3>7, <3>8, StoreFacts, Zenon
  <2> QED
    BY <1>4, <2>1, <2>2, Zenon DEF reload
<1> QED
  BY <1>3, <1>4, Zenon

(* The callers' use of the file systems changes tables and inodes only.    *)
LEMMA ElsewhereSound ==
  ASSUME SoundInv, Elsewhere, TablesOK(inodes'), DOMAIN copy' = Places,
         copy'[Dst] # NoInode => \E f \in FileSystems : InodeOf(copy'[Dst], f, inodes'),
         \A d \in Used(entries, mounts, held) : InodeOf(copy'[d], dentries[d], inodes'),
         \A d \in DEntries \ Used(entries, mounts, held) : copy'[d] = copy[d]
  PROVE  SoundInv'
<1>1. entries' = entries /\ dentries' = dentries /\ mounts' = mounts /\ held' = held
  BY DEF Elsewhere
<1>2. Used(entries, mounts, held)' = Used(entries, mounts, held)
  BY <1>1, Zenon DEF Used
<1>3. NamedBy(entries)'
  BY <1>1, Zenon DEF SoundInv, NamedBy
<1>4. ASSUME NEW d \in DEntries
      PROVE  IF d \in Used(entries, mounts, held) THEN Has(d, dentries', copy', inodes')
             ELSE dentries'[d] = NoFs /\ copy'[d] = NoInode
  BY <1>1, Zenon DEF SoundInv, Has
<1> QED
  BY <1>1, <1>2, <1>3, <1>4, Zenon DEF SoundInv

(* create_inode.                                                           *)
LEMMA CreateInodeSound ==
  ASSUME SoundInv, NEW f \in FileSystems, create_inode(f)
  PROVE  SoundInv'
<1> DEFINE c == R!count(f)
           new == R!Inode(c, "none", <<f, c>>)
           used == Used(entries, mounts, held)
<1>1. /\ Elsewhere /\ c < MaxInodes
      /\ inodes' = [inodes EXCEPT ![f] = R!Insert(f, "none")]
      /\ copy' = [copy EXCEPT ![Dst] = R!From(new)]
  BY Zenon DEF create_inode, R!create_inode
<1>2. "none" \in R!Modes
  BY DEF R!Modes
<1>3. /\ TablesOK(inodes') /\ c \in DOMAIN inodes'[f] /\ inodes'[f][c] = new
      /\ \A g \in FileSystems : DOMAIN inodes[g] \subseteq DOMAIN inodes'[g]
  <2>1. TablesOK(inodes)
    BY Zenon DEF SoundInv
  <2> QED
    BY <1>1, <1>2, <2>1, InsertInode, Zenon
<1>4. InodeOf(R!From(new), f, inodes')
  <2>1. InodeOf(R!From(inodes'[f][c]), f, inodes')
    BY <1>3, GetInode, Zenon DEF TablesOK
  <2> QED
    BY <1>3, <2>1, Zenon
<1>5. /\ used \subseteq DEntries /\ Dst \notin DEntries
      /\ \A d \in used : Has(d, dentries, copy, inodes')
  BY <1>3, UsedSound, Zenon
<1> HIDE DEF new, used
<1>6. DOMAIN copy = Places /\ DEntries \subseteq Places /\ Dst \in Places
  BY Zenon DEF SoundInv, Places
<1>7. /\ DOMAIN copy' = Places /\ copy'[Dst] = R!From(new)
      /\ \A d \in DEntries : copy'[d] = copy[d]
  BY <1>1, <1>5, <1>6
<1>8. \A d \in used : InodeOf(copy'[d], dentries[d], inodes')
  BY <1>5, <1>7, Zenon DEF Has
<1> QED
  BY <1>1, <1>3, <1>4, <1>7, <1>8, ElsewhereSound, Zenon DEF used

(* create and mkdir: the private inodes keep number and Arc.               *)
LEMMA CreateSound ==
  ASSUME SoundInv, NEW p \in held, NEW name, create(p, name) \/ mkdir(p, name)
  PROVE  SoundInv'
<1> DEFINE used == Used(entries, mounts, held)
<1>1. PICK mode \in {"file", "dir"} : R!Update(Dst, p, name, mode) /\ Elsewhere
  BY Zenon DEF create, mkdir, R!create, R!mkdir
<1>2. copy[Dst] # NoInode /\ inodes' = inodes
  BY <1>1, Zenon DEF R!Update, R!add_dir_entry
<1> DEFINE src == copy[Dst].private
           to == [src EXCEPT !.mode = mode]
           at == copy[p].private
<1>3. \/ copy' = copy
      \/ copy' = [copy EXCEPT ![Dst] = R!From(to), ![p] = R!From(at)]
  BY <1>1, Zenon DEF R!Update
<1>4. /\ used \subseteq DEntries /\ Dst \notin DEntries /\ p \in used
      /\ \A d \in used : Has(d, dentries, copy, inodes)
  BY UsedSound, Zenon
<1>5. /\ DOMAIN copy = Places /\ DEntries \subseteq Places /\ Dst \in Places
      /\ TablesOK(inodes)
  BY Zenon DEF SoundInv, Places
<1>6. PICK f \in FileSystems : InodeOf(copy[Dst], f, inodes)
  BY <1>2, Zenon DEF SoundInv
<1>7. InodeOf(R!From(to), f, inodes)
  <2>1. src \in R!Private /\ src.arc = <<f, src.num>> /\ src.num \in DOMAIN inodes[f]
    BY <1>6, Zenon DEF InodeOf
  <2>2. mode \in R!Modes
    BY <1>1 DEF R!Modes
  <2> HIDE DEF src
  <2>3. to \in R!Private /\ to.num = src.num /\ to.arc = src.arc
    BY <2>1, <2>2 DEF R!Private
  <2> HIDE DEF to
  <2> QED
    BY <2>1, <2>3, FromFacts, Zenon DEF InodeOf
<1>8. InodeOf(R!From(at), dentries[p], inodes)
  BY <1>4, FromFacts, Zenon DEF Has, InodeOf
<1> HIDE DEF to, at, used
<1>9. CASE copy' = copy
  <2>1. \A d \in used : InodeOf(copy'[d], dentries[d], inodes')
    BY <1>2, <1>4, <1>9, Zenon DEF Has
  <2> QED
    BY <1>1, <1>2, <1>5, <1>6, <1>9, <2>1, ElsewhereSound, Zenon DEF used
<1>10. CASE copy' = [copy EXCEPT ![Dst] = R!From(to), ![p] = R!From(at)]
  <2>1. p # Dst /\ p \in Places
    BY <1>4, <1>5, Zenon
  <2>2. /\ DOMAIN copy' = Places /\ copy'[Dst] = R!From(to) /\ copy'[p] = R!From(at)
        /\ \A x \in Places : x # Dst /\ x # p => copy'[x] = copy[x]
    BY <1>5, <1>10, <2>1
  <2>3. \A d \in used : InodeOf(copy'[d], dentries[d], inodes')
    BY <1>2, <1>4, <1>5, <1>8, <2>2, Zenon DEF Has
  <2>4. \A d \in DEntries \ used : copy'[d] = copy[d]
    BY <1>4, <1>5, <2>2, Zenon
  <2>5. InodeOf(copy'[Dst], f, inodes') /\ TablesOK(inodes')
    BY <1>2, <1>5, <1>7, <2>2, Zenon
  <2> QED
    BY <1>1, <2>2, <2>3, <2>4, <2>5, ElsewhereSound, Zenon DEF used
<1> QED
  BY <1>3, <1>9, <1>10, Zenon

(* write_inode puts an inode of the table in its own place.                *)
LEMMA WriteSound ==
  ASSUME SoundInv, NEW h \in held \cup {Dst}, write_inode(h)
  PROVE  SoundInv'
<1> DEFINE used == Used(entries, mounts, held)
           p == copy[h].private
           f == p.arc[1]
<1>1. /\ copy[h] # NoInode /\ copy' = copy /\ Elsewhere
      /\ \/ inodes' = [inodes EXCEPT ![f][p.num] = p]
         \/ inodes' = inodes
  BY Zenon DEF write_inode, R!write_inode
<1>2. /\ used \subseteq DEntries /\ held \subseteq used
      /\ \A d \in used : Has(d, dentries, copy, inodes)
      /\ copy[Dst] # NoInode => \E g \in FileSystems : InodeOf(copy[Dst], g, inodes)
  BY UsedSound, Zenon
<1>3. TablesOK(inodes) /\ DOMAIN copy = Places
  BY Zenon DEF SoundInv
<1>4. PICK g \in FileSystems : InodeOf(copy[h], g, inodes)
  BY <1>1, <1>2, Zenon DEF Has
<1>5. p \in R!Private /\ p.arc = <<g, p.num>> /\ p.num \in DOMAIN inodes[g]
  BY <1>4, Zenon DEF InodeOf
<1>6. f = g
  BY <1>5
<1> HIDE DEF p, f
<1>7. ASSUME inodes' = [inodes EXCEPT ![f][p.num] = p]
      PROVE  /\ TablesOK(inodes')
             /\ \A x \in FileSystems : DOMAIN inodes[x] \subseteq DOMAIN inodes'[x]
  <2>1. DOMAIN inodes = FileSystems /\ \A x \in FileSystems : TableOK(x, inodes)
    BY <1>3, Zenon DEF TablesOK
  <2>2. /\ DOMAIN inodes' = FileSystems
        /\ \A x \in FileSystems : x # g => inodes'[x] = inodes[x]
        /\ inodes'[g] = [inodes[g] EXCEPT ![p.num] = p]
    BY <1>6, <1>7, <2>1
  <2>3. /\ DOMAIN inodes'[g] = DOMAIN inodes[g] /\ inodes'[g][p.num] = p
        /\ \A n \in DOMAIN inodes[g] : n # p.num => inodes'[g][n] = inodes[g][n]
    BY <1>5, <2>2
  <2>4. PICK c \in 0..MaxInodes :
          /\ DOMAIN inodes[g] = 0..(c - 1)
          /\ \A n \in 0..(c - 1) :
               /\ inodes[g][n] \in R!Private /\ inodes[g][n].num = n
               /\ inodes[g][n].arc = <<g, n>>
    BY <2>1, Zenon DEF TableOK
  <2>5. \A n \in 0..(c - 1) :
          /\ inodes'[g][n] \in R!Private /\ inodes'[g][n].num = n
          /\ inodes'[g][n].arc = <<g, n>>
    BY <1>5, <2>3, <2>4, Zenon
  <2>6. TableOK(g, inodes')
    BY <2>3, <2>4, <2>5, Zenon DEF TableOK
  <2>7. ASSUME NEW x \in FileSystems, x # g PROVE TableOK(x, inodes')
    <3>1. inodes'[x] = inodes[x] /\ TableOK(x, inodes)
      BY <2>1, <2>2, <2>7, Zenon
    <3> QED
      BY <3>1, Zenon DEF TableOK
  <2> QED
    BY <2>2, <2>3, <2>6, <2>7, Zenon DEF TablesOK
<1>8. /\ TablesOK(inodes')
      /\ \A x \in FileSystems : DOMAIN inodes[x] \subseteq DOMAIN inodes'[x]
  BY <1>1, <1>3, <1>7, Zenon
<1>9. /\ \A d \in used : Has(d, dentries, copy, inodes')
      /\ copy[Dst] # NoInode => \E x \in FileSystems : InodeOf(copy[Dst], x, inodes')
  BY <1>8, UsedSound, Zenon
<1> QED
  BY <1>1, <1>3, <1>8, <1>9, ElsewhereSound, Zenon DEF Has

(* Every step keeps the DEntries in use sound.                             *)
LEMMA SoundStep ==
  ASSUME CacheInv, SoundInv, [Next]_vars
  PROVE  SoundInv'
<1>1. ASSUME NEW keep, keep \subseteq DOMAIN entries, Retain(keep) PROVE SoundInv'
  BY <1>1, RetainSound, Zenon
<1>2. ASSUME NEW path, delete(path) PROVE SoundInv'
  <2>1. DOMAIN entries \ {path} \subseteq DOMAIN entries
    OBVIOUS
  <2> QED
    BY <1>1, <1>2, <2>1, Zenon DEF delete
<1>3. ASSUME NEW num, delete_inode(num) PROVE SoundInv'
  <2>1. {k \in DOMAIN entries : copy[entries[k].dentry].num # num} \subseteq DOMAIN entries
    OBVIOUS
  <2> QED
    BY <1>1, <1>3, <2>1, Zenon DEF delete_inode
<1>4. ASSUME unmount PROVE SoundInv'
  BY <1>1, <1>4, Zenon DEF unmount
<1>5. ASSUME Tick PROVE SoundInv'
  <2>1. UNCHANGED <<inodes, copy, entries, dentries, mounts, held>>
    BY <1>5 DEF Tick, fsVars
  <2> QED
    BY <2>1, SameSound, Zenon
<1>6. ASSUME UNCHANGED vars PROVE SoundInv'
  <2>1. UNCHANGED <<inodes, copy, entries, dentries, mounts, held>>
    BY <1>6 DEF vars
  <2> QED
    BY <2>1, SameSound, Zenon
<1> QED
  BY <1>2, <1>3, <1>4, <1>5, <1>6, MountsSound, GetSound, HeldSound, CreateInodeSound,
     CreateSound, WriteSound, Zenon DEF Next, Halted

(* No DEntry is alive, and no file system mounted, at the start.           *)
LEMMA SoundInit ==
  ASSUME Init
  PROVE  SoundInv
<1>1. /\ inodes = [f \in FileSystems |-> <<>>] /\ copy = [h \in Places |-> NoInode]
      /\ entries = <<>> /\ dentries = [d \in DEntries |-> NoFs] /\ mounts = {} /\ held = {}
  BY Zenon DEF Init, R!Init
<1>2. TablesOK(inodes)
  <2>1. DOMAIN <<>> = 0..(0 - 1) /\ 0 \in 0..MaxInodes /\ \A n \in 0..(0 - 1) : FALSE
    BY FsAssumption DEF R!RamFsAssumption
  <2>2. DOMAIN inodes = FileSystems /\ \A f \in FileSystems : inodes[f] = <<>>
    BY <1>1, Zenon
  <2>3. \A f \in FileSystems : DOMAIN inodes[f] = 0..(0 - 1)
    BY <2>1, <2>2, Zenon
  <2> QED
    BY <2>1, <2>2, <2>3, Zenon DEF TablesOK, TableOK
<1>3. DOMAIN entries = {}
  BY <1>1
<1>4. Used(entries, mounts, held) = {}
  BY <1>1, <1>3, Zenon DEF Used
<1>5. Dst \in Places /\ DEntries \subseteq Places
  BY Zenon DEF Places
<1>6. /\ DOMAIN dentries = DEntries /\ DOMAIN copy = Places /\ copy[Dst] = NoInode
      /\ \A d \in DEntries : dentries[d] = NoFs /\ copy[d] = NoInode
  BY <1>1, <1>5, Zenon
<1> QED
  BY <1>1, <1>2, <1>3, <1>4, <1>6, Zenon DEF SoundInv, NamedBy

-----------------------------------------------------------------------------
(* The blocks of the directories.                                          *)

SlotEntry == [inode : 0..(MaxInodes - 1), name : FileNames \cup DirNames \cup {NoName}]
Block == [1..EntriesPerBlock -> SlotEntry]
BlocksOK == blocks \in [R!Arcs -> Seq(Block)]

(* An entry that is appended leaves blocks of entries.                     *)
LEMMA AppendOK ==
  ASSUME NEW bs \in Seq(Block), NEW entry \in SlotEntry
  PROVE  R!append_dir_entry(bs, entry) \in Seq(Block)
<1> DEFINE added == [s \in 1..EntriesPerBlock |-> IF s = 1 THEN entry ELSE R!FreeSlot]
<1>1. \/ \E k, s : R!append_dir_entry(bs, entry) = [bs EXCEPT ![k][s] = entry]
      \/ R!append_dir_entry(bs, entry) = Append(bs, added)
  BY Zenon DEF R!append_dir_entry
<1>2. ASSUME NEW k, NEW s PROVE [bs EXCEPT ![k][s] = entry] \in Seq(Block)
  <2> DEFINE filled == [bs[k] EXCEPT ![s] = entry]
             new == [bs EXCEPT ![k] = filled]
  <2>1. k \in DOMAIN bs => bs[k] \in Block
    OBVIOUS
  <2>2. k \in DOMAIN bs => filled \in Block
    BY <2>1, Zenon DEF Block
  <2> HIDE DEF filled
  <2>3. bs \in [1..Len(bs) -> Block] /\ Len(bs) \in Nat /\ DOMAIN bs = 1..Len(bs)
    OBVIOUS
  <2>4. new \in [1..Len(bs) -> Block]
    BY <2>2, <2>3, Zenon
  <2>5. new \in Seq(Block)
    BY <2>3, <2>4, SMT
  <2> QED
    BY <2>5 DEF filled
<1>3. Append(bs, added) \in Seq(Block)
  <2>1. R!FreeSlot \in SlotEntry
    BY FsAssumption DEF R!FreeSlot, SlotEntry, R!RamFsAssumption
  <2>2. added \in Block
    BY <2>1 DEF Block
  <2> QED
    BY <2>2
<1>4. CASE R!append_dir_entry(bs, entry) = Append(bs, added)
  BY <1>3, <1>4, Zenon
<1>5. ASSUME NEW k, NEW s, R!append_dir_entry(bs, entry) = [bs EXCEPT ![k][s] = entry]
      PROVE  R!append_dir_entry(bs, entry) \in Seq(Block)
  <2>1. [bs EXCEPT ![k][s] = entry] \in Seq(Block)
    BY <1>2, Zenon
  <2> QED
    BY <1>5, <2>1
<1> QED
  BY <1>1, <1>4, <1>5, Zenon

(* create and mkdir append an entry to the blocks of a directory.          *)
LEMMA CreateBlocks ==
  ASSUME SoundInv, BlocksOK, NEW p \in held, NEW name \in FileNames \cup DirNames,
         create(p, name) \/ mkdir(p, name)
  PROVE  BlocksOK'
<1> DEFINE arc == copy[p].private.arc
           num == copy[Dst].num
           entry == R!DirEntry(num, name)
<1>1. \E mode : R!Update(Dst, p, name, mode)
  BY Zenon DEF create, mkdir, R!create, R!mkdir
<1>2. /\ copy[Dst] # NoInode
      /\ \/ blocks' = blocks
         \/ blocks' = [blocks EXCEPT ![arc] = R!append_dir_entry(@, entry)]
  BY <1>1, Zenon DEF R!Update, R!add_dir_entry
<1>3. arc \in R!Arcs
  <2>1. copy[p].private \in R!Private
    BY UsedSound, Zenon DEF Has, InodeOf
  <2> QED
    BY <2>1 DEF R!Private
<1>4. num \in 0..(MaxInodes - 1)
  <2>1. copy[Dst].private \in R!Private /\ copy[Dst] = R!From(copy[Dst].private)
    BY <1>2, Zenon DEF SoundInv, InodeOf
  <2>2. num = copy[Dst].private.num
    BY <2>1, FromFacts, Zenon
  <2> QED
    BY <2>1, <2>2 DEF R!Private
<1>5. entry \in SlotEntry
  BY <1>4, FsAssumption
     DEF R!DirEntry, R!FreeSlot, SlotEntry, R!RamFsAssumption
<1> HIDE DEF arc, num, entry
<1>6. ASSUME blocks' = [blocks EXCEPT ![arc] = R!append_dir_entry(@, entry)]
      PROVE  blocks' \in [R!Arcs -> Seq(Block)]
  <2>1. blocks[arc] \in Seq(Block)
    BY <1>3 DEF BlocksOK
  <2>2. R!append_dir_entry(blocks[arc], entry) \in Seq(Block)
    BY <1>5, <2>1, AppendOK, Zenon
  <2> QED
    BY <1>3, <1>6, <2>2 DEF BlocksOK
<1> QED
  BY <1>2, <1>6 DEF BlocksOK

(* No other call changes a directory.                                      *)
LEMMA BlocksStep ==
  ASSUME SoundInv, BlocksOK, [Next]_vars
  PROVE  BlocksOK'
<1>1. CASE blocks' = blocks
  BY <1>1 DEF BlocksOK
<1>2. \A es, ms, hs, ds, ino : Store(es, ms, hs, ds, ino) => blocks' = blocks
  BY DEF Store
<1>3. ASSUME NEW f, mount_root(f) \/ create_inode(f) \/ \E d : mount_dest(f, d)
      PROVE  blocks' = blocks
  BY <1>2, <1>3, Zenon DEF mount_root, mount_dest, create_inode, R!create_inode
<1>4. ASSUME NEW path, get(path) PROVE blocks' = blocks
  <2>1. CASE UNCHANGED <<inodes, blocks, copy, entries, dentries, mounts, held, ticks>>
    BY <2>1
  <2> QED
    BY <1>2, <1>4, <2>1, Zenon DEF get
<1>5. ASSUME NEW d, Drop(d) \/ reload(d) PROVE blocks' = blocks
  BY <1>2, <1>5, Zenon DEF Drop, reload, Retain
<1>6. ASSUME NEW h, write_inode(h) PROVE blocks' = blocks
  <2>1. R!write_inode(copy[h].private.arc[1], h)
    BY <1>6, Zenon DEF write_inode
  <2> QED
    BY <2>1 DEF R!write_inode
<1>7. ASSUME NEW x, delete(x) \/ delete_inode(x) \/ unmount PROVE blocks' = blocks
  BY <1>2, <1>7, Zenon DEF delete, delete_inode, unmount, Retain
<1>8. ASSUME Tick \/ UNCHANGED vars PROVE blocks' = blocks
  BY <1>8 DEF Tick, fsVars, vars
<1>9. ASSUME NEW d \in held, NEW name \in FileNames \cup DirNames,
             create(d, name) \/ mkdir(d, name)
      PROVE  BlocksOK'
  BY <1>9, CreateBlocks, Zenon
<1> QED
  BY <1>1, <1>3, <1>4, <1>5, <1>6, <1>7, <1>8, <1>9, Zenon DEF Next, Halted

(* The invariant has what TypeOK and EntriesSound say.                     *)
LEMMA SoundTypes ==
  ASSUME CacheInv, SoundInv, BlocksOK
  PROVE  TypeOK
<1>1. \A f \in FileSystems : \A n \in DOMAIN inodes[f] :
        inodes[f][n] \in R!Private /\ inodes[f][n].num = n
  BY Zenon DEF SoundInv, TablesOK, TableOK
<1>2. ASSUME NEW a \in R!Arcs, NEW k \in DOMAIN blocks[a]
      PROVE  /\ DOMAIN blocks[a][k] = 1..EntriesPerBlock
             /\ \A s \in DOMAIN blocks[a][k] :
                  /\ blocks[a][k][s].inode \in 0..(MaxInodes - 1)
                  /\ blocks[a][k][s].name \in (FileNames \cup DirNames) \cup {NoName}
  <2>1. blocks[a] \in Seq(Block)
    BY <1>2, Zenon DEF BlocksOK
  <2>2. blocks[a][k] \in Block
    BY <1>2, <2>1
  <2> QED
    BY <2>2, Zenon DEF Block, SlotEntry
<1>3. /\ Used(entries, mounts, held) \subseteq DEntries
      /\ \A d \in Used(entries, mounts, held) : Has(d, dentries, copy, inodes)
      /\ copy[Dst] # NoInode => \E f \in FileSystems : InodeOf(copy[Dst], f, inodes)
  BY UsedSound, Zenon
<1>4. \A c, f : InodeOf(c, f, inodes) =>
        /\ c # NoInode /\ c.private \in R!Private
        /\ c.num = c.private.num /\ c.mode = c.private.mode
  BY FromFacts, Zenon DEF InodeOf
<1>5. \A q \in R!Private : q.mode \in R!Modes
  BY DEF R!Private
<1>6. ASSUME NEW h \in Places, copy[h] # NoInode
      PROVE  \E f : InodeOf(copy[h], f, inodes)
  BY <1>3, <1>6, Zenon DEF Places, SoundInv, Has
<1>7. R!TypeOK
  <2>1. \A h \in Places : copy[h] # NoInode =>
          /\ copy[h].private \in R!Private
          /\ copy[h].num = copy[h].private.num
          /\ copy[h].mode \in R!Modes
    BY <1>4, <1>5, <1>6, Zenon
  <2> QED
    BY <1>1, <1>2, <2>1, Zenon DEF R!TypeOK
<1>8. \A k \in DOMAIN entries : entries[k].dentry \in DEntries /\ entries[k].last \in 0..ticks
  <2>1. \A k \in DOMAIN entries : entries[k].last \in Nat /\ entries[k].last <= ticks
    BY Zenon DEF CacheInv, CacheOK
  <2>2. ticks \in Nat
    BY Zenon DEF CacheInv
  <2>3. \A t \in Nat : t <= ticks => t \in 0..ticks
    BY <2>2
  <2> QED
    BY <2>1, <2>3, Zenon DEF SoundInv, NamedBy
<1>9. \A d \in DEntries :
        IF d \in Used(entries, mounts, held)
        THEN dentries[d] \in FileSystems /\ copy[d] # NoInode
        ELSE dentries[d] = NoFs /\ copy[d] = NoInode
  BY <1>3, <1>4, Zenon DEF SoundInv, Has
<1> QED
  BY <1>7, <1>8, <1>9, Zenon DEF TypeOK, SoundInv

(* The cache, its DEntries and the directories below stay as they should.  *)
THEOREM SoundInvariant == Spec => [](CacheInv /\ SoundInv /\ BlocksOK)
<1>1. Init => SoundInv /\ BlocksOK
  <2> SUFFICES ASSUME Init PROVE SoundInv /\ BlocksOK
    OBVIOUS
  <2>1. blocks = [a \in R!Arcs |-> <<>>]
    BY Zenon DEF Init, R!Init
  <2>2. BlocksOK
    BY <2>1 DEF BlocksOK
  <2> QED
    BY <2>2, SoundInit, Zenon
<1>2. CacheInv /\ SoundInv /\ BlocksOK /\ [Next]_vars => SoundInv' /\ BlocksOK'
  BY SoundStep, BlocksStep, Zenon
<1> QED
  BY <1>1, <1>2, CacheInvariant, PTL DEF Spec

(* dentry.rs and mount.rs: whatever is looked up, mounted, reloaded,       *)
(* evicted and forgotten, a DEntry is cached under its own name, its inode *)
(* is one of its own file system and in the table, the cache has no more   *)
(* entries than there is room for, and a DEntry is alive as long as the    *)
(* cache, the mount table or a caller uses it.                             *)
THEOREM CacheStaysSound == Spec => []EntriesSound
<1>1. CacheInv /\ SoundInv /\ BlocksOK /\ CacheBounded => EntriesSound
  <2> SUFFICES ASSUME CacheInv, SoundInv, BlocksOK, CacheBounded PROVE EntriesSound
    OBVIOUS
  <2>1. TypeOK
    BY SoundTypes, Zenon
  <2>2. ASSUME NEW k \in DOMAIN entries, NEW d, d = entries[k].dentry
        PROVE  /\ d[1] = k
               /\ copy[d].private.arc[1] = dentries[d]
               /\ copy[d].num \in DOMAIN inodes[dentries[d]]
    <3>1. d[1] = k
      BY <2>2, Zenon DEF SoundInv, NamedBy
    <3>2. d \in Used(entries, mounts, held)
      BY <2>2, Zenon DEF Used
    <3>3. InodeOf(copy[d], dentries[d], inodes)
      BY <3>2, UsedSound, Zenon DEF Has
    <3>4. /\ copy[d].private.arc = <<dentries[d], copy[d].private.num>>
          /\ copy[d].num = copy[d].private.num
          /\ copy[d].private.num \in DOMAIN inodes[dentries[d]]
      BY <3>3, FromFacts, Zenon DEF InodeOf
    <3> QED
      BY <3>1, <3>4
  <2> QED
    BY <2>1, <2>2, Zenon DEF EntriesSound
<1> QED
  BY <1>1, SoundInvariant, OutgrownOnlyByMounts, PTL
=============================================================================
