----------------------------- MODULE RamFsProofs ----------------------------
(***************************************************************************)
(* The RAM file system for any number of inodes, names, callers and slots  *)
(* of a block (module RamFs): a directory never lists a name twice, keeps  *)
(* what it lists, and an entry names an inode of the table.                *)
(***************************************************************************)
EXTENDS RamFs, FiniteSetTheorems, SequenceTheorems, WellFoundedInduction, TLAPS

(* A non-empty set of naturals has a least element.                        *)
LEMMA LeastNat ==
  ASSUME NEW S \in SUBSET Nat, S # {}
  PROVE  \E n \in S : \A m \in S : n <= m
<1> DEFINE less == OpToRel(<, Nat)
<1>1. \E x \in S : \A y \in S : ~ (<<y, x>> \in less)
  BY NatLessThanWellFounded, WFMin
<1>2. \A x, y \in Nat : x < y => <<x, y>> \in less
  BY DEF OpToRel
<1>3. \E x \in S : \A y \in S : ~ (y < x)
  BY <1>1, <1>2, Zenon
<1> QED
  BY <1>3

Numbers == 0..(MaxInodes - 1)
Slots == 1..EntriesPerBlock

SlotEntry == [inode : Numbers, name : Names \cup {NoName}]
Block == [Slots -> SlotEntry]

VfsInode == [num : Numbers, mode : Modes, private : Private]

(* The table of file system f holds the inodes below some number.          *)
TableOK(f) ==
  \E c \in 0..MaxInodes :
     /\ inodes[f] \in [0..(c - 1) -> Private]
     /\ \A n \in 0..(c - 1) : inodes[f][n].num = n

CopyOK(h) ==
  copy[h] # NoInode => copy[h] \in VfsInode /\ copy[h].num = copy[h].private.num

Typed ==
  /\ DOMAIN inodes = FileSystems /\ \A f \in FileSystems : TableOK(f)
  /\ blocks \in [Arcs -> Seq(Block)]
  /\ DOMAIN copy = Handles /\ \A h \in Handles : CopyOK(h)

(* File systems share the type of their inodes, and no operation asks of   *)
(* which one an inode is: with two of them an entry can have the number of *)
(* an inode of the other.                                                  *)
OneFileSystem == \A f, g \in FileSystems : f = g

(* What a caller holds and what a directory lists is in every table.       *)
Registered ==
  /\ \A h \in Handles, f \in FileSystems :
        copy[h] # NoInode => copy[h].num \in DOMAIN inodes[f]
  /\ \A a \in Arcs, f \in FileSystems : \A e \in Listing(a) :
        e.inode \in DOMAIN inodes[f]

-----------------------------------------------------------------------------
(* Operators.                                                              *)

(* Min picks the least of a set of naturals.                               *)
LEMMA MinFacts ==
  ASSUME NEW S \in SUBSET Nat, S # {}
  PROVE  Min(S) \in S
<1>1. \E x \in S : \A y \in S : x <= y
  BY LeastNat, Zenon
<1> QED
  BY <1>1, Zenon DEF Min

(* Max picks the greatest of a bounded set of naturals.                    *)
LEMMA MaxFacts ==
  ASSUME NEW n \in Nat, NEW S \in SUBSET (1..n), S # {}
  PROVE  Max(S) \in S
<1> DEFINE T == {m \in Nat : \A x \in S : x <= m}
<1>1. n \in T
  OBVIOUS
<1>2. PICK m \in T : \A k \in T : m <= k
  <2>1. T \in SUBSET Nat /\ T # {}
    BY <1>1
  <2> HIDE DEF T
  <2> QED
    BY <2>1, LeastNat, Zenon
<1>3. m \in S
  <2> SUFFICES ASSUME m \notin S PROVE FALSE
    OBVIOUS
  <2>1. \A x \in S : x \in Nat /\ x >= 1 /\ x <= m - 1
    BY <1>2
  <2>2. m - 1 \in T
    <3>1. PICK x \in S : TRUE
      BY Zenon
    <3>2. m \in Nat /\ m >= 1
      BY <2>1, <3>1, <1>2
    <3> QED
      BY <2>1, <3>2
  <2> QED
    BY <1>2, <2>2
<1>4. \E x \in S : \A y \in S : x >= y
  <2>1. \A y \in S : m >= y
    BY <1>2
  <2> QED
    BY <1>3, <2>1, Zenon
<1> QED
  BY <1>4, Zenon DEF Max

(* SuperBlock.count: the inodes of a table have the numbers below it.      *)
LEMMA CountFacts ==
  ASSUME NEW f \in FileSystems, TableOK(f)
  PROVE  /\ count(f) \in 0..MaxInodes
         /\ inodes[f] \in [0..(count(f) - 1) -> Private]
         /\ \A n \in 0..(count(f) - 1) : inodes[f][n].num = n
         /\ ~ mounted(f) => count(f) = 0
<1>1. PICK c \in 0..MaxInodes :
        /\ inodes[f] \in [0..(c - 1) -> Private]
        /\ \A n \in 0..(c - 1) : inodes[f][n].num = n
  BY DEF TableOK
<1>2. MaxInodes \in Nat
  BY RamFsAssumption
<1>3. DOMAIN inodes[f] = 0..(c - 1)
  BY <1>1
<1>4. Cardinality(0..(c - 1)) = c
  <2>1. c \in Nat
    BY <1>2
  <2>2. Cardinality(0..(c - 1)) = IF 0 > c - 1 THEN 0 ELSE (c - 1) - 0 + 1
    BY <2>1, FS_Interval
  <2> QED
    BY <2>1, <2>2
<1>5. count(f) = c
  BY <1>3, <1>4 DEF count
<1>6. ASSUME inodes[f] = <<>> PROVE c = 0
  <2>1. DOMAIN inodes[f] = {}
    BY <1>6
  <2>2. c \in Nat /\ 0 \notin 0..(c - 1)
    BY <2>1, <1>3, <1>2
  <2> QED
    BY <2>2
<1> QED
  BY <1>1, <1>5, <1>6 DEF mounted

(* An entry goes to a slot of a known block that was free, or to a slot of *)
(* a new one; every other slot stays as it was, and those of a new block   *)
(* are free.                                                               *)
LEMMA AppendEntry ==
  ASSUME NEW bs \in Seq(Block), NEW entry \in SlotEntry
  PROVE  /\ append_dir_entry(bs, entry) \in Seq(Block)
         /\ Len(append_dir_entry(bs, entry)) >= Len(bs)
         /\ \E k \in 1..Len(append_dir_entry(bs, entry)), s \in Slots :
              /\ append_dir_entry(bs, entry)[k][s] = entry
              /\ k \in 1..Len(bs) => bs[k][s].inode = 0
              /\ \A j \in 1..Len(append_dir_entry(bs, entry)), r \in Slots :
                   j # k \/ r # s =>
                     append_dir_entry(bs, entry)[j][r] =
                       IF j \in 1..Len(bs) THEN bs[j][r] ELSE FreeSlot
<1> DEFINE opn == {k \in DOMAIN bs : FreeSlots(bs[k]) # {}}
           new == append_dir_entry(bs, entry)
<1>0. Len(bs) \in Nat /\ DOMAIN bs = 1..Len(bs) /\ \A k \in 1..Len(bs) : bs[k] \in Block
  BY LenProperties, ElementOfSeq
<1>1. CASE opn # {}
  <2> DEFINE k == Max(opn)
             s == Min(FreeSlots(bs[k]))
             b == [bs[k] EXCEPT ![s] = entry]
  <2>1. k \in opn
    <3>1. opn \in SUBSET (1..Len(bs))
      BY <1>0
    <3> HIDE DEF opn
    <3> QED
      BY <3>1, <1>0, <1>1, MaxFacts, Zenon
  <2>2. k \in 1..Len(bs) /\ FreeSlots(bs[k]) # {} /\ bs[k] \in Block
    BY <2>1, <1>0, Zenon
  <2>3. FreeSlots(bs[k]) \in SUBSET Slots
    BY <2>2, Zenon DEF FreeSlots, Block
  <2>4. s \in FreeSlots(bs[k])
    <3>1. Slots \in SUBSET Nat
      BY RamFsAssumption DEF Slots
    <3>2. FreeSlots(bs[k]) \in SUBSET Nat
      BY <2>3, <3>1, Zenon
    <3> QED
      BY <3>2, <2>2, MinFacts, Zenon
  <2>5. s \in Slots /\ bs[k][s].inode = 0
    BY <2>3, <2>4, Zenon DEF FreeSlots
  <2>6. new = [bs EXCEPT ![k] = b]
    BY <1>1, Zenon DEF append_dir_entry
  <2> HIDE DEF k, s, new
  <2>7. b \in Block /\ b[s] = entry /\ \A r \in Slots : r # s => b[r] = bs[k][r]
    BY <2>2, <2>5 DEF Block
  <2> HIDE DEF b
  <2>8. /\ new \in Seq(Block) /\ Len(new) = Len(bs)
        /\ \A j \in 1..Len(bs) : new[j] = IF j = k THEN b ELSE bs[j]
    BY <2>2, <2>6, <2>7, ExceptSeq
  <2>9. new[k][s] = entry
    BY <2>2, <2>7, <2>8
  <2>10. \A j \in 1..Len(bs), r \in Slots : j # k \/ r # s => new[j][r] = bs[j][r]
    BY <2>7, <2>8
  <2> QED
    BY <2>2, <2>5, <2>8, <2>9, <2>10, <1>0 DEF new
<1>2. CASE opn = {}
  <2> DEFINE b == [s \in Slots |-> IF s = 1 THEN entry ELSE FreeSlot]
             k == Len(bs) + 1
  <2>1. FreeSlot \in SlotEntry
    BY RamFsAssumption DEF FreeSlot, SlotEntry, Numbers
  <2>2. b \in Block
    BY <2>1 DEF Block
  <2>3. 1 \in Slots
    BY RamFsAssumption DEF Slots
  <2>4. b[1] = entry /\ \A r \in Slots : r # 1 => b[r] = FreeSlot
    BY <2>3
  <2>5. new = Append(bs, b)
    BY <1>2, Zenon DEF append_dir_entry, Slots
  <2> HIDE DEF b, new
  <2>6. /\ new \in Seq(Block) /\ Len(new) = Len(bs) + 1
        /\ \A j \in 1..Len(bs) : new[j] = bs[j]
        /\ new[k] = b
    BY <2>2, <2>5, AppendProperties
  <2>7. k \in 1..Len(new) /\ k \notin 1..Len(bs)
    BY <2>6, <1>0
  <2>8. \A j \in 1..Len(new) : j \in 1..Len(bs) \/ j = k
    BY <2>6, <1>0
  <2>9. new[k][1] = entry
    BY <2>4, <2>6
  <2>10. \A j \in 1..Len(new), r \in Slots :
           j # k \/ r # 1 => new[j][r] = IF j \in 1..Len(bs) THEN bs[j][r] ELSE FreeSlot
    BY <2>4, <2>6, <2>7, <2>8
  <2> QED
    BY <2>3, <2>6, <2>7, <2>9, <2>10, <1>0 DEF new
<1> QED
  BY <1>1, <1>2

(* What is listed in the blocks of a directory, and that no name is listed *)
(* twice.                                                                  *)
ListedIn(bs) ==
  {e \in UNION {{b[s] : s \in DOMAIN b} : b \in {bs[k] : k \in DOMAIN bs}} :
     e.inode # 0}

UniqueIn(bs) ==
  \A j, k \in 1..Len(bs), r, s \in Slots :
    /\ bs[j][r].inode # 0 /\ bs[k][s].inode # 0
    /\ bs[j][r].name = bs[k][s].name
    => j = k /\ r = s

(* Which entries of the blocks bs are listed.                              *)
LEMMA ListedFacts ==
  ASSUME NEW bs \in Seq(Block), NEW e
  PROVE  e \in ListedIn(bs) <=>
           \E k \in 1..Len(bs), s \in Slots : e = bs[k][s] /\ e.inode # 0
<1>1. DOMAIN bs = 1..Len(bs) /\ \A k \in 1..Len(bs) : bs[k] \in Block
  BY LenProperties, ElementOfSeq
<1>2. \A k \in 1..Len(bs) : DOMAIN bs[k] = Slots
  BY <1>1 DEF Block
<1>3. ASSUME e \in ListedIn(bs)
      PROVE  \E k \in 1..Len(bs), s \in Slots : e = bs[k][s] /\ e.inode # 0
  <2>1. PICK b \in {bs[k] : k \in DOMAIN bs} : \E s \in DOMAIN b : e = b[s]
    BY <1>3, Zenon DEF ListedIn
  <2>2. e.inode # 0
    BY <1>3, Zenon DEF ListedIn
  <2> QED
    BY <2>1, <2>2, <1>1, <1>2, Zenon
<1>4. ASSUME NEW k \in 1..Len(bs), NEW s \in Slots, e = bs[k][s], e.inode # 0
      PROVE  e \in ListedIn(bs)
  <2>1. bs[k] \in {bs[j] : j \in DOMAIN bs} /\ s \in DOMAIN bs[k]
    BY <1>1, <1>2, Zenon
  <2>2. e \in {bs[k][r] : r \in DOMAIN bs[k]}
    BY <2>1, <1>4, Zenon
  <2> QED
    BY <2>1, <2>2, <1>4 DEF ListedIn
<1> QED
  BY <1>3, <1>4, Zenon

(* Appending an entry lists it and nothing else besides what was listed.   *)
LEMMA AppendListed ==
  ASSUME NEW bs \in Seq(Block), NEW entry \in SlotEntry
  PROVE  LET new == append_dir_entry(bs, entry)
         IN  /\ new \in Seq(Block)
             /\ ListedIn(bs) \subseteq ListedIn(new)
             /\ ListedIn(new) \subseteq ListedIn(bs) \cup {entry}
             /\ entry.inode # 0 => entry \in ListedIn(new)
             /\ /\ UniqueIn(bs)
                /\ entry.inode # 0 => \A e \in ListedIn(bs) : e.name # entry.name
                => UniqueIn(new)
<1> DEFINE new == append_dir_entry(bs, entry)
           Slot(j, r) == IF j \in 1..Len(bs) THEN bs[j][r] ELSE FreeSlot
<1>1. new \in Seq(Block) /\ Len(new) >= Len(bs)
  BY AppendEntry
<1>2. PICK k \in 1..Len(new), s \in Slots :
        /\ new[k][s] = entry
        /\ k \in 1..Len(bs) => bs[k][s].inode = 0
        /\ \A j \in 1..Len(new), r \in Slots : j # k \/ r # s => new[j][r] = Slot(j, r)
  BY AppendEntry, Zenon
<1> HIDE DEF new
<1>3. Len(bs) \in Nat /\ Len(new) \in Nat
  BY <1>1, LenProperties
<1>4. \A j \in 1..Len(bs) : j \in 1..Len(new)
  BY <1>1, <1>3
<1>5. FreeSlot.inode = 0
  BY DEF FreeSlot
<1>6. ListedIn(bs) \subseteq ListedIn(new)
  <2> SUFFICES ASSUME NEW e \in ListedIn(bs) PROVE e \in ListedIn(new)
    OBVIOUS
  <2>1. PICK j \in 1..Len(bs), r \in Slots : e = bs[j][r] /\ e.inode # 0
    BY ListedFacts
  <2>2. j \in 1..Len(new) /\ (j # k \/ r # s)
    BY <2>1, <1>2, <1>4, Zenon
  <2>3. new[j][r] = bs[j][r]
    BY <2>2, <1>2
  <2> QED
    BY <2>1, <2>2, <2>3, <1>1, ListedFacts, Zenon
<1>7. ASSUME NEW j \in 1..Len(new), NEW r \in Slots, new[j][r].inode # 0, j # k \/ r # s
      PROVE  /\ j \in 1..Len(bs) /\ new[j][r] = bs[j][r]
             /\ new[j][r] \in ListedIn(bs)
  <2>1. new[j][r] = Slot(j, r)
    BY <1>7, <1>2
  <2>2. j \in 1..Len(bs) /\ new[j][r] = bs[j][r]
    BY <2>1, <1>5, <1>7, Zenon
  <2> QED
    BY <2>2, <1>7, ListedFacts
<1>8. ListedIn(new) \subseteq ListedIn(bs) \cup {entry}
  <2> SUFFICES ASSUME NEW e \in ListedIn(new), e # entry PROVE e \in ListedIn(bs)
    OBVIOUS
  <2>1. PICK j \in 1..Len(new), r \in Slots : e = new[j][r] /\ e.inode # 0
    BY <1>1, ListedFacts
  <2>2. j # k \/ r # s
    BY <2>1, <1>2
  <2> QED
    BY <2>1, <2>2, <1>7, Zenon
<1>9. entry.inode # 0 => entry \in ListedIn(new)
  BY <1>1, <1>2, ListedFacts, Zenon
<1>10. ASSUME UniqueIn(bs),
              entry.inode # 0 => \A e \in ListedIn(bs) : e.name # entry.name
       PROVE  UniqueIn(new)
  <2> SUFFICES ASSUME NEW i \in 1..Len(new), NEW j \in 1..Len(new),
                      NEW q \in Slots, NEW r \in Slots,
                      new[i][q].inode # 0, new[j][r].inode # 0,
                      new[i][q].name = new[j][r].name
               PROVE  i = j /\ q = r
    BY DEF UniqueIn
  <2>1. CASE (i # k \/ q # s) /\ (j # k \/ r # s)
    <3>1. i \in 1..Len(bs) /\ new[i][q] = bs[i][q]
      BY <2>1, <1>7, Zenon
    <3>2. j \in 1..Len(bs) /\ new[j][r] = bs[j][r]
      BY <2>1, <1>7, Zenon
    <3>3. /\ bs[i][q].inode # 0 /\ bs[j][r].inode # 0
          /\ bs[i][q].name = bs[j][r].name
      BY <3>1, <3>2
    <3> QED
      BY <3>1, <3>2, <3>3, <1>10, Zenon DEF UniqueIn
  <2>2. CASE i = k /\ q = s /\ (j # k \/ r # s)
    <3>1. new[j][r] \in ListedIn(bs)
      BY <2>2, <1>7, Zenon
    <3> QED
      BY <3>1, <2>2, <1>2, <1>10, Zenon
  <2>3. CASE (i # k \/ q # s) /\ j = k /\ r = s
    <3>1. new[i][q] \in ListedIn(bs)
      BY <2>3, <1>7, Zenon
    <3> QED
      BY <3>1, <2>3, <1>2, <1>10, Zenon
  <2> QED
    BY <2>1, <2>2, <2>3, Zenon
<1> QED
  BY <1>1, <1>6, <1>8, <1>9, <1>10 DEF new

(* NamesUnique and Listing in these terms.                                 *)
LEMMA InTermsOfBlocks ==
  ASSUME NEW a
  PROVE  Listing(a) = ListedIn(blocks[a]) /\ Listing(a)' = ListedIn(blocks'[a])
BY DEF Listing, ListedIn

-----------------------------------------------------------------------------
(* Types.                                                                  *)

(* The inductive invariant.                                                *)
RamInv == Typed /\ \A a \in Arcs : UniqueIn(blocks[a])

(* A step that enters `entry` in the directory behind `a`, which does not  *)
(* list its name.                                                          *)
AddsEntry(a, entry) ==
  /\ blocks' = [blocks EXCEPT ![a] = append_dir_entry(@, entry)]
  /\ entry.inode # 0 => \A e \in Listing(a) : e.name # entry.name

(* The vfs::Inode made of a private inode.                                 *)
LEMMA FromFacts ==
  ASSUME NEW private \in Private
  PROVE  From(private) \in VfsInode /\ From(private).num = From(private).private.num
BY DEF From, VfsInode, Private, Numbers

(* add_dir_entry changes nothing, or enters a name that was not listed.    *)
LEMMA AddFacts ==
  ASSUME Typed, NEW d \in Handles, NEW p \in Handles, NEW name \in Components,
         add_dir_entry(d, p, name)
  PROVE  \/ add_dir_entry_check(copy[p], name) # "Ok" /\ blocks' = blocks
         \/ /\ add_dir_entry_check(copy[p], name) = "Ok"
            /\ name \in Names /\ copy[p].private.arc \in Arcs
            /\ DirEntry(copy[d].num, name) \in SlotEntry
            /\ AddsEntry(copy[p].private.arc, DirEntry(copy[d].num, name))
<1> DEFINE a == copy[p].private.arc
           entry == DirEntry(copy[d].num, name)
<1>1. /\ copy[d] \in VfsInode /\ copy[p] \in VfsInode
  BY DEF add_dir_entry, Typed, CopyOK
<1>2. a \in Arcs /\ copy[d].num \in Numbers
  BY <1>1 DEF VfsInode, Private
<1>3. ASSUME add_dir_entry_check(copy[p], name) = "Ok"
      PROVE  /\ name \in Names /\ entry \in SlotEntry /\ AddsEntry(a, entry)
  <2>1. /\ name # BadName /\ name # LongName
        /\ name \notin {e.name : e \in Listing(a)}
    BY <1>3 DEF add_dir_entry_check
  <2>2. name \in Names
    BY <2>1 DEF Components
  <2>3. entry \in SlotEntry
    BY <1>2, <2>2, RamFsAssumption DEF DirEntry, FreeSlot, SlotEntry, Numbers
  <2>4. entry.inode # 0 => entry.name = name
    BY DEF DirEntry, FreeSlot
  <2>5. blocks' = [blocks EXCEPT ![a] = append_dir_entry(@, entry)]
    BY <1>3, Zenon DEF add_dir_entry
  <2>6. entry.inode # 0 => \A e \in Listing(a) : e.name # entry.name
    BY <2>1, <2>4, Zenon
  <2> QED
    BY <2>2, <2>3, <2>5, <2>6, Zenon DEF AddsEntry
<1>4. add_dir_entry_check(copy[p], name) # "Ok" => blocks' = blocks
  BY Zenon DEF add_dir_entry
<1> QED
  BY <1>2, <1>3, <1>4, Zenon

(* A step either leaves the directories as they are or enters a name in    *)
(* one of them.                                                            *)
LEMMA BlocksStep ==
  ASSUME Typed, [Next]_vars
  PROVE  \/ blocks' = blocks
         \/ \E d, p \in Handles, name \in Names :
              /\ copy[d] # NoInode /\ copy[p].private.arc \in Arcs
              /\ DirEntry(copy[d].num, name) \in SlotEntry
              /\ AddsEntry(copy[p].private.arc, DirEntry(copy[d].num, name))
<1>1. \/ blocks' = blocks
      \/ \E d, p \in Handles, name \in Components : add_dir_entry(d, p, name)
  <2>1. \A f \in FileSystems : init_super(f) \/ destroy_inode(f) => blocks' = blocks
    BY Zenon DEF init_super, destroy_inode
  <2>2. \A f \in FileSystems, h \in Handles :
          create_inode(f, h) \/ write_inode(f, h) => blocks' = blocks
    BY Zenon DEF create_inode, write_inode
  <2>3. \A f, h, n : get_inode(f, h, n) => blocks' = blocks
    BY Zenon DEF get_inode
  <2>4. \A d, p : unlink(d, p) => blocks' = blocks
    BY Zenon DEF unlink
  <2>5. \A d, p, name : create(d, p, name) \/ mkdir(d, p, name) \/ link(d, p, name)
                          => add_dir_entry(d, p, name)
    BY Zenon DEF create, mkdir, link, Update
  <2>6. \A d, p, name, fits : symlink(d, p, name, fits) => add_dir_entry(d, p, name)
    BY Zenon DEF symlink
  <2>7. Stopped \/ UNCHANGED vars => blocks' = blocks
    BY Zenon DEF Stopped, vars
  <2> QED
    BY <2>1, <2>2, <2>3, <2>4, <2>5, <2>6, <2>7, Zenon DEF Next
<1>2. ASSUME NEW d \in Handles, NEW p \in Handles, NEW name \in Components,
             add_dir_entry(d, p, name), blocks' # blocks
      PROVE  /\ name \in Names /\ copy[d] # NoInode /\ copy[p].private.arc \in Arcs
             /\ DirEntry(copy[d].num, name) \in SlotEntry
             /\ AddsEntry(copy[p].private.arc, DirEntry(copy[d].num, name))
  <2>1. copy[d] # NoInode
    BY <1>2, Zenon DEF add_dir_entry
  <2> QED
    BY <1>2, <2>1, AddFacts, Zenon
<1> QED
  BY <1>1, <1>2, Zenon

(* The blocks and listings after an entry has been added.                  *)
LEMMA AddedEntry ==
  ASSUME blocks \in [Arcs -> Seq(Block)], NEW a \in Arcs, NEW entry \in SlotEntry,
         AddsEntry(a, entry)
  PROVE  /\ blocks' \in [Arcs -> Seq(Block)]
         /\ \A x \in Arcs : Listing(x) \subseteq Listing(x)'
         /\ \A x \in Arcs : Listing(x)' \subseteq Listing(x) \cup {entry}
         /\ entry.inode # 0 => entry \in Listing(a)'
         /\ \A x \in Arcs : UniqueIn(blocks[x]) => UniqueIn(blocks'[x])
<1> DEFINE new == append_dir_entry(blocks[a], entry)
<1>1. blocks[a] \in Seq(Block)
  OBVIOUS
<1>2. /\ new \in Seq(Block)
      /\ ListedIn(blocks[a]) \subseteq ListedIn(new)
      /\ ListedIn(new) \subseteq ListedIn(blocks[a]) \cup {entry}
      /\ entry.inode # 0 => entry \in ListedIn(new)
      /\ /\ UniqueIn(blocks[a])
         /\ entry.inode # 0 => \A e \in ListedIn(blocks[a]) : e.name # entry.name
         => UniqueIn(new)
  BY <1>1, AppendListed, Zenon
<1>3. blocks' = [blocks EXCEPT ![a] = new]
  BY Zenon DEF AddsEntry
<1> HIDE DEF new
<1>4. blocks' \in [Arcs -> Seq(Block)]
  BY <1>2, <1>3
<1>5. blocks'[a] = new /\ \A x \in Arcs : x # a => blocks'[x] = blocks[x]
  BY <1>3
<1>6. \A x \in Arcs : Listing(x) = ListedIn(blocks[x]) /\ Listing(x)' = ListedIn(blocks'[x])
  BY InTermsOfBlocks, Zenon
<1>7. entry.inode # 0 => \A e \in ListedIn(blocks[a]) : e.name # entry.name
  BY <1>6, Zenon DEF AddsEntry
<1> QED
  BY <1>2, <1>4, <1>5, <1>6, <1>7, Zenon

(* The tables of a step that enters a new inode in one of them.            *)
LEMMA InsertFacts ==
  ASSUME Typed, NEW f \in FileSystems, count(f) < MaxInodes, NEW mode \in Modes,
         inodes' = [inodes EXCEPT ![f] = Insert(f, mode)]
  PROVE  /\ DOMAIN inodes' = FileSystems /\ \A g \in FileSystems : TableOK(g)'
         /\ \A g \in FileSystems : DOMAIN inodes[g] \subseteq DOMAIN inodes'[g]
         /\ count(f) \in DOMAIN inodes'[f] /\ <<f, count(f)>> \in Arcs
         /\ Inode(count(f), mode, <<f, count(f)>>) \in Private
<1> DEFINE c == count(f)
           new == Insert(f, mode)
<1>1. TableOK(f) /\ DOMAIN inodes = FileSystems
  BY DEF Typed
<1>2. /\ c \in 0..MaxInodes /\ inodes[f] \in [0..(c - 1) -> Private]
      /\ \A n \in 0..(c - 1) : inodes[f][n].num = n
  BY <1>1, CountFacts, Zenon
<1> HIDE DEF c
<1>3. c \in Nat /\ c < MaxInodes /\ MaxInodes \in Nat
  BY <1>2, RamFsAssumption DEF c
<1>4. <<f, c>> \in Arcs
  BY <1>3 DEF Arcs
<1>5. Inode(c, mode, <<f, c>>) \in Private /\ Inode(c, mode, <<f, c>>).num = c
  BY <1>3, <1>4 DEF Inode, Private
<1>6. new = [n \in 0..c |-> IF n = c THEN Inode(n, mode, <<f, n>>) ELSE inodes[f][n]]
  BY Zenon DEF Insert, c
<1> HIDE DEF new
<1>7. \A n \in 0..c : n = c \/ n \in 0..(c - 1)
  BY <1>3
<1>8. new \in [0..c -> Private] /\ \A n \in 0..c : new[n].num = n
  BY <1>2, <1>5, <1>6, <1>7
<1>9. inodes'[f] = new /\ DOMAIN inodes' = FileSystems
      /\ \A g \in FileSystems : g # f => inodes'[g] = inodes[g]
  BY <1>1 DEF new
<1>10. TableOK(f)'
  <2>1. c + 1 \in 0..MaxInodes /\ 0..c = 0..((c + 1) - 1)
    BY <1>3
  <2> QED
    BY <2>1, <1>8, <1>9, Zenon DEF TableOK
<1>11. \A g \in FileSystems : TableOK(g)'
  <2> SUFFICES ASSUME NEW g \in FileSystems, g # f PROVE TableOK(g)'
    BY <1>10
  <2> QED
    BY <1>9, Zenon DEF TableOK, Typed
<1>12. DOMAIN inodes[f] \subseteq DOMAIN inodes'[f] /\ c \in DOMAIN inodes'[f]
  <2>1. DOMAIN inodes[f] = 0..(c - 1) /\ DOMAIN inodes'[f] = 0..c
    BY <1>2, <1>8, <1>9
  <2> QED
    BY <2>1, <1>3
<1> QED
  BY <1>4, <1>5, <1>9, <1>11, <1>12 DEF c

(* The places of a step that puts a vfs::Inode in one of them.             *)
LEMMA CopyStep ==
  ASSUME Typed, NEW h \in Handles, NEW v,
         v # NoInode => v \in VfsInode /\ v.num = v.private.num,
         copy' = [copy EXCEPT ![h] = v]
  PROVE  DOMAIN copy' = Handles /\ \A x \in Handles : CopyOK(x)'
<1>1. DOMAIN copy = Handles /\ \A x \in Handles : CopyOK(x)
  BY Zenon DEF Typed
<1>2. DOMAIN copy' = Handles /\ copy'[h] = v
      /\ \A x \in Handles : x # h => copy'[x] = copy[x]
  BY <1>1
<1> QED
  BY <1>1, <1>2, Zenon DEF CopyOK

(* Tables that do not change.                                              *)
LEMMA TablesSame ==
  ASSUME Typed, inodes' = inodes
  PROVE  DOMAIN inodes' = FileSystems /\ \A f \in FileSystems : TableOK(f)'
BY Zenon DEF Typed, TableOK

(* Places that do not change.                                              *)
LEMMA CopiesSame ==
  ASSUME Typed, copy' = copy
  PROVE  DOMAIN copy' = Handles /\ \A x \in Handles : CopyOK(x)'
BY Zenon DEF Typed, CopyOK

(* write_inode replaces the inode of a number by one of the same number.   *)
LEMMA WriteInodeTables ==
  ASSUME Typed, NEW f \in FileSystems, NEW h \in Handles, write_inode(f, h)
  PROVE  /\ DOMAIN inodes' = FileSystems /\ \A g \in FileSystems : TableOK(g)'
         /\ \A g \in FileSystems : DOMAIN inodes'[g] = DOMAIN inodes[g]
<1> DEFINE private == copy[h].private
<1>1. private \in Private
  BY DEF write_inode, Typed, CopyOK, VfsInode
<1>2. CASE private.num \in DOMAIN inodes[f]
  <2>1. inodes' = [inodes EXCEPT ![f][private.num] = private]
    BY <1>2, Zenon DEF write_inode
  <2> HIDE DEF private
  <2>2. DOMAIN inodes = FileSystems /\ TableOK(f)
    BY Zenon DEF Typed
  <2>3. PICK c \in 0..MaxInodes :
          /\ inodes[f] \in [0..(c - 1) -> Private]
          /\ \A n \in 0..(c - 1) : inodes[f][n].num = n
    BY <2>2, Zenon DEF TableOK
  <2>4. inodes'[f] = [inodes[f] EXCEPT ![private.num] = private]
        /\ DOMAIN inodes' = FileSystems
        /\ \A g \in FileSystems : g # f => inodes'[g] = inodes[g]
    BY <2>1, <2>2
  <2>5. /\ inodes'[f] \in [0..(c - 1) -> Private]
        /\ \A n \in 0..(c - 1) : inodes'[f][n].num = n
    BY <1>1, <2>3, <2>4, Zenon
  <2>6. TableOK(f)' /\ DOMAIN inodes'[f] = DOMAIN inodes[f]
    BY <2>3, <2>5 DEF TableOK
  <2>7. ASSUME NEW g \in FileSystems, g # f PROVE TableOK(g)'
    BY <2>4, <2>7, Zenon DEF TableOK, Typed
  <2> QED
    BY <2>4, <2>6, <2>7, Zenon
<1>3. CASE private.num \notin DOMAIN inodes[f]
  <2>1. inodes' = inodes
    BY <1>3, Zenon DEF write_inode
  <2> QED
    BY <2>1, TablesSame
<1> QED
  BY <1>2, <1>3

(* The two places that create, mkdir and link rebuild.                     *)
LEMMA UpdateCopies ==
  ASSUME Typed, NEW d \in Handles, NEW p \in Handles, NEW name, NEW mode \in Modes,
         Update(d, p, name, mode)
  PROVE  /\ DOMAIN copy' = Handles /\ \A x \in Handles : CopyOK(x)'
         /\ \A x \in Handles : copy'[x] # NoInode
                                 => copy[x] # NoInode /\ copy'[x].num = copy[x].num
<1>1. CASE result' = "Ok"
  <2> DEFINE u == From([copy[d].private EXCEPT !.mode = mode])
             v == From(copy[p].private)
  <2>1. d # p /\ copy[d] # NoInode /\ copy[p] # NoInode
    BY Zenon DEF Update, add_dir_entry
  <2>2. /\ copy[d] \in VfsInode /\ copy[p] \in VfsInode
        /\ copy[d].num = copy[d].private.num /\ copy[p].num = copy[p].private.num
    BY <2>1 DEF Typed, CopyOK
  <2>3. /\ [copy[d].private EXCEPT !.mode = mode] \in Private
        /\ [copy[d].private EXCEPT !.mode = mode].num = copy[d].private.num
        /\ copy[p].private \in Private
    BY <2>2 DEF VfsInode, Private
  <2>4. /\ u \in VfsInode /\ u.num = u.private.num
        /\ v \in VfsInode /\ v.num = v.private.num
    BY <2>3, FromFacts, Zenon
  <2>5. u.num = copy[d].num /\ v.num = copy[p].num
    BY <2>2, <2>3 DEF From
  <2>6. DOMAIN copy = Handles
    BY Zenon DEF Typed
  <2>7. copy' = [copy EXCEPT ![d] = From([@.private EXCEPT !.mode = mode]),
                             ![p] = From(@.private)]
    BY <1>1, Zenon DEF Update
  <2>8. /\ DOMAIN copy' = Handles /\ copy'[d] = u /\ copy'[p] = v
        /\ \A x \in Handles : x # d /\ x # p => copy'[x] = copy[x]
    BY <2>1, <2>6, <2>7
  <2> HIDE DEF u, v
  <2>9. \A x \in Handles : CopyOK(x)'
    BY <2>4, <2>8, Zenon DEF CopyOK, Typed
  <2> QED
    BY <2>1, <2>5, <2>8, <2>9, Zenon
<1>2. CASE result' # "Ok"
  <2>1. copy' = copy
    BY <1>2, Zenon DEF Update
  <2> QED
    BY <2>1, CopiesSame, Zenon
<1> QED
  BY <1>1, <1>2

(* symlink changes the private mode of one place.                          *)
LEMMA SymlinkCopies ==
  ASSUME Typed, NEW d \in Handles, NEW p \in Handles, NEW name, NEW fits,
         symlink(d, p, name, fits)
  PROVE  /\ DOMAIN copy' = Handles /\ \A x \in Handles : CopyOK(x)'
         /\ \A x \in Handles : copy'[x] # NoInode
                                 => copy[x] # NoInode /\ copy'[x].num = copy[x].num
<1>1. CASE add_dir_entry_check(copy[p], name) = "Ok"
  <2> DEFINE u == [copy[d] EXCEPT !.private.mode = "symlink"]
  <2>1. copy[d] # NoInode
    BY Zenon DEF symlink, add_dir_entry
  <2>2. copy[d] \in VfsInode /\ copy[d].num = copy[d].private.num
    BY <2>1 DEF Typed, CopyOK
  <2>3. u \in VfsInode /\ u.num = u.private.num /\ u.num = copy[d].num
    BY <2>2 DEF VfsInode, Private, Modes
  <2>4. copy' = [copy EXCEPT ![d].private.mode = "symlink"]
    BY <1>1, Zenon DEF symlink
  <2>5. copy' = [copy EXCEPT ![d] = u]
    BY <2>4
  <2> HIDE DEF u
  <2>6. DOMAIN copy' = Handles /\ \A x \in Handles : CopyOK(x)'
    BY <2>3, <2>5, CopyStep, Zenon
  <2>7. copy'[d] = u /\ \A x \in Handles : x # d => copy'[x] = copy[x]
    BY <2>5 DEF Typed
  <2> QED
    BY <2>1, <2>3, <2>6, <2>7, Zenon
<1>2. CASE add_dir_entry_check(copy[p], name) # "Ok"
  <2>1. copy' = copy
    BY <1>2, Zenon DEF symlink
  <2> QED
    BY <2>1, CopiesSame, Zenon
<1> QED
  BY <1>1, <1>2

-----------------------------------------------------------------------------
(* The invariant.                                                          *)

(* The empty file systems satisfy the invariant.                           *)
LEMMA RamInit == Init => RamInv
<1> SUFFICES ASSUME Init PROVE RamInv
  OBVIOUS
<1>1. ASSUME NEW f \in FileSystems PROVE TableOK(f)
  <2>1. inodes[f] = <<>> /\ 0 \in 0..MaxInodes
    BY RamFsAssumption DEF Init
  <2>2. <<>> \in [1..Len(<<>>) -> Private] /\ Len(<<>>) = 0
    BY EmptySeq, LenProperties
  <2>3. 1..0 = 0..(0 - 1) /\ \A n \in 0..(0 - 1) : FALSE
    OBVIOUS
  <2>4. inodes[f] \in [0..(0 - 1) -> Private]
    BY <2>1, <2>2, <2>3
  <2> QED
    BY <2>1, <2>3, <2>4 DEF TableOK
<1>2. blocks \in [Arcs -> Seq(Block)]
  BY EmptySeq DEF Init
<1>3. \A a \in Arcs : UniqueIn(blocks[a])
  <2>1. \A a \in Arcs : Len(blocks[a]) = 0
    BY EmptySeq DEF Init
  <2> QED
    BY <2>1 DEF UniqueIn
<1>4. \A h \in Handles : CopyOK(h)
  BY DEF Init, CopyOK
<1> QED
  BY <1>1, <1>2, <1>3, <1>4 DEF Init, RamInv, Typed

(* No step puts a value of another type in a table or a place, and a table *)
(* loses no inode.                                                         *)
LEMMA TablesStep ==
  ASSUME Typed, [Next]_vars
  PROVE  /\ DOMAIN inodes' = FileSystems /\ \A f \in FileSystems : TableOK(f)'
         /\ \A f \in FileSystems : DOMAIN inodes[f] \subseteq DOMAIN inodes'[f]
<1> DEFINE Goal ==
      /\ DOMAIN inodes' = FileSystems /\ \A f \in FileSystems : TableOK(f)'
      /\ \A f \in FileSystems : DOMAIN inodes[f] \subseteq DOMAIN inodes'[f]
<1>0. inodes' = inodes => Goal
  BY TablesSame, Zenon
<1>1. ASSUME NEW f \in FileSystems, init_super(f) PROVE Goal
  <2>1. TableOK(f)
    BY Zenon DEF Typed
  <2>2. count(f) = 0
    BY <1>1, <2>1, CountFacts, Zenon DEF init_super
  <2>3. count(f) < MaxInodes
    BY <2>2, RamFsAssumption
  <2>4. inodes' = [inodes EXCEPT ![f] = Insert(f, "dir")] /\ "dir" \in Modes
    BY <1>1, Zenon DEF init_super, Modes
  <2> QED
    BY <2>3, <2>4, InsertFacts, Zenon
<1>2. ASSUME NEW f \in FileSystems, NEW h \in Handles, create_inode(f, h) PROVE Goal
  <2>1. /\ count(f) < MaxInodes /\ "none" \in Modes
        /\ inodes' = [inodes EXCEPT ![f] = Insert(f, "none")]
    BY <1>2, Zenon DEF create_inode, Modes
  <2> QED
    BY <2>1, InsertFacts, Zenon
<1>3. ASSUME NEW f \in FileSystems, NEW h \in Handles, write_inode(f, h) PROVE Goal
  BY <1>3, WriteInodeTables, Zenon
<1> HIDE DEF Goal
<1>4. \/ inodes' = inodes
      \/ \E f \in FileSystems : init_super(f)
      \/ \E f \in FileSystems, h \in Handles : create_inode(f, h) \/ write_inode(f, h)
  <2>1. \A f : destroy_inode(f) => inodes' = inodes
    BY Zenon DEF destroy_inode
  <2>2. \A f, h, n : get_inode(f, h, n) => inodes' = inodes
    BY Zenon DEF get_inode
  <2>3. \A d, p : unlink(d, p) => inodes' = inodes
    BY Zenon DEF unlink
  <2>4. \A d, p, name : create(d, p, name) \/ mkdir(d, p, name) \/ link(d, p, name)
                          => inodes' = inodes
    BY Zenon DEF create, mkdir, link, Update
  <2>5. \A d, p, name, fits : symlink(d, p, name, fits) => inodes' = inodes
    BY Zenon DEF symlink
  <2>6. Stopped \/ UNCHANGED vars => inodes' = inodes
    BY Zenon DEF Stopped, vars
  <2> QED
    BY <2>1, <2>2, <2>3, <2>4, <2>5, <2>6, Zenon DEF Next
<1>5. Goal
  BY <1>0, <1>1, <1>2, <1>3, <1>4, Zenon
<1> QED
  BY <1>5, Zenon DEF Goal

(* A place holds what it held, the inode just created, or one of a table.  *)
LEMMA CopiesStep ==
  ASSUME Typed, [Next]_vars
  PROVE  /\ DOMAIN copy' = Handles /\ \A h \in Handles : CopyOK(h)'
         /\ \A h \in Handles : copy'[h] # NoInode =>
              \/ copy[h] # NoInode /\ copy'[h].num = copy[h].num
              \/ \E f \in FileSystems : copy'[h].num \in DOMAIN inodes'[f]
<1> DEFINE Goal ==
      /\ DOMAIN copy' = Handles /\ \A h \in Handles : CopyOK(h)'
      /\ \A h \in Handles : copy'[h] # NoInode =>
           \/ copy[h] # NoInode /\ copy'[h].num = copy[h].num
           \/ \E f \in FileSystems : copy'[h].num \in DOMAIN inodes'[f]
<1>0. copy' = copy => Goal
  BY CopiesSame, Zenon
<1>1. ASSUME NEW f \in FileSystems, NEW h \in Handles, create_inode(f, h) PROVE Goal
  <2> DEFINE private == Inode(count(f), "none", <<f, count(f)>>)
             v == From(private)
  <2>1. /\ count(f) < MaxInodes /\ "none" \in Modes
        /\ inodes' = [inodes EXCEPT ![f] = Insert(f, "none")]
        /\ copy' = [copy EXCEPT ![h] = v]
    BY <1>1, Zenon DEF create_inode, Modes
  <2>2. private \in Private /\ count(f) \in DOMAIN inodes'[f]
    BY <2>1, InsertFacts, Zenon
  <2>3. v \in VfsInode /\ v.num = v.private.num
    BY <2>2, FromFacts, Zenon
  <2>4. v.num = count(f)
    BY DEF From, Inode
  <2> HIDE DEF v
  <2>5. DOMAIN copy' = Handles /\ \A x \in Handles : CopyOK(x)'
    BY <2>1, <2>3, CopyStep, Zenon
  <2>6. copy'[h] = v /\ \A x \in Handles : x # h => copy'[x] = copy[x]
    BY <2>1 DEF Typed
  <2> QED
    BY <2>2, <2>4, <2>5, <2>6, Zenon
<1>2. ASSUME NEW f \in FileSystems, NEW h \in Handles, NEW n, get_inode(f, h, n) PROVE Goal
  <2> DEFINE v == IF n \in DOMAIN inodes[f] THEN From(inodes[f][n]) ELSE NoInode
  <2>1. copy' = [copy EXCEPT ![h] = v] /\ inodes' = inodes
    BY <1>2, Zenon DEF get_inode
  <2>2. TableOK(f)
    BY Zenon DEF Typed
  <2>3. \A m \in DOMAIN inodes[f] : inodes[f][m] \in Private /\ inodes[f][m].num = m
    BY <2>2 DEF TableOK
  <2>4. ASSUME n \in DOMAIN inodes[f]
        PROVE  v \in VfsInode /\ v.num = v.private.num /\ v.num = n
    <3>1. v = From(inodes[f][n]) /\ inodes[f][n] \in Private /\ inodes[f][n].num = n
      BY <2>3, <2>4
    <3> QED
      BY <3>1, FromFacts DEF From
  <2>5. v # NoInode => v \in VfsInode /\ v.num = v.private.num /\ v.num \in DOMAIN inodes[f]
    BY <2>4
  <2> HIDE DEF v
  <2>6. DOMAIN copy' = Handles /\ \A x \in Handles : CopyOK(x)'
    BY <2>1, <2>5, CopyStep, Zenon
  <2>7. copy'[h] = v /\ \A x \in Handles : x # h => copy'[x] = copy[x]
    BY <2>1 DEF Typed
  <2> QED
    BY <2>1, <2>5, <2>6, <2>7, Zenon
<1>3. ASSUME NEW d \in Handles, NEW p \in Handles, NEW name,
             create(d, p, name) \/ mkdir(d, p, name) \/ link(d, p, name)
      PROVE  Goal
  <2>1. PICK mode : Update(d, p, name, mode) /\ mode \in Modes
    <3>1. link(d, p, name) => copy[d].private.mode \in Modes
      BY DEF link, Typed, CopyOK, VfsInode, Private
    <3>2. "file" \in Modes /\ "dir" \in Modes
      BY DEF Modes
    <3> QED
      BY <1>3, <3>1, <3>2, Zenon DEF create, mkdir, link
  <2> QED
    BY <2>1, UpdateCopies, Zenon
<1>4. ASSUME NEW d \in Handles, NEW p \in Handles, NEW name, NEW fits,
             symlink(d, p, name, fits)
      PROVE  Goal
  BY <1>4, SymlinkCopies, Zenon
<1> HIDE DEF Goal
<1>5. Goal
  BY <1>0, <1>1, <1>2, <1>3, <1>4, Zenon DEF Next, Stopped, vars, init_super,
     destroy_inode, write_inode, unlink
<1> QED
  BY <1>5, Zenon DEF Goal

(* Every call keeps the invariant.                                         *)
LEMMA RamNext == RamInv /\ [Next]_vars => RamInv'
<1> SUFFICES ASSUME RamInv, [Next]_vars PROVE RamInv'
  OBVIOUS
<1>1. Typed
  BY DEF RamInv
<1>2. blocks' \in [Arcs -> Seq(Block)] /\ \A a \in Arcs : UniqueIn(blocks'[a])
  <2>1. blocks \in [Arcs -> Seq(Block)] /\ \A a \in Arcs : UniqueIn(blocks[a])
    BY <1>1, Zenon DEF RamInv, Typed
  <2>2. CASE blocks' = blocks
    BY <2>1, <2>2, Zenon
  <2>3. ASSUME NEW a \in Arcs, NEW entry \in SlotEntry, AddsEntry(a, entry)
        PROVE  blocks' \in [Arcs -> Seq(Block)] /\ \A x \in Arcs : UniqueIn(blocks'[x])
    BY <2>1, <2>3, AddedEntry, Zenon
  <2> QED
    BY <1>1, <2>2, <2>3, BlocksStep, Zenon
<1>3. \A a \in Arcs : UniqueIn(blocks[a])'
  BY <1>2, Zenon DEF UniqueIn
<1>4. Typed'
  BY <1>1, <1>2, TablesStep, CopiesStep, Zenon DEF Typed
<1> QED
  BY <1>3, <1>4, Zenon DEF RamInv

-----------------------------------------------------------------------------
(* Theorems.                                                               *)

(* The tables, the blocks behind the Arcs and the callers' copies stay in  *)
(* their types, and no directory lists a name twice.                       *)
THEOREM RamFsInvariant == Spec => []RamInv
BY RamInit, RamNext, PTL DEF Spec

(* The types of ramfs/mod.rs hold, for any number of file systems whose    *)
(* inodes are mixed: a number is the number of the inode kept under it.    *)
THEOREM TypesHold == Spec => []TypeOK
<1>1. ASSUME RamInv PROVE TypeOK
  <2>1. Typed
    BY <1>1 DEF RamInv
  <2>2. ASSUME NEW f \in FileSystems, NEW n \in DOMAIN inodes[f]
        PROVE  inodes[f][n] \in Private /\ inodes[f][n].num = n
    BY <2>1 DEF Typed, TableOK
  <2>3. ASSUME NEW a \in Arcs, NEW k \in DOMAIN blocks[a]
        PROVE  blocks[a][k] \in Block
    <3>1. blocks[a] \in Seq(Block)
      BY <2>1, Zenon DEF Typed
    <3> QED
      BY <3>1, LenProperties, ElementOfSeq
  <2>4. ASSUME NEW b \in Block
        PROVE  /\ DOMAIN b = 1..EntriesPerBlock
               /\ \A s \in DOMAIN b : /\ b[s].inode \in 0..(MaxInodes - 1)
                                      /\ b[s].name \in Names \cup {NoName}
    BY DEF Block, Slots, SlotEntry, Numbers
  <2>5. ASSUME NEW h \in Handles, copy[h] # NoInode
        PROVE  /\ copy[h].private \in Private
               /\ copy[h].num = copy[h].private.num
               /\ copy[h].mode \in Modes
    BY <2>1, <2>5 DEF Typed, CopyOK, VfsInode
  <2> QED
    BY <2>2, <2>3, <2>4, <2>5, Zenon DEF TypeOK
<1> QED
  BY <1>1, RamFsInvariant, PTL

(* A directory never lists a name twice, whichever copies of its inode the *)
(* entries were added through (the look-up of add_dir_entry).              *)
THEOREM NoNameTwice == Spec => []NamesUnique
<1>1. ASSUME RamInv PROVE NamesUnique
  <2>1. \A a \in Arcs : UniqueIn(blocks[a]) /\ blocks[a] \in Seq(Block)
    BY <1>1, Zenon DEF RamInv, Typed
  <2>2. \A a \in Arcs : DOMAIN blocks[a] = 1..Len(blocks[a])
    BY <2>1, LenProperties
  <2>3. ASSUME NEW a \in Arcs,
               NEW j \in DOMAIN blocks[a], NEW k \in DOMAIN blocks[a],
               NEW r \in Slots, NEW s \in Slots,
               blocks[a][j][r].inode # 0, blocks[a][k][s].inode # 0,
               blocks[a][j][r].name = blocks[a][k][s].name
        PROVE  j = k /\ r = s
    <3>1. UniqueIn(blocks[a]) /\ j \in 1..Len(blocks[a]) /\ k \in 1..Len(blocks[a])
      BY <2>1, <2>2, Zenon
    <3> QED
      BY <2>3, <3>1, Zenon DEF UniqueIn
  <2> QED
    BY <2>3 DEF NamesUnique, Slots
<1> QED
  BY <1>1, RamFsInvariant, PTL

(* append_dir_entry overwrites no slot in use: what a directory lists, it  *)
(* lists for ever.                                                         *)
THEOREM NothingUnlisted == Spec => EntriesStable
<1>1. ASSUME RamInv, [Next]_vars
      PROVE  \A a \in Arcs : Listing(a) \subseteq Listing(a)'
  <2>1. Typed /\ blocks \in [Arcs -> Seq(Block)]
    BY <1>1, Zenon DEF RamInv, Typed
  <2>2. CASE blocks' = blocks
    BY <2>2 DEF Listing
  <2>3. ASSUME NEW a \in Arcs, NEW entry \in SlotEntry, AddsEntry(a, entry)
        PROVE  \A x \in Arcs : Listing(x) \subseteq Listing(x)'
    BY <2>1, <2>3, AddedEntry, Zenon
  <2> QED
    BY <1>1, <2>1, <2>2, <2>3, BlocksStep, Zenon
<1> QED
  BY <1>1, RamFsInvariant, PTL DEF Spec, EntriesStable

(* create, link and mkdir return Ok only with the name in the directory,   *)
(* seen by every copy of its inode.                                        *)
THEOREM OkIsListed == Spec => OkMeansListed
<1>1. ASSUME RamInv, [Next]_vars,
             NEW d \in Handles, NEW p \in Handles, NEW name \in Names,
             create(d, p, name) \/ link(d, p, name) \/ mkdir(d, p, name),
             result' = "Ok", copy[d].num # 0
      PROVE  [inode |-> copy[d].num, name |-> name] \in Listing(copy[p].private.arc)'
  <2>1. Typed /\ blocks \in [Arcs -> Seq(Block)] /\ name \in Components
    BY <1>1, Zenon DEF RamInv, Typed, Components
  <2>2. PICK mode : Update(d, p, name, mode)
    BY <1>1, Zenon DEF create, link, mkdir
  <2>3. add_dir_entry(d, p, name) /\ add_dir_entry_check(copy[p], name) = "Ok"
    BY <1>1, <2>2, Zenon DEF Update
  <2>4. PICK a \in Arcs, entry \in SlotEntry :
          /\ a = copy[p].private.arc /\ entry = DirEntry(copy[d].num, name)
          /\ AddsEntry(a, entry)
    BY <2>1, <2>3, AddFacts, Zenon
  <2>5. entry = [inode |-> copy[d].num, name |-> name] /\ entry.inode # 0
    BY <1>1, <2>4 DEF DirEntry
  <2>6. entry \in Listing(a)'
    BY <2>1, <2>4, <2>5, AddedEntry, Zenon
  <2>7. entry \in ListedIn(blocks'[a])
    BY <2>6, InTermsOfBlocks, Zenon
  <2>8. copy'[p].private.arc = a
    <3>1. d # p /\ p \in DOMAIN copy
      BY <2>1, <2>3, Zenon DEF add_dir_entry, Typed
    <3>2. copy'[p] = From(copy[p].private)
      BY <1>1, <2>2, <3>1 DEF Update
    <3> QED
      BY <2>4, <3>2 DEF From
  <2>9. Listing(copy[p].private.arc)' = ListedIn(blocks'[copy'[p].private.arc])
    BY DEF Listing, ListedIn
  <2> QED
    BY <2>5, <2>7, <2>8, <2>9
<1>2. ASSUME RamInv, [Next]_vars
      PROVE  \A d, p \in Handles, name \in Names :
               /\ create(d, p, name) \/ link(d, p, name) \/ mkdir(d, p, name)
               /\ result' = "Ok" /\ copy[d].num # 0
               => [inode |-> copy[d].num, name |-> name]
                    \in Listing(copy[p].private.arc)'
  BY <1>1, <1>2, Zenon
<1> QED
  BY <1>2, RamFsInvariant, PTL DEF Spec, OkMeansListed

(* A call that fails leaves every directory as it was, but for symlink     *)
(* with a target that is too long.                                         *)
THEOREM FailuresAreClean == Spec => FailureChangesNothing
<1> DEFINE Clean == \/ blocks' = blocks
                    \/ \E d, p \in Handles, name \in Names : symlink(d, p, name, FALSE)
<1>1. ASSUME RamInv, [Next]_vars, result' \notin {"Ok", "spins"} PROVE Clean
  <2>1. Typed
    BY <1>1 DEF RamInv
  <2>2. ASSUME NEW d \in Handles, NEW p \in Handles, NEW name \in Components, NEW mode,
               Update(d, p, name, mode)
        PROVE  Clean
    <3>1. add_dir_entry(d, p, name) /\ result' = add_dir_entry_check(copy[p], name)
      BY <2>2, Zenon DEF Update
    <3> QED
      BY <1>1, <2>1, <3>1, AddFacts, Zenon
  <2>3. ASSUME NEW d \in Handles, NEW p \in Handles, NEW name \in Components,
               NEW fits \in BOOLEAN, symlink(d, p, name, fits)
        PROVE  Clean
    <3>1. add_dir_entry(d, p, name)
      BY <2>3, Zenon DEF symlink
    <3>2. CASE add_dir_entry_check(copy[p], name) # "Ok"
      BY <2>1, <3>1, <3>2, AddFacts, Zenon
    <3>3. CASE add_dir_entry_check(copy[p], name) = "Ok"
      <4>1. name \in Names
        BY <2>1, <3>1, <3>3, AddFacts, Zenon
      <4>2. fits = FALSE
        BY <1>1, <2>3, <3>3 DEF symlink
      <4> QED
        BY <2>3, <4>1, <4>2, Zenon
    <3> QED
      BY <3>2, <3>3, Zenon
  <2> HIDE DEF Clean
  <2>4. blocks' = blocks => Clean
    BY Zenon DEF Clean
  <2>5. \/ blocks' = blocks
        \/ \E d, p \in Handles, name \in Components : \E mode : Update(d, p, name, mode)
        \/ \E d, p \in Handles, name \in Components, fits \in BOOLEAN :
             symlink(d, p, name, fits)
    BY <1>1, Zenon DEF Next, Stopped, vars, init_super, destroy_inode,
       create_inode, write_inode, get_inode, unlink, create, mkdir, link
  <2> QED
    BY <2>2, <2>3, <2>4, <2>5, Zenon
<1>2. RamInv /\ [Next]_vars => (result' \notin {"Ok", "spins"} => Clean)
  BY <1>1, Zenon
<1> QED
  BY <1>2, RamFsInvariant, PTL DEF Spec, FailureChangesNothing

(* With one file system mounted, every entry of a directory leads to an    *)
(* inode of the table: get_inode of a listed number never gives None.      *)
THEOREM ListedIsInTable ==
  ASSUME OneFileSystem
  PROVE  Spec => []EntriesResolve
<1>1. Init => Registered
  <2> SUFFICES ASSUME Init PROVE Registered
    OBVIOUS
  <2>1. \A a \in Arcs : blocks[a] = <<>> /\ <<>> \in Seq(Block) /\ Len(<<>>) = 0
    BY EmptySeq DEF Init
  <2>2. \A a \in Arcs : Listing(a) = {}
    <3> SUFFICES ASSUME NEW a \in Arcs, NEW e \in Listing(a) PROVE FALSE
      OBVIOUS
    <3>1. e \in ListedIn(<<>>)
      BY <2>1, InTermsOfBlocks, Zenon
    <3>2. \E k \in 1..Len(<<>>) : TRUE
      BY <2>1, <3>1, ListedFacts, Zenon
    <3> QED
      BY <2>1, <3>2
  <2>3. \A h \in Handles : copy[h] = NoInode
    BY DEF Init
  <2> QED
    BY <2>2, <2>3, Zenon DEF Registered
<1>2. ASSUME RamInv, Registered, [Next]_vars PROVE Registered'
  <2>1. Typed /\ blocks \in [Arcs -> Seq(Block)]
    BY <1>2, Zenon DEF RamInv, Typed
  <2>2. \A f \in FileSystems : DOMAIN inodes[f] \subseteq DOMAIN inodes'[f]
    BY <1>2, <2>1, TablesStep, Zenon
  <2>3. ASSUME NEW h \in Handles, NEW f \in FileSystems, copy'[h] # NoInode
        PROVE  copy'[h].num \in DOMAIN inodes'[f]
    <3>1. CASE copy[h] # NoInode /\ copy'[h].num = copy[h].num
      BY <1>2, <2>2, <3>1 DEF Registered
    <3>2. ASSUME NEW g \in FileSystems, copy'[h].num \in DOMAIN inodes'[g]
          PROVE  copy'[h].num \in DOMAIN inodes'[f]
      BY <3>2, Zenon DEF OneFileSystem
    <3> QED
      BY <1>2, <2>1, <2>3, <3>1, <3>2, CopiesStep, Zenon
  <2>4. ASSUME NEW a \in Arcs, NEW f \in FileSystems, NEW e \in Listing(a)'
        PROVE  e.inode \in DOMAIN inodes'[f]
    <3>1. CASE e \in Listing(a)
      BY <1>2, <2>2, <3>1 DEF Registered
    <3>2. CASE blocks' = blocks
      <4>1. e \in Listing(a)
        BY <3>2 DEF Listing
      <4> QED
        BY <3>1, <4>1
    <3>3. ASSUME NEW d \in Handles, NEW p \in Handles, NEW name \in Names,
                 copy[d] # NoInode, copy[p].private.arc \in Arcs,
                 DirEntry(copy[d].num, name) \in SlotEntry,
                 AddsEntry(copy[p].private.arc, DirEntry(copy[d].num, name)),
                 e \notin Listing(a)
          PROVE  e.inode \in DOMAIN inodes'[f]
      <4>1. e = DirEntry(copy[d].num, name)
        BY <2>1, <3>3, AddedEntry, Zenon
      <4>2. e.inode = copy[d].num
        BY <4>1 DEF DirEntry, FreeSlot
      <4>3. copy[d].num \in DOMAIN inodes[f]
        BY <1>2, <3>3, Zenon DEF Registered
      <4> QED
        BY <2>2, <4>2, <4>3
    <3>4. \/ blocks' = blocks
          \/ \E d, p \in Handles, name \in Names :
               /\ copy[d] # NoInode /\ copy[p].private.arc \in Arcs
               /\ DirEntry(copy[d].num, name) \in SlotEntry
               /\ AddsEntry(copy[p].private.arc, DirEntry(copy[d].num, name))
      BY <1>2, <2>1, BlocksStep
    <3> QED
      BY <3>1, <3>2, <3>3, <3>4, Zenon
  <2> QED
    BY <2>3, <2>4, Zenon DEF Registered
<1>3. ASSUME RamInv, Registered, TypeOK PROVE EntriesResolve
  <2> SUFFICES ASSUME NEW f \in FileSystems, NEW n \in DOMAIN inodes[f]
               PROVE  <<f, n>> \in Arcs
    BY <1>3, Zenon DEF EntriesResolve, Registered
  <2>1. n \in 0..(MaxInodes - 1)
    BY <1>3 DEF TypeOK, Private
  <2> QED
    BY <2>1 DEF Arcs
<1> QED
  BY <1>1, <1>2, <1>3, RamFsInvariant, TypesHold, PTL DEF Spec
=============================================================================
