------------------------------- MODULE RamFs --------------------------------
(***************************************************************************)
(* The RAM file system: kernel/src/fs/ramfs/mod.rs behind the traits of    *)
(* kernel/src/fs/vfs/mod.rs (SuperBlock, InodeOps).                        *)
(*                                                                         *)
(* A vfs::Inode is a copy: its public fields, and in `private` a clone of  *)
(* the ramfs inode.  The fields are copied, but the blocks are behind an   *)
(* Arc which all the clones share; `blocks` is therefore a state of its    *)
(* own, indexed by the <<file system, number>> for which create_inode made *)
(* it.  `copy` holds the vfs::Inodes of the callers, on their own or in a  *)
(* DEntry.  Calls run one after the other (the kernel has one thread, and  *)
(* no interrupt handler uses files).                                       *)
(***************************************************************************)
EXTENDS Naturals, Sequences, FiniteSets, FiniteSetsExt

CONSTANTS
  FileSystems,      \* ramfs::FileSystem values
  Handles,          \* places that hold a vfs::Inode
  Names,            \* names of at most 247 bytes: Component::Normal
  LongName,         \* a longer Component::Normal
  BadName,          \* RootDir, CurDir or ParentDir
  NoName,           \* the zeroed name of a fresh directory slot
  NoInode,          \* no vfs::Inode at this place
  EntriesPerBlock,  \* BLOCK_SIZE / DIR_ENTRY_SIZE (16)
  MaxInodes         \* bound: inodes of a file system

ASSUME RamFsAssumption ==
  /\ EntriesPerBlock \in Nat \ {0}
  /\ MaxInodes \in Nat \ {0}
  /\ NoName \notin Names /\ LongName \notin Names /\ BadName \notin Names

VARIABLES
  inodes,  \* SuperBlock.inodes of each file system
  blocks,  \* the directory slots behind each Arc
  copy,    \* the vfs::Inodes of the callers
  result   \* the last call's: "Ok", "Err", "panics" or "spins"

vars == <<inodes, blocks, copy, result>>

Modes == {"none", "dir", "file", "symlink"}
Arcs == FileSystems \X (0..(MaxInodes - 1))
Components == Names \cup {LongName, BadName}

(* A spinning or panicked kernel makes no further calls.                   *)
Alive == result \notin {"spins", "panics"}

-----------------------------------------------------------------------------
(* Inodes.                                                                 *)

Inode(num, mode, arc) == [num |-> num, mode |-> mode, arc |-> arc]

From(private) ==
  [num |-> private.num, mode |-> private.mode, private |-> private]

(* SuperBlock.count: the next number.                                      *)
count(f) == Cardinality(DOMAIN inodes[f])

Insert(f, mode) ==
  [n \in 0..count(f) |->
     IF n = count(f) THEN Inode(n, mode, <<f, n>>) ELSE inodes[f][n]]

(* FileSystem::new.                                                        *)
Init ==
  /\ inodes = [f \in FileSystems |-> <<>>]
  /\ blocks = [a \in Arcs |-> <<>>]
  /\ copy = [h \in Handles |-> NoInode]
  /\ result = "Ok"

mounted(f) == inodes[f] # <<>>

(* init_super, which mount_nodev calls: inode 0 becomes the root.          *)
init_super(f) ==
  /\ ~mounted(f)
  /\ inodes' = [inodes EXCEPT ![f] = Insert(f, "dir")]
  /\ result' = "Ok"
  /\ UNCHANGED <<blocks, copy>>

(* Mutant: the new inode is not entered in the table.                      *)
create_inode_unregistered(f, h) ==
  /\ mounted(f) /\ count(f) < MaxInodes
  /\ copy' = [copy EXCEPT ![h] = From(Inode(count(f), "none", <<f, count(f)>>))]
  /\ result' = "Ok"
  /\ UNCHANGED <<inodes, blocks>>

create_inode(f, h) ==
  /\ mounted(f) /\ count(f) < MaxInodes
  /\ inodes' = [inodes EXCEPT ![f] = Insert(f, "none")]
  /\ copy' = [copy EXCEPT ![h] = From(Inode(count(f), "none", <<f, count(f)>>))]
  /\ result' = "Ok"
  /\ UNCHANGED blocks

(* A number without an inode gives None.  root() is get_inode(0): the      *)
(* kernel initialises a superblock once, in mount_nodev, before anybody    *)
(* else can reach it, so its root is inode 0 and is in the table.  Calls   *)
(* before that, where root() panics, are left out (mounted).               *)
get_inode(f, h, n) ==
  /\ mounted(f)
  /\ copy' = [copy EXCEPT ![h] = IF n \in DOMAIN inodes[f]
                                 THEN From(inodes[f][n]) ELSE NoInode]
  /\ result' = "Ok"
  /\ UNCHANGED <<inodes, blocks>>

(* The downcast tells the type of the inode, not the file system it is of. *)
write_inode(f, h) ==
  /\ mounted(f) /\ copy[h] # NoInode
  /\ LET private == copy[h].private
     IN  IF private.num \in DOMAIN inodes[f]
         THEN /\ inodes' = [inodes EXCEPT ![f][private.num] = private]
              /\ result' = "Ok"
         ELSE result' = "Err" /\ UNCHANGED inodes
  /\ UNCHANGED <<blocks, copy>>

-----------------------------------------------------------------------------
(* Directories.                                                            *)

FreeSlot == [inode |-> 0, name |-> NoName]

(* Inode number 0 marks a free slot, the bytes of whose name nobody reads. *)
DirEntry(inode, name) ==
  IF inode = 0 THEN FreeSlot ELSE [inode |-> inode, name |-> name]

(* What DirIterator yields: the slots whose inode number is not 0.         *)
Listing(arc) ==
  {e \in UNION {{b[s] : s \in DOMAIN b} : b \in {blocks[arc][k] :
                                            k \in DOMAIN blocks[arc]}} :
     e.inode # 0}

(* The slots of a block that append_dir_entry may take.                    *)
FreeSlots(block) == {s \in DOMAIN block : block[s].inode = 0}

(* Mutants of append_dir_entry: it takes any slot of the last block, or    *)
(* pushes the new block without the entry.                                 *)
append_dir_entry_overwrites(bs, entry) ==
  IF bs # <<>> THEN [bs EXCEPT ![Len(bs)][1] = entry]
  ELSE <<[s \in 1..EntriesPerBlock |-> IF s = 1 THEN entry ELSE FreeSlot]>>

append_dir_entry_forgets(bs, entry) ==
  LET open == {k \in DOMAIN bs : FreeSlots(bs[k]) # {}}
  IN  IF open # {}
      THEN [bs EXCEPT ![Max(open)][Min(FreeSlots(bs[Max(open)]))] = entry]
      ELSE Append(bs, [s \in 1..EntriesPerBlock |-> FreeSlot])

(* The first free slot of the last block that has one, or a new block.     *)
append_dir_entry(bs, entry) ==
  LET open == {k \in DOMAIN bs : FreeSlots(bs[k]) # {}}
  IN  IF open # {}
      THEN [bs EXCEPT ![Max(open)][Min(FreeSlots(bs[Max(open)]))] = entry]
      ELSE Append(bs, [s \in 1..EntriesPerBlock |->
                         IF s = 1 THEN entry ELSE FreeSlot])

(* Mutant: the name is not looked up in the parent.                        *)
add_dir_entry_unchecked(parent, name) ==
  IF name = BadName \/ parent.mode # "dir" \/ parent.private.mode # "dir"
  THEN "Err"
  ELSE IF name = LongName THEN "panics" ELSE "Ok"

(* The errors of add_dir_entry: BadPath, NotDirectory (of the public mode, *)
(* or in list of the private one), Exists.  A name that does not fit a     *)
(* slot then panics in copy_from_slice.                                    *)
add_dir_entry_check(parent, name) ==
  IF \/ name = BadName
     \/ parent.mode # "dir" \/ parent.private.mode # "dir"
     \/ name \in {e.name : e \in Listing(parent.private.arc)}
  THEN "Err"
  ELSE IF name = LongName THEN "panics" ELSE "Ok"

(* Mutant: the entry is appended whatever the checks say.                  *)
add_dir_entry_early(d, p, name) ==
  /\ copy[d] # NoInode /\ copy[p] # NoInode /\ d # p
  /\ blocks' = [blocks EXCEPT ![copy[p].private.arc] =
                  append_dir_entry(@, DirEntry(copy[d].num, name))]

(* The entry goes to the blocks of the parent, which its copies share.     *)
add_dir_entry(d, p, name) ==
  /\ copy[d] # NoInode /\ copy[p] # NoInode /\ d # p
  /\ blocks' = IF add_dir_entry_check(copy[p], name) = "Ok"
               THEN [blocks EXCEPT ![copy[p].private.arc] =
                       append_dir_entry(@, DirEntry(copy[d].num, name))]
               ELSE blocks

(* The end of create, link and mkdir: the new mode goes to the private     *)
(* inode of dst, and dst and the parent's inode are rebuilt from theirs.   *)
Update(d, p, name, mode) ==
  /\ add_dir_entry(d, p, name)
  /\ result' = add_dir_entry_check(copy[p], name)
  /\ copy' = IF result' = "Ok"
             THEN [copy EXCEPT ![d] = From([@.private EXCEPT !.mode = mode]),
                               ![p] = From(@.private)]
             ELSE copy
  /\ UNCHANGED inodes

create(d, p, name) == Update(d, p, name, "file")

mkdir(d, p, name) == Update(d, p, name, "dir")

link(d, p, name) ==
  copy[d] # NoInode /\ Update(d, p, name, copy[d].private.mode)

(* The mode is set before the length of the target is tested, and dst is   *)
(* not rebuilt on that error.  A target that fits is pushed to the blocks  *)
(* of dst; the guard of that push is still alive when From reads the same  *)
(* blocks, so the call never returns.  (The pushed block is left out:      *)
(* nobody reads it any more.)                                              *)
symlink(d, p, name, fits) ==
  /\ add_dir_entry(d, p, name)
  /\ LET check == add_dir_entry_check(copy[p], name)
     IN  /\ result' = IF check # "Ok" THEN check
                      ELSE IF fits THEN "spins" ELSE "Err"
         /\ copy' = IF check = "Ok"
                    THEN [copy EXCEPT ![d].private.mode = "symlink"]
                    ELSE copy
  /\ UNCHANGED inodes

(* unlink and rename return Unimplemented.                                 *)
unlink(d, p) ==
  /\ copy[d] # NoInode /\ copy[p] # NoInode /\ d # p
  /\ result' = "Err"
  /\ UNCHANGED <<inodes, blocks, copy>>

(* todo!() *)
destroy_inode(f) ==
  /\ mounted(f)
  /\ result' = "panics"
  /\ UNCHANGED <<inodes, blocks, copy>>

Stopped == ~Alive /\ UNCHANGED vars

Next ==
  \/ /\ Alive
     /\ \/ \E f \in FileSystems : init_super(f) \/ destroy_inode(f)
        \/ \E f \in FileSystems, h \in Handles :
              \/ create_inode(f, h)
              \/ write_inode(f, h)
              \/ \E n \in 0..(MaxInodes - 1) : get_inode(f, h, n)
        \/ \E d, p \in Handles :
              \/ unlink(d, p)
              \/ \E name \in Components :
                    \/ create(d, p, name)
                    \/ mkdir(d, p, name)
                    \/ link(d, p, name)
                    \/ \E fits \in BOOLEAN : symlink(d, p, name, fits)
  \/ Stopped

Spec == Init /\ [][Next]_vars

-----------------------------------------------------------------------------
(* Properties.                                                             *)

Private ==
  [num : 0..(MaxInodes - 1), mode : Modes, arc : Arcs]

(* Table, copies and slots hold what their types say; a number in the      *)
(* table is the number of the inode kept under it.                         *)
TypeOK ==
  /\ \A f \in FileSystems : \A n \in DOMAIN inodes[f] :
        inodes[f][n] \in Private /\ inodes[f][n].num = n
  /\ \A a \in Arcs : \A k \in DOMAIN blocks[a] :
        /\ DOMAIN blocks[a][k] = 1..EntriesPerBlock
        /\ \A s \in DOMAIN blocks[a][k] :
              /\ blocks[a][k][s].inode \in 0..(MaxInodes - 1)
              /\ blocks[a][k][s].name \in Names \cup {NoName}
  /\ \A h \in Handles : copy[h] # NoInode =>
        /\ copy[h].private \in Private
        /\ copy[h].num = copy[h].private.num
        /\ copy[h].mode \in Modes

(* A directory never lists a name twice, though any number of copies of    *)
(* its inode add entries ("Check if the file already exists").             *)
NamesUnique ==
  \A a \in Arcs : \A j, k \in DOMAIN blocks[a] : \A r, s \in 1..EntriesPerBlock :
    LET e == blocks[a][j][r]
        g == blocks[a][k][s]
    IN  e.inode # 0 /\ g.inode # 0 /\ e.name = g.name => j = k /\ r = s

(* Every entry of a directory names an inode of the table, committed or    *)
(* not, so that a path lookup never ends in MissingInode, and the table    *)
(* keeps each inode under its own number.                                  *)
EntriesResolve ==
  /\ TypeOK
  /\ \A f \in FileSystems : \A n \in DOMAIN inodes[f] :
       \A e \in Listing(<<f, n>>) : e.inode \in DOMAIN inodes[f]

(* What a directory lists stays listed: append_dir_entry takes no slot     *)
(* that is in use, and nothing removes entries (unlink does nothing).      *)
EntriesStable ==
  [][\A a \in Arcs : Listing(a) \subseteq Listing(a)']_vars

(* A create, link or mkdir that returns Ok has entered the name, for an    *)
(* inode other than number 0.                                              *)
OkMeansListed ==
  [][\A d, p \in Handles, name \in Names :
        /\ create(d, p, name) \/ link(d, p, name) \/ mkdir(d, p, name)
        /\ result' = "Ok" /\ copy[d].num # 0
        => [inode |-> copy[d].num, name |-> name]
             \in Listing(copy[p].private.arc)']_vars

(* A call that fails changes no directory; symlink with a target that is   *)
(* too long is the exception.                                              *)
FailureChangesNothing ==
  [][result' \notin {"Ok", "spins"}
       => \/ blocks' = blocks
          \/ \E d, p \in Handles, name \in Names : symlink(d, p, name, FALSE)]_vars
=============================================================================
