------------------------------- MODULE Names -------------------------------
(***************************************************************************)
(* Directories and link counts: create, mkdir, unlink, open, release and   *)
(* the calls that look (src/src/op_open.cxx, op_create.cxx, op_mkdir.cxx,  *)
(* op_unlink.cxx, op_getattr.cxx, op_readdir.cxx, and dirlookup, dirlink,  *)
(* inode_name_x of fs.cxx).                                                *)
(*                                                                         *)
(* A directory is the sequence of its slots.  A call is one step and one   *)
(* transaction: the kernel lets one call at a time change a directory, and *)
(* INodeCache is about those that share an inode.  What calls leave behind *)
(* is the image and the inodes that are kept in the cache by references,   *)
(* which open files have.                                                  *)
(*                                                                         *)
(* The kernel sends unlink for files only and the daemon has no rmdir, so  *)
(* directories stay; they are made in the root only, which bounds paths to *)
(* two elements.  A name is a value of its own: names of DIRSIZ characters *)
(* and more, which skipelem and dirlink cut off and leave without a        *)
(* terminator, are not modelled.                                           *)
(***************************************************************************)
EXTENDS Integers, Sequences, SequencesExt, FiniteSetsExt

CONSTANTS
  FileNames,   \* the names users give
  None,
  NINODES,     \* inodes are numbered from 1
  RootSlots,   \* slots of the root: mkfs rounds its size up to whole blocks
  MaxRef       \* open files of an inode, at most

ROOT == 1
INums == 1 .. NINODES
Dot == "."
DotDot == ".."

ASSUME NamesAssumption ==
  /\ NINODES \in Nat \ {0} /\ RootSlots \in Nat /\ RootSlots >= 2 /\ MaxRef \in Nat
  /\ None \notin Nat
  /\ Dot \notin FileNames /\ DotDot \notin FileNames   \* the kernel resolves them

VARIABLES
  ino,      \* the inodes on disk
  ents,     \* the content of the directories: their slots
  ref,      \* references to the cached inode that calls have left behind
  mem,      \* nlink of the cached inode, if it is valid
  orphans   \* inodes that were open without a name when the daemon died

vars == <<ino, ents, ref, mem, orphans>>

FreeSlot == [inum |-> 0, name |-> None]
FreeINode == [type |-> "Invalid", nlink |-> 0]

TypeOK ==
  /\ ino \in [INums -> [type : {"Invalid", "T_DIR", "T_FILE"}, nlink : Nat]]
  /\ \A d \in INums : \A k \in DOMAIN ents[d] :
       ents[d][k] = FreeSlot \/ ents[d][k].inum \in INums
  /\ ref \in [INums -> Nat]
  /\ \A i \in INums : mem[i] = None \/ mem[i] \in Nat
  /\ orphans \subseteq INums

Dots(d, parent) == <<[inum |-> d, name |-> Dot], [inum |-> parent, name |-> DotDot]>>

\* The image mkfs makes.
Init ==
  /\ ino = [i \in INums |-> IF i = ROOT THEN [type |-> "T_DIR", nlink |-> 1] ELSE FreeINode]
  /\ ents = [i \in INums |->
       IF i = ROOT THEN Dots(ROOT, ROOT) \o [k \in 1 .. RootSlots - 2 |-> FreeSlot] ELSE <<>>]
  /\ ref = [i \in INums |-> 0]
  /\ mem = [i \in INums |-> None]
  /\ orphans = {}

----------------------------------------------------------------------------
(* Directories.                                                            *)

\* dirlookup: the first slot with the name.
Slots(d, n) == {k \in DOMAIN ents[d] : ents[d][k].inum # 0 /\ ents[d][k].name = n}
Lookup(d, n) == IF Slots(d, n) = {} THEN 0 ELSE ents[d][Min(Slots(d, n))].inum

\* dirlink: a free slot, or a new one at the end.
FreeSlots(d) == {k \in DOMAIN ents[d] : ents[d][k].inum = 0}
LinkOverFirst(s, free, e) == [s EXCEPT ![2] = e]
Link(s, free, e) == IF free = {} THEN Append(s, e) ELSE [s EXCEPT ![Min(free)] = e]

\* An entry is cleared with zeroes.
ClearNothing(s, k) == s
Clear(s, k) == [s EXCEPT ![k] = FreeSlot]

\* The directories a path can lead to.
IsDir(i) == i # 0 /\ ino[i].type = "T_DIR"
Directories == {ROOT} \cup {i \in {Lookup(ROOT, n) : n \in FileNames} : IsDir(i)}

\* inode_name_x locks every directory on the way to one in d: those that are
\* kept are valid from then on.
Walked(m, d) ==
  [i \in INums |-> IF i \in {ROOT, d} /\ ref[i] > 0 THEN ino[i].nlink ELSE m[i]]

----------------------------------------------------------------------------
(* Inodes.                                                                 *)

\* lock() reads nlink if the inode is not valid.
Nlink(i) == IF mem[i] = None THEN ino[i].nlink ELSE mem[i]

\* inode_alloc: the first free inode.
AllocByLinks == LET free == {i \in INums : ino[i].nlink = 0} IN IF free = {} THEN 0 ELSE Min(free)
AllocPastEnd ==
  Min({i \in 1 .. NINODES + 1 : i > NINODES \/ ino[i] = FreeINode})
Alloc == LET free == {i \in INums : ino[i] = FreeINode} IN IF free = {} THEN 0 ELSE Min(free)

\* update(), and inode_put when the call's reference was the last.
PutKeeps(i, n, refs) == [ino EXCEPT ![i].nlink = n]
UpdateAndPut(i, n, refs) ==
  [ino EXCEPT ![i] = IF n = 0 /\ refs = 0 THEN FreeINode ELSE [@ EXCEPT !.nlink = n]]

----------------------------------------------------------------------------
(* Calls.                                                                  *)

\* op_create, or open with O_CREAT: a new file, which is then open.  (Without a
\* slot in the file table it is put at once, as if it were closed again.)
Create(d, n) ==
  LET i == Alloc IN
  /\ d \in Directories /\ Lookup(d, n) = 0
  /\ i # 0
  /\ ino' = [ino EXCEPT ![i] = [type |-> "T_FILE", nlink |-> 1]]
  /\ ents' = [ents EXCEPT ![d] = Link(@, FreeSlots(d), [inum |-> i, name |-> n])]
  /\ ref' = [ref EXCEPT ![i] = 1]
  /\ mem' = [Walked(mem, d) EXCEPT ![i] = 1]
  /\ UNCHANGED orphans

\* create without an inode, or without a block for the directory to grow into,
\* in which case inode_put gives the inode back: only the walk has happened.
CreateFails(d, n) ==
  /\ d \in Directories /\ Lookup(d, n) = 0
  /\ Alloc = 0 \/ FreeSlots(d) = {}
  /\ mem' = Walked(mem, d)
  /\ UNCHANGED <<ino, ents, ref, orphans>>

\* The parent's count after a subdirectory was made in it.
CountsNoSubdir(n) == n
CountsSubdir(n) == n + 1

\* op_mkdir: the new directory's ".." is a link to its parent.
Mkdir(n) ==
  LET i == Alloc IN
  /\ Lookup(ROOT, n) = 0
  /\ i # 0
  /\ ino' = [ino EXCEPT ![i] = [type |-> "T_DIR", nlink |-> 1],
                        ![ROOT].nlink = CountsSubdir(ino[ROOT].nlink)]
  /\ ents' = [ents EXCEPT ![i] = Dots(i, ROOT),
                          ![ROOT] = Link(ents[ROOT], FreeSlots(ROOT), [inum |-> i, name |-> n])]
  /\ mem' = [mem EXCEPT ![ROOT] = IF ref[ROOT] > 0 THEN ino'[ROOT].nlink ELSE @]
  /\ UNCHANGED <<ref, orphans>>

\* do_open of an inode that exists, directories included: one more reference.
\* m is what the walk has left in memory.
DoOpen(i, m) ==
  /\ i # 0 /\ ino[i].type # "Invalid"
  /\ ref[i] < MaxRef
  /\ ref' = [ref EXCEPT ![i] = @ + 1]
  /\ mem' = [m EXCEPT ![i] = Nlink(i)]
  /\ UNCHANGED <<ino, ents, orphans>>

\* op_open, which is open and opendir, by a name or of "/", where no directory
\* is locked on the way.
Open(d, n) == d \in Directories /\ DoOpen(Lookup(d, n), Walked(mem, d))
OpenRoot == DoOpen(ROOT, mem)

\* op_release: the last reference to an inode without links frees it.
Release(i) ==
  /\ ref[i] > 0 /\ mem[i] # None
  /\ ref' = [ref EXCEPT ![i] = @ - 1]
  /\ ino' = IF mem[i] = 0 THEN UpdateAndPut(i, 0, ref[i] - 1) ELSE ino
  /\ mem' = [mem EXCEPT ![i] = IF ref[i] = 1 THEN None ELSE @]
  /\ UNCHANGED <<ents, orphans>>

\* lock() has read the inodes in the set, those of them that are kept.
Seen(m, S) == [i \in INums |-> IF i \in S /\ ref[i] > 0 THEN Nlink(i) ELSE m[i]]

\* op_getattr: do_open, do_fillstatbuf and ofile_close in one call.
GetattrOf(i, m) ==
  /\ i # 0 /\ ino[i].type # "Invalid"
  /\ mem' = Seen(m, {i})
  /\ UNCHANGED <<ino, ents, ref, orphans>>

Getattr(d, n) == d \in Directories /\ GetattrOf(Lookup(d, n), Walked(mem, d))
GetattrRoot == GetattrOf(ROOT, mem)

\* op_readdir of an open directory: every entry's inode is locked for a moment.
Listed(d) == {ents[d][k].inum : k \in DOMAIN ents[d]} \ {0}

Readdir(d) ==
  /\ IsDir(d) /\ ref[d] > 0
  /\ \A i \in Listed(d) : ino[i].type # "Invalid"
  /\ mem' = Seen(mem, Listed(d))
  /\ UNCHANGED <<ino, ents, ref, orphans>>

\* do_unlink: the slot is cleared, nlink goes down.
Unlink(d, n) ==
  LET i == Lookup(d, n)
      k == Min(Slots(d, n))
  IN
  /\ d \in Directories
  /\ i # 0 /\ ino[i].type = "T_FILE"
  /\ Nlink(i) >= 1
  /\ ents' = [ents EXCEPT ![d] = Clear(@, k)]
  /\ ino' = UpdateAndPut(i, Nlink(i) - 1, ref[i])
  /\ mem' = [Walked(mem, d) EXCEPT ![i] = IF ref[i] > 0 THEN Nlink(i) - 1 ELSE None]
  /\ UNCHANGED <<ref, orphans>>

\* The daemon dies and the image is mounted again.
Crash ==
  /\ ref' = [i \in INums |-> 0]
  /\ mem' = [i \in INums |-> None]
  /\ orphans' = orphans \cup {i \in INums : ino[i].type # "Invalid" /\ ino[i].nlink = 0}
  /\ UNCHANGED <<ino, ents>>

\* op_mkdir uses what create returns without looking: when there is no inode,
\* or no block for the new directory, the nullptr ends the daemon.
MkdirFails(n) == Lookup(ROOT, n) = 0 /\ Crash

Next ==
  \/ \E d \in INums, n \in FileNames : Create(d, n)
  \/ \E d \in INums, n \in FileNames : CreateFails(d, n)
  \/ \E n \in FileNames : Mkdir(n)
  \/ \E n \in FileNames : MkdirFails(n)
  \/ \E d \in INums, n \in FileNames : Open(d, n)
  \/ OpenRoot
  \/ \E d \in INums, n \in FileNames : Getattr(d, n)
  \/ GetattrRoot
  \/ \E d \in INums : Readdir(d)
  \/ \E d \in INums, n \in FileNames : Unlink(d, n)
  \/ \E i \in INums : Release(i)
  \/ Crash

Spec == Init /\ [][Next]_vars

----------------------------------------------------------------------------
(* Properties.                                                             *)

\* What the slots amount to for those who use paths: no call changes another
\* name than its own, and a new file or directory gets an inode that no name
\* and no handle leads to, in any order of creations, removals, closes and
\* restarts.
NS == INSTANCE NameSpace WITH
  Nodes <- INums,
  Root <- ROOT,
  tree <- [k \in INums \X FileNames |-> Lookup(k[1], k[2])],
  opens <- ref

NameSpaceKept == NS!Spec

\* The entries for inode i, its own "." left out.
Entries(i) ==
  (UNION {{<<d, k>> : k \in {k \in DOMAIN ents[d] : ents[d][k].inum = i /\ k # 1}} : d \in INums})
    \ {<<ROOT, 2>>}

\* nlink of every inode is the number of its entries (the root, which nobody
\* names, has one more): unlink, which frees at zero, and the names agree.
LinkCountExact ==
  \A i \in INums :
    ino[i].nlink = Cardinality(Entries(i)) + (IF i = ROOT THEN 1 ELSE 0)

\* No entry names a free inode, in whose place create puts another file.
NoDanglingName ==
  \A d \in Directories : \A k \in DOMAIN ents[d] :
    ents[d][k].inum # 0 => ino[ents[d][k].inum].type # "Invalid"

\* A name occurs once in a directory and "." and ".." stay its first two slots,
\* with the parent a directory really has: dirlink never reuses a live slot.
DirectoriesSound ==
  \A d \in Directories :
    /\ SubSeq(ents[d], 1, 2) = Dots(d, ROOT)
    /\ \A j, k \in DOMAIN ents[d] :
         ents[d][j].inum # 0 /\ ents[d][k].inum # 0 /\ ents[d][j].name = ents[d][k].name
           => j = k

\* An inode is lost only if the daemon died while the file was open without a
\* name: otherwise the last unlink or the last release frees it.
LostOnlyInCrash ==
  \A i \in INums \ orphans :
    ino[i].type # "Invalid" => ino[i].nlink > 0 \/ ref[i] > 0

============================================================================
