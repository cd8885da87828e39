------------------------------- MODULE Mkfs --------------------------------
(***************************************************************************)
(* mkfs (src/mkfs/mkfs.c): the layout of an image and the files it starts  *)
(* with.  The program is sequential; a step is one call of main, or one    *)
(* round of the loop in iappend.  Sizes are counted in directory entries:  *)
(* an entry has size one, a block BSIZE, and a file's bytes come in units  *)
(* of that size.                                                           *)
(*                                                                         *)
(* The files on the command line have different names, once shortened,     *)
(* none of them "." or "..", and there are not more than inodes; mkfs      *)
(* checks none of this.                                                    *)
(***************************************************************************)
EXTENDS Integers, Sequences, FiniteSets

CONSTANTS
  Geometries,   \* records of FSSIZE, NINODES and LOGSIZE, to choose from
  MaxINodes,    \* no geometry has more inodes
  BSIZE, NDIRECT, NINDIRECT,
  IPB,          \* inodes per block
  BPB,          \* bits per block
  FileNames,    \* files that may be on the command line
  Sizes,        \* their sizes
  None

ROOTINO == 1
MAXFILE == NDIRECT + NINDIRECT
FSMAGIC == "FSMAGIC"

ASSUME MkfsAssumption ==
  /\ BSIZE \in Nat \ {0} /\ IPB \in Nat \ {0} /\ BPB \in Nat \ {0}
  /\ NDIRECT \in Nat /\ NINDIRECT \in Nat \ {0}
  /\ Sizes \subseteq Nat /\ MaxINodes \in Nat
  /\ "." \notin FileNames /\ ".." \notin FileNames
  /\ \A g \in Geometries : g.FSSIZE \in Nat /\ g.NINODES \in 2 .. MaxINodes /\ g.LOGSIZE \in Nat

VARIABLES
  geo,         \* the constants mkfs was compiled with
  pc,          \* where main is, or iappend
  sector1,     \* the block of the superblock
  ino,         \* the inode blocks
  ind,         \* blocks as indirect blocks
  data,        \* blocks as data
  bitmap,      \* marked blocks
  freeinode, used_block,
  call,        \* iappend's locals: the inode, its copy din, off, and what is left
               \* to append; ret is where main goes on
  host         \* the files copied to inodes: their size, and units read so far

vars == <<geo, pc, sector1, ino, ind, data, bitmap, freeinode, used_block, call, host>>

----------------------------------------------------------------------------
(* The layout.                                                             *)

nbitmap == geo.FSSIZE \div BPB + 1
ninodeblocksExact == geo.NINODES \div IPB
ninodeblocks == geo.NINODES \div IPB + 1
nmeta == 1 + 1 + geo.LOGSIZE + ninodeblocks + nbitmap

\* The superblock as it lies in its block, word by word.
Superblock ==
  <<FSMAGIC, geo.FSSIZE, geo.FSSIZE - nmeta, geo.NINODES, geo.LOGSIZE,
    2, 2 + geo.LOGSIZE, 2 + geo.LOGSIZE + ninodeblocks>>

\* SuperBlock::init reads the words.
SuperBlockInit ==
  [magic |-> sector1[1], size |-> sector1[2], nblocks |-> sector1[3],
   ninodes |-> sector1[4], nlog |-> sector1[5], logstart |-> sector1[6],
   inodestart |-> sector1[7], bmapstart |-> sector1[8]]

\* Where the daemon looks for inode i, the bit of block b, and the blocks of the
\* log: log_write allows nlog - 1 of them besides the header.
INODE_BLOCK(i) == i \div IPB + SuperBlockInit.inodestart
BIT_BLOCK(b) == b \div BPB + SuperBlockInit.bmapstart
LogBlocks == {SuperBlockInit.logstart + k : k \in 0 .. SuperBlockInit.nlog - 1}

----------------------------------------------------------------------------
Blocks == 0 .. geo.FSSIZE - 1
INums == 1 .. MaxINodes

FreeINode == [type |-> "Invalid", nlink |-> 0, size |-> 0, addrs |-> [k \in 0 .. NDIRECT |-> 0]]
NoEntries == [j \in 0 .. NINDIRECT - 1 |-> 0]

\* What a block holds as data: entries, units of files, and zeroes, which are
\* entries that are free.
Entry(i, n) == [inum |-> i, name |-> n]
FreeSlot == Entry(0, None)
Zeroes == [k \in 0 .. BSIZE - 1 |-> FreeSlot]
Unit(i, k) == [of |-> i, unit |-> k]

Init ==
  /\ geo \in Geometries
  /\ pc = "layout"
  /\ sector1 = <<>>
  /\ ino = [i \in INums |-> FreeINode]
  /\ ind = [b \in Blocks |-> NoEntries]
  /\ data = [b \in Blocks |-> Zeroes]
  /\ bitmap = {}
  /\ freeinode = 1
  /\ used_block = 0
  /\ call = None
  /\ host = [i \in INums |-> [size |-> 0, copied |-> 0]]

image == <<sector1, ino, ind, data, bitmap>>

\* main as far as the superblock; all blocks are cleared.
Layout ==
  /\ pc = "layout"
  /\ sector1' = Superblock
  /\ used_block' = nmeta
  /\ pc' = "root"
  /\ UNCHANGED <<geo, ino, ind, data, bitmap, freeinode, call, host>>

\* ialloc.
NewINodeNoLink(type) == [FreeINode EXCEPT !.type = type]
NewINode(type) == [FreeINode EXCEPT !.type = type, !.nlink = 1]

Ialloc(type) ==
  /\ ino' = [ino EXCEPT ![freeinode] = NewINode(type)]
  /\ freeinode' = freeinode + 1

\* iappend begins: rinode.
Iappend(i, src, ret) ==
  /\ call' = [inum |-> i, din |-> ino[i], off |-> ino[i].size, src |-> src, ret |-> ret]
  /\ pc' = "iappend"

IallocRoot ==
  /\ pc = "root"
  /\ Ialloc("T_DIR")
  /\ pc' = "dot"
  /\ UNCHANGED <<geo, sector1, ind, data, bitmap, used_block, call, host>>

AppendDot(from, name, ret) ==
  /\ pc = from
  /\ Iappend(ROOTINO, <<Entry(ROOTINO, name)>>, ret)
  /\ UNCHANGED <<geo, image, freeinode, used_block, host>>

\* The next file: ialloc, and its entry in the root.
InRoot(n) ==
  \E b \in Blocks, k \in 0 .. BSIZE - 1, i \in INums : data[b][k] = Entry(i, n)

AddFile(n, size) ==
  /\ pc = "files"
  /\ ~InRoot(n)
  /\ freeinode < geo.NINODES
  /\ Ialloc("T_FILE")
  /\ host' = [host EXCEPT ![freeinode].size = size]
  /\ Iappend(ROOTINO, <<Entry(freeinode, n)>>, "copy")
  /\ UNCHANGED <<geo, sector1, ind, data, bitmap, used_block>>

\* read gives up to a block of the file, which is appended.
inum == freeinode - 1

CopyChunk(cc) ==
  /\ pc = "copy"
  /\ cc <= host[inum].size - host[inum].copied
  /\ host' = [host EXCEPT ![inum].copied = @ + cc]
  /\ Iappend(inum, [k \in 1 .. cc |-> Unit(inum, host[inum].copied + k)], "copy")
  /\ UNCHANGED <<geo, image, freeinode, used_block>>

CopyDone ==
  /\ pc = "copy"
  /\ host[inum].copied = host[inum].size
  /\ pc' = "files"
  /\ UNCHANGED <<geo, image, freeinode, used_block, call, host>>

----------------------------------------------------------------------------
(* iappend.                                                                *)

\* The block x of position f: [din, ind, used, x], allocated if it was not
\* there; the indirect block too.
DirectBlock(s, k) ==
  IF s.din.addrs[k] # 0 THEN [s EXCEPT !.x = s.din.addrs[k]]
  ELSE [s EXCEPT !.din.addrs[k] = s.used, !.x = s.used, !.used = @ + 1]

\* rsect of an indirect block past the end of the image gives nothing.
IndirectBlock(s, j) ==
  LET top == DirectBlock(s, NDIRECT) IN
  CASE top.x \notin Blocks -> top
    [] top.x \in Blocks /\ top.ind[top.x][j] # 0 -> [top EXCEPT !.x = top.ind[top.x][j]]
    [] OTHER -> [top EXCEPT !.ind[top.x][j] = top.used, !.x = top.used, !.used = @ + 1]

IndirectBlockForgotten(s, f) ==
  IF f < NDIRECT THEN DirectBlock(s, f)
  ELSE LET new == IndirectBlock(s, f - NDIRECT) IN [new EXCEPT !.ind = s.ind]
BlockFor(s, f) ==
  IF f < NDIRECT THEN DirectBlock(s, f) ELSE IndirectBlock(s, f - NDIRECT)

\* How much of the rest goes into this block.
UnalignedOverrun(n, off) == IF n < BSIZE THEN n ELSE BSIZE
InThisBlock(n, off) ==
  LET room == (off \div BSIZE + 1) * BSIZE - off IN IF n < room THEN n ELSE room

\* One round of the loop.
fbn == call.off \div BSIZE
Found == BlockFor([din |-> call.din, ind |-> ind, used |-> used_block, x |-> 0], fbn)

AppendBlock ==
  LET at == call.off % BSIZE
      s == Found
      n1 == InThisBlock(Len(call.src), call.off)
  IN
  /\ pc = "iappend"
  /\ call.src # <<>>
  /\ fbn < MAXFILE
  /\ s.x \in Blocks
  /\ ind' = s.ind
  /\ used_block' = s.used
  /\ data' = [data EXCEPT ![s.x] =
       [k \in 0 .. BSIZE - 1 |-> IF k \in at .. at + n1 - 1 THEN call.src[k - at + 1] ELSE @[k]]]
  /\ call' = [call EXCEPT !.din = s.din, !.off = @ + n1,
                          !.src = SubSeq(@, n1 + 1, Len(@))]
  /\ UNCHANGED <<geo, pc, sector1, ino, bitmap, freeinode, host>>

\* The assertion fails, or the image is full: rsect reads nothing past its end.
\* The image is left half made, and nobody uses it.
AppendFails ==
  /\ pc = "iappend"
  /\ call.src # <<>>
  /\ fbn < MAXFILE => Found.x \notin Blocks
  /\ pc' = "failed"
  /\ UNCHANGED <<geo, image, freeinode, used_block, call, host>>

\* The new size, winode.
AppendEnd ==
  /\ pc = "iappend"
  /\ call.src = <<>>
  /\ ino' = [ino EXCEPT ![call.inum] = [call.din EXCEPT !.size = call.off]]
  /\ pc' = call.ret
  /\ call' = None
  /\ UNCHANGED <<geo, sector1, ind, data, bitmap, freeinode, used_block, host>>

----------------------------------------------------------------------------
(* The end of main.                                                        *)

\* "fix size of root inode dir": up to the next block, even from a whole one.
RoundDown(off) == (off \div BSIZE) * BSIZE
RoundUp(off) == (off \div BSIZE + 1) * BSIZE

FixRoot ==
  /\ pc = "files"
  /\ ino' = [ino EXCEPT ![ROOTINO].size = RoundUp(@)]
  /\ pc' = "balloc"
  /\ UNCHANGED <<geo, sector1, ind, data, bitmap, freeinode, used_block, call, host>>

\* balloc: one block of bits, the first `used` of them set.
MarkedOneLess(used) == 0 .. used - 2
Marked(used) == 0 .. used - 1

Balloc ==
  /\ pc = "balloc"
  /\ used_block < BPB
  /\ bitmap' = Marked(used_block)
  /\ pc' = "done"
  /\ UNCHANGED <<geo, sector1, ino, ind, data, freeinode, used_block, call, host>>

BallocFails ==
  /\ pc = "balloc"
  /\ used_block >= BPB
  /\ pc' = "failed"
  /\ UNCHANGED <<geo, image, freeinode, used_block, call, host>>

Next ==
  \/ Layout
  \/ IallocRoot
  \/ AppendDot("dot", ".", "dotdot")
  \/ AppendDot("dotdot", "..", "files")
  \/ \E n \in FileNames, size \in Sizes : AddFile(n, size)
  \/ \E cc \in 1 .. BSIZE : CopyChunk(cc)
  \/ CopyDone
  \/ AppendBlock
  \/ AppendFails
  \/ AppendEnd
  \/ FixRoot
  \/ Balloc
  \/ BallocFails

Spec == Init /\ [][Next]_vars

----------------------------------------------------------------------------
(* op_statfs of the daemon: what is free.  It was compiled with the same   *)
(* FSSIZE and NINODES.                                                     *)

block_cnt == Cardinality({b \in 0 .. SuperBlockInit.size - 1 : b \in bitmap})
inode_cnt == Cardinality({i \in 1 .. SuperBlockInit.ninodes - 1 : ino[i].type # "Invalid"})
f_bfree == geo.FSSIZE - block_cnt
f_ffree == geo.NINODES - inode_cnt

----------------------------------------------------------------------------
(* Properties.                                                             *)

\* What the daemon takes for its log, its inodes, its bitmap and its data are
\* different blocks: it computes the numbers from the superblock by formulas of
\* its own, for every inode and every bit.
LayoutDisjoint ==
  sector1 # <<>> =>
    LET inodes == {INODE_BLOCK(i) : i \in 0 .. SuperBlockInit.ninodes - 1}
        bits == {BIT_BLOCK(b) : b \in 0 .. SuperBlockInit.size - 1}
        free == {b \in Blocks : b >= geo.FSSIZE - SuperBlockInit.nblocks}
    IN
    /\ LogBlocks \cap inodes = {} /\ LogBlocks \cap bits = {} /\ inodes \cap bits = {}
    /\ (LogBlocks \cup inodes \cup bits) \cap ({0, 1} \cup free) = {}

\* The block of a file the daemon's block_map finds at position p.
Phys(i, p) ==
  LET addrs == ino[i].addrs
      top == addrs[NDIRECT]
  IN CASE p < NDIRECT -> addrs[p]
       [] p = MAXFILE -> top
       [] OTHER -> IF top = 0 THEN 0 ELSE ind[top][p - NDIRECT]

Positions == {q \in INums \X (0 .. MAXFILE) : Phys(q[1], q[2]) # 0}
Referenced == {Phys(q[1], q[2]) : q \in Positions}

\* The finished image has no block twice and none past its end, and its bitmap
\* marks exactly the blocks that are taken: the state block_alloc and trunc start
\* from.  op_statfs counts the others, and one more free inode than inode_alloc
\* can give, since inode 0 counts and is never given.
ImageExact ==
  pc = "done" =>
    /\ Cardinality(Referenced) = Cardinality(Positions)
    /\ Referenced \subseteq Blocks
    /\ bitmap = (0 .. nmeta - 1) \cup Referenced
    /\ f_bfree = SuperBlockInit.nblocks - Cardinality(Referenced)
    /\ f_ffree = SuperBlockInit.ninodes - (freeinode - 1)

ReadUnit(i, k) ==
  IF Phys(i, k \div BSIZE) = 0 THEN FreeSlot ELSE data[Phys(i, k \div BSIZE)][k % BSIZE]

\* A file of the image reads as the file it was copied from, in whatever
\* portions read() returned it.
FilesReadBack ==
  pc = "done" =>
    \A i \in INums : ino[i].type = "T_FILE" =>
      /\ ino[i].size = host[i].size
      /\ \A k \in 0 .. ino[i].size - 1 : ReadUnit(i, k) = Unit(i, k + 1)
      /\ \A p \in 0 .. MAXFILE - 1 : Phys(i, p) # 0 <=> p * BSIZE < ino[i].size

\* The root is as long as its blocks, but for one block that the rounding adds
\* when its entries fill them: only then it has a hole.
RootHoleOnlyWhenFull ==
  pc = "done" =>
    LET entries == Cardinality({n \in FileNames : InRoot(n)}) + 2 IN
    \A p \in 0 .. MAXFILE - 1 :
      p * BSIZE < ino[ROOTINO].size /\ Phys(ROOTINO, p) = 0 =>
        entries % BSIZE = 0 /\ p = entries \div BSIZE

\* The image as Names sees it.
N == INSTANCE Names WITH
  NINODES <- MaxINodes,
  RootSlots <- 2,
  MaxRef <- 0,
  ino <- [i \in INums |-> [type |-> ino[i].type, nlink |-> ino[i].nlink]],
  ents <- [i \in INums |->
    IF i # ROOTINO THEN <<>> ELSE [k \in 1 .. ino[i].size |-> ReadUnit(i, k - 1)]],
  ref <- [i \in INums |-> 0],
  mem <- [i \in INums |-> None],
  orphans <- {}

\* The names of the finished image satisfy what the daemon keeps up from then on.
NamesStartSound ==
  pc = "done" =>
    N!LinkCountExact /\ N!NoDanglingName /\ N!DirectoriesSound /\ N!LostOnlyInCrash

============================================================================
