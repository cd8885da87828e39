---------------------------- MODULE FileContent ----------------------------
(***************************************************************************)
(* What files are made of: the bitmap, the block addresses of an inode,    *)
(* reading, writing and truncating (src/src/fs.cxx, File.cxx, op_read.cxx, *)
(* op_write.cxx, op_truncate.cxx).                                         *)
(*                                                                         *)
(* The disk is the crash-atomic one of TxDisk, which Log implements: what  *)
(* operations log is visible at once and becomes stable together when the  *)
(* last outstanding operation ends.  A handle is an open file with its     *)
(* offset, the OFile; threads make calls on handles, several on the same   *)
(* one if the kernel asks them to.  A step is one block allocated and used,*)
(* or freed, with the inode's mutex held.                                  *)
(*                                                                         *)
(* Of a block's bytes the model keeps whose they are; of an indirect block *)
(* its entries.  A handle that is not `readable` is left out: OFile::read  *)
(* and OFile::write both refuse it at once.                                *)
(***************************************************************************)
EXTENDS Integers, FiniteSets, FiniteSetsExt

CONSTANTS
  Threads, Handles, Files, None,
  NBLOCKS,         \* data blocks of the file system, numbered from 1
  BSIZE, NDIRECT, NINDIRECT, MAX_OP_BLOCKS,
  Width,           \* uint32_t has this many bits
  Sizes, Offsets,  \* sizes of the reads and writes that are asked for, where to read
  Lengths,         \* lengths to truncate to
  MaxCalls         \* reads, writes and truncations, at most

Blocks == 1 .. NBLOCKS
BITMAP == -2    \* the block of the bitmap and the one of the inodes, which are
INODE == -1     \* not data blocks
MAX_FILE == NDIRECT + NINDIRECT

INodes == [size : Nat, addrs : [0 .. NDIRECT -> 0 .. NBLOCKS]]

ASSUME ContentAssumption ==
  /\ IsFiniteSet(Threads) /\ None \notin Threads \cup Handles \cup Files \cup INodes
  /\ NBLOCKS \in Nat /\ NDIRECT \in Nat /\ NINDIRECT \in Nat \ {0}
  /\ BSIZE \in Nat \ {0}
  /\ 2 ^ Width \in Nat \ {0}        \* what a Width in Nat gives: the provers lack it
  /\ MAX_OP_BLOCKS \in Nat /\ MAX_OP_BLOCKS >= 6    \* a chunk is at least one block
  /\ Sizes \subseteq Nat \ {0} /\ Offsets \subseteq Nat /\ Lengths \subseteq Nat /\ MaxCalls \in Nat

VARIABLES
  disk,    \* the blocks as operations see them: bitmap, inodes, block contents
  stable,  \* the blocks as a crash leaves them
  mem,     \* INode::dinode of the cached inodes
  ilock,   \* INode::mtx: its owner
  fp,      \* OFile::ip: the file a handle stands for
  off,     \* OFile::off
  pc,
  fd,      \* fi->fh: the handle a thread's call is about
  pos,     \* the offset INode::read or INode::write was called with
  want,    \* bytes the call has still to move
  tot,     \* loop variable of read, write and trunc
  logged,  \* the blocks the thread's operation has given to log_write
  holes,   \* blocks that INode::read has allocated, ever
  calls    \* calls made, for the bound

vars == <<disk, stable, mem, ilock, fp, off, pc, fd, pos, want, tot, logged, holes, calls>>

NoEntries == [j \in 0 .. NINDIRECT - 1 |-> 0]
EmptyINode == [size |-> 0, addrs |-> [k \in 0 .. NDIRECT |-> 0]]

Disks ==
  [used : SUBSET Blocks,
   ino  : [Files -> INodes],
   ind  : [Blocks -> [0 .. NINDIRECT - 1 -> 0 .. NBLOCKS]],
   blk  : [Blocks -> SUBSET Files]]

\* The operation between begin_op and end_op, and the ones outside of it.
OpPCs == {"write_lock", "write", "trunc_lock", "trunc", "size_lock", "end_op"}
PCs == {"idle", "read_lock", "read", "write_begin"} \cup OpPCs

TypeOK ==
  /\ disk \in Disks
  /\ stable \in Disks
  /\ \A i \in Files : mem[i] \in INodes \cup {None}
  /\ ilock \in [Files -> Threads \cup {None}]
  /\ fp \in [Handles -> Files \cup {None}]
  /\ off \in [Handles -> Nat]
  /\ pc \in [Threads -> PCs]
  /\ fd \in [Threads -> Handles \cup {None}]
  /\ pos \in [Threads -> Nat]
  /\ want \in [Threads -> Nat]
  /\ tot \in [Threads -> Nat]
  /\ \A t \in Threads : IsFiniteSet(logged[t])
  /\ holes \in SUBSET Blocks
  /\ calls \in 0 .. MaxCalls

EmptyDisk ==
  [used |-> {},
   ino  |-> [i \in Files |-> EmptyINode],
   ind  |-> [b \in Blocks |-> NoEntries],
   blk  |-> [b \in Blocks |-> {}]]

NoFile == [i \in Files |-> None]
AllThreads(v) == [t \in Threads |-> v]
AllHandles(v) == [h \in Handles |-> v]

Init ==
  /\ disk = EmptyDisk
  /\ stable = EmptyDisk
  /\ mem = NoFile
  /\ ilock = NoFile
  /\ fp = AllHandles(None)
  /\ off = AllHandles(0)
  /\ pc = AllThreads("idle")
  /\ fd = AllThreads(None)
  /\ pos = AllThreads(0)
  /\ want = AllThreads(0)
  /\ tot = AllThreads(0)
  /\ logged = AllThreads({})
  /\ holes = {}
  /\ calls = 0

Goto(t, l) == pc' = [pc EXCEPT ![t] = l]

File(t) == fp[fd[t]]

\* Log::outstanding.
Outstanding == Cardinality({t \in Threads : pc[t] \in OpPCs})

----------------------------------------------------------------------------
(* block_alloc, block_map.  They work on a record of the disk, the         *)
(* addresses of the inode, the blocks logged so far and their result b.    *)

\* The first free block, marked and zeroed; b = 0 when there is none.
BlockAllocDirty(s) ==
  LET b == Min(Blocks \ s.disk.used) IN
  IF s.disk.used = Blocks THEN [s EXCEPT !.b = 0]
  ELSE [s EXCEPT !.b = b, !.disk.used = @ \cup {b}, !.disk.ind[b] = NoEntries]
BlockAllocPastEnd(s) ==
  LET b == Min((Blocks \cup {NBLOCKS + 1}) \ s.disk.used) IN
  [s EXCEPT !.b = b,
            !.disk.used = @ \cup {b},
            !.disk.blk = [c \in DOMAIN @ \cup {b} |-> IF c = b THEN {} ELSE @[c]],
            !.disk.ind = [c \in DOMAIN @ \cup {b} |-> IF c = b THEN NoEntries ELSE @[c]]]
BlockAllocUnmarked(s) ==
  LET b == Min(Blocks \ s.disk.used) IN
  IF s.disk.used = Blocks THEN [s EXCEPT !.b = 0]
  ELSE [s EXCEPT !.b = b, !.disk.blk[b] = {}, !.disk.ind[b] = NoEntries]
BlockAlloc(s) ==
  LET b == Min(Blocks \ s.disk.used) IN
  IF s.disk.used = Blocks THEN [s EXCEPT !.b = 0]
  ELSE [s EXCEPT !.b = b,
                 !.disk.used = @ \cup {b},
                 !.disk.blk[b] = {},
                 !.disk.ind[b] = NoEntries,
                 !.log = @ \cup {BITMAP, b}]

\* The block of address k, allocated if there is none.
MapAddr(s, k) ==
  LET a == BlockAlloc(s) IN
  IF s.addrs[k] # 0 THEN [s EXCEPT !.b = s.addrs[k]] ELSE [a EXCEPT !.addrs[k] = a.b]

\* Entry j of the indirect block.
MapIndirect(s, j) ==
  LET top == MapAddr(s, NDIRECT)
      a == BlockAlloc(top)
  IN
  CASE top.b = 0 -> top
    [] top.b # 0 /\ top.disk.ind[top.b][j] # 0 -> [top EXCEPT !.b = top.disk.ind[top.b][j]]
    [] OTHER -> IF a.b = 0 THEN a
                ELSE [a EXCEPT !.disk.ind[top.b][j] = a.b, !.log = @ \cup {top.b}]

BlockMap(i, n) ==
  LET s == [disk |-> disk, addrs |-> mem[i].addrs, log |-> {}, b |-> 0] IN
  IF n < NDIRECT THEN MapAddr(s, n) ELSE MapIndirect(s, n - NDIRECT)

\* The block at position p of inode m on disk d; the last position is that of
\* the indirect block itself.
Phys(d, m, p) ==
  LET top == m.addrs[NDIRECT] IN
  CASE p < NDIRECT -> m.addrs[p]
    [] p = MAX_FILE -> top
    [] OTHER -> IF top = 0 THEN 0 ELSE d.ind[top][p - NDIRECT]

Mapped(d, m) == {p \in 0 .. MAX_FILE : Phys(d, m, p) # 0}

----------------------------------------------------------------------------
(* Opening and closing.                                                    *)

\* do_open: lock() reads the inode if it is not cached.
Open(h, i) ==
  /\ fp[h] = None
  /\ ilock[i] = None
  /\ mem' = [mem EXCEPT ![i] = IF @ = None THEN disk.ino[i] ELSE @]
  /\ fp' = [fp EXCEPT ![h] = i]
  /\ off' = [off EXCEPT ![h] = 0]
  /\ UNCHANGED <<disk, stable, ilock, pc, fd, pos, want, tot, logged, holes>>

\* op_release: the inode leaves the cache with its last handle.
Release(h) ==
  LET i == fp[h] IN
  /\ i # None
  /\ \A t \in Threads : fd[t] # h
  /\ fp' = [fp EXCEPT ![h] = None]
  /\ off' = [off EXCEPT ![h] = 0]
  /\ mem' = [mem EXCEPT ![i] = IF \E g \in Handles \ {h} : fp[g] = i THEN @ ELSE None]
  /\ UNCHANGED <<disk, stable, ilock, pc, fd, pos, want, tot, logged, holes>>

\* A thread takes up a call on an open handle.
TakeUp(t, h) ==
  /\ pc[t] = "idle"
  /\ fp[h] # None
  /\ fd' = [fd EXCEPT ![t] = h]

\* begin_op, for n bytes; then the call waits for the inode.
BeginOp(t, n, next) ==
  /\ want' = [want EXCEPT ![t] = n]
  /\ Goto(t, next)
  /\ UNCHANGED <<disk, stable, mem, ilock, fp, off, pos, tot, logged, holes>>

\* The inode is locked, and what comes next works at the offset of the moment.
LockINode(t, from, to) ==
  /\ pc[t] = from
  /\ ilock[File(t)] = None
  /\ ilock' = [ilock EXCEPT ![File(t)] = t]
  /\ pos' = [pos EXCEPT ![t] = off[fd[t]]]
  /\ Goto(t, to)
  /\ UNCHANGED <<disk, stable, mem, fp, off, fd, want, tot, logged, holes>>

UnlockINode(t) ==
  /\ ilock' = [ilock EXCEPT ![File(t)] = None]
  /\ pos' = [pos EXCEPT ![t] = 0]
  /\ tot' = [tot EXCEPT ![t] = 0]

\* end_op: the last one commits, with what the others have logged before.  A
\* write goes on with its next chunk.
EndOp(t) ==
  /\ pc[t] = "end_op"
  /\ stable' = IF Outstanding = 1 THEN disk ELSE stable
  /\ logged' = [logged EXCEPT ![t] = {}]
  /\ fd' = [fd EXCEPT ![t] = IF want[t] > 0 THEN @ ELSE None]
  /\ Goto(t, IF want[t] > 0 THEN "write_begin" ELSE "idle")
  /\ UNCHANGED <<disk, mem, ilock, fp, off, pos, want, tot, holes>>

----------------------------------------------------------------------------
(* op_write, OFile::write, INode::write.                                   *)

\* OFile::write moves at most this much in one operation: the inode, the
\* indirect block and two blocks of slop leave room for so many blocks, each
\* counted twice for its allocation.
MaxChunkWithoutSlop == ((MAX_OP_BLOCKS - 1 - 1) \div 2) * BSIZE
MaxChunk == ((MAX_OP_BLOCKS - 1 - 1 - 2) \div 2) * BSIZE

Chunk(t) == IF want[t] > MaxChunk THEN MaxChunk ELSE want[t]

\* op_write checks its offset against the size and then ignores it: the data
\* goes to the handle's own offset.
WriteBegin(t, h, n) == TakeUp(t, h) /\ BeginOp(t, n, "write_lock")

WriteNext(t) ==
  /\ pc[t] = "write_begin"
  /\ BeginOp(t, want[t], "write_lock")
  /\ UNCHANGED fd

\* INode::write refuses: -1, which is a large number of bytes to OFile::write.
OutOfRange(t) == pos[t] > mem[File(t)].size \/ pos[t] + Chunk(t) > MAX_FILE * BSIZE

WriteRefused(t) ==
  /\ pc[t] = "write"
  /\ OutOfRange(t)
  /\ off' = [off EXCEPT ![fd[t]] = @ + (2 ^ Width - 1)]
  /\ want' = [want EXCEPT ![t] = 0]
  /\ UnlockINode(t)
  /\ Goto(t, "end_op")
  /\ UNCHANGED <<disk, stable, mem, fp, fd, logged, holes>>

\* How much of the call falls into the block its next byte is in.
InThisBlock(t, n) == Min({n - tot[t], BSIZE - ((pos[t] + tot[t]) % BSIZE)})

Put(d, b, i, m) == [d EXCEPT !.blk[b] = IF m = BSIZE THEN {i} ELSE @ \cup {i}]

WriteBlock(t) ==
  LET i == File(t)
      s == BlockMap(i, (pos[t] + tot[t]) \div BSIZE)
      m == InThisBlock(t, Chunk(t))
  IN
  /\ pc[t] = "write"
  /\ tot[t] < Chunk(t) /\ ~OutOfRange(t)
  /\ s.b # 0
  /\ disk' = Put(s.disk, s.b, i, m)
  /\ mem' = [mem EXCEPT ![i].addrs = s.addrs]
  /\ logged' = [logged EXCEPT ![t] = @ \cup s.log \cup {s.b}]
  /\ tot' = [tot EXCEPT ![t] = @ + m]
  /\ UNCHANGED <<stable, ilock, fp, off, pc, fd, pos, want, holes>>

\* The inode after the loop, and update().
SizeOnly(d, i, m) == [d EXCEPT !.ino[i].size = m.size]
Update(d, i, m) == [d EXCEPT !.ino[i] = m]

\* The end of INode::write, with everything written or out of blocks, and of
\* the chunk in OFile::write.
WriteEnd(t) ==
  LET i == File(t)
      s == BlockMap(i, (pos[t] + tot[t]) \div BSIZE)
      full == tot[t] = Chunk(t)
      m == [size |-> Max({mem[i].size, pos[t] + tot[t]}),
            addrs |-> IF full THEN mem[i].addrs ELSE s.addrs]
  IN
  /\ pc[t] = "write"
  /\ ~full => ~OutOfRange(t) /\ s.b = 0
  /\ mem' = [mem EXCEPT ![i] = m]
  /\ disk' = Update(IF full THEN disk ELSE s.disk, i, m)
  /\ logged' = [logged EXCEPT ![t] = @ \cup (IF full THEN {} ELSE s.log) \cup {INODE}]
  /\ off' = [off EXCEPT ![fd[t]] = @ + tot[t]]
  /\ want' = [want EXCEPT ![t] = IF full THEN @ - tot[t] ELSE 0]
  /\ UnlockINode(t)
  /\ Goto(t, "end_op")
  /\ UNCHANGED <<stable, fp, fd, holes>>

----------------------------------------------------------------------------
(* op_read, OFile::read, INode::read.                                      *)

\* op_read takes an offset within the file and makes it the handle's; the read
\* comes later.
ReadBegin(t, h, o, n) ==
  /\ TakeUp(t, h)
  /\ o <= mem[fp[h]].size
  /\ off' = [off EXCEPT ![h] = o]
  /\ want' = [want EXCEPT ![t] = n]
  /\ Goto(t, "read_lock")
  /\ UNCHANGED <<disk, stable, mem, ilock, fp, pos, tot, logged, holes>>

\* INode::read cuts n at the end of the file; past it there is nothing.
Readable(t) ==
  LET size == mem[File(t)].size IN
  IF pos[t] > size THEN 0 ELSE Min({want[t], size - pos[t]})

Reading(t) == pc[t] = "read" /\ tot[t] < Readable(t)
InRange(t) == (pos[t] + tot[t]) \div BSIZE < MAX_FILE
ReadMap(t) == BlockMap(File(t), (pos[t] + tot[t]) \div BSIZE)

\* The next byte is in a block that does not exist: block_map allocates.
AtHole(t) == Reading(t) /\ InRange(t) /\ ReadMap(t).log # {}

\* block_map's range, and log_write's assertion that an operation is going on.
ReadAsserts(t) == InRange(t) /\ (AtHole(t) => Outstanding >= 1)

\* One block is read.  The addresses of new blocks are not written back.  The
\* log_writes of block_map are one step here: an end_op of another thread that
\* commits between them leaves a block that is marked and nobody's, and such
\* blocks are in holes anyway.
ReadBlock(t) ==
  LET s == ReadMap(t) IN
  /\ Reading(t)
  /\ ReadAsserts(t)
  /\ s.b # 0
  /\ disk' = s.disk
  /\ mem' = [mem EXCEPT ![File(t)].addrs = s.addrs]
  /\ holes' = holes \cup (s.disk.used \ disk.used)
  /\ tot' = [tot EXCEPT ![t] = @ + InThisBlock(t, Readable(t))]
  /\ UNCHANGED <<stable, ilock, fp, off, pc, fd, pos, want, logged>>

\* Everything is read, or no block is left for a hole.
ReadEnd(t) ==
  LET s == ReadMap(t)
      full == tot[t] >= Readable(t)
  IN
  /\ pc[t] = "read"
  /\ ~full => ReadAsserts(t) /\ s.b = 0
  /\ disk' = IF full THEN disk ELSE s.disk
  /\ mem' = IF full THEN mem ELSE [mem EXCEPT ![File(t)].addrs = s.addrs]
  /\ holes' = IF full THEN holes ELSE holes \cup (s.disk.used \ disk.used)
  /\ off' = [off EXCEPT ![fd[t]] = @ + tot[t]]
  /\ want' = [want EXCEPT ![t] = 0]
  /\ fd' = [fd EXCEPT ![t] = None]
  /\ UnlockINode(t)
  /\ Goto(t, "idle")
  /\ UNCHANGED <<stable, fp, logged>>

----------------------------------------------------------------------------
(* trunc and op_truncate.                                                  *)

\* trunc in an operation: somebody else opens the file with O_TRUNC.
TruncBegin(t, h) == TakeUp(t, h) /\ BeginOp(t, 0, "trunc_lock")

\* The positions trunc has not come to yet, and the block at the next one.
ToFree(t) == {q \in Mapped(disk, mem[File(t)]) : q >= tot[t]}
NextToFree(t) == Phys(disk, mem[File(t)], Min(ToFree(t)))

Freeing(t) == pc[t] = "trunc" /\ ToFree(t) # {}

\* block_free: "freeing free block".
FreeAsserts(t) == NextToFree(t) \in disk.used

\* block_free of the next block of the file.
TruncFree(t) ==
  LET i == File(t)
      p == Min(ToFree(t))
      b == NextToFree(t)
  IN
  /\ Freeing(t)
  /\ FreeAsserts(t)
  /\ disk' = [disk EXCEPT !.used = @ \ {b}]
  /\ mem' = CASE p < NDIRECT -> [mem EXCEPT ![i].addrs[p] = 0]
              [] p = MAX_FILE -> [mem EXCEPT ![i].addrs[NDIRECT] = 0]
              [] OTHER -> mem
  /\ logged' = [logged EXCEPT ![t] = @ \cup {BITMAP}]
  /\ tot' = [tot EXCEPT ![t] = p + 1]
  /\ UNCHANGED <<stable, ilock, fp, off, pc, fd, pos, want, holes>>

\* size = 0, update.
TruncEnd(t) ==
  LET i == File(t) IN
  /\ pc[t] = "trunc"
  /\ ToFree(t) = {}
  /\ mem' = [mem EXCEPT ![i].size = 0]
  /\ disk' = Update(disk, i, mem'[i])
  /\ logged' = [logged EXCEPT ![t] = @ \cup {INODE}]
  /\ UnlockINode(t)
  /\ Goto(t, "end_op")
  /\ UNCHANGED <<stable, fp, off, fd, want, holes>>

\* op_truncate: only the size changes, to a whole number of blocks in a uint32_t.
RoundUp(n) == (((n + BSIZE - 1) \div BSIZE) * BSIZE) % (2 ^ Width)

SizeBegin(t, h, n) == TakeUp(t, h) /\ BeginOp(t, n, "size_lock")

SetSize(t) ==
  LET i == File(t) IN
  /\ pc[t] = "size_lock"
  /\ ilock[i] = None
  /\ mem' = [mem EXCEPT ![i].size = RoundUp(want[t])]
  /\ disk' = Update(disk, i, mem'[i])
  /\ logged' = [logged EXCEPT ![t] = @ \cup {INODE}]
  /\ want' = [want EXCEPT ![t] = 0]
  /\ Goto(t, "end_op")
  /\ UNCHANGED <<stable, ilock, fp, off, fd, pos, tot, holes>>

----------------------------------------------------------------------------
(* The death of the process, and the next mount.                           *)
Crash ==
  /\ disk' = stable
  /\ mem' = NoFile
  /\ ilock' = NoFile
  /\ fp' = AllHandles(None)
  /\ off' = AllHandles(0)
  /\ pc' = AllThreads("idle")
  /\ fd' = AllThreads(None)
  /\ pos' = AllThreads(0)
  /\ want' = AllThreads(0)
  /\ tot' = AllThreads(0)
  /\ logged' = AllThreads({})
  /\ UNCHANGED <<stable, holes>>

\* An assertion of block_map, log_write or block_free fails.
Asserts(t) ==
  /\ Reading(t) => ReadAsserts(t)
  /\ Freeing(t) => FreeAsserts(t)

Aborts(t) == ~Asserts(t) /\ Crash

\* What the kernel asks for, and how a call goes on.
Call(t, h) ==
  /\ calls < MaxCalls
  /\ calls' = calls + 1
  /\ \/ \E n \in Sizes : WriteBegin(t, h, n)
     \/ \E o \in Offsets, n \in Sizes : ReadBegin(t, h, o, n)
     \/ TruncBegin(t, h)
     \/ \E n \in Lengths : SizeBegin(t, h, n)

Continue(t) ==
  \/ WriteNext(t)
  \/ LockINode(t, "write_lock", "write")
  \/ WriteRefused(t)
  \/ WriteBlock(t)
  \/ WriteEnd(t)
  \/ LockINode(t, "read_lock", "read")
  \/ ReadBlock(t)
  \/ ReadEnd(t)
  \/ LockINode(t, "trunc_lock", "trunc")
  \/ TruncFree(t)
  \/ TruncEnd(t)
  \/ SetSize(t)
  \/ EndOp(t)
  \/ Aborts(t)

Next ==
  \/ \E t \in Threads, h \in Handles : Call(t, h)
  \/ \E h \in Handles, i \in Files : Open(h, i) /\ UNCHANGED calls
  \/ \E h \in Handles : Release(h) /\ UNCHANGED calls
  \/ \E t \in Threads : Continue(t) /\ UNCHANGED calls
  \/ Crash /\ UNCHANGED calls

Spec == Init /\ [][Next]_vars

----------------------------------------------------------------------------
(* Properties.                                                             *)

\* The file's inode as its users see it, and the blocks of it that a trunc in
\* progress has not come to yet.
Current(i) == IF mem[i] = None THEN disk.ino[i] ELSE mem[i]
Freed(i) == IF ilock[i] # None /\ pc[ilock[i]] = "trunc" THEN tot[ilock[i]] ELSE 0
Held(i) == {p \in Mapped(disk, Current(i)) : p >= Freed(i)}

\* block_alloc never hands out a block twice and trunc never frees one that is
\* somebody's: every block of every file is its own and is marked in the
\* bitmap, also while other files are being truncated.
BlocksExclusive ==
  \A i \in Files : \A p \in Held(i) :
    LET b == Phys(disk, Current(i), p) IN
    /\ b \in disk.used
    /\ \A j \in Files : \A q \in Held(j) :
         Phys(disk, Current(j), q) = b => j = i /\ q = p

References(d) == {r \in Files \X (0 .. MAX_FILE) : Phys(d, d.ino[r[1]], r[2]) # 0}
Referenced(d) == {Phys(d, d.ino[r[1]], r[2]) : r \in References(d)}

\* What a crash leaves behind is consistent: no block is in two places, every
\* block of a file is marked used, and a used block without a file is one that
\* INode::read allocated for a hole, the only way to lose one.
StableExact ==
  /\ Cardinality(Referenced(stable)) = Cardinality(References(stable))
  /\ Referenced(stable) \subseteq stable.used
  /\ stable.used \ Referenced(stable) \subseteq holes

\* Nobody finds another file's bytes in a file, also not after a crash: blocks
\* are zeroed when they change hands, in the same transaction.
NoForeignBytes ==
  \A i \in Files :
    /\ \A p \in Held(i) \ {MAX_FILE} : disk.blk[Phys(disk, Current(i), p)] \subseteq {i}
    /\ \A p \in Mapped(stable, stable.ino[i]) \ {MAX_FILE} :
         stable.blk[Phys(stable, stable.ino[i], p)] \subseteq {i}

\* An operation gives log_write fewer blocks than begin_op reserves for it:
\* what LogLive.cfg assumes of the log's callers.
OpFitsReservation == \A t \in Threads : Cardinality(logged[t]) <= MAX_OP_BLOCKS - 1

============================================================================
