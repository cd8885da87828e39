# A TLA+ verification of xv6fs (hitsz-ext2)

xv6fs is a user-space file system: a FUSE daemon over a disk image mapped into
memory, with the structure of the xv6 file system (write-ahead log, block cache,
inode cache, directories, open file table). This directory models it in TLA+,
checks the models with TLC and proves theorems about them with TLAPS: that the
log makes the image a disk on which groups of operations happen entirely or not
at all, that the caches count their references, that directories and link counts
implement a map from names to files. The modules above the log (file content,
names) build on the disk it makes.
Source paths below are relative to the repository, whose files are under `src/`
(so the log is `src/src/Log.cxx`).

## The system

| Part | State | Operations | Talks to |
|---|---|---|---|
| Image (`PosixEnv.h`, `main.cxx`) | the `MAP_SHARED` mapping | read or write one block (`memmove`) | block cache |
| Block cache (`BlockCache.cxx`) | map of cached blocks, reference counts, one mutex per block, one for the map | `block_get/read/write/release/pin/unpin` | image, everybody above |
| Log (`Log.cxx`) | header in memory and on disk, `outstanding`, `committing` | `begin_op`, `log_write`, `end_op`, `commit`, `recover_from_log` | block cache; called by every operation |
| Inode cache (`INodeCache.cxx`, `INode.cxx`) | map of cached inodes, `ref`, `valid`, a mutex per inode | `inode_get/alloc/put`, `lock`, `unlock` | log, block cache |
| File content, allocation (`fs.cxx`, `File.cxx`) | bitmap, `addrs`, `size` | `block_alloc/free`, `block_map`, `trunc`, `read`, `write` | inode cache, log |
| Directories, paths (`fs.cxx`, `op_link`, `op_unlink`, `op_rename`, ...) | directory entries, `nlink` | `dirlookup`, `dirlink`, `create`, `inode_name` | file content, inode cache |
| Open file table (`FileTable.cxx`) | slots: `type`, `ref`, `ip`, `off` | `ofile_alloc/close` | inode cache |
| FUSE operations (`op_*.cxx`) | none of their own | one function per call, run by several threads | all of the above |
| mkfs (`mkfs/mkfs.c`) | `freeinode`, `used_block` | writes the first image: layout, `ialloc`, `iappend`, `balloc` | the daemon, through the image |
| Pipes, devices, attribute stubs, logger | pipes: a ring buffer nothing opens | - | - |

FUSE runs the operations on several threads. They meet on five kinds of mutex
(`Log::mtx` with its condition variable, `BlockCache::mtx`, one per block,
`INodeCache::mtx`, one per inode, `FileTable::mtx`). The daemon can be killed at
any time; the image then holds exactly the block writes made so far, and the
next mount replays the log.

What is hard about it: crash atomicity of operations that share one transaction;
wakeups of threads waiting for log space; reference counts that decide when a
cached block or inode is deleted while others still look at it; lock order;
state set outside of the mutex that guards it (`OFile::type`); `op_flush`, which
drives the log from outside. `PROJECT.json` lists these as hazards, each at its
line, with the properties that cover it.

## Modules

| Module | Models |
|---|---|
| `Log` | The log, the reference counts it relies on, crash, mount and recovery. A step is one critical section of `Log::mtx` or one block moved between cache and image. |
| `TxDisk` | What the log promises: a volatile and a stable copy of the disk; the stable one is replaced in one step, only when no operation is in progress; a crash goes back to it. |
| `LogInv` | The refinement mapping from `Log` to `TxDisk`, and the inductive invariant `IInv`. |
| `LogProofs` | TLAPS proofs that `IInv` is inductive and implies the invariants, and that `begin_op`'s reservation is enough. |
| `LogRefinement` | TLAPS proof that `Log` implements `TxDisk`. |
| `LogLive` | The log with callers that make finitely many calls, and fairness. |
| `FlushLog` | The log with `op_flush` running at any moment. |
| `BlockCache` | The block cache at the level of its mutexes. |
| `FileTable` | The open file table and the life of a handle: `do_open`, `op_create`, `op_getattr`, `op_release`. |
| `INodeCache` | The inode cache at the level of its mutexes, under concurrent opens, listings, creations, removals and closes. |
| `FileContent` | Bitmap, block addresses, reading, writing and truncating, on the disk of `TxDisk`, with crashes. |
| `Names` | Directories and link counts: create, mkdir, open, getattr, readdir, unlink, release, crashes. |
| `NameSpace` | What directories promise: a name leads to one node until it is removed, and a new name to a node nobody uses. |
| `Links` | `op_link` and `op_rename` added to `Names`. |
| `Mkfs` | `mkfs`, the superblock and the formulas the daemon computes from it, and `op_statfs`. |
| `BlockCacheProofs`, `INodeCacheProofs`, `FileTableProofs`, `FileContentProofs`, `NamesProofs`, `MkfsProofs` | TLAPS proofs about the modules they are named after. |
| `MCLog`, `MCBlockCache`, `MCINodeCache`, `MCFileContent`, `MCMkfs` | Model-checking instances (symmetry, ranks, geometries). |

`LogProofs` and `LogRefinement` extend `LogInv`, which extends `Log` and
instantiates `TxDisk`; `LogLive`, `FlushLog` and `MCLog` are built on `Log`, and
`Links` on `Names`. `FileContent` uses the result of the refinement rather than
the log itself: its `disk` and `stable` are `TxDisk`'s volatile and stable copy.
In return it shows what `Log` needs of its callers (`OpFitsReservation`).
`Names` instantiates `NameSpace`, which it implements; `Mkfs` instantiates
`Names`, whose invariants its image satisfies from the start.

### Log

`home`, `logblk` and `dhdr` are the image: home locations, log blocks, header
block. `data` and `refcnt` are the cache, `log_hdr`, `outstanding` and
`committing` the fields of class `Log`. A header is the sequence
`block[0..n-1]`. `pc[t]` says where a thread is between the log's critical
sections, `cur[t]` which block it holds locked. `tail` is the loop variable of
whichever of `write_log`, `commit` and `recover_from_log` is running; there is
never more than one. `touched` remembers which blocks an operation has written,
to bound it by `OpBlocks`.

| Action | Code |
|---|---|
| `BeginOp`, `BeginWait` | `begin_op`: gets in, or goes to sleep on `cv` |
| `ModifyBlock`, `LogWrite`, `ReleaseBlock` | `block_read` and the caller's change, `log_write`, `block_release` |
| `LogWriteAbort` | an assertion of `log_write` fails: the process is gone |
| `ReadBlock` | a read, inside an operation or outside of any |
| `EndOp`, `EndLastOp` | `end_op`, not the last or the last outstanding operation |
| `WriteLog`, `WriteHead`, `Install`, `EraseLog`, `CommitDone` | `commit`, block by block, and the end of `end_op` |
| `Crash` | the process dies, at any step |
| `ReadHead`, `ReplayBlock`, `FinishRecovery` | `recover_from_log`; both calls of `Log::init` that a mount makes |

Abstractions: block contents are opaque values; a thread holds one block of the
model at a time (the nesting of blocks is the subject of `BlockCache`); a block
write is atomic, as `PosixEnv` copies block by block (a kill inside the
`memmove` of the header is a listed hazard that is not modelled); a failed
assertion ends the process, as in the debug build the Makefile configures.

### BlockCache

`mtx` and `owner` are the two kinds of mutex. `block_get` is split where it can
sleep: `BlockGet` ends before `b->mtx.lock()` with the cache mutex still held,
`BlockLock` gets the block and gives the cache mutex back. `block_release` is
split between the two mutexes (`BlockUnlock`, `BlockDrop`). Callers hold at most
two blocks and take them in the order of `Rank`, as the source does (an indirect
block before the bitmap, a log block before a home block). `BlockWrite` is the
write of a logged block to its place; the log's writes of its own blocks
(`write_log`, `write_head`) are in `Log`.

### FileTable

A client is one open file description. `ofile_alloc` sets `ref` under
`FileTable::mtx`; `type` and `ip` are set later, with only the inode's mutex
held, and are separate steps. `pc = "put"` is the gap in `ofile_close` between
the critical section and `inode_put`.

### INodeCache

A client is one open file description with its thread. `mtx` and `ilock` are the
mutexes, `inodes`, `ref`, `valid` and `dinode` the cache, `disk` the inode blocks
(read through the block cache, so changes show at once), `dir` one directory.

| Action | Code |
|---|---|
| `OpenLookup`, `UnlinkLookup` | the path walk, up to `inode_get` |
| `ListLookup`, `ListLoad` | `op_readdir` at one entry: `inode_get`, `lock` and `do_fillstatbuf`, outside of any operation of the log |
| `InodeAlloc`, `InodeAllocGet`, `InodeAllocFails` | `inode_alloc`: the free inode on disk, then its cache entry |
| `Lock`, `OpenLoad` | `INode::lock`, with the read from disk if the copy is not valid |
| `Unlink`, `LinkNew`, `LinkNewFails` | what `do_unlink` and `create` do with the inode locked, `update()` included |
| `Unlock`, `UnlockPut`, `Release` | the ways out of a call, and `op_release` |
| `Put`, `PutLast`, `PutLock`, `Trunc`, `Invalidate`, `PutDrop` | `inode_put`: the plain decrement, or the deletion of an unlinked inode, which gives `INodeCache::mtx` back in the middle |

`PathFree` and `PathShared` stand for the path locks of libfuse and the kernel
(not part of the repository): a call that makes or removes a name excludes the
others on that name, a listing included. `reused` remembers the inodes that
`inode_alloc` handed out while `inode_put` was about to drop its reference to
them: `LostOnlyIfReused` shows that this order, in which an inode can be lost,
is the only one. Every client here holds a reference to what it locks;
`op_flush`, which does not, is not among them.

### FileContent

`disk.used` is the bitmap, `disk.ino` the inodes, `disk.ind` the entries of
indirect blocks; of data only the owner of a block's bytes is kept (`disk.blk`).
`mem` is `INode::dinode` of the cached inodes, `fp` and `off` are the file and
the offset of a handle (`OFile`). A thread works on any open handle (`fd`), also
on one that another thread is using: `pos` is the offset it found when it got
the inode's mutex, which need not be the one it asked for. A step is one pass of a loop of `INode::read`, `INode::write` or `trunc`, under
the inode's mutex; other files move between the steps. `EndOp` makes everything
stable when it is the last outstanding operation.

| Action | Code |
|---|---|
| `WriteBegin`, `WriteBlock`, `WriteEnd`, `WriteRefused`, `WriteNext` | `op_write`, the chunks of `OFile::write`, the loop and the end of `INode::write` |
| `ReadBegin`, `ReadBlock`, `ReadEnd` | `op_read`, `OFile::read`, `INode::read`, which allocates for holes |
| `TruncBegin`, `TruncFree`, `TruncEnd` | somebody opens the file with `O_TRUNC`: `trunc` in an operation, block by block; the handles keep their offsets |
| `SizeBegin`, `SetSize` | `op_truncate`, which only changes the size, rounded up in a `uint32_t` |
| `Aborts` | an assertion of `block_map`, `log_write` or `block_free` fails; that of `block_free` never does, by `BlocksExclusive` |
| `Open`, `Release`, `Crash` | the cached inode comes and goes; the daemon dies |

What the code does and one might not expect is kept: `op_write` checks its
offset and then writes at the handle's own; a refused write returns -1 in a
`uint32_t` and moves the handle by `2^Width - 1`; a read of a hole allocates
blocks, outside of any operation (the assertion in `log_write` then ends the
daemon) or within somebody else's, and does not write the inode back. `holes`
remembers the blocks so allocated, because they are the only ones that may be
lost. The `log_write`s of one `block_map` are one step: in the code a commit by
another thread's `end_op` can fall between those of a read, and then leaves a
block that is marked and nobody's, which `holes` has as well. Left out: handles that are not readable, which both calls refuse at once,
and the bytes a read returns.

### Names and Links

A directory is the sequence of its slots, with `.` and `..` in the first two; a
call is one step and one transaction, since the kernel lets one call at a time
change a directory. `ino` and `ents` are the image; `ref` and `mem` are what
calls leave in the cache: references of open files, and the `nlink` in memory,
which differs from the one on disk in `Links`. The kernel sends `unlink` for
files only, and the daemon has no `rmdir`, so directories stay; they are made in
the root only. `MkdirFails` is `op_mkdir` using the null pointer `create`
returns: the daemon dies. `orphans` remembers the files that were open without a
name when it died, which nothing reclaims. `Getattr` and `Readdir` change
nothing on disk, but they load what the cache keeps (`Seen`). The root is opened,
listed and looked at like the rest (`OpenRoot`, `GetattrRoot`; `op_open` is also
`opendir`), only that no directory is locked on the way to it. Names are values
of their own; those of `DIRSIZ` (14) characters and more, which `skipelem` cuts
off, `dirlink` stores without a terminator and `dirlookup` compares with
`strcmp`, are not modelled.

`NameSpace` is the abstraction of all this: a tree of names and a number of
handles per node. `Names` implements it (`NameSpaceKept`) with `tree` as the
result of `dirlookup` and `opens` as the references: no call changes a name but
its own, however slots are reused, and a creation takes an inode that no name
and no handle leads to, however link counts and references have come about.

`Links` adds `DoLink`, which does not write the raised `nlink` back (its second
`unlock` of the inode, undefined behaviour, is left out; the violation does not
need it), and the two
halves of `op_rename`: `SameParent`, which renames the slot without removing an
existing destination, and `DifferentParent`, which overwrites the source's slot
with a copy of the directory's last one; `RenameNotDir` is the check of a type
that is not in memory, with its early return and lost reference.

### Mkfs

The program is sequential; a step is one call of `main`, or one round of the
loop in `iappend`. Sizes are counted in directory entries, so an entry and a
unit of a file have size one. `sector1` is the superblock, word by word, `ino`
the inode blocks, `ind` and `data` the blocks as addresses and as content,
`bitmap` the marked bits; `call` are the locals of `iappend`, `host` the files
outside of the image.

| Action | Code |
|---|---|
| `Layout`, `IallocRoot`, `AppendDot` | `main` as far as the root with `.` and `..` |
| `AddFile`, `CopyChunk`, `CopyDone` | the loop over the files; `read` returns any portion of up to a block |
| `AppendBlock`, `AppendEnd`, `AppendFails` | a round of `iappend`, its end, and its exit when the file is too long or the image is full |
| `FixRoot`, `Balloc`, `BallocFails` | the size of the root, the bitmap and its assertion |

`SuperBlockInit`, `INODE_BLOCK` and `BIT_BLOCK` are how the daemon finds the
parts of the image; `block_cnt`, `inode_cnt`, `f_bfree` and `f_ffree` are
`op_statfs`, which counts inode 0 as free although nobody gets it. The files have
different names other than `.` and `..`, and there are not more of them than
inodes: mkfs checks none of this. When mkfs gives up, what it leaves of the image
is not looked at.

## Runs

| Run | Instance | Shows |
|---|---|---|
| `log` | 2 threads, 3 blocks, 2 contents, room for 2 operations of 2 blocks | the invariants, the inductive invariant and the refinement of `TxDisk`, with crashes everywhere |
| `log_live` | 2 threads, 4 blocks, 10 calls in all, 1 crash, operations one block below their reservation | no assertion of `log_write` or `end_op` fails, with the log as full as such operations can make it; every call returns; the log drains |
| `flush_atomic` | 2 threads, 2 blocks, `op_flush` at any moment | **violated**: a crash replays half of an operation |
| `block_cache` | 3 threads, an outer and an inner block | no use after free, exact counts, no lost change |
| `block_cache_deadlock` | the same | **violated**: a sleeper in `block_get` holds the mutex its waker needs |
| `file_table` | 3 clients, 1 file, 2 slots | exclusive slots, exact inode references, no aborting close |
| `file_table_two_files` | 3 clients, 2 files, 2 slots | **violated**: two opens share a slot |
| `inode_cache` | 4 clients, 2 inodes, 2 names | references exact, nothing freed under a name or a handle or by a listing, inodes lost only if handed out in the middle of `inode_put`, no stale copy, `lock` never meets a free inode, `inode_put` never waits for an inode |
| `content` | 2 threads, 2 handles, 2 files, 4 blocks, 1 direct address and an indirect block of 2, 4 calls, crashes | blocks exclusive, the stable image consistent, no foreign bytes, every operation below its reservation |
| `names` | 4 inodes, 2 names, 3 slots in the root, 2 handles per inode, crashes | link counts equal names, no dangling name, directories well formed, inodes lost only by a crash; the refinement of `NameSpace` |
| `mkfs` | 6 geometries, 2 files of up to 7 units, blocks of 2 | the parts of the image are disjoint for the daemon, blocks and bitmap agree, files read back, the root has a hole only after a full block, the names start sound, statfs counts right |
| `links` | the same, with link and rename | **violated**: after `op_link` the count on disk is one too low |

**Bounds.** The log's behaviour depends on how many operations overlap (one,
several, one too many for the space), on whether a block is new in the
transaction, absorbed, or written again after a commit, and on where a crash
falls. Two threads and three blocks with room for two operations give all of
them, including a thread waiting for space and a log filled to its last block;
two contents tell an old block from a new one. In `log_live` contents do not
matter (one value) and overlapping operations fill the log step by step, as the
30 entries of the real one fill up while no moment is quiet. The operations stay
one block below `MAX_OP_BLOCKS`: the log has one data block less than the
`LOG_SIZE` that `begin_op` divides among operations, because `mkfs` counts the
header in `nlog`, so operations that used all of their reservation would fail an
assertion.
That real operations stay below is `OpFitsReservation` of run `content`, for
reads, writes and truncations. Three threads on
two nested blocks are enough for a holder, a sleeper with the cache mutex and a
third that needs it. Four clients on two inodes give `inode_put` all its company: one that deletes,
one to whom `inode_alloc` hands the same inode meanwhile, one that opens and one
that closes or lists. In `content` a file of three data blocks uses the direct address,
the indirect block and both its entries; four blocks are exactly one such file,
so allocation fails in the middle of a write; `MAX_OP_BLOCKS = 6` makes a chunk
one block, so a write takes several transactions; with `Width = 3` the length 7
rounds up to a size that wraps to zero; `MaxCalls` bounds the calls,
not the crashes, opens and closes; two threads and two handles give both two
calls on one handle and two handles on one file. In `names` the inodes run out and the root is
full after one name, so both growing and reusing slots happen. In `mkfs` the
geometries have inodes that fill their last block and inodes that do not, and
images that two of the longest files overrun, fill, and fill together with the
bitmap block; a file of 5 units uses the direct address and the whole indirect
block, one of 7 is too long; two files fill the root's last block.
`LogLive` bounds the callers (`MaxCalls`, `MaxCrashes`):
under callers that never pause a commit can be put off for ever, since it needs
a moment with no operation outstanding.

**Fairness.** `WF(Continue(t))`: a thread inside a call goes on when it can, as
the operating system schedules every runnable thread; `WF(Mount)`: the mount
runs to its end. Nothing is assumed of the callers (`Call` has no fairness) nor
of the order in which mutexes are granted, beyond what finitely many calls need.

`CHECK_DEADLOCK FALSE` is set for `BlockCache`, whose threads really can stop
for ever, which `block_cache_deadlock` reports, and for `Mkfs`, which ends.

## What is proved

Every theorem holds for all values of the constants its module's assumption
allows. The inductive invariants were checked with TLC on the instances of the
runs before they were proved. In each proof module one lemma per action shows
that the action preserves the invariant.

**Log.** Assumptions (`LogAssumption` in `Log`): finitely many threads, `None` is
neither a block nor a content, the sizes are positive, and one operation's
reservation fits into the log (`MAX_OP_BLOCKS <= LOG_SIZE`; the code has 10 and
30). No relation between `LOG_SIZE`, `NLOG` and `OpBlocks` is assumed: where the
assertions of `log_write` fail the model dies as the program does.

`InvariantHolds` (`Spec => []IInv`) is the base. None of the properties is
inductive alone: that nothing of a running operation is on disk needs to know
that nobody commits while an operation is outstanding (`CountOK`), hence that
`outstanding` is the number of threads inside an operation; that a released
block may be deleted needs to know that an unpinned block equals its home
location (`CleanOK`) and that a block has one holder (`HoldersOK`); that the
header may be erased needs what `commit` has copied so far (`CommitOK`), and
that recovery can be repeated needs what it has copied (`ReplayOK`).

From it follow `TypeCorrect`, `PinnedHolds`, `WakeupHolds`, `RollsBackHolds` and
`DurableHolds`, one for each invariant of run `log`, and in `LogRefinement`
`LogImplementsTxDisk` (`Spec => AtomicDisk`): `begin_op` is `Begin`, the change
of a block `Write`, `end_op` `End`, writing the header `Commit`, the death of
the process `Crash`, and every other step, recovery included, a stutter. The
stable copy is `Recovered`, the image `recover_from_log` would leave behind; the
volatile one is what `block_read` returns.

`ReservationSuffices` (`NoAssertFails`) assumes in addition that operations stay
below their reservation (`OpBlocks < MAX_OP_BLOCKS`), that the log holds more
than one (`MAX_OP_BLOCKS < LOG_SIZE`) and that `mkfs` made it as large as the
code takes it to be (`LOG_SIZE <= NLOG`). Its invariant `ReserveOK` adds up the
header's length and the full reservations of the operations in progress: the sum
exceeds `LOG_SIZE` by no more than the entries those operations have already
used themselves (`Logged`), and when only one operation is left there is one
entry to spare (`Spare`), the one that `mkfs`'s count of the header takes away.

**Block cache** (any threads, blocks and locking order). `RefcntExact` needs
which thread has which mutex where (`LocksOK`): `block_get` counts before it
waits for the block, `block_release` unlocks before it counts down, and both
moments are pointers too. That a block read again after an eviction has its last
content (`ReadsLatest`) needs that what differs from the image is pinned or in
the hands of the thread about to pin it (`DirtyIsPinned`), and that
`block_unpin` comes after `block_write` (`WrittenIsClean`).

**Inode cache** (any clients, inodes and names). `inode_put` gives up the cache
mutex between freeing an inode on disk and counting it down, and `inode_alloc`
can hand out the inode meanwhile. So the invariant says who may be at an inode
with whom: a creator is alone but for a put that freed the inode before
(`CreatorOK`), a put that frees is alone until the inode is free, and after that
meets only a creator that has not loaded it (`FreerOK`); an unlink has its path
to itself (`PathsOK`); a valid copy is the block's content except between `trunc`
and `valid = false` (`CacheOK`). All invariants of run `inode_cache` follow.

**Open file table**, with one file (`OneFile`) and any clients and slots. The
assumption is the boundary of what is true: `ofile_alloc` looks for a free slot
and the caller marks it later, outside of the table's mutex, so only the inode's
mutex keeps two opens apart, and for two files there are two of those (run
`file_table_two_files`).

**File content** (any threads, handles, files, calls, and any number and size of
blocks). `ContentAssumption` says that `None` is none of the other values, that
sizes are positive, and that the reservation is at least 6, so that a chunk of
`OFile::write` is at least one block (the code has 10).

`BlocksExclusive` alone is not inductive: an address is in memory before
`update()` has it on disk, in an indirect block before the inode on disk leads to
that, and `trunc` leaves addresses of blocks it has freed. The invariant `IInv`
speaks of the block *at* a position as the users of the file see it (`At`), what
`trunc` has passed being gone: a block is at one position (`OneOwner`), marked
while it is there (`Marked`), and otherwise, if marked, lost to a read of a hole
(`Owned`); its bytes are its file's (`OwnBytes`). The inode on disk leads to the
same blocks when nothing is pending under its mutex (`Written`), except to those
that a read has allocated without `update()`; so a commit, which comes when no
operation is in progress, takes over a disk on which the same holds for the
inodes alone (`StableOK`). `CallsOK` says where a call holds which mutex and what
it has done so far.

The lemmas about `BlockAlloc` and `BlockMap` say what they return on any disk
and any addresses: nothing, or the block that was there, or a marked and zeroed
block at that position, perhaps with an indirect block, everything else being as
before. For `OperationsFit` the blocks a write has passed are counted: `n` blocks
of bytes are in at most `n + 1` blocks (`DivSpan`), to which come the bitmap, the
indirect block and the inode, and the reservation's formula has room for these.

**Directories** (any inodes, names and slots). `NamesAssumption` says that `None`
is not a number and that the kernel passes neither `.` nor `..` as a name. The
invariant is `LinkCountExact` with the set of entries finite (`CountOK`), that
slots lead to allocated inodes (`SlotsOK`), the shape of directories and that
nothing else has slots (`DirsOK`), that free inodes have neither links nor users
(`FreeOK`) and that the count in memory is the one on disk (`MemOK`, which
`op_link` breaks: run `links`). From it follow the invariants of run `names`, and
`ImplementsNameSpace`, step by step: `create` and `mkdir` add a name to a node
nobody has, `unlink` removes one, and slots, counts, opens and crashes are
stutters or changes of what is held.

**mkfs** (any geometries, sizes of blocks, inodes and files). `MkfsAssumption`
says that sizes are positive, that a geometry has at least two inodes and that
no file is called `.` or `..`. `LayoutHolds` needs little of it: the superblock's
formulas, as `mkfs` writes them and as the daemon inverts them (`IBLOCK`,
`BBLOCK`), give disjoint parts; two facts about integer division carry it.

The other four speak of the finished image only, and what they need is true all
the way, in the middle of `iappend` too, which works on a copy of the inode
(`din`) and on a length (`off`) that the inode does not have yet. `IInv` sees a
file as `iappend` does (`Cur`, `At`, `Length`). The blocks from `nmeta` up to
`used_block` are each at one position of one file (`Ranged`, `OneOwner`, `Owned`)
and those after them are clear (`Cleared`), which is why a new indirect block has
no addresses; a file has the blocks that its length takes (`Mapped`), with what
belongs there and zeroes up to the end of the last one (`Filled`), and what is
left to append belongs where it will go (`CallOK`). Slot `k` of the root is the
entry of inode `k`, so that the number of inodes is the number of entries
(`RootOK`), their names differ (`NamesOK`), nothing else holds an entry
(`Placed`), and what was read of a file is appended or about to be (`HostOK`).
Nothing is said of the image of a `mkfs` that gave up.

The step that takes the work is `AppendBlock`: the block of a position is found,
or it is new, or it and the indirect block are (`BlockForIs`). `RoundGrows` says
what each does to the map of the file, and `RoundFacts` what the round writes.
`ImageExactHolds` and `RootHoleOnlyWhenFullHolds` number positions by blocks and
entries by slots to count them. `NamesStartSoundHolds` has a hypothesis of its
own, `MaxINodes < MAXFILE * BSIZE`: the root, whose size is rounded up past its
last entry, does not outgrow what a file can map (200 inodes, and room for
17152 entries).

Only model-checked: liveness (`EveryCallReturns`, `LogDrains`: out of the
prover's reach). Every safety invariant of a passing run is a theorem, and so are
both refinements. `FlushLog` and `Links` show violations, so there is nothing to
prove of them.

## Not modelled, and the plan

Next, in this order:

1. `INodeCache`: the traversal by `op_flush`, which locks inodes it holds no
   reference to and may meet one that `inode_put` deletes.
2. `Names`: the locks of `do_unlink`, which unlocks a directory it never locked.
3. The copy of the header as several steps (a kill inside the `memmove`).

Left out for good: the attribute stubs and `op_fgetattr` (no state), console and
logger (I/O), `Slice`/`Status` (unused utilities), option parsing and `mmap` in
`main.cxx`; and pipes, which no operation can open, so that none of their states
is one the program can be in.
