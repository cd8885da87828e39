----------------------------- MODULE BlockCache -----------------------------
(***************************************************************************)
(* The block cache (src/src/BlockCache.cxx) under concurrent callers, at   *)
(* the granularity of its two kinds of mutex: BlockCache::mtx, which       *)
(* guards the map and every reference count, and one mutex per block,      *)
(* which guards the contents.                                              *)
(*                                                                         *)
(* Callers hold one block or two, the second taken while the first is held *)
(* (block_map, trunc: indirect block, then bitmap; write_log, commit: log  *)
(* block, then its home block).  Rank is that order, which the callers     *)
(* respect.  They change a block they hold and log it, which pins it, and  *)
(* write a pinned block to the image and unpin it, as commit() does.       *)
(***************************************************************************)
EXTENDS Integers, FiniteSets

CONSTANTS
  Threads,   \* FUSE worker threads
  Blocks,    \* block numbers
  Values,    \* block contents
  None,      \* no thread, no block, no content
  Rank(_)    \* a block is locked after blocks of lower rank only

ASSUME CacheAssumption ==
  /\ IsFiniteSet(Threads)
  /\ None \notin Threads \cup Blocks \cup Values
  /\ \A b \in Blocks : Rank(b) \in Nat

VARIABLES
  mtx,      \* BlockCache::mtx: its owner
  blocks,   \* BlockCache::blocks: the cached blocks
  refcnt,   \* Block::refcnt
  owner,    \* Block::mtx: its owner
  valid,    \* Block::valid
  data,     \* Block::data
  disk,     \* the image
  pinned,   \* the blocks Log::log_hdr names
  latest,   \* history: the content last given to each block
  pc,       \* where each thread is
  tgt       \* the block a thread's call is about

vars == <<mtx, blocks, refcnt, owner, valid, data, disk, pinned, latest, pc, tgt>>

Holds(t) == {b \in Blocks : owner[b] = t}

PCs == {"run", "get", "fill", "pin", "unpin", "drop"}

TypeOK ==
  /\ mtx \in Threads \cup {None}
  /\ blocks \in SUBSET Blocks
  /\ refcnt \in [Blocks -> Nat]
  /\ owner \in [Blocks -> Threads \cup {None}]
  /\ valid \in [Blocks -> BOOLEAN]
  /\ data \in [Blocks -> Values \cup {None}]
  /\ disk \in [Blocks -> Values]
  /\ pinned \in SUBSET Blocks
  /\ latest \in [Blocks -> Values]
  /\ pc \in [Threads -> PCs]
  /\ tgt \in [Threads -> Blocks \cup {None}]

Init ==
  /\ mtx = None
  /\ blocks = {}
  /\ refcnt = [b \in Blocks |-> 0]
  /\ owner = [b \in Blocks |-> None]
  /\ valid = [b \in Blocks |-> FALSE]
  /\ data = [b \in Blocks |-> None]
  /\ disk \in [Blocks -> Values]
  /\ pinned = {}
  /\ latest = disk
  /\ pc = [t \in Threads |-> "run"]
  /\ tgt = [t \in Threads |-> None]

Goto(t, l, b) ==
  /\ pc' = [pc EXCEPT ![t] = l]
  /\ tgt' = [tgt EXCEPT ![t] = b]

----------------------------------------------------------------------------
(* block_get, block_read.                                                  *)

\* block_get as far as b->mtx.lock(): find or create the block, count the
\* reference.  The cache mutex stays taken.
BlockGet(t, b) ==
  /\ pc[t] = "run"
  /\ \A h \in Holds(t) : Rank(h) < Rank(b)
  /\ Cardinality(Holds(t)) < 2
  /\ mtx = None
  /\ mtx' = t
  /\ blocks' = blocks \cup {b}
  /\ refcnt' = [refcnt EXCEPT ![b] = IF b \in blocks THEN @ + 1 ELSE 1]
  /\ valid' = [valid EXCEPT ![b] = b \in blocks /\ @]
  /\ Goto(t, "get", b)
  /\ UNCHANGED <<owner, data, disk, pinned, latest>>

\* b->mtx.lock(), then mtx.unlock().
BlockLock(t) ==
  /\ pc[t] = "get"
  /\ owner[tgt[t]] = None
  /\ owner' = [owner EXCEPT ![tgt[t]] = t]
  /\ mtx' = None
  /\ Goto(t, "fill", tgt[t])
  /\ UNCHANGED <<blocks, refcnt, valid, data, disk, pinned, latest>>

\* The rest of block_read: PosixEnv::read unless the block is valid.
BlockFill(t) ==
  LET b == tgt[t] IN
  /\ pc[t] = "fill"
  /\ data' = IF valid[b] THEN data ELSE [data EXCEPT ![b] = disk[b]]
  /\ valid' = [valid EXCEPT ![b] = TRUE]
  /\ Goto(t, "run", None)
  /\ UNCHANGED <<mtx, blocks, refcnt, owner, disk, pinned, latest>>

----------------------------------------------------------------------------
(* Changing a block, block_write, block_pin, block_unpin.                  *)

\* The caller changes a block it holds, and will log it.
Modify(t, b, v) ==
  /\ pc[t] = "run" /\ b \in Holds(t)
  /\ data' = [data EXCEPT ![b] = v]
  /\ latest' = [latest EXCEPT ![b] = v]
  /\ Goto(t, "pin", b)
  /\ UNCHANGED <<mtx, blocks, refcnt, owner, valid, disk, pinned>>

\* log_write finds the block in the log's header.
NeverAbsorbs(b) == FALSE
Absorbs(b) == b \in pinned

\* log_write: block_pin, unless the log has the block already.
BlockPin(t) ==
  LET b == tgt[t] IN
  /\ pc[t] = "pin"
  /\ Absorbs(b) \/ mtx = None
  /\ refcnt' = [refcnt EXCEPT ![b] = IF Absorbs(b) THEN @ ELSE @ + 1]
  /\ pinned' = pinned \cup {b}
  /\ Goto(t, "run", None)
  /\ UNCHANGED <<mtx, blocks, owner, valid, data, disk, latest>>

\* block_write of a logged block, to be followed by block_unpin.  (The writes of
\* the log's own blocks, which nobody else reads, are in Log.)
BlockWrite(t, b) ==
  /\ pc[t] = "run" /\ b \in Holds(t) \cap pinned
  /\ disk' = [disk EXCEPT ![b] = data[b]]
  /\ Goto(t, "unpin", b)
  /\ UNCHANGED <<mtx, blocks, refcnt, owner, valid, data, pinned, latest>>

BlockUnpin(t) ==
  LET b == tgt[t] IN
  /\ pc[t] = "unpin"
  /\ mtx = None
  /\ refcnt' = [refcnt EXCEPT ![b] = @ - 1]
  /\ pinned' = pinned \ {b}
  /\ Goto(t, "run", None)
  /\ UNCHANGED <<mtx, blocks, owner, valid, data, disk, latest>>

----------------------------------------------------------------------------
(* block_release.                                                          *)

\* b->mtx.unlock().
BlockUnlock(t, b) ==
  /\ pc[t] = "run" /\ b \in Holds(t)
  /\ owner' = [owner EXCEPT ![b] = None]
  /\ Goto(t, "drop", b)
  /\ UNCHANGED <<mtx, blocks, refcnt, valid, data, disk, pinned, latest>>

\* Under the cache mutex: count down, delete the block at zero.
DropsLastButOne(n) == n <= 1
DropsLast(n) == n = 0

BlockDrop(t) ==
  LET b == tgt[t] IN
  /\ pc[t] = "drop"
  /\ mtx = None
  /\ refcnt' = [refcnt EXCEPT ![b] = @ - 1]
  /\ blocks' = IF DropsLast(refcnt[b] - 1) THEN blocks \ {b} ELSE blocks
  /\ data' = IF DropsLast(refcnt[b] - 1) THEN [data EXCEPT ![b] = None] ELSE data
  /\ Goto(t, "run", None)
  /\ UNCHANGED <<mtx, owner, valid, disk, pinned, latest>>

----------------------------------------------------------------------------
Next ==
  \E t \in Threads :
    \/ \E b \in Blocks : BlockGet(t, b)
    \/ BlockLock(t)
    \/ BlockFill(t)
    \/ \E b \in Blocks, v \in Values : Modify(t, b, v)
    \/ BlockPin(t)
    \/ \E b \in Blocks : BlockWrite(t, b)
    \/ BlockUnpin(t)
    \/ \E b \in Blocks : BlockUnlock(t, b)
    \/ BlockDrop(t)

Spec == Init /\ [][Next]_vars

----------------------------------------------------------------------------
\* Threads with a pointer to b: owners, and those about to lock or to drop it.
Pointers(b) ==
  {t \in Threads : owner[b] = t \/ (pc[t] \in {"get", "drop"} /\ tgt[t] = b)}

\* A Block is deleted only when nobody has a pointer to it: a block somebody
\* holds, waits for, is releasing or has logged is in the map.
NoUseAfterFree ==
  \A b \in Blocks : Pointers(b) # {} \/ b \in pinned => b \in blocks

\* The reference count is exact, so every block is deleted in the end: one
\* for each pointer and one for the log.
RefcntExact ==
  \A b \in Blocks :
    b \in blocks =>
      /\ refcnt[b] = Cardinality(Pointers(b)) + (IF b \in pinned THEN 1 ELSE 0)
      /\ refcnt[b] > 0

\* No change is lost: whatever the cache evicts and reads again, a block_read
\* returns the content last given to the block.
ReadsLatest ==
  \A b \in Blocks :
    (IF b \in blocks /\ valid[b] THEN data[b] ELSE disk[b]) = latest[b]

\* A thread that sleeps on a block's mutex inside block_get, with the cache
\* mutex taken, sleeps for a thread that does not itself need the cache mutex.
NoSleepForSleeper ==
  \A t, u \in Threads :
    pc[t] = "get" /\ owner[tgt[t]] = u =>
      ~(pc[u] = "unpin" \/ (pc[u] = "pin" /\ tgt[u] \notin pinned))

============================================================================
