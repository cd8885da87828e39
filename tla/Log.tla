-------------------------------- MODULE Log --------------------------------
(***************************************************************************)
(* The write-ahead log of xv6fs (src/src/Log.cxx, src/inc/Log.h) with the  *)
(* part of the block cache it depends on (a reference count that keeps a   *)
(* modified block in memory until it is installed) and the memory-mapped   *)
(* image behind it.                                                        *)
(*                                                                         *)
(* Threads are the workers of FUSE's multi-threaded loop.  Each runs file  *)
(* system operations                                                       *)
(*                                                                         *)
(*    begin_op(); { b = block_read(); modify b; log_write(b);              *)
(*                  block_release(b); }* end_op();                         *)
(*                                                                         *)
(* and, outside of any operation, plain reads of a block (op_read,         *)
(* op_readdir, op_statfs).  The thread whose end_op() finds no operation   *)
(* outstanding commits for everybody.  A step is a critical section of     *)
(* Log::mtx, or one block moved between the cache and the image: the       *)
(* process may die between any two of them, after which the next mount     *)
(* runs recover_from_log().                                                *)
(*                                                                         *)
(* A block's mutex is the thread's cur: whoever has cur[t] = b holds b.    *)
(* How the cache hands blocks out is the subject of module BlockCache.     *)
(***************************************************************************)
EXTENDS Integers, Sequences, FiniteSets

CONSTANTS
  Threads,        \* FUSE worker threads
  Blocks,         \* the blocks operations write (inode, bitmap, data blocks)
  Values,         \* block contents
  Zero,           \* the content mkfs gives every block of the log
  None,           \* no block, no content
  MAX_OP_BLOCKS,  \* space begin_op() reserves for one operation
  LOG_SIZE,       \* entries of LogHeader::block
  NLOG,           \* blocks of the on-disk log, header included (Log::size)
  OpBlocks        \* distinct blocks one operation really writes, at most

ASSUME LogAssumption ==
  /\ IsFiniteSet(Threads)
  /\ Zero \in Values
  /\ None \notin Values /\ None \notin Blocks
  /\ MAX_OP_BLOCKS \in Nat \ {0}
  /\ LOG_SIZE \in Nat \ {0}
  /\ NLOG \in Nat \ {0}
  /\ OpBlocks \in Nat
  /\ MAX_OP_BLOCKS <= LOG_SIZE

\* Slots of the log: slot i has entry i-1 of LogHeader::block, and block
\* start+i of the image.
Slots == 1 .. LOG_SIZE

\* A LogHeader, in memory or on disk: block[0 .. n-1] as a sequence.  Entries
\* from n on are never read.
LogHeader == {h \in Seq(Blocks) : Len(h) <= LOG_SIZE}

VARIABLES
  home,         \* image: contents of Blocks at their home location
  logblk,       \* image: contents of log blocks start+1 ..
  dhdr,         \* image: the header block at start
  data,         \* block cache: contents, None when the block is not cached
  refcnt,       \* block cache: references to the cached block
  log_hdr,      \* Log::log_hdr, the header in memory
  outstanding,  \* Log::outstanding
  committing,   \* Log::committing
  tail,         \* iterations done of the loop in write_log, commit, recover_from_log
  phase,        \* "read_head", "replay": mounting; "up": serving operations
  boot,         \* which of the two calls of Log::init a mount is in
  pc,           \* where each thread is
  cur,          \* the block each thread holds locked
  touched       \* the blocks each thread's operation has written so far

image == <<home, logblk, dhdr>>
cache == <<data, refcnt>>
vars == <<home, logblk, dhdr, data, refcnt, log_hdr, outstanding, committing,
          tail, phase, boot, pc, cur, touched>>

OpPCs == {"op", "locked", "logged", "op_read"}
CommitPCs == {"write_log", "write_head", "install", "erase", "done"}
PCs == {"idle", "begin", "wait", "reading"} \cup OpPCs \cup CommitPCs

TypeOK ==
  /\ home \in [Blocks -> Values]
  /\ logblk \in [Slots -> Values]
  /\ dhdr \in LogHeader
  /\ data \in [Blocks -> Values \cup {None}]
  /\ refcnt \in [Blocks -> Nat]
  /\ log_hdr \in LogHeader
  /\ outstanding \in Nat
  /\ committing \in BOOLEAN
  /\ tail \in 0 .. LOG_SIZE
  /\ phase \in {"read_head", "replay", "up"}
  /\ boot \in {1, 2}
  /\ pc \in [Threads -> PCs]
  /\ cur \in [Threads -> Blocks \cup {None}]
  /\ touched \in [Threads -> SUBSET Blocks]

\* A mkfs image being mounted: the log is zeroed, the rest is arbitrary.
Init ==
  /\ home \in [Blocks -> Values]
  /\ logblk = [i \in Slots |-> Zero]
  /\ dhdr = << >>
  /\ data = [b \in Blocks |-> None]
  /\ refcnt = [b \in Blocks |-> 0]
  /\ log_hdr = << >>
  /\ outstanding = 0
  /\ committing = FALSE
  /\ tail = 0
  /\ phase = "read_head"
  /\ boot = 1
  /\ pc = [t \in Threads |-> "idle"]
  /\ cur = [t \in Threads |-> None]
  /\ touched = [t \in Threads |-> {}]

----------------------------------------------------------------------------
(* The block cache, as the log sees it.                                    *)

Held(b) == \E t \in Threads : cur[t] = b

\* What block_read returns: the cached block if there is one, else the image.
Content(b) == IF refcnt[b] > 0 THEN data[b] ELSE home[b]

\* The cache with contents d after block b goes to n references; a block
\* without references is deleted.
SetRef(d, b, n) ==
  /\ refcnt' = [refcnt EXCEPT ![b] = n]
  /\ data' = IF n = 0 THEN [d EXCEPT ![b] = None] ELSE d

----------------------------------------------------------------------------
(* begin_op, log_write, end_op.                                            *)

\* begin_op's test for log space.
LogFullWithoutThisOp == Len(log_hdr) + outstanding * MAX_OP_BLOCKS > LOG_SIZE
LogFull == Len(log_hdr) + (outstanding + 1) * MAX_OP_BLOCKS > LOG_SIZE

\* The conditions under which begin_op sleeps.
MustWaitForSpaceOnly == LogFull
MustWait == committing \/ LogFull

\* cv.notify_all(): p is the pc function after the notifying thread's step.
NotifyNobody(p) == p
NotifyAll(p) == [u \in Threads |-> IF p[u] = "wait" THEN "begin" ELSE p[u]]

BeginOp(t) ==
  /\ phase = "up"
  /\ pc[t] \in {"idle", "begin"}
  /\ ~MustWait
  /\ outstanding' = outstanding + 1
  /\ pc' = [pc EXCEPT ![t] = "op"]
  /\ UNCHANGED <<image, cache, log_hdr, committing, tail, phase, boot, cur,
                 touched>>

BeginWait(t) ==
  /\ phase = "up"
  /\ pc[t] \in {"idle", "begin"}
  /\ MustWait
  /\ pc' = [pc EXCEPT ![t] = "wait"]
  /\ UNCHANGED <<image, cache, log_hdr, outstanding, committing, tail, phase,
                 boot, cur, touched>>

\* The caller's half of a logged write: block_read and the change to b->data.
ModifyBlock(t, b, v) ==
  /\ pc[t] = "op"
  /\ ~Held(b)
  /\ Cardinality(touched[t] \cup {b}) <= OpBlocks
  /\ SetRef([data EXCEPT ![b] = v], b, refcnt[b] + 1)
  /\ pc' = [pc EXCEPT ![t] = "locked"]
  /\ cur' = [cur EXCEPT ![t] = b]
  /\ touched' = [touched EXCEPT ![t] = @ \cup {b}]
  /\ UNCHANGED <<image, log_hdr, outstanding, committing, tail, phase, boot>>

\* The assertions at the head of log_write.
LogWriteAsserts ==
  /\ Len(log_hdr) < LOG_SIZE /\ Len(log_hdr) < NLOG - 1
  /\ outstanding >= 1

\* Block b has an entry in header h.
InHeader(h, b) == \E i \in 1 .. Len(h) : h[i] = b

\* References log_write adds: block_pin when the block enters the log, none
\* when its entry is absorbed.
NeverPin(b) == 0
AlwaysPin(b) == 1
PinRefs(b) == IF InHeader(log_hdr, b) THEN 0 ELSE 1

LogWrite(t) ==
  LET b == cur[t] IN
  /\ pc[t] = "locked"
  /\ LogWriteAsserts
  /\ log_hdr' = IF InHeader(log_hdr, b) THEN log_hdr ELSE Append(log_hdr, b)
  /\ SetRef(data, b, refcnt[b] + PinRefs(b))
  /\ pc' = [pc EXCEPT ![t] = "logged"]
  /\ UNCHANGED <<image, outstanding, committing, tail, phase, boot, cur,
                 touched>>

\* A block_read that only copies data out, inside an operation or outside.
ReadBlock(t, b) ==
  /\ phase = "up"
  /\ pc[t] \in {"idle", "op"}
  /\ ~Held(b)
  /\ SetRef([data EXCEPT ![b] = Content(b)], b, refcnt[b] + 1)
  /\ pc' = [pc EXCEPT ![t] = IF @ = "op" THEN "op_read" ELSE "reading"]
  /\ cur' = [cur EXCEPT ![t] = b]
  /\ UNCHANGED <<image, log_hdr, outstanding, committing, tail, phase, boot,
                 touched>>

ReleaseBlock(t) ==
  /\ pc[t] \in {"logged", "op_read", "reading"}
  /\ SetRef(data, cur[t], refcnt[cur[t]] - 1)
  /\ pc' = [pc EXCEPT ![t] = IF @ = "reading" THEN "idle" ELSE "op"]
  /\ cur' = [cur EXCEPT ![t] = None]
  /\ UNCHANGED <<image, log_hdr, outstanding, committing, tail, phase, boot,
                 touched>>

\* end_op of an operation that is not the last one outstanding.
EndOp(t) ==
  /\ pc[t] = "op"
  /\ outstanding # 1
  /\ outstanding' = outstanding - 1
  /\ pc' = NotifyAll([pc EXCEPT ![t] = "idle"])
  /\ touched' = [touched EXCEPT ![t] = {}]
  /\ UNCHANGED <<image, cache, log_hdr, committing, tail, phase, boot, cur>>

\* end_op of the last one: it commits, if there is anything to commit.
EndLastOp(t) ==
  /\ pc[t] = "op"
  /\ outstanding = 1
  /\ outstanding' = 0
  /\ committing' = TRUE
  /\ tail' = 0
  /\ pc' = [pc EXCEPT ![t] = IF Len(log_hdr) > 0 THEN "write_log" ELSE "done"]
  /\ touched' = [touched EXCEPT ![t] = {}]
  /\ UNCHANGED <<image, cache, log_hdr, phase, boot, cur>>

----------------------------------------------------------------------------
(* commit: copy the blocks to the log, write the header (the commit point),*)
(* install them at home, erase the header.                                 *)

WriteLog(t) ==
  LET b == log_hdr[tail + 1] IN
  /\ pc[t] = "write_log"
  /\ ~Held(b)
  /\ logblk' = [logblk EXCEPT ![tail + 1] = Content(b)]
  /\ tail' = tail + 1
  /\ pc' = [pc EXCEPT ![t] =
              IF tail + 1 < Len(log_hdr) THEN "write_log" ELSE "write_head"]
  /\ UNCHANGED <<home, dhdr, cache, log_hdr, outstanding, committing, phase,
                 boot, cur, touched>>

WriteHead(t) ==
  /\ pc[t] = "write_head"
  /\ dhdr' = log_hdr
  /\ tail' = 0
  /\ pc' = [pc EXCEPT ![t] = "install"]
  /\ UNCHANGED <<home, logblk, cache, log_hdr, outstanding, committing, phase,
                 boot, cur, touched>>

\* One block: copy the log block into the cached one, write it home, unpin.
Install(t) ==
  LET b == log_hdr[tail + 1] IN
  /\ pc[t] = "install"
  /\ ~Held(b)
  /\ home' = [home EXCEPT ![b] = logblk[tail + 1]]
  /\ SetRef([data EXCEPT ![b] = logblk[tail + 1]], b, refcnt[b] - 1)
  /\ tail' = tail + 1
  /\ pc' = [pc EXCEPT ![t] =
              IF tail + 1 < Len(log_hdr) THEN "install" ELSE "erase"]
  /\ UNCHANGED <<logblk, dhdr, log_hdr, outstanding, committing, phase, boot,
                 cur, touched>>

\* log_hdr.n = 0; write_head().
ClearMemoryOnly == log_hdr' = << >> /\ dhdr' = dhdr
ClearDiskOnly == log_hdr' = log_hdr /\ dhdr' = << >>
ClearHeader ==
  /\ log_hdr' = << >>
  /\ dhdr' = << >>

EraseLog(t) ==
  /\ pc[t] = "erase"
  /\ ClearHeader
  /\ tail' = 0
  /\ pc' = [pc EXCEPT ![t] = "done"]
  /\ UNCHANGED <<home, logblk, cache, outstanding, committing, phase, boot, cur,
                 touched>>

\* end_op after commit(): let the waiting operations in.
CommitDone(t) ==
  /\ pc[t] = "done"
  /\ committing' = FALSE
  /\ pc' = NotifyAll([pc EXCEPT ![t] = "idle"])
  /\ UNCHANGED <<image, cache, log_hdr, outstanding, tail, phase, boot, cur,
                 touched>>

----------------------------------------------------------------------------
(* The process dies and is started again.                                  *)

\* Memory is gone; the image, a MAP_SHARED mapping, keeps every block write
\* that was made.  (PosixEnv copies one block at a time.)
Die ==
  /\ data' = [b \in Blocks |-> None]
  /\ refcnt' = [b \in Blocks |-> 0]
  /\ log_hdr' = << >>
  /\ outstanding' = 0
  /\ committing' = FALSE
  /\ tail' = 0
  /\ phase' = "read_head"
  /\ boot' = 1
  /\ pc' = [t \in Threads |-> "idle"]
  /\ cur' = [t \in Threads |-> None]
  /\ touched' = [t \in Threads |-> {}]
  /\ UNCHANGED image

Crash == Die

\* A failed assertion of log_write aborts the process.
LogWriteAbort(t) ==
  /\ pc[t] = "locked"
  /\ ~LogWriteAsserts
  /\ Die

ReadHead ==
  /\ phase = "read_head"
  /\ log_hdr' = dhdr
  /\ tail' = 0
  /\ phase' = "replay"
  /\ UNCHANGED <<image, cache, outstanding, committing, boot, pc, cur, touched>>

\* One iteration of recover_from_log's loop; nothing else uses the cache yet.
ReplayBlock ==
  /\ phase = "replay"
  /\ tail < Len(log_hdr)
  /\ home' = [home EXCEPT ![log_hdr[tail + 1]] = logblk[tail + 1]]
  /\ tail' = tail + 1
  /\ UNCHANGED <<logblk, dhdr, cache, log_hdr, outstanding, committing, phase,
                 boot, pc, cur, touched>>

\* The log is cleared.  SuperBlock::init has called Log::init, and op_init
\* calls it a second time.
FinishRecovery ==
  /\ phase = "replay"
  /\ tail >= Len(log_hdr)
  /\ ClearHeader
  /\ phase' = IF boot = 1 THEN "read_head" ELSE "up"
  /\ boot' = 2
  /\ tail' = 0
  /\ UNCHANGED <<home, logblk, cache, outstanding, committing, pc, cur, touched>>

Recover == ReadHead \/ ReplayBlock \/ FinishRecovery

----------------------------------------------------------------------------
ThreadStep(t) ==
  \/ BeginOp(t)
  \/ BeginWait(t)
  \/ \E b \in Blocks, v \in Values : ModifyBlock(t, b, v)
  \/ LogWrite(t)
  \/ LogWriteAbort(t)
  \/ \E b \in Blocks : ReadBlock(t, b)
  \/ ReleaseBlock(t)
  \/ EndOp(t)
  \/ EndLastOp(t)
  \/ WriteLog(t)
  \/ WriteHead(t)
  \/ Install(t)
  \/ EraseLog(t)
  \/ CommitDone(t)

Next ==
  \/ \E t \in Threads : ThreadStep(t)
  \/ Recover
  \/ Crash

Spec == Init /\ [][Next]_vars

----------------------------------------------------------------------------
(* What the log promises.                                                  *)

\* The image recover_from_log() would leave behind if the process died now.
Recovered ==
  [b \in Blocks |->
     IF InHeader(dhdr, b)
       THEN logblk[CHOOSE i \in 1 .. Len(dhdr) : dhdr[i] = b]
       ELSE home[b]]

\* What a block_read of each block returns.
View == [b \in Blocks |-> Content(b)]

\* A crash while any operation is between begin_op and end_op takes back
\* everything that operation did: nothing of it has reached the home
\* locations, and the on-disk header names no block to replay.
InFlightRollsBack ==
  phase = "up" /\ outstanding > 0 => Recovered = home

\* When the log is quiet (no operation outstanding, nobody committing) every
\* write of the finished operations is at its home location, and no block is
\* still pinned by the log.
QuietIsDurable ==
  phase = "up" /\ outstanding = 0 /\ ~committing =>
    /\ View = home
    /\ Recovered = home
    /\ \A b \in Blocks : refcnt[b] > 0 => Held(b)

\* The log holds a reference to b: b has an entry, and commit's loop has not
\* passed it yet.
Installing == \E t \in Threads : pc[t] \in {"install", "erase"}
Pinned(b) ==
  \E i \in 1 .. Len(log_hdr) : log_hdr[i] = b /\ (Installing => i > tail)

\* A block that has been logged stays in the cache, with one reference for the
\* log on top of its holder's, until commit() has installed it; so no change
\* is lost to block_release's deletion of an unreferenced block.
PinnedUntilInstalled ==
  phase = "up" =>
    \A b \in Blocks :
      refcnt[b] = (IF Held(b) THEN 1 ELSE 0) + (IF Pinned(b) THEN 1 ELSE 0)

\* No operation sleeps in begin_op unless a commit is running or another
\* operation is outstanding, that is, unless somebody is still going to call
\* notify_all: a wakeup is never lost.
NoLostWakeup ==
  (\E t \in Threads : pc[t] = "wait") => committing \/ outstanding > 0

\* The assertions of log_write, and end_op's assert(!committing), hold whenever
\* they are reached.
NoAssertFails ==
  \A t \in Threads :
    /\ pc[t] = "locked" => LogWriteAsserts
    /\ pc[t] = "op" => ~committing

============================================================================
