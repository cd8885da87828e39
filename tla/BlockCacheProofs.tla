-------------------------- MODULE BlockCacheProofs --------------------------
(***************************************************************************)
(* Proofs about BlockCache, for any number of threads and blocks and any   *)
(* locking order: reference counts are exact, no Block is deleted under a  *)
(* pointer, and a block_read returns what was last given to the block.     *)
(***************************************************************************)
EXTENDS BlockCache, FiniteSetTheorems, TLAPS

USE CacheAssumption DEF PCs

----------------------------------------------------------------------------
(* The inductive invariant.                                                *)

\* Who holds which mutex where: the cache mutex is taken exactly between
\* block_get's two locks, a block's mutex from there to block_release.
LocksOK ==
  /\ \A t \in Threads : pc[t] = "get" <=> mtx = t
  /\ \A t \in Threads : pc[t] # "run" => tgt[t] \in Blocks
  /\ \A t \in Threads : pc[t] \in {"fill", "pin", "unpin"} => owner[tgt[t]] = t
  /\ \A t \in Threads : pc[t] \in {"get", "drop"} => owner[tgt[t]] # t

\* A block somebody holds has been read, except between block_get and the
\* end of block_read.
HeldIsValid ==
  \A b \in Blocks, t \in Threads :
    owner[b] = t /\ ~(pc[t] = "fill" /\ tgt[t] = b) => valid[b]

\* Between block_write and block_unpin the image has the block's content.
WrittenIsClean ==
  \A t \in Threads :
    pc[t] = "unpin" => tgt[t] \in pinned /\ disk[tgt[t]] = latest[tgt[t]]

\* A block that differs from the image is pinned, or is about to be.
DirtyIsPinned ==
  \A b \in Blocks :
    \/ b \in pinned
    \/ disk[b] = latest[b]
    \/ \E t \in Threads : pc[t] = "pin" /\ tgt[t] = b

IInv ==
  /\ TypeOK
  /\ LocksOK
  /\ HeldIsValid
  /\ WrittenIsClean
  /\ DirtyIsPinned
  /\ NoUseAfterFree
  /\ RefcntExact
  /\ ReadsLatest

----------------------------------------------------------------------------
(* The pointers to a block.                                                *)

\* There are finitely many threads, so the pointers to a block can be counted.
LEMMA PointersFinite ==
  ASSUME NEW b \in Blocks
  PROVE  IsFiniteSet(Pointers(b)) /\ Cardinality(Pointers(b)) \in Nat
<1>1. Pointers(b) \in SUBSET Threads
  BY DEF Pointers
<1> QED
  BY <1>1, FS_Subset, FS_CardinalityType

\* block_get gives the caller a pointer, and it had none: it locks blocks in
\* the order Rank.
LEMMA GetAddsPointer ==
  ASSUME IInv, NEW t \in Threads, NEW b \in Blocks, BlockGet(t, b)
  PROVE  /\ t \notin Pointers(b)
         /\ Pointers(b)' = Pointers(b) \cup {t}
         /\ \A c \in Blocks \ {b} : Pointers(c)' = Pointers(c)
<1>1. owner[b] # t
  BY DEF BlockGet, Holds
<1> QED
  BY <1>1 DEF BlockGet, Goto, Pointers, IInv, TypeOK

\* block_release's second half takes the caller's pointer away.
LEMMA DropRemovesPointer ==
  ASSUME IInv, NEW t \in Threads, NEW b, b = tgt[t], BlockDrop(t)
  PROVE  /\ b \in Blocks
         /\ t \in Pointers(b)
         /\ Pointers(b)' = Pointers(b) \ {t}
         /\ \A c \in Blocks \ {b} : Pointers(c)' = Pointers(c)
<1>1. b \in Blocks /\ owner[b] # t
  BY DEF BlockDrop, IInv, LocksOK
<1> QED
  BY <1>1 DEF BlockDrop, Goto, Pointers, IInv, TypeOK

\* Every other step leaves the pointers alone: a lock or an unlock of the
\* block's mutex only turns one kind of pointer into the other.
LEMMA PointersKept ==
  ASSUME IInv, NEW t \in Threads,
         \/ BlockLock(t) \/ BlockFill(t) \/ BlockPin(t) \/ BlockUnpin(t)
         \/ \E b \in Blocks, v \in Values : Modify(t, b, v)
         \/ \E b \in Blocks : BlockWrite(t, b)
         \/ \E b \in Blocks : BlockUnlock(t, b)
  PROVE  \A c \in Blocks : Pointers(c)' = Pointers(c)
<1>1. CASE BlockLock(t)
  BY <1>1 DEF BlockLock, Goto, Pointers, IInv, TypeOK, LocksOK
<1>2. CASE BlockFill(t)
  BY <1>2 DEF BlockFill, Goto, Pointers, IInv, TypeOK
<1>3. CASE BlockPin(t)
  BY <1>3 DEF BlockPin, Goto, Pointers, IInv, TypeOK
<1>4. CASE BlockUnpin(t)
  BY <1>4 DEF BlockUnpin, Goto, Pointers, IInv, TypeOK
<1>5. CASE \E b \in Blocks, v \in Values : Modify(t, b, v)
  BY <1>5 DEF Modify, Goto, Pointers, IInv, TypeOK
<1>6. CASE \E b \in Blocks : BlockWrite(t, b)
  BY <1>6 DEF BlockWrite, Goto, Pointers, IInv, TypeOK
<1>7. CASE \E b \in Blocks : BlockUnlock(t, b)
  BY <1>7 DEF BlockUnlock, Goto, Pointers, Holds, IInv, TypeOK
<1> QED
  BY <1>1, <1>2, <1>3, <1>4, <1>5, <1>6, <1>7

\* What a pointer, and a pin, are worth: the block is in the map and counted.
LEMMA PointerCounts ==
  ASSUME IInv, NEW b \in Blocks
  PROVE  /\ \A t \in Pointers(b) : b \in blocks /\ refcnt[b] >= 1
         /\ \A t \in Pointers(b) : b \in pinned => refcnt[b] >= 2
         /\ \A t \in Pointers(b) : refcnt[b] = 1 => Pointers(b) = {t} /\ b \notin pinned
<1>1. ASSUME NEW t \in Pointers(b)
      PROVE  /\ b \in blocks /\ refcnt[b] >= 1
             /\ b \in pinned => refcnt[b] >= 2
             /\ refcnt[b] = 1 => Pointers(b) = {t} /\ b \notin pinned
  <2>1. b \in blocks
    BY <1>1 DEF IInv, NoUseAfterFree
  <2>2. refcnt[b] = Cardinality(Pointers(b)) + (IF b \in pinned THEN 1 ELSE 0)
    BY <2>1 DEF IInv, RefcntExact
  <2>3. Cardinality(Pointers(b) \ {t}) = Cardinality(Pointers(b)) - 1
        /\ IsFiniteSet(Pointers(b) \ {t})
    BY <1>1, PointersFinite, FS_RemoveElement
  <2>4. Cardinality(Pointers(b) \ {t}) \in Nat
    BY <2>3, FS_CardinalityType
  <2>5. Cardinality(Pointers(b) \ {t}) = 0 => Pointers(b) = {t}
    BY <2>3, <1>1, FS_EmptySet
  <2>6. Cardinality(Pointers(b)) \in Nat
    BY PointersFinite
  <2>7. CASE b \in pinned
    BY <2>1, <2>2, <2>3, <2>4, <2>6, <2>7
  <2>8. CASE b \notin pinned
    BY <2>1, <2>2, <2>3, <2>4, <2>5, <2>6, <2>8
  <2> QED
    BY <2>7, <2>8
<1> QED
  BY <1>1

----------------------------------------------------------------------------
(* Every step keeps the invariant.                                         *)

\* Init: nothing is cached, held or pinned.
LEMMA InitInv == Init => IInv
<1> SUFFICES ASSUME Init PROVE IInv
  OBVIOUS
<1>1. \A b \in Blocks : Pointers(b) = {}
  BY DEF Init, Pointers
<1> QED
  BY <1>1 DEF Init, IInv, TypeOK, LocksOK, HeldIsValid, WrittenIsClean,
     DirtyIsPinned, NoUseAfterFree, RefcntExact, ReadsLatest

\* block_get up to the block's mutex.
LEMMA GetInv ==
  ASSUME IInv, NEW t \in Threads, NEW b \in Blocks, BlockGet(t, b)
  PROVE  IInv'
<1> USE GetAddsPointer DEF BlockGet, Goto
<1>1. TypeOK'
  BY DEF IInv, TypeOK
<1>2. LocksOK'
  BY DEF IInv, TypeOK, LocksOK, Holds
<1>3. HeldIsValid'
  <2>1. \A c \in Blocks, u \in Threads : owner[c] = u => c \in blocks
    BY DEF IInv, NoUseAfterFree, Pointers
  <2> QED
    BY <2>1 DEF IInv, TypeOK, HeldIsValid
<1>4. WrittenIsClean'
  BY DEF IInv, TypeOK, WrittenIsClean
<1>5. DirtyIsPinned'
  BY DEF IInv, TypeOK, DirtyIsPinned
<1>6. NoUseAfterFree'
  BY DEF IInv, TypeOK, NoUseAfterFree
<1>7. RefcntExact'
  <2>0. t \notin Pointers(b) /\ Pointers(b)' = Pointers(b) \cup {t}
    OBVIOUS
  <2>1. Cardinality(Pointers(b))' = Cardinality(Pointers(b)) + 1
    <3>1. Cardinality(Pointers(b) \cup {t}) = Cardinality(Pointers(b)) + 1
      BY <2>0, PointersFinite, FS_AddElement
    <3> QED
      BY <2>0, <3>1
  <2>2. b \notin blocks => Cardinality(Pointers(b)) = 0 /\ b \notin pinned
    BY FS_EmptySet DEF IInv, NoUseAfterFree
  <2>3. Cardinality(Pointers(b)) \in Nat
    BY PointersFinite
  <2>4. /\ refcnt'[b] = Cardinality(Pointers(b))' + (IF b \in pinned' THEN 1 ELSE 0)
        /\ refcnt'[b] > 0
    BY <2>1, <2>2, <2>3 DEF IInv, TypeOK, RefcntExact
  <2>5. ASSUME NEW c \in Blocks \ {b}, c \in blocks'
        PROVE  /\ refcnt'[c] = Cardinality(Pointers(c))' + (IF c \in pinned' THEN 1 ELSE 0)
               /\ refcnt'[c] > 0
    BY <2>5 DEF IInv, TypeOK, RefcntExact
  <2> QED
    BY <2>4, <2>5 DEF RefcntExact
<1>8. ReadsLatest'
  BY DEF IInv, TypeOK, ReadsLatest
<1> QED
  BY <1>1, <1>2, <1>3, <1>4, <1>5, <1>6, <1>7, <1>8 DEF IInv

\* The block's mutex, and the cache mutex given back.
LEMMA LockInv ==
  ASSUME IInv, NEW t \in Threads, BlockLock(t)
  PROVE  IInv'
<1> USE PointersKept DEF BlockLock, Goto
<1>0. tgt[t] \in Blocks /\ mtx = t
  BY DEF IInv, LocksOK
<1>1. TypeOK'
  BY <1>0 DEF IInv, TypeOK
<1>2. LocksOK'
  BY <1>0 DEF IInv, TypeOK, LocksOK
<1>3. HeldIsValid'
  BY <1>0 DEF IInv, TypeOK, HeldIsValid
<1>4. WrittenIsClean'
  BY DEF IInv, TypeOK, WrittenIsClean
<1>5. DirtyIsPinned'
  BY DEF IInv, TypeOK, DirtyIsPinned
<1>6. NoUseAfterFree'
  BY DEF IInv, TypeOK, NoUseAfterFree
<1>7. RefcntExact'
  BY DEF IInv, TypeOK, RefcntExact
<1>8. ReadsLatest'
  BY DEF IInv, TypeOK, ReadsLatest
<1> QED
  BY <1>1, <1>2, <1>3, <1>4, <1>5, <1>6, <1>7, <1>8 DEF IInv

\* block_read's read of the image.
LEMMA FillInv ==
  ASSUME IInv, NEW t \in Threads, BlockFill(t)
  PROVE  IInv'
<1> USE PointersKept DEF BlockFill, Goto
<1>0. tgt[t] \in Blocks /\ owner[tgt[t]] = t
  BY DEF IInv, LocksOK
<1>1. TypeOK'
  BY <1>0 DEF IInv, TypeOK
<1>2. LocksOK'
  BY <1>0 DEF IInv, TypeOK, LocksOK
<1>3. HeldIsValid'
  BY <1>0 DEF IInv, TypeOK, HeldIsValid
<1>4. WrittenIsClean'
  BY DEF IInv, TypeOK, WrittenIsClean
<1>5. DirtyIsPinned'
  BY DEF IInv, TypeOK, DirtyIsPinned
<1>6. NoUseAfterFree'
  BY DEF IInv, TypeOK, NoUseAfterFree
<1>7. RefcntExact'
  BY DEF IInv, TypeOK, RefcntExact
<1>8. ReadsLatest'
  BY <1>0 DEF IInv, TypeOK, ReadsLatest
<1> QED
  BY <1>1, <1>2, <1>3, <1>4, <1>5, <1>6, <1>7, <1>8 DEF IInv

\* A caller changes a block it holds.
LEMMA ModifyInv ==
  ASSUME IInv, NEW t \in Threads, NEW b \in Blocks, NEW v \in Values,
         Modify(t, b, v)
  PROVE  IInv'
<1> USE DEF Modify, Goto, Holds
<1>0. /\ owner[b] = t /\ valid[b] /\ b \in blocks
      /\ \A c \in Blocks : Pointers(c)' = Pointers(c)
  BY PointersKept DEF IInv, HeldIsValid, NoUseAfterFree, Pointers
<1>1. TypeOK'
  BY DEF IInv, TypeOK
<1>2. LocksOK'
  BY <1>0 DEF IInv, TypeOK, LocksOK
<1>3. HeldIsValid'
  BY DEF IInv, TypeOK, HeldIsValid
<1>4. WrittenIsClean'
  BY <1>0 DEF IInv, TypeOK, WrittenIsClean, LocksOK
<1>5. DirtyIsPinned'
  BY DEF IInv, TypeOK, DirtyIsPinned
<1>6. NoUseAfterFree'
  BY <1>0 DEF IInv, TypeOK, NoUseAfterFree
<1>7. RefcntExact'
  BY <1>0 DEF IInv, TypeOK, RefcntExact
<1>8. ReadsLatest'
  BY <1>0 DEF IInv, TypeOK, ReadsLatest
<1> QED
  BY <1>1, <1>2, <1>3, <1>4, <1>5, <1>6, <1>7, <1>8 DEF IInv

\* block_pin, or a log_write that finds the block in the log.
LEMMA PinInv ==
  ASSUME IInv, NEW t \in Threads, BlockPin(t)
  PROVE  IInv'
<1> USE DEF BlockPin, Goto, Absorbs
<1>0. /\ tgt[t] \in Blocks /\ owner[tgt[t]] = t /\ tgt[t] \in blocks
      /\ \A c \in Blocks : Pointers(c)' = Pointers(c)
  BY PointersKept DEF IInv, LocksOK, NoUseAfterFree, Pointers
<1>1. TypeOK'
  BY <1>0 DEF IInv, TypeOK
<1>2. LocksOK'
  BY <1>0 DEF IInv, TypeOK, LocksOK
<1>3. HeldIsValid'
  BY DEF IInv, TypeOK, HeldIsValid
<1>4. WrittenIsClean'
  BY DEF IInv, TypeOK, WrittenIsClean
<1>5. DirtyIsPinned'
  BY DEF IInv, TypeOK, DirtyIsPinned
<1>6. NoUseAfterFree'
  BY <1>0 DEF IInv, TypeOK, NoUseAfterFree
<1>7. RefcntExact'
  BY <1>0, PointersFinite DEF IInv, TypeOK, RefcntExact
<1>8. ReadsLatest'
  BY DEF IInv, TypeOK, ReadsLatest
<1> QED
  BY <1>1, <1>2, <1>3, <1>4, <1>5, <1>6, <1>7, <1>8 DEF IInv

\* block_write of a pinned block.
LEMMA WriteInv ==
  ASSUME IInv, NEW t \in Threads, NEW b \in Blocks, BlockWrite(t, b)
  PROVE  IInv'
<1> USE DEF BlockWrite, Goto, Holds
<1>0. /\ owner[b] = t /\ valid[b] /\ b \in blocks
      /\ \A c \in Blocks : Pointers(c)' = Pointers(c)
  BY PointersKept DEF IInv, HeldIsValid, NoUseAfterFree, Pointers
<1>00. data[b] = latest[b] /\ data[b] \in Values
  BY <1>0 DEF IInv, ReadsLatest, TypeOK
<1>1. TypeOK'
  BY <1>00 DEF IInv, TypeOK
<1>2. LocksOK'
  BY <1>0 DEF IInv, TypeOK, LocksOK
<1>3. HeldIsValid'
  BY DEF IInv, TypeOK, HeldIsValid
<1>4. WrittenIsClean'
  BY <1>00 DEF IInv, TypeOK, WrittenIsClean
<1>5. DirtyIsPinned'
  BY DEF IInv, TypeOK, DirtyIsPinned
<1>6. NoUseAfterFree'
  BY <1>0 DEF IInv, TypeOK, NoUseAfterFree
<1>7. RefcntExact'
  BY <1>0 DEF IInv, TypeOK, RefcntExact
<1>8. ReadsLatest'
  BY <1>00 DEF IInv, TypeOK, ReadsLatest
<1> QED
  BY <1>1, <1>2, <1>3, <1>4, <1>5, <1>6, <1>7, <1>8 DEF IInv

\* block_unpin: the caller still holds the block, so the count stays positive.
LEMMA UnpinInv ==
  ASSUME IInv, NEW t \in Threads, BlockUnpin(t)
  PROVE  IInv'
<1> USE DEF BlockUnpin, Goto
<1>0. /\ tgt[t] \in Blocks /\ owner[tgt[t]] = t /\ t \in Pointers(tgt[t])
      /\ tgt[t] \in pinned /\ disk[tgt[t]] = latest[tgt[t]]
      /\ \A c \in Blocks : Pointers(c)' = Pointers(c)
  BY PointersKept DEF IInv, LocksOK, WrittenIsClean, Pointers
<1>00. tgt[t] \in blocks /\ refcnt[tgt[t]] >= 2
  BY <1>0, PointerCounts
<1>1. TypeOK'
  BY <1>0, <1>00 DEF IInv, TypeOK
<1>2. LocksOK'
  BY <1>0 DEF IInv, TypeOK, LocksOK
<1>3. HeldIsValid'
  BY DEF IInv, TypeOK, HeldIsValid
<1>4. WrittenIsClean'
  BY <1>0 DEF IInv, TypeOK, WrittenIsClean, LocksOK
<1>5. DirtyIsPinned'
  BY <1>0 DEF IInv, TypeOK, DirtyIsPinned
<1>6. NoUseAfterFree'
  BY <1>0 DEF IInv, TypeOK, NoUseAfterFree
<1>7. RefcntExact'
  BY <1>0, <1>00, PointersFinite DEF IInv, TypeOK, RefcntExact
<1>8. ReadsLatest'
  BY DEF IInv, TypeOK, ReadsLatest
<1> QED
  BY <1>1, <1>2, <1>3, <1>4, <1>5, <1>6, <1>7, <1>8 DEF IInv

\* block_release's unlock of the block's mutex.
LEMMA UnlockInv ==
  ASSUME IInv, NEW t \in Threads, NEW b \in Blocks, BlockUnlock(t, b)
  PROVE  IInv'
<1> USE DEF BlockUnlock, Goto, Holds
<1>0. /\ owner[b] = t /\ \A c \in Blocks : Pointers(c)' = Pointers(c)
  BY PointersKept
<1>1. TypeOK'
  BY DEF IInv, TypeOK
<1>2. LocksOK'
  BY <1>0 DEF IInv, TypeOK, LocksOK
<1>3. HeldIsValid'
  BY <1>0 DEF IInv, TypeOK, HeldIsValid
<1>4. WrittenIsClean'
  BY DEF IInv, TypeOK, WrittenIsClean
<1>5. DirtyIsPinned'
  BY DEF IInv, TypeOK, DirtyIsPinned
<1>6. NoUseAfterFree'
  BY <1>0 DEF IInv, TypeOK, NoUseAfterFree
<1>7. RefcntExact'
  BY <1>0 DEF IInv, TypeOK, RefcntExact
<1>8. ReadsLatest'
  BY DEF IInv, TypeOK, ReadsLatest
<1> QED
  BY <1>1, <1>2, <1>3, <1>4, <1>5, <1>6, <1>7, <1>8 DEF IInv

\* block_release's count under the cache mutex.  The block is deleted only by
\* the last pointer to a block the log does not have: nobody is about to pin
\* it, so the image has its content.
LEMMA DropInv ==
  ASSUME IInv, NEW t \in Threads, BlockDrop(t)
  PROVE  IInv'
<1> PICK b : b = tgt[t]
  OBVIOUS
<1>0. /\ b \in Blocks /\ t \in Pointers(b) /\ owner[b] # t
      /\ Pointers(b)' = Pointers(b) \ {t}
      /\ \A c \in Blocks \ {b} : Pointers(c)' = Pointers(c)
  BY DropRemovesPointer DEF IInv, LocksOK, BlockDrop
<1>00. /\ b \in blocks /\ refcnt[b] \in Nat /\ refcnt[b] >= 1
       /\ b \in pinned => refcnt[b] >= 2
       /\ refcnt[b] = 1 => Pointers(b) = {t} /\ b \notin pinned
  BY <1>0, PointerCounts DEF IInv, TypeOK
<1>01. /\ pc[t] = "drop" /\ mtx = None
       /\ refcnt' = [refcnt EXCEPT ![b] = refcnt[b] - 1]
       /\ blocks' = IF refcnt[b] = 1 THEN blocks \ {b} ELSE blocks
       /\ data' = IF refcnt[b] = 1 THEN [data EXCEPT ![b] = None] ELSE data
       /\ pc' = [pc EXCEPT ![t] = "run"]
       /\ tgt' = [tgt EXCEPT ![t] = None]
       /\ UNCHANGED <<mtx, owner, valid, disk, pinned, latest>>
  BY <1>0, <1>00 DEF BlockDrop, DropsLast, Goto
<1>02. refcnt[b] = 1 => disk[b] = latest[b]
  BY <1>0, <1>00, <1>01 DEF IInv, DirtyIsPinned, LocksOK, Pointers
<1>1. TypeOK'
  BY <1>0, <1>00, <1>01 DEF IInv, TypeOK
<1>2. LocksOK'
  BY <1>0, <1>01 DEF IInv, TypeOK, LocksOK
<1>3. HeldIsValid'
  BY <1>01 DEF IInv, TypeOK, HeldIsValid
<1>4. WrittenIsClean'
  BY <1>01 DEF IInv, TypeOK, WrittenIsClean
<1>5. DirtyIsPinned'
  BY <1>01 DEF IInv, TypeOK, DirtyIsPinned
<1>6. NoUseAfterFree'
  BY <1>0, <1>00, <1>01 DEF IInv, TypeOK, NoUseAfterFree
<1>7. RefcntExact'
  <2>1. /\ Cardinality(Pointers(b) \ {t}) = Cardinality(Pointers(b)) - 1
        /\ Cardinality(Pointers(b)) \in Nat
    BY <1>0, PointersFinite, FS_RemoveElement
  <2>2. b \in blocks' =>
          /\ refcnt'[b] = Cardinality(Pointers(b))' + (IF b \in pinned' THEN 1 ELSE 0)
          /\ refcnt'[b] > 0
    BY <1>0, <1>00, <1>01, <2>1 DEF IInv, TypeOK, RefcntExact
  <2>3. ASSUME NEW c \in Blocks \ {b}, c \in blocks'
        PROVE  /\ refcnt'[c] = Cardinality(Pointers(c))' + (IF c \in pinned' THEN 1 ELSE 0)
               /\ refcnt'[c] > 0
    BY <2>3, <1>0, <1>01 DEF IInv, TypeOK, RefcntExact
  <2> QED
    BY <2>2, <2>3 DEF RefcntExact
<1>8. ReadsLatest'
  BY <1>00, <1>01, <1>02 DEF IInv, TypeOK, ReadsLatest
<1> QED
  BY <1>1, <1>2, <1>3, <1>4, <1>5, <1>6, <1>7, <1>8 DEF IInv

\* Steps that leave the cache alone.
LEMMA StutterInv ==
  ASSUME IInv, UNCHANGED vars
  PROVE  IInv'
<1>1. \A b \in Blocks : Pointers(b)' = Pointers(b)
  BY DEF vars, Pointers
<1> QED
  BY <1>1 DEF vars, IInv, TypeOK, LocksOK, HeldIsValid, WrittenIsClean,
     DirtyIsPinned, NoUseAfterFree, RefcntExact, ReadsLatest

\* The invariant is inductive.
LEMMA NextInv ==
  ASSUME IInv, [Next]_vars
  PROVE  IInv'
BY GetInv, LockInv, FillInv, ModifyInv, PinInv, WriteInv, UnpinInv, UnlockInv,
   DropInv, StutterInv DEF Next

----------------------------------------------------------------------------
(* The theorems.                                                           *)

\* The inductive invariant holds in every behaviour of the cache.
THEOREM Invariance == Spec => []IInv
<1>1. IInv /\ [Next]_vars => IInv'
  BY NextInv
<1> QED
  BY InitInv, <1>1, PTL DEF Spec

\* BlockCache.cxx keeps the types of its fields; in particular no reference
\* count ever wraps below zero in block_unpin or block_release.
THEOREM Types == Spec => []TypeOK
<1>1. IInv => TypeOK
  BY DEF IInv
<1> QED
  BY Invariance, <1>1, PTL

\* block_release deletes a Block only when nobody holds it, waits for it, is
\* releasing it or has logged it.
THEOREM DeletesOnlyUnused == Spec => []NoUseAfterFree
<1>1. IInv => NoUseAfterFree
  BY DEF IInv
<1> QED
  BY Invariance, <1>1, PTL

\* Block::refcnt is one for each pointer and one for the log, whatever the
\* interleaving of block_get, block_release, block_pin and block_unpin.
THEOREM CountsReferences == Spec => []RefcntExact
<1>1. IInv => RefcntExact
  BY DEF IInv
<1> QED
  BY Invariance, <1>1, PTL

\* block_read returns what was last given to the block, across evictions.
THEOREM ReadsWhatWasWritten == Spec => []ReadsLatest
<1>1. IInv => ReadsLatest
  BY DEF IInv
<1> QED
  BY Invariance, <1>1, PTL

============================================================================
