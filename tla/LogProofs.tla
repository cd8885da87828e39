----------------------------- MODULE LogProofs ------------------------------
(***************************************************************************)
(* Proofs about Log: its invariants, for any number of threads and blocks  *)
(* and any sizes, and that it implements TxDisk.                           *)
(***************************************************************************)
EXTENDS LogInv, FunctionTheorems, FiniteSetTheorems, SequenceTheorems, TLAPS

\* The assumption on the constants, and the sets of program counters.
USE LogAssumption DEF Slots, OpPCs, CommitPCs, PCs

----------------------------------------------------------------------------
(* Consequences of the invariant.                                          *)

\* A thread that is in any call of the log finds the file system mounted.
LEMMA BusyIsUp ==
  ASSUME IInv, NEW t \in Threads, pc[t] # "idle"
  PROVE  phase = "up"
BY DEF IInv, DownOK

\* The set of active threads is finite, as Threads is.
LEMMA ActiveFinite == IsFiniteSet(Active) /\ Cardinality(Active) \in Nat
<1>1. Active \in SUBSET Threads
  BY DEF Active
<1>2. IsFiniteSet(Active)
  BY <1>1, FS_Subset
<1> QED
  BY <1>2, FS_CardinalityType

\* end_op's assertion, and log_write's second one: inside an operation
\* Log::outstanding is positive and nobody commits.
LEMMA InsideOp ==
  ASSUME IInv, NEW t \in Threads, pc[t] \in OpPCs
  PROVE  /\ outstanding >= 1
         /\ ~committing
         /\ \A u \in Threads : pc[u] \notin CommitPCs
         /\ ~Installing
         /\ dhdr = << >>
<1>1. t \in Active
  BY DEF Active
<1>2. outstanding # 0
  BY <1>1, ActiveFinite, FS_EmptySet DEF IInv, CountOK
<1>3. outstanding \in Nat
  BY DEF IInv, TypeOK
<1>4. ~committing /\ \A u \in Threads : pc[u] \notin CommitPCs
  BY <1>2 DEF IInv, CountOK
<1>5. ~Installing
  BY <1>4 DEF Installing
<1>6. phase = "up"
  BY BusyIsUp
<1> QED
  BY <1>2, <1>3, <1>4, <1>5, <1>6 DEF IInv, HeaderOK

\* The thread that commits is alone: no operation is outstanding, no block is
\* being changed.
LEMMA CommitterAlone ==
  ASSUME IInv, NEW t \in Threads, pc[t] \in CommitPCs
  PROVE  /\ committing /\ outstanding = 0
         /\ phase = "up"
         /\ Active = {}
         /\ \A u \in Threads : pc[u] \in CommitPCs => u = t
         /\ \A u \in Threads : pc[u] \notin OpPCs
         /\ Installing <=> pc[t] \in {"install", "erase"}
<1>1. committing /\ outstanding = 0
  BY DEF IInv, CountOK
<1>2. Active = {}
  BY <1>1, ActiveFinite, FS_EmptySet DEF IInv, CountOK
<1>3. \A u \in Threads : pc[u] \in CommitPCs => u = t
  BY DEF IInv, CountOK
<1>4. \A u \in Threads : pc[u] \notin OpPCs
  BY <1>2 DEF Active
<1>5. Installing <=> pc[t] \in {"install", "erase"}
  BY <1>3 DEF Installing
<1> QED
  BY <1>1, <1>2, <1>3, <1>4, <1>5, BusyIsUp

\* An operation more, an operation less.
LEMMA ActiveAdd ==
  ASSUME IInv, NEW t \in Threads, pc[t] \notin OpPCs,
         Active' = Active \cup {t}
  PROVE  Cardinality(Active') = Cardinality(Active) + 1
BY ActiveFinite, FS_AddElement DEF Active

\* end_op takes exactly one operation out of the count.
LEMMA ActiveRemove ==
  ASSUME IInv, NEW t \in Threads, pc[t] \in OpPCs,
         Active' = Active \ {t}
  PROVE  Cardinality(Active') = Cardinality(Active) - 1
BY ActiveFinite, FS_RemoveElement DEF Active

\* What the log's header is made of.
LEMMA HeaderType ==
  ASSUME NEW h \in LogHeader
  PROVE  /\ Len(h) \in 0 .. LOG_SIZE
         /\ \A i \in 1 .. Len(h) : h[i] \in Blocks
BY ElementOfSeq, LenProperties DEF LogHeader

\* The header of an erased log.
LEMMA EmptyHeader ==
  /\ << >> \in LogHeader
  /\ Len(<< >>) = 0
  /\ Distinct(<< >>)
BY EmptySeq DEF LogHeader, Distinct

\* log_write's new entry.
LEMMA HeaderAppend ==
  ASSUME NEW h \in LogHeader, NEW b \in Blocks, Len(h) < LOG_SIZE,
         Distinct(h), ~InHeader(h, b)
  PROVE  /\ Append(h, b) \in LogHeader
         /\ Len(Append(h, b)) = Len(h) + 1
         /\ \A i \in 1 .. Len(h) : Append(h, b)[i] = h[i]
         /\ Append(h, b)[Len(h) + 1] = b
         /\ Distinct(Append(h, b))
<1>1. h \in Seq(Blocks) /\ Len(h) \in Nat
  BY LenProperties DEF LogHeader
<1>2. /\ Append(h, b) \in Seq(Blocks)
      /\ Len(Append(h, b)) = Len(h) + 1
      /\ \A i \in 1 .. Len(h) : Append(h, b)[i] = h[i]
      /\ Append(h, b)[Len(h) + 1] = b
  BY <1>1, AppendProperties
<1>3. Distinct(Append(h, b))
  BY <1>1, <1>2 DEF Distinct, InHeader
<1> QED
  BY <1>1, <1>2, <1>3 DEF LogHeader

\* A block somebody holds or the log pins has a reference; one that is both
\* has two.
LEMMA Referenced ==
  ASSUME IInv, phase = "up", NEW b \in Blocks
  PROVE  /\ Held(b) \/ Pinned(b) => refcnt[b] >= 1
         /\ Held(b) /\ Pinned(b) => refcnt[b] = 2
         /\ Held(b) /\ ~Pinned(b) => refcnt[b] = 1
         /\ ~Held(b) /\ Pinned(b) => refcnt[b] = 1
<1>1. refcnt[b] = (IF Held(b) THEN 1 ELSE 0) + (IF Pinned(b) THEN 1 ELSE 0)
  BY DEF IInv, PinnedUntilInstalled
<1>2. CASE Held(b) /\ Pinned(b)
  BY <1>1, <1>2
<1>3. CASE Held(b) /\ ~Pinned(b)
  BY <1>1, <1>3
<1>4. CASE ~Held(b) /\ Pinned(b)
  BY <1>1, <1>4
<1> QED
  BY <1>2, <1>3, <1>4

\* A step that touches neither the cache nor the home locations, and neither
\* pins nor unpins, keeps the cache in order.
LEMMA CacheUntouched ==
  ASSUME IInv, phase = "up", phase' = "up",
         UNCHANGED <<home, data, refcnt, cur>>,
         \A b \in Blocks : Pinned(b)' <=> Pinned(b),
         \A u \in Threads : pc[u] = "locked" => pc'[u] = "locked"
  PROVE  PinnedUntilInstalled' /\ CleanOK'
<1>1. \A b \in Blocks : Held(b)' <=> Held(b)
  BY DEF Held
<1>2. PinnedUntilInstalled'
  BY <1>1 DEF IInv, PinnedUntilInstalled
<1>3. CleanOK'
  BY DEF IInv, CleanOK
<1> QED
  BY <1>2, <1>3

\* A step that leaves the log alone, and the contents of the blocks the log
\* still pins, does not disturb a commit in progress.
LEMMA CommitUntouched ==
  ASSUME IInv, UNCHANGED <<home, logblk, log_hdr, tail>>,
         \A i \in 1 .. Len(log_hdr) :
           Pinned(log_hdr[i]) => data'[log_hdr[i]] = data[log_hdr[i]],
         \A u \in Threads : pc'[u] \in CommitPCs => pc'[u] = pc[u]
  PROVE  CommitOK'
<1> SUFFICES ASSUME NEW u \in Threads, pc[u] \in CommitPCs, pc'[u] = pc[u]
             PROVE  CommitOK!(u)'
  BY DEF CommitOK
<1>1. Installing <=> pc[u] \in {"install", "erase"}
  BY CommitterAlone
<1>2. Len(log_hdr) \in Nat /\ tail \in Nat
  BY HeaderType DEF IInv, TypeOK
<1>3. ASSUME NEW i \in 1 .. Len(log_hdr), Installing => i > tail
      PROVE  data'[log_hdr[i]] = data[log_hdr[i]]
  BY <1>3 DEF Pinned
<1>4. CASE ~Installing
  BY <1>1, <1>2, <1>3, <1>4 DEF IInv, CommitOK
<1>5. CASE Installing
  BY <1>1, <1>2, <1>3, <1>5 DEF IInv, CommitOK
<1> QED
  BY <1>4, <1>5

----------------------------------------------------------------------------
(* Every action preserves the invariant.                                   *)

\* begin_op that gets in: one operation more, and nobody was committing.
LEMMA BeginOpInv ==
  ASSUME IInv, NEW t \in Threads, BeginOp(t)
  PROVE  IInv'
<1>1. /\ phase = "up" /\ pc[t] \in {"idle", "begin"} /\ ~committing
      /\ outstanding' = outstanding + 1
      /\ pc' = [pc EXCEPT ![t] = "op"]
      /\ UNCHANGED <<home, logblk, dhdr, data, refcnt, log_hdr, committing, tail,
                     phase, boot, cur, touched>>
  BY DEF BeginOp, MustWait, image, cache
<1>2. TypeOK' /\ DownOK' /\ ReplayOK'
  BY <1>1 DEF IInv, TypeOK, DownOK, ReplayOK
<1>3. Installing' <=> Installing
  BY <1>1 DEF IInv, TypeOK, Installing
<1>4. CountOK'
  <2>1. Active' = Active \cup {t}
    BY <1>1 DEF IInv, TypeOK, Active
  <2>2. Cardinality(Active') = Cardinality(Active) + 1
    BY <1>1, <2>1, ActiveAdd
  <2>3. \A u \in Threads : pc'[u] \in CommitPCs <=> pc[u] \in CommitPCs
    BY <1>1 DEF IInv, TypeOK
  <2> QED
    BY <1>1, <2>2, <2>3 DEF IInv, CountOK
<1>5. PinnedUntilInstalled' /\ CleanOK'
  BY <1>1, <1>3, CacheUntouched DEF IInv, TypeOK, Pinned
<1>6. HoldersOK' /\ HeaderOK' /\ CommitOK' /\ NoLostWakeup'
  BY <1>1, <1>3 DEF IInv, TypeOK, HoldersOK, HeaderOK, CommitOK, NoLostWakeup
<1> QED
  BY <1>2, <1>4, <1>5, <1>6 DEF IInv

\* begin_op that goes to sleep: somebody is left who will wake it.
LEMMA BeginWaitInv ==
  ASSUME IInv, NEW t \in Threads, BeginWait(t)
  PROVE  IInv'
<1>1. /\ phase = "up" /\ pc[t] \in {"idle", "begin"} /\ MustWait
      /\ pc' = [pc EXCEPT ![t] = "wait"]
      /\ UNCHANGED <<home, logblk, dhdr, data, refcnt, log_hdr, outstanding,
                     committing, tail, phase, boot, cur, touched>>
  BY DEF BeginWait, image, cache
<1>2. TypeOK' /\ DownOK' /\ ReplayOK'
  BY <1>1 DEF IInv, TypeOK, DownOK, ReplayOK
<1>3. Installing' <=> Installing
  BY <1>1 DEF IInv, TypeOK, Installing
<1>4. CountOK'
  <2>1. Active' = Active
    BY <1>1 DEF IInv, TypeOK, Active
  <2> QED
    BY <1>1, <2>1 DEF IInv, TypeOK, CountOK
<1>5. PinnedUntilInstalled' /\ CleanOK'
  BY <1>1, <1>3, CacheUntouched DEF IInv, TypeOK, Pinned
<1>6. HoldersOK' /\ HeaderOK' /\ CommitOK'
  BY <1>1, <1>3 DEF IInv, TypeOK, HoldersOK, HeaderOK, CommitOK
\* An empty log has room for an operation, so a thread that waits for space
\* waits for an operation or a commit.
<1>7. NoLostWakeup'
  <2>1. SUFFICES ASSUME ~committing, outstanding = 0 PROVE FALSE
    BY <1>1 DEF IInv, TypeOK, NoLostWakeup
  <2>2. Len(log_hdr) = 0
    BY <1>1, <2>1, EmptyHeader DEF IInv, HeaderOK
  <2>3. Len(log_hdr) + (outstanding + 1) * MAX_OP_BLOCKS = MAX_OP_BLOCKS
    BY <2>1, <2>2
  <2> QED
    BY <1>1, <2>1, <2>3 DEF MustWait, LogFull
<1> QED
  BY <1>2, <1>4, <1>5, <1>6, <1>7 DEF IInv

\* A block read and changed: its holder's reference keeps it in the cache.
LEMMA ModifyBlockInv ==
  ASSUME IInv, NEW t \in Threads, NEW b \in Blocks, NEW v \in Values,
         ModifyBlock(t, b, v)
  PROVE  IInv'
<1>1. /\ pc[t] = "op" /\ ~Held(b)
      /\ refcnt' = [refcnt EXCEPT ![b] = refcnt[b] + 1]
      /\ pc' = [pc EXCEPT ![t] = "locked"]
      /\ cur' = [cur EXCEPT ![t] = b]
      /\ touched' = [touched EXCEPT ![t] = @ \cup {b}]
      /\ UNCHANGED <<home, logblk, dhdr, log_hdr, outstanding, committing, tail,
                     phase, boot>>
  BY DEF ModifyBlock, SetRef, image
<1>2. data' = [data EXCEPT ![b] = v]
  BY DEF ModifyBlock, SetRef, IInv, TypeOK
<1>3. phase = "up" /\ ~Installing /\ \A u \in Threads : pc[u] \notin CommitPCs
  BY <1>1, BusyIsUp, InsideOp
<1>4. TypeOK' /\ DownOK' /\ ReplayOK'
  BY <1>1, <1>2, <1>3 DEF IInv, TypeOK, DownOK, ReplayOK
<1>5. ~Installing' /\ \A c \in Blocks : Pinned(c)' <=> Pinned(c)
  BY <1>1, <1>3 DEF IInv, TypeOK, Installing, Pinned
<1>6. CountOK'
  <2>1. Active' = Active
    BY <1>1 DEF IInv, TypeOK, Active
  <2> QED
    BY <1>1, <2>1 DEF IInv, TypeOK, CountOK
<1>7. HoldersOK'
  BY <1>1 DEF IInv, TypeOK, HoldersOK, Held
<1>8. PinnedUntilInstalled'
  <2>1. cur[t] = None
    BY <1>1 DEF IInv, HoldersOK
  <2>2. \A c \in Blocks : Held(c)' <=> Held(c) \/ c = b
    BY <1>1, <2>1 DEF IInv, TypeOK, Held
  <2> QED
    BY <1>1, <1>3, <1>5, <2>2 DEF IInv, TypeOK, PinnedUntilInstalled
<1>9. CleanOK'
  BY <1>1, <1>2, <1>5 DEF IInv, TypeOK, CleanOK, Held
<1>10. HeaderOK' /\ CommitOK' /\ NoLostWakeup'
  BY <1>1, <1>3, <1>5 DEF IInv, TypeOK, HeaderOK, CommitOK, NoLostWakeup
<1> QED
  BY <1>4, <1>6, <1>7, <1>8, <1>9, <1>10 DEF IInv

\* log_write: the block gets its entry and the log's reference, or has both.
LEMMA LogWriteInv ==
  ASSUME IInv, NEW t \in Threads, LogWrite(t)
  PROVE  IInv'
<1> DEFINE b == cur[t]
<1>1. /\ pc[t] = "locked"
      /\ Len(log_hdr) < LOG_SIZE
      /\ log_hdr' = IF InHeader(log_hdr, b) THEN log_hdr ELSE Append(log_hdr, b)
      /\ refcnt' = [refcnt EXCEPT ![b] = refcnt[b] + PinRefs(b)]
      /\ pc' = [pc EXCEPT ![t] = "logged"]
      /\ UNCHANGED <<home, logblk, dhdr, outstanding, committing, tail, phase,
                     boot, cur, touched>>
  BY DEF LogWrite, LogWriteAsserts, SetRef, image
<1>2. /\ phase = "up" /\ ~Installing /\ outstanding >= 1
      /\ \A u \in Threads : pc[u] \notin CommitPCs
  BY <1>1, BusyIsUp, InsideOp
<1>3. b \in Blocks /\ Held(b)
  BY <1>1 DEF IInv, TypeOK, HoldersOK, Held
<1>4. refcnt[b] >= 1
  BY <1>2, <1>3, Referenced
<1>5. data' = data
  BY <1>3, <1>4 DEF LogWrite, SetRef, PinRefs, IInv, TypeOK
<1>6. log_hdr' \in LogHeader /\ Distinct(log_hdr')
  BY <1>1, <1>3, HeaderAppend DEF IInv, TypeOK, HeaderOK
\* The header has the entries it had, and one for b.
<1>7. \A c \in Blocks : InHeader(log_hdr', c) <=> InHeader(log_hdr, c) \/ c = b
  <2>1. Len(log_hdr) \in Nat
    BY HeaderType DEF IInv, TypeOK
  <2>2. CASE InHeader(log_hdr, b)
    BY <1>1, <2>2
  <2>3. CASE ~InHeader(log_hdr, b)
    BY <1>1, <1>3, <2>1, <2>3, HeaderAppend DEF IInv, TypeOK, HeaderOK, InHeader
  <2> QED
    BY <2>2, <2>3
<1>8. TypeOK' /\ DownOK' /\ ReplayOK'
  BY <1>1, <1>2, <1>3, <1>4, <1>5, <1>6
     DEF IInv, TypeOK, DownOK, ReplayOK, PinRefs
<1>9. /\ ~Installing'
      /\ \A c \in Blocks : Pinned(c) <=> InHeader(log_hdr, c)
      /\ \A c \in Blocks : Pinned(c)' <=> InHeader(log_hdr', c)
  BY <1>1, <1>2 DEF IInv, TypeOK, Installing, Pinned, InHeader
<1>10. CountOK'
  <2>1. Active' = Active
    BY <1>1 DEF IInv, TypeOK, Active
  <2> QED
    BY <1>1, <2>1 DEF IInv, TypeOK, CountOK
<1>11. HoldersOK'
  BY <1>1 DEF IInv, TypeOK, HoldersOK
<1>12. PinnedUntilInstalled'
  <2>1. \A c \in Blocks : Held(c)' <=> Held(c)
    BY <1>1 DEF Held
  <2> QED
    BY <1>1, <1>2, <1>3, <1>7, <1>9, <2>1
       DEF IInv, TypeOK, PinnedUntilInstalled, PinRefs
<1>13. CleanOK'
  BY <1>1, <1>3, <1>4, <1>5, <1>7, <1>9 DEF IInv, TypeOK, CleanOK, PinRefs
<1>14. HeaderOK' /\ CommitOK' /\ NoLostWakeup'
  BY <1>1, <1>2, <1>6, <1>9
     DEF IInv, TypeOK, HeaderOK, CommitOK, NoLostWakeup
<1> QED
  BY <1>8, <1>10, <1>11, <1>12, <1>13, <1>14 DEF IInv

\* A block_read: the cached content is the one on disk unless the log pins it.
LEMMA ReadBlockInv ==
  ASSUME IInv, NEW t \in Threads, NEW b \in Blocks, ReadBlock(t, b)
  PROVE  IInv'
<1>1. /\ phase = "up" /\ pc[t] \in {"idle", "op"} /\ ~Held(b)
      /\ refcnt' = [refcnt EXCEPT ![b] = refcnt[b] + 1]
      /\ pc' = [pc EXCEPT ![t] = IF @ = "op" THEN "op_read" ELSE "reading"]
      /\ cur' = [cur EXCEPT ![t] = b]
      /\ UNCHANGED <<home, logblk, dhdr, log_hdr, outstanding, committing, tail,
                     phase, boot, touched>>
  BY DEF ReadBlock, SetRef, image
\* A cached block keeps its contents, another one is read.
<1>2. data' = [data EXCEPT ![b] = IF refcnt[b] > 0 THEN data[b] ELSE home[b]]
  BY DEF ReadBlock, SetRef, Content, IInv, TypeOK
<1>3. (refcnt[b] > 0 => data' = data) /\ \A c \in Blocks : c # b => data'[c] = data[c]
  BY <1>2 DEF IInv, TypeOK
<1>4. TypeOK' /\ DownOK' /\ ReplayOK'
  <2>1. data' \in [Blocks -> Values \cup {None}]
    BY <1>2 DEF IInv, TypeOK
  <2>2. pc' \in [Threads -> PCs]
    BY <1>1 DEF IInv, TypeOK
  <2>3. refcnt' \in [Blocks -> Nat] /\ cur' \in [Threads -> Blocks \cup {None}]
    BY <1>1 DEF IInv, TypeOK
  <2>4. TypeOK'
    BY <1>1, <2>1, <2>2, <2>3 DEF IInv, TypeOK
  <2> QED
    BY <1>1, <2>4 DEF DownOK, ReplayOK
<1>5. (Installing' <=> Installing) /\ \A c \in Blocks : Pinned(c)' <=> Pinned(c)
  <2>1. Installing' <=> Installing
    BY <1>1 DEF IInv, TypeOK, Installing
  <2> QED
    BY <1>1, <2>1 DEF Pinned
<1>6. CountOK'
  <2>1. Active' = Active
    BY <1>1 DEF IInv, TypeOK, Active
  <2> QED
    BY <1>1, <2>1 DEF IInv, TypeOK, CountOK
<1>7. HoldersOK'
  BY <1>1 DEF IInv, TypeOK, HoldersOK, Held
<1>8. PinnedUntilInstalled'
  <2>1. \A c \in Blocks : Held(c)' <=> Held(c) \/ c = b
    BY <1>1 DEF IInv, TypeOK, HoldersOK, Held
  <2> QED
    BY <1>1, <1>5, <2>1 DEF IInv, TypeOK, PinnedUntilInstalled
<1>9. CleanOK'
  <2>1. ASSUME NEW c \in Blocks, c # b
        PROVE  CleanOK!(c)'
    BY <1>1, <1>3, <1>5, <2>1 DEF IInv, TypeOK, CleanOK, Held
  <2>2. CleanOK!(b)'
    BY <1>1, <1>2, <1>5 DEF IInv, TypeOK, CleanOK, Held
  <2> QED
    BY <2>1, <2>2 DEF CleanOK
\* The blocks commit() is about are pinned, hence cached already.
<1>10. CommitOK'
  <2>1. ASSUME NEW i \in 1 .. Len(log_hdr), Pinned(log_hdr[i])
        PROVE  data'[log_hdr[i]] = data[log_hdr[i]]
    <3>1. log_hdr[i] \in Blocks
      BY HeaderType DEF IInv, TypeOK
    <3>2. refcnt[log_hdr[i]] >= 1
      BY <1>1, <2>1, <3>1, Referenced
    <3> QED
      BY <1>3, <3>1, <3>2 DEF IInv, TypeOK
  <2>2. \A u \in Threads : pc'[u] \in CommitPCs => pc'[u] = pc[u]
    BY <1>1 DEF IInv, TypeOK
  <2> QED
    BY <1>1, <2>1, <2>2, CommitUntouched
<1>11. HeaderOK' /\ NoLostWakeup'
  BY <1>1, <1>5 DEF IInv, TypeOK, HeaderOK, NoLostWakeup
<1> QED
  BY <1>4, <1>6, <1>7, <1>8, <1>9, <1>10, <1>11 DEF IInv

\* block_release: a block deleted from the cache is neither held nor pinned.
LEMMA ReleaseBlockInv ==
  ASSUME IInv, NEW t \in Threads, ReleaseBlock(t)
  PROVE  IInv'
<1>1. PICK b \in Blocks :
        b = cur[t] /\ Held(b) /\ \A u \in Threads : cur[u] = b => u = t
  BY DEF ReleaseBlock, IInv, TypeOK, HoldersOK, Held
<1>2. /\ pc[t] \in {"logged", "op_read", "reading"}
      /\ refcnt' = [refcnt EXCEPT ![b] = refcnt[b] - 1]
      /\ data' = IF refcnt[b] - 1 = 0 THEN [data EXCEPT ![b] = None] ELSE data
      /\ pc' = [pc EXCEPT ![t] = IF @ = "reading" THEN "idle" ELSE "op"]
      /\ cur' = [cur EXCEPT ![t] = None]
      /\ UNCHANGED <<home, logblk, dhdr, log_hdr, outstanding, committing, tail,
                     phase, boot, touched>>
  BY <1>1 DEF ReleaseBlock, SetRef, image
<1>3. phase = "up"
  BY <1>2, BusyIsUp
<1>4. refcnt[b] >= 1 /\ refcnt[b] \in Nat
  BY <1>3, <1>1, Referenced DEF IInv, TypeOK
<1>5. TypeOK' /\ DownOK' /\ ReplayOK'
  <2>1. data' \in [Blocks -> Values \cup {None}] /\ refcnt' \in [Blocks -> Nat]
    BY <1>2, <1>1, <1>4 DEF IInv, TypeOK
  <2>2. pc' \in [Threads -> PCs] /\ cur' \in [Threads -> Blocks \cup {None}]
    BY <1>2 DEF IInv, TypeOK
  <2>3. TypeOK'
    BY <1>2, <2>1, <2>2 DEF IInv, TypeOK
  <2> QED
    BY <1>2, <1>3, <2>3 DEF DownOK, ReplayOK
<1>6. (Installing' <=> Installing) /\ \A c \in Blocks : Pinned(c)' <=> Pinned(c)
  <2>1. Installing' <=> Installing
    BY <1>2 DEF IInv, TypeOK, Installing
  <2> QED
    BY <1>2, <2>1 DEF Pinned
<1>7. CountOK'
  <2>1. Active' = Active
    BY <1>2 DEF IInv, TypeOK, Active
  <2> QED
    BY <1>2, <2>1 DEF IInv, TypeOK, CountOK
<1>8. HoldersOK'
  BY <1>2 DEF IInv, TypeOK, HoldersOK
<1>9. PinnedUntilInstalled'
  <2>1. \A c \in Blocks : Held(c)' <=> Held(c) /\ c # b
    BY <1>2, <1>1 DEF IInv, TypeOK, HoldersOK, Held
  <2>2. \A c \in Blocks : c # b => refcnt'[c] = refcnt[c]
    BY <1>2 DEF IInv, TypeOK
  <2>3. refcnt'[b] = IF Pinned(b)' THEN 1 ELSE 0
    BY <1>2, <1>3, <1>1, <1>6, Referenced DEF IInv, TypeOK
  <2> QED
    BY <1>2, <1>1, <1>6, <2>1, <2>2, <2>3 DEF IInv, PinnedUntilInstalled
\* A block with no reference left is deleted; with one left it is the log's.
<1>10. CleanOK'
  <2>1. ASSUME NEW c \in Blocks, c # b
        PROVE  CleanOK!(c)'
    <3>1. data'[c] = data[c] /\ refcnt'[c] = refcnt[c]
      BY <1>2, <2>1 DEF IInv, TypeOK
    <3> QED
      BY <1>2, <1>6, <2>1, <3>1 DEF IInv, TypeOK, CleanOK
  <2>2. CASE refcnt[b] = 1
    <3>1. data'[b] = None /\ refcnt'[b] = 0
      BY <1>2, <1>1, <2>2 DEF IInv, TypeOK
    <3> QED
      BY <1>1, <2>1, <3>1 DEF CleanOK
  <2>3. CASE refcnt[b] # 1
    <3>1. Pinned(b) /\ data' = data /\ refcnt[b] = 2 /\ refcnt'[b] = 1
      BY <1>2, <1>3, <1>1, <1>4, <2>3, Referenced DEF IInv, TypeOK
    <3>2. CleanOK!(b)'
      BY <1>1, <1>6, <3>1 DEF IInv, CleanOK
    <3> QED
      BY <1>1, <2>1, <3>2 DEF CleanOK
  <2> QED
    BY <2>2, <2>3
<1>11. CommitOK'
  <2>1. ASSUME NEW i \in 1 .. Len(log_hdr), Pinned(log_hdr[i])
        PROVE  data'[log_hdr[i]] = data[log_hdr[i]]
    <3>1. log_hdr[i] \in Blocks
      BY HeaderType DEF IInv, TypeOK
    <3>2. CASE log_hdr[i] = b
      BY <1>1, <1>2, <1>3, <2>1, <3>2, Referenced
    <3>3. CASE log_hdr[i] # b
      BY <1>2, <3>1, <3>3 DEF IInv, TypeOK
    <3> QED
      BY <3>2, <3>3
  <2>2. \A u \in Threads : pc'[u] \in CommitPCs => pc'[u] = pc[u]
    BY <1>2 DEF IInv, TypeOK
  <2> QED
    BY <1>2, <2>1, <2>2, CommitUntouched
<1>12. HeaderOK' /\ NoLostWakeup'
  BY <1>2, <1>6 DEF IInv, TypeOK, HeaderOK, NoLostWakeup
<1> QED
  BY <1>5, <1>7, <1>8, <1>9, <1>10, <1>11, <1>12 DEF IInv

\* end_op of one of several operations: the waiters are woken to try again.
LEMMA EndOpInv ==
  ASSUME IInv, NEW t \in Threads, EndOp(t)
  PROVE  IInv'
<1>1. /\ pc[t] = "op" /\ outstanding # 1
      /\ outstanding' = outstanding - 1
      /\ pc' = [u \in Threads |-> IF u = t THEN "idle"
                                  ELSE IF pc[u] = "wait" THEN "begin" ELSE pc[u]]
      /\ touched' = [touched EXCEPT ![t] = {}]
      /\ UNCHANGED <<home, logblk, dhdr, data, refcnt, log_hdr, committing, tail,
                     phase, boot, cur>>
  BY DEF EndOp, NotifyAll, image, cache, IInv, TypeOK
<1>2. /\ phase = "up" /\ ~Installing /\ outstanding > 1 /\ ~committing
      /\ \A u \in Threads : pc[u] \notin CommitPCs
  BY <1>1, BusyIsUp, InsideOp DEF IInv, TypeOK
<1>3. TypeOK' /\ DownOK' /\ ReplayOK'
  BY <1>1, <1>2 DEF IInv, TypeOK, DownOK, ReplayOK
<1>4. ~Installing'
  BY <1>1, <1>2 DEF IInv, TypeOK, Installing
<1>5. CountOK'
  <2>1. Active' = Active \ {t}
    BY <1>1 DEF IInv, TypeOK, Active
  <2> QED
    BY <1>1, <1>2, <2>1, ActiveRemove DEF IInv, TypeOK, CountOK
<1>6. PinnedUntilInstalled' /\ CleanOK'
  BY <1>1, <1>2, <1>4, CacheUntouched DEF IInv, TypeOK, Pinned
<1>7. HoldersOK' /\ HeaderOK' /\ CommitOK' /\ NoLostWakeup'
  BY <1>1, <1>2, <1>4
     DEF IInv, TypeOK, HoldersOK, HeaderOK, CommitOK, NoLostWakeup
<1> QED
  BY <1>3, <1>5, <1>6, <1>7 DEF IInv

\* end_op of the last operation: it becomes the only committer.
LEMMA EndLastOpInv ==
  ASSUME IInv, NEW t \in Threads, EndLastOp(t)
  PROVE  IInv'
<1>1. /\ pc[t] = "op" /\ outstanding = 1
      /\ outstanding' = 0 /\ committing' = TRUE /\ tail' = 0
      /\ pc' = [pc EXCEPT ![t] = IF Len(log_hdr) > 0 THEN "write_log" ELSE "done"]
      /\ touched' = [touched EXCEPT ![t] = {}]
      /\ UNCHANGED <<home, logblk, dhdr, data, refcnt, log_hdr, phase, boot, cur>>
  BY DEF EndLastOp, image, cache
<1>2. /\ phase = "up" /\ ~Installing /\ ~committing
      /\ \A u \in Threads : pc[u] \notin CommitPCs
  BY <1>1, BusyIsUp, InsideOp
<1>3. Len(log_hdr) \in Nat /\ log_hdr \in Seq(Blocks)
  BY HeaderType DEF IInv, TypeOK, LogHeader
<1>4. TypeOK' /\ DownOK' /\ ReplayOK'
  BY <1>1, <1>2 DEF IInv, TypeOK, DownOK, ReplayOK
<1>5. ~Installing'
  BY <1>1, <1>2 DEF IInv, TypeOK, Installing
<1>6. CountOK'
  <2>1. Active' = Active \ {t}
    BY <1>1 DEF IInv, TypeOK, Active
  <2>2. Cardinality(Active') = Cardinality(Active) - 1
    BY <1>1, <2>1, ActiveRemove
  <2>3. Cardinality(Active) = 1
    BY <1>1 DEF IInv, CountOK
  <2>4. \A u \in Threads : pc'[u] \in CommitPCs <=> u = t
    BY <1>1, <1>2 DEF IInv, TypeOK
  <2> QED
    BY <1>1, <2>2, <2>3, <2>4 DEF CountOK
<1>7. PinnedUntilInstalled' /\ CleanOK'
  BY <1>1, <1>2, <1>5, CacheUntouched DEF IInv, TypeOK, Pinned
<1>8. HoldersOK' /\ NoLostWakeup'
  BY <1>1 DEF IInv, TypeOK, HoldersOK, NoLostWakeup
<1>9. HeaderOK'
  BY <1>1, <1>2, <1>3, <1>5, EmptySeq DEF IInv, TypeOK, HeaderOK
<1>10. CommitOK'
  BY <1>1, <1>2, <1>3 DEF IInv, TypeOK, CommitOK
<1> QED
  BY <1>4, <1>6, <1>7, <1>8, <1>9, <1>10 DEF IInv

\* The committer leaves: the log is empty and the waiters are woken.
LEMMA CommitDoneInv ==
  ASSUME IInv, NEW t \in Threads, CommitDone(t)
  PROVE  IInv'
<1>1. /\ pc[t] = "done" /\ committing' = FALSE
      /\ pc' = [u \in Threads |-> IF u = t THEN "idle"
                                  ELSE IF pc[u] = "wait" THEN "begin" ELSE pc[u]]
      /\ UNCHANGED <<home, logblk, dhdr, data, refcnt, log_hdr, outstanding, tail,
                     phase, boot, cur, touched>>
  BY DEF CommitDone, NotifyAll, image, cache, IInv, TypeOK
<1>2. /\ phase = "up" /\ ~Installing
      /\ \A u \in Threads : pc[u] \in CommitPCs => u = t
  BY <1>1, CommitterAlone
<1>3. log_hdr = << >>
  BY <1>1 DEF IInv, HeaderOK
<1>4. TypeOK' /\ DownOK' /\ ReplayOK'
  BY <1>1, <1>2 DEF IInv, TypeOK, DownOK, ReplayOK
<1>5. ~Installing'
  BY <1>1, <1>2 DEF IInv, TypeOK, Installing
<1>6. CountOK'
  <2>1. Active' = Active
    BY <1>1 DEF IInv, TypeOK, Active
  <2> QED
    BY <1>1, <1>2, <2>1 DEF IInv, TypeOK, CountOK
<1>7. PinnedUntilInstalled' /\ CleanOK'
  BY <1>1, <1>2, <1>5, CacheUntouched DEF IInv, TypeOK, Pinned
<1>8. HoldersOK' /\ HeaderOK' /\ CommitOK' /\ NoLostWakeup'
  BY <1>1, <1>2, <1>3, <1>5
     DEF IInv, TypeOK, HoldersOK, HeaderOK, CommitOK, NoLostWakeup
<1> QED
  BY <1>4, <1>6, <1>7, <1>8 DEF IInv

\* write_log: one more log block is a copy of the cached block.
LEMMA WriteLogInv ==
  ASSUME IInv, NEW t \in Threads, WriteLog(t)
  PROVE  IInv'
<1>1. /\ pc[t] = "write_log"
      /\ logblk' = [logblk EXCEPT ![tail + 1] = Content(log_hdr[tail + 1])]
      /\ tail' = tail + 1
      /\ pc' = [pc EXCEPT ![t] =
                  IF tail + 1 < Len(log_hdr) THEN "write_log" ELSE "write_head"]
      /\ UNCHANGED <<home, dhdr, data, refcnt, log_hdr, outstanding, committing,
                     phase, boot, cur, touched>>
  BY DEF WriteLog, cache
<1>2. /\ phase = "up" /\ ~Installing
      /\ \A u \in Threads : pc[u] \in CommitPCs => u = t
  BY <1>1, CommitterAlone
<1>3. /\ tail \in Nat /\ Len(log_hdr) \in 0 .. LOG_SIZE /\ tail < Len(log_hdr)
      /\ \A i \in 1 .. Len(log_hdr) : log_hdr[i] \in Blocks
  BY <1>1, HeaderType DEF IInv, TypeOK, CommitOK
\* The block is pinned, so what is written to the log is its cached content.
<1>4. /\ Content(log_hdr[tail + 1]) = data[log_hdr[tail + 1]]
      /\ data[log_hdr[tail + 1]] \in Values
  <2>1. log_hdr[tail + 1] \in Blocks /\ Pinned(log_hdr[tail + 1])
    BY <1>2, <1>3 DEF Pinned
  <2>2. refcnt[log_hdr[tail + 1]] >= 1
    BY <1>2, <2>1, Referenced
  <2> QED
    BY <2>1, <2>2 DEF IInv, TypeOK, CleanOK, Content
<1>5. TypeOK' /\ DownOK' /\ ReplayOK'
  BY <1>1, <1>2, <1>3, <1>4 DEF IInv, TypeOK, DownOK, ReplayOK
<1>6. ~Installing' /\ \A c \in Blocks : Pinned(c)' <=> Pinned(c)
  BY <1>1, <1>2 DEF IInv, TypeOK, Installing, Pinned
<1>7. CountOK'
  <2>1. Active' = Active
    BY <1>1 DEF IInv, TypeOK, Active
  <2>2. \A u \in Threads : pc'[u] \in CommitPCs <=> pc[u] \in CommitPCs
    BY <1>1 DEF IInv, TypeOK
  <2> QED
    BY <1>1, <2>1, <2>2 DEF IInv, CountOK
<1>8. PinnedUntilInstalled' /\ CleanOK'
  <2>1. \A u \in Threads : pc[u] = "locked" => pc'[u] = "locked"
    BY <1>1 DEF IInv, TypeOK
  <2> QED
    BY <1>1, <1>2, <1>6, <2>1, CacheUntouched
<1>9. HoldersOK' /\ HeaderOK' /\ NoLostWakeup'
  BY <1>1, <1>2, <1>6 DEF IInv, TypeOK, HoldersOK, HeaderOK, NoLostWakeup
<1>10. CommitOK'
  <2>1. \A i \in 1 .. tail + 1 : logblk'[i] = data'[log_hdr'[i]]
    <3>1. \A i \in 1 .. tail : logblk[i] = data[log_hdr[i]]
      BY <1>1 DEF IInv, CommitOK
    <3>2. \A i \in 1 .. tail : logblk'[i] = logblk[i]
      BY <1>1, <1>3 DEF IInv, TypeOK
    <3>3. logblk'[tail + 1] = data[log_hdr[tail + 1]]
      BY <1>1, <1>3, <1>4 DEF IInv, TypeOK
    <3> QED
      BY <1>1, <1>3, <3>1, <3>2, <3>3
  <2>2. \A u \in Threads : u # t => pc'[u] \notin CommitPCs
    BY <1>1, <1>2 DEF IInv, TypeOK
  <2>3. CASE tail + 1 < Len(log_hdr)
    <3>1. pc'[t] = "write_log"
      BY <1>1, <2>3 DEF IInv, TypeOK
    <3> QED
      BY <1>1, <2>1, <2>2, <2>3, <3>1 DEF CommitOK
  <2>4. CASE ~(tail + 1 < Len(log_hdr))
    <3>1. pc'[t] = "write_head" /\ tail + 1 = Len(log_hdr)
      BY <1>1, <1>3, <2>4 DEF IInv, TypeOK
    <3> QED
      BY <1>1, <1>3, <2>1, <2>2, <3>1 DEF CommitOK
  <2> QED
    BY <2>3, <2>4
<1> QED
  BY <1>5, <1>7, <1>8, <1>9, <1>10 DEF IInv

\* write_head: the header reaches the disk after all of its log blocks.
LEMMA WriteHeadInv ==
  ASSUME IInv, NEW t \in Threads, WriteHead(t)
  PROVE  IInv'
<1>1. /\ pc[t] = "write_head" /\ dhdr' = log_hdr /\ tail' = 0
      /\ pc' = [pc EXCEPT ![t] = "install"]
      /\ UNCHANGED <<home, logblk, data, refcnt, log_hdr, outstanding, committing,
                     phase, boot, cur, touched>>
  BY DEF WriteHead, cache
<1>2. /\ phase = "up" /\ ~Installing
      /\ \A u \in Threads : pc[u] \in CommitPCs => u = t
  BY <1>1, CommitterAlone
<1>3. Len(log_hdr) \in Nat /\ Len(log_hdr) > 0
  BY <1>1, HeaderType DEF IInv, TypeOK, CommitOK
<1>4. TypeOK' /\ DownOK' /\ ReplayOK'
  BY <1>1, <1>2 DEF IInv, TypeOK, DownOK, ReplayOK
<1>5. Installing' /\ \A c \in Blocks : Pinned(c)' <=> Pinned(c)
  <2>1. Installing'
    BY <1>1 DEF IInv, TypeOK, Installing
  <2> QED
    BY <1>1, <1>2, <1>3, <2>1 DEF Pinned
<1>6. CountOK'
  <2>1. Active' = Active
    BY <1>1 DEF IInv, TypeOK, Active
  <2>2. \A u \in Threads : pc'[u] \in CommitPCs <=> pc[u] \in CommitPCs
    BY <1>1 DEF IInv, TypeOK
  <2> QED
    BY <1>1, <2>1, <2>2 DEF IInv, CountOK
<1>7. PinnedUntilInstalled' /\ CleanOK'
  <2>1. \A u \in Threads : pc[u] = "locked" => pc'[u] = "locked"
    BY <1>1 DEF IInv, TypeOK
  <2> QED
    BY <1>1, <1>2, <1>5, <2>1, CacheUntouched
<1>8. HoldersOK' /\ HeaderOK' /\ NoLostWakeup'
  BY <1>1, <1>2, <1>5 DEF IInv, TypeOK, HoldersOK, HeaderOK, NoLostWakeup
<1>9. CommitOK'
  <2>1. \A u \in Threads : u # t => pc'[u] \notin CommitPCs
    BY <1>1, <1>2 DEF IInv, TypeOK
  <2>2. pc'[t] = "install"
    BY <1>1 DEF IInv, TypeOK
  <2> QED
    BY <1>1, <1>3, <2>1, <2>2 DEF IInv, CommitOK
<1> QED
  BY <1>4, <1>6, <1>7, <1>8, <1>9 DEF IInv

\* commit's loop: one block more is at home, and the log lets go of it.
LEMMA InstallInv ==
  ASSUME IInv, NEW t \in Threads, Install(t)
  PROVE  IInv'
<1>1. /\ tail \in Nat /\ Len(log_hdr) \in 0 .. LOG_SIZE /\ tail < Len(log_hdr)
      /\ \A i \in 1 .. Len(log_hdr) : log_hdr[i] \in Blocks
      /\ pc[t] = "install"
  BY HeaderType DEF Install, IInv, TypeOK, CommitOK
<1>2. PICK b \in Blocks : b = log_hdr[tail + 1]
  BY <1>1
<1>3. /\ ~Held(b)
      /\ home' = [home EXCEPT ![b] = logblk[tail + 1]]
      /\ refcnt' = [refcnt EXCEPT ![b] = refcnt[b] - 1]
      /\ tail' = tail + 1
      /\ pc' = [pc EXCEPT ![t] =
                  IF tail + 1 < Len(log_hdr) THEN "install" ELSE "erase"]
      /\ UNCHANGED <<logblk, dhdr, log_hdr, outstanding, committing, phase, boot,
                     cur, touched>>
  BY <1>2 DEF Install, SetRef
<1>4. /\ phase = "up" /\ Installing
      /\ \A u \in Threads : pc[u] \in CommitPCs => u = t
      /\ \A u \in Threads : pc[u] \notin OpPCs
  BY <1>1, CommitterAlone
\* The log's is the only reference to the block, so the block is deleted.
<1>5. Pinned(b) /\ refcnt[b] = 1
  <2>1. Pinned(b)
    BY <1>1, <1>2 DEF Pinned
  <2> QED
    BY <1>3, <1>4, <2>1, Referenced
<1>6. data' = [data EXCEPT ![b] = None]
  <2>1. data' = [[data EXCEPT ![b] = logblk[tail + 1]] EXCEPT ![b] = None]
    BY <1>2, <1>5 DEF Install, SetRef
  <2> QED
    BY <2>1 DEF IInv, TypeOK
<1>7. TypeOK' /\ DownOK' /\ ReplayOK'
  <2>1. /\ data' \in [Blocks -> Values \cup {None}]
        /\ refcnt' \in [Blocks -> Nat]
    BY <1>3, <1>5, <1>6 DEF IInv, TypeOK
  <2>2. /\ tail' \in 0 .. LOG_SIZE
        /\ home' \in [Blocks -> Values]
        /\ pc' \in [Threads -> PCs]
    BY <1>1, <1>3 DEF IInv, TypeOK
  <2>3. TypeOK'
    BY <1>3, <2>1, <2>2 DEF IInv, TypeOK
  <2> QED
    BY <1>3, <1>4, <2>3 DEF DownOK, ReplayOK
<1>8. Installing' /\ \A c \in Blocks : Pinned(c)' <=> Pinned(c) /\ c # b
  <2>1. Installing'
    BY <1>3 DEF IInv, TypeOK, Installing
  <2>2. \A i \in 1 .. Len(log_hdr) : log_hdr[i] = b => i = tail + 1
    BY <1>1, <1>2 DEF IInv, HeaderOK, Distinct
  <2> QED
    BY <1>1, <1>2, <1>3, <1>4, <2>1, <2>2 DEF Pinned
<1>9. CountOK'
  <2>1. Active' = Active
    BY <1>1, <1>3 DEF IInv, TypeOK, Active
  <2>2. \A u \in Threads : pc'[u] \in CommitPCs <=> pc[u] \in CommitPCs
    BY <1>1, <1>3 DEF IInv, TypeOK
  <2> QED
    BY <1>3, <2>1, <2>2 DEF IInv, CountOK
<1>10. PinnedUntilInstalled'
  <2>1. \A c \in Blocks : Held(c)' <=> Held(c)
    BY <1>3 DEF Held
  <2>2. \A c \in Blocks : c # b => refcnt'[c] = refcnt[c]
    BY <1>3 DEF IInv, TypeOK
  <2>3. refcnt'[b] = 0
    BY <1>3, <1>5 DEF IInv, TypeOK
  <2> QED
    BY <1>3, <1>4, <1>8, <2>1, <2>2, <2>3 DEF IInv, PinnedUntilInstalled
<1>11. CleanOK'
  <2>1. data'[b] = None /\ refcnt'[b] = 0
    BY <1>3, <1>5, <1>6 DEF IInv, TypeOK
  <2>2. ASSUME NEW c \in Blocks, c # b
        PROVE  CleanOK!(c)'
    <3>1. data'[c] = data[c] /\ refcnt'[c] = refcnt[c] /\ home'[c] = home[c]
      BY <1>3, <1>6, <2>2 DEF IInv, TypeOK
    <3> QED
      BY <1>3, <1>4, <1>8, <2>2, <3>1 DEF IInv, CleanOK
  <2> QED
    BY <2>1, <2>2 DEF CleanOK
<1>12. HoldersOK' /\ NoLostWakeup'
  BY <1>1, <1>3 DEF IInv, TypeOK, HoldersOK, NoLostWakeup
<1>13. HeaderOK'
  BY <1>1, <1>3, <1>4, <1>8 DEF IInv, TypeOK, HeaderOK, CountOK
<1>14. CommitOK'
  <2>1. \A u \in Threads : u # t => pc'[u] \notin CommitPCs
    BY <1>3, <1>4 DEF IInv, TypeOK
  <2>2. \A i \in 1 .. Len(log_hdr) : log_hdr[i] = b => i = tail + 1
    BY <1>1, <1>2 DEF IInv, HeaderOK, Distinct
  <2>3. \A i \in 1 .. tail + 1 : logblk'[i] = home'[log_hdr'[i]]
    <3>1. \A i \in 1 .. tail : logblk[i] = home[log_hdr[i]]
      BY <1>1 DEF IInv, CommitOK
    <3>2. \A i \in 1 .. tail : home'[log_hdr[i]] = home[log_hdr[i]]
      BY <1>1, <1>3, <2>2 DEF IInv, TypeOK
    <3>3. home'[b] = logblk[tail + 1]
      BY <1>3 DEF IInv, TypeOK
    <3> QED
      BY <1>1, <1>2, <1>3, <3>1, <3>2, <3>3
  <2>4. \A i \in tail + 2 .. Len(log_hdr) : logblk'[i] = data'[log_hdr'[i]]
    <3>1. \A i \in tail + 1 .. Len(log_hdr) : logblk[i] = data[log_hdr[i]]
      BY <1>1 DEF IInv, CommitOK
    <3>2. \A i \in tail + 2 .. Len(log_hdr) : log_hdr[i] \in Blocks \ {b}
      BY <1>1, <2>2
    <3>3. \A c \in Blocks \ {b} : data'[c] = data[c]
      BY <1>6 DEF IInv, TypeOK
    <3> QED
      BY <1>1, <1>3, <3>1, <3>2, <3>3
  <2>5. CASE tail + 1 < Len(log_hdr)
    <3>1. pc'[t] = "install"
      BY <1>3, <2>5 DEF IInv, TypeOK
    <3> QED
      BY <1>1, <1>3, <2>1, <2>3, <2>4, <2>5, <3>1 DEF CommitOK
  <2>6. CASE ~(tail + 1 < Len(log_hdr))
    <3>1. pc'[t] = "erase" /\ tail + 1 = Len(log_hdr)
      BY <1>1, <1>3, <2>6 DEF IInv, TypeOK
    <3> QED
      BY <1>1, <1>3, <2>1, <2>3, <3>1 DEF CommitOK
  <2> QED
    BY <2>5, <2>6
<1> QED
  BY <1>7, <1>9, <1>10, <1>11, <1>12, <1>13, <1>14 DEF IInv

\* The header is erased when every block it names is at home.
LEMMA EraseLogInv ==
  ASSUME IInv, NEW t \in Threads, EraseLog(t)
  PROVE  IInv'
<1>1. /\ pc[t] = "erase" /\ log_hdr' = << >> /\ dhdr' = << >> /\ tail' = 0
      /\ pc' = [pc EXCEPT ![t] = "done"]
      /\ UNCHANGED <<home, logblk, data, refcnt, outstanding, committing, phase,
                     boot, cur, touched>>
  BY DEF EraseLog, ClearHeader, cache
<1>2. /\ phase = "up" /\ Installing
      /\ \A u \in Threads : pc[u] \in CommitPCs => u = t
  BY <1>1, CommitterAlone
<1>3. TypeOK' /\ DownOK' /\ ReplayOK'
  BY <1>1, <1>2, EmptyHeader DEF IInv, TypeOK, DownOK, ReplayOK
\* Nothing is pinned any more, and nothing will be.
<1>4. ~Installing' /\ \A c \in Blocks : Pinned(c)' <=> Pinned(c)
  <2>1. ~Installing'
    BY <1>1, <1>2 DEF IInv, TypeOK, Installing
  <2>2. Len(log_hdr) \in Nat /\ tail = Len(log_hdr)
    BY <1>1, HeaderType DEF IInv, TypeOK, CommitOK
  <2>3. \A c \in Blocks : ~Pinned(c)
    BY <1>2, <2>2 DEF Pinned
  <2>4. \A c \in Blocks : ~Pinned(c)'
    BY <1>1, EmptyHeader DEF Pinned
  <2> QED
    BY <2>1, <2>3, <2>4
<1>5. CountOK'
  <2>1. Active' = Active
    BY <1>1 DEF IInv, TypeOK, Active
  <2>2. \A u \in Threads : pc'[u] \in CommitPCs <=> pc[u] \in CommitPCs
    BY <1>1 DEF IInv, TypeOK
  <2> QED
    BY <1>1, <2>1, <2>2 DEF IInv, CountOK
<1>6. PinnedUntilInstalled' /\ CleanOK'
  <2>1. \A u \in Threads : pc[u] = "locked" => pc'[u] = "locked"
    BY <1>1 DEF IInv, TypeOK
  <2> QED
    BY <1>1, <1>2, <1>4, <2>1, CacheUntouched
<1>7. HoldersOK' /\ HeaderOK' /\ CommitOK' /\ NoLostWakeup'
  BY <1>1, <1>2, <1>4, EmptyHeader
     DEF IInv, TypeOK, HoldersOK, HeaderOK, CommitOK, NoLostWakeup
<1> QED
  BY <1>3, <1>5, <1>6, <1>7 DEF IInv

\* Crash, and the assertions of log_write.
LEMMA DieInv ==
  ASSUME IInv, Die
  PROVE  IInv'
<1>1. /\ data' = [b \in Blocks |-> None] /\ refcnt' = [b \in Blocks |-> 0]
      /\ log_hdr' = << >> /\ outstanding' = 0 /\ committing' = FALSE /\ tail' = 0
      /\ phase' = "read_head" /\ boot' = 1
      /\ pc' = [t \in Threads |-> "idle"] /\ cur' = [t \in Threads |-> None]
      /\ touched' = [t \in Threads |-> {}]
      /\ UNCHANGED <<home, logblk, dhdr>>
  BY DEF Die, image
<1>2. TypeOK'
  <2>1. data' \in [Blocks -> Values \cup {None}] /\ refcnt' \in [Blocks -> Nat]
    BY <1>1
  <2>2. pc' \in [Threads -> PCs] /\ cur' \in [Threads -> Blocks \cup {None}]
    BY <1>1
  <2>3. touched' \in [Threads -> SUBSET Blocks]
    BY <1>1
  <2>4. /\ outstanding' \in Nat /\ tail' \in 0 .. LOG_SIZE
        /\ phase' \in {"read_head", "replay", "up"} /\ boot' \in {1, 2}
    BY <1>1
  <2>5. committing' \in BOOLEAN
    BY <1>1, Zenon
  <2> QED
    BY <1>1, <2>1, <2>2, <2>3, <2>4, <2>5, EmptyHeader DEF IInv, TypeOK
<1>3. CountOK'
  <2>1. Active' = {}
    BY <1>1 DEF Active
  <2> QED
    BY <1>1, <2>1, FS_EmptySet DEF CountOK
<1>4. DownOK' /\ ReplayOK' /\ PinnedUntilInstalled'
  BY <1>1 DEF DownOK, ReplayOK, PinnedUntilInstalled
<1>5. HoldersOK' /\ CleanOK'
  <2>1. HoldersOK'
    BY <1>1 DEF HoldersOK
  <2>2. \A b \in Blocks : data'[b] = None /\ refcnt'[b] = 0
    BY <1>1
  <2> QED
    BY <2>1, <2>2 DEF CleanOK
<1>6. HeaderOK' /\ CommitOK' /\ NoLostWakeup'
  BY <1>1, EmptyHeader DEF IInv, HeaderOK, CommitOK, NoLostWakeup
<1> QED
  BY <1>2, <1>3, <1>4, <1>5, <1>6 DEF IInv

\* While mounting, no thread runs: what is said of threads and of the cache
\* stays true.
LEMMA DownUntouched ==
  ASSUME IInv, phase # "up", phase' # "up",
         UNCHANGED <<data, refcnt, outstanding, committing, pc, cur>>
  PROVE  /\ DownOK' /\ CountOK' /\ HoldersOK' /\ PinnedUntilInstalled'
         /\ CleanOK' /\ CommitOK' /\ NoLostWakeup'
<1>1. DownOK' /\ HoldersOK' /\ PinnedUntilInstalled' /\ NoLostWakeup'
  BY DEF IInv, DownOK, HoldersOK, PinnedUntilInstalled, NoLostWakeup
<1>2. CountOK'
  <2>1. Active' = Active
    BY DEF Active
  <2> QED
    BY <2>1 DEF IInv, CountOK
<1>3. CleanOK'
  BY DEF IInv, DownOK, CleanOK
<1>4. CommitOK'
  BY DEF IInv, DownOK, CommitOK
<1> QED
  BY <1>1, <1>2, <1>3, <1>4

\* read_head: recovery starts from the header on disk.
LEMMA ReadHeadInv ==
  ASSUME IInv, ReadHead
  PROVE  IInv'
<1>1. /\ phase = "read_head" /\ log_hdr' = dhdr /\ tail' = 0 /\ phase' = "replay"
      /\ UNCHANGED <<home, logblk, dhdr, data, refcnt, outstanding, committing,
                     boot, pc, cur, touched>>
  BY DEF ReadHead, image, cache
<1>2. TypeOK'
  BY <1>1 DEF IInv, TypeOK
<1>3. ReplayOK'
  BY <1>1, HeaderType DEF IInv, TypeOK, ReplayOK
<1>4. HeaderOK'
  BY <1>1 DEF IInv, DownOK, HeaderOK
<1> QED
  BY <1>1, <1>2, <1>3, <1>4, DownUntouched DEF IInv

\* recover_from_log's loop: one block more is at home.
LEMMA ReplayBlockInv ==
  ASSUME IInv, ReplayBlock
  PROVE  IInv'
<1>1. /\ phase = "replay" /\ tail < Len(log_hdr)
      /\ home' = [home EXCEPT ![log_hdr[tail + 1]] = logblk[tail + 1]]
      /\ tail' = tail + 1
      /\ UNCHANGED <<logblk, dhdr, data, refcnt, log_hdr, outstanding, committing,
                     phase, boot, pc, cur, touched>>
  BY DEF ReplayBlock, cache
<1>2. /\ tail \in Nat /\ Len(log_hdr) \in 0 .. LOG_SIZE
      /\ \A i \in 1 .. Len(log_hdr) : log_hdr[i] \in Blocks
  BY HeaderType DEF IInv, TypeOK
<1>3. TypeOK'
  BY <1>1, <1>2 DEF IInv, TypeOK
<1>4. ReplayOK'
  <2>1. \A i \in 1 .. tail : log_hdr[i] # log_hdr[tail + 1]
    BY <1>1, <1>2 DEF IInv, HeaderOK, Distinct
  <2>2. \A i \in 1 .. tail : home'[log_hdr[i]] = logblk[i]
    BY <1>1, <1>2, <2>1 DEF IInv, TypeOK, ReplayOK
  <2>3. home'[log_hdr[tail + 1]] = logblk[tail + 1]
    BY <1>1, <1>2 DEF IInv, TypeOK
  <2>4. log_hdr' = dhdr' /\ tail' <= Len(log_hdr')
    BY <1>1, <1>2 DEF IInv, ReplayOK
  <2> QED
    BY <1>1, <1>2, <2>2, <2>3, <2>4 DEF ReplayOK
<1>5. HeaderOK'
  BY <1>1 DEF IInv, DownOK, HeaderOK
<1> QED
  BY <1>1, <1>3, <1>4, <1>5, DownUntouched DEF IInv

\* Recovery ends: both headers are empty, and the file system is up after the
\* second Log::init.
LEMMA FinishRecoveryInv ==
  ASSUME IInv, FinishRecovery
  PROVE  IInv'
<1>1. /\ phase = "replay" /\ log_hdr' = << >> /\ dhdr' = << >>
      /\ phase' = IF boot = 1 THEN "read_head" ELSE "up"
      /\ boot' = 2 /\ tail' = 0
      /\ UNCHANGED <<home, logblk, data, refcnt, outstanding, committing, pc, cur,
                     touched>>
  BY DEF FinishRecovery, ClearHeader, cache
<1>2. /\ refcnt = [b \in Blocks |-> 0] /\ outstanding = 0 /\ ~committing
      /\ pc = [t \in Threads |-> "idle"] /\ cur = [t \in Threads |-> None]
  BY <1>1 DEF IInv, DownOK
<1>3. TypeOK' /\ ReplayOK'
  BY <1>1, EmptyHeader DEF IInv, TypeOK, ReplayOK
<1>4. CountOK'
  <2>1. Active' = Active
    BY <1>1 DEF Active
  <2> QED
    BY <1>1, <2>1 DEF IInv, CountOK
<1>5. DownOK' /\ HoldersOK' /\ NoLostWakeup' /\ CommitOK'
  BY <1>1, <1>2 DEF IInv, DownOK, HoldersOK, NoLostWakeup, CommitOK
<1>6. PinnedUntilInstalled'
  <2>1. \A b \in Blocks : ~Held(b)'
    BY <1>1, <1>2 DEF Held
  <2>2. \A b \in Blocks : ~Pinned(b)'
    BY <1>1, EmptyHeader DEF Pinned
  <2> QED
    BY <1>1, <1>2, <2>1, <2>2 DEF PinnedUntilInstalled
<1>7. CleanOK'
  BY <1>1, <1>2 DEF IInv, CleanOK
<1>8. HeaderOK'
  BY <1>1, <1>2, EmptyHeader DEF HeaderOK, Installing
<1> QED
  BY <1>3, <1>4, <1>5, <1>6, <1>7, <1>8 DEF IInv

----------------------------------------------------------------------------
(* The invariant, and the properties it implies.                           *)

\* A mkfs image about to be mounted satisfies the invariant.
LEMMA InitInv == Init => IInv
<1> SUFFICES ASSUME Init PROVE IInv
  OBVIOUS
<1>1. TypeOK
  <2>1. data \in [Blocks -> Values \cup {None}] /\ refcnt \in [Blocks -> Nat]
    BY DEF Init
  <2>2. pc \in [Threads -> PCs] /\ cur \in [Threads -> Blocks \cup {None}]
    BY DEF Init
  <2>3. touched \in [Threads -> SUBSET Blocks]
    BY DEF Init
  <2>4. home \in [Blocks -> Values] /\ logblk \in [Slots -> Values]
    BY DEF Init
  <2>5. /\ outstanding \in Nat /\ tail \in 0 .. LOG_SIZE
        /\ phase \in {"read_head", "replay", "up"} /\ boot \in {1, 2}
    BY DEF Init
  <2>6. committing \in BOOLEAN
    BY Zenon DEF Init
  <2> QED
    BY <2>1, <2>2, <2>3, <2>4, <2>5, <2>6, EmptyHeader DEF Init, TypeOK
<1>2. CountOK
  <2>1. Active = {}
    BY DEF Init, Active
  <2> QED
    BY <2>1, FS_EmptySet DEF Init, CountOK
<1>3. DownOK /\ ReplayOK /\ PinnedUntilInstalled
  BY DEF Init, DownOK, ReplayOK, PinnedUntilInstalled
<1>4. HoldersOK /\ CleanOK
  <2>1. HoldersOK
    BY DEF Init, HoldersOK
  <2>2. \A b \in Blocks : data[b] = None /\ refcnt[b] = 0
    BY DEF Init
  <2> QED
    BY <2>1, <2>2 DEF CleanOK
<1>5. HeaderOK /\ CommitOK /\ NoLostWakeup
  BY EmptyHeader DEF Init, HeaderOK, CommitOK, NoLostWakeup
<1> QED
  BY <1>1, <1>2, <1>3, <1>4, <1>5 DEF IInv

\* The invariant depends on the variables only.
LEMMA StutterInv == IInv /\ UNCHANGED vars => IInv'
BY DEF vars, IInv, TypeOK, DownOK, ReplayOK, CountOK, Active, HoldersOK,
       PinnedUntilInstalled, Held, Pinned, Installing, CleanOK, HeaderOK,
       Distinct, CommitOK, NoLostWakeup

\* Every step of the log preserves the invariant.
LEMMA NextInv == IInv /\ [Next]_vars => IInv'
<1> SUFFICES ASSUME IInv, [Next]_vars PROVE IInv'
  OBVIOUS
<1>1. ASSUME NEW t \in Threads, ThreadStep(t) PROVE IInv'
  BY <1>1, BeginOpInv, BeginWaitInv, ModifyBlockInv, LogWriteInv, DieInv,
     ReadBlockInv, ReleaseBlockInv, EndOpInv, EndLastOpInv, WriteLogInv,
     WriteHeadInv, InstallInv, EraseLogInv, CommitDoneInv
     DEF ThreadStep, LogWriteAbort
<1>2. CASE Recover
  BY <1>2, ReadHeadInv, ReplayBlockInv, FinishRecoveryInv DEF Recover
<1>3. CASE Crash
  BY <1>3, DieInv DEF Crash
<1>4. CASE UNCHANGED vars
  BY <1>4, StutterInv
<1> QED
  BY <1>1, <1>2, <1>3, <1>4 DEF Next

\* Every state the log reaches, from any mkfs image, for any number of threads
\* and any sizes of the log, satisfies the inductive invariant.
THEOREM InvariantHolds == Spec => []IInv
BY InitInv, NextInv, PTL DEF Spec

\* Every variable of the log keeps its type: no reference count and no count of
\* outstanding operations goes below zero, no header grows past LOG_SIZE.
THEOREM TypeCorrect == Spec => []TypeOK
<1>1. IInv => TypeOK
  BY DEF IInv
<1> QED
  BY <1>1, InvariantHolds, PTL

\* A logged block keeps the log's reference until commit() has installed it.
THEOREM PinnedHolds == Spec => []PinnedUntilInstalled
<1>1. IInv => PinnedUntilInstalled
  BY DEF IInv
<1> QED
  BY <1>1, InvariantHolds, PTL

\* No thread sleeps in begin_op() when nobody is left to wake it.
THEOREM WakeupHolds == Spec => []NoLostWakeup
<1>1. IInv => NoLostWakeup
  BY DEF IInv
<1> QED
  BY <1>1, InvariantHolds, PTL

\* With no header on disk, recovery changes nothing.
LEMMA RecoveredIsHome ==
  ASSUME TypeOK, dhdr = << >>
  PROVE  Recovered = home
BY EmptyHeader DEF TypeOK, Recovered, InHeader

\* While an operation is outstanding, the disk has nothing of it: a crash takes
\* it back.
THEOREM RollsBackHolds == Spec => []InFlightRollsBack
<1>1. IInv => InFlightRollsBack
  <2> SUFFICES ASSUME IInv, phase = "up", outstanding > 0
               PROVE  Recovered = home
    BY DEF InFlightRollsBack
  <2>1. ~committing
    BY DEF IInv, TypeOK, CountOK
  <2>2. ~Installing
    BY <2>1 DEF IInv, CountOK, Installing
  <2> QED
    BY <2>2, RecoveredIsHome DEF IInv, HeaderOK
<1> QED
  BY <1>1, InvariantHolds, PTL

\* Once the last outstanding operation has ended and committed, everything is
\* at its home location and nothing is pinned.
THEOREM DurableHolds == Spec => []QuietIsDurable
<1>1. IInv => QuietIsDurable
  <2> SUFFICES ASSUME IInv, phase = "up", outstanding = 0, ~committing
               PROVE  /\ View = home
                      /\ Recovered = home
                      /\ \A b \in Blocks : refcnt[b] > 0 => Held(b)
    BY DEF QuietIsDurable
  <2>1. Active = {} /\ \A u \in Threads : pc[u] \notin CommitPCs
    BY ActiveFinite, FS_EmptySet DEF IInv, CountOK
  <2>2. ~Installing
    BY <2>1 DEF Installing
  <2>3. \A b \in Blocks : ~Pinned(b)
    BY EmptyHeader DEF IInv, HeaderOK, Pinned
  <2>4. \A u \in Threads : pc[u] # "locked"
    BY <2>1 DEF Active
  <2>5. \A b \in Blocks : Content(b) = home[b]
    BY <2>3, <2>4 DEF IInv, TypeOK, CleanOK, Content
  <2>6. View = home
    BY <2>5 DEF View, IInv, TypeOK
  <2>7. Recovered = home
    BY <2>2, RecoveredIsHome DEF IInv, HeaderOK
  <2>8. \A b \in Blocks : refcnt[b] > 0 => Held(b)
    BY <2>3 DEF IInv, PinnedUntilInstalled
  <2> QED
    BY <2>6, <2>7, <2>8
<1> QED
  BY <1>1, InvariantHolds, PTL

----------------------------------------------------------------------------
(* begin_op's reservation is enough: log_write never runs out of log.      *)
(* Every operation reserves MAX_OP_BLOCKS entries and gives back, in the   *)
(* count of begin_op, those it has used; Logged is the set of the entries  *)
(* that operations in progress have used.                                  *)

Logged == {p \in Threads \X Blocks :
             p[2] \in touched[p[1]] /\ InHeader(log_hdr, p[2])}

\* One entry stays over when a single operation is left.
Spare == IF outstanding = 1 THEN 1 ELSE 0

\* What each operation has written, and the space the others still need.
ReserveOK ==
  /\ \A t \in Threads :
       IsFiniteSet(touched[t]) /\ Cardinality(touched[t]) <= OpBlocks
  /\ \A t \in Threads : pc[t] \notin OpPCs => touched[t] = {}
  /\ \A t \in Threads : pc[t] = "locked" => cur[t] \in touched[t]
  /\ outstanding >= 1 =>
       Len(log_hdr) + outstanding * MAX_OP_BLOCKS + Spare
         <= LOG_SIZE + Cardinality(Logged)

\* The blocks an operation has written can be numbered within its share.
LEMMA WrittenNumbered ==
  ASSUME ReserveOK, NEW t \in Threads
  PROVE  ExistsInjection(touched[t], 1 .. OpBlocks)
<1> DEFINE n == Cardinality(touched[t])
<1>1. n \in Nat /\ n <= OpBlocks /\ ExistsBijection(1 .. n, touched[t])
  BY FS_CardinalityType DEF ReserveOK
<1>2. ExistsBijection(touched[t], 1 .. n)
  BY <1>1, Fun_ExistsBijSymmetric
<1>3. PICK g : g \in Bijection(touched[t], 1 .. n)
  BY <1>2 DEF ExistsBijection
<1>4. /\ g \in [touched[t] -> 1 .. n]
      /\ \A x, y \in touched[t] : g[x] = g[y] => x = y
  BY <1>3 DEF Bijection, Injection, IsInjective
<1>5. g \in [touched[t] -> 1 .. OpBlocks]
  BY <1>1, <1>4
<1>6. g \in Injection(touched[t], 1 .. OpBlocks)
  BY <1>4, <1>5, Fun_IsInj
<1> QED
  BY <1>6 DEF ExistsInjection

\* All of them together use at most OpBlocks entries each.
LEMMA LoggedBound ==
  ASSUME IInv, ReserveOK
  PROVE  /\ IsFiniteSet(Logged)
         /\ Cardinality(Logged) \in Nat
         /\ Cardinality(Logged) <= outstanding * OpBlocks
<1> DEFINE G(t) == CHOOSE g : g \in Injection(touched[t], 1 .. OpBlocks)
           f == [p \in Logged |-> <<p[1], G(p[1])[p[2]]>>]
<1>1. \A t \in Threads : G(t) \in Injection(touched[t], 1 .. OpBlocks)
  BY WrittenNumbered DEF ExistsInjection
<1>2. \A t \in Threads :
        /\ G(t) \in [touched[t] -> 1 .. OpBlocks]
        /\ \A x, y \in touched[t] : G(t)[x] = G(t)[y] => x = y
  BY <1>1 DEF Injection, IsInjective
<1> HIDE DEF G
<1>3. \A p \in Logged :
        /\ p[1] \in Threads /\ p[2] \in touched[p[1]] /\ p = <<p[1], p[2]>>
        /\ p[1] \in Active
  BY DEF Logged, ReserveOK, Active
<1>4. f \in [Logged -> Active \X (1 .. OpBlocks)]
  BY <1>2, <1>3
<1>5. \A p, q \in Logged : f[p] = f[q] => p = q
  BY <1>2, <1>3
<1>6. f \in Injection(Logged, Active \X (1 .. OpBlocks))
  BY <1>4, <1>5, Fun_IsInj
<1>7. IsFiniteSet(1 .. OpBlocks) /\ Cardinality(1 .. OpBlocks) = OpBlocks
  BY FS_Interval
<1>8. /\ IsFiniteSet(Active \X (1 .. OpBlocks))
      /\ Cardinality(Active \X (1 .. OpBlocks)) = outstanding * OpBlocks
  BY <1>7, ActiveFinite, FS_Product DEF IInv, CountOK
<1> HIDE DEF f
<1> QED
  BY <1>6, <1>8, FS_Injection, FS_CardinalityType

\* Arithmetic of the reservation.
LEMMA Reserve ==
  ASSUME NEW n \in Nat
  PROVE  /\ n * MAX_OP_BLOCKS \in Nat
         /\ (n + 1) * MAX_OP_BLOCKS = n * MAX_OP_BLOCKS + MAX_OP_BLOCKS
         /\ n >= 1 => (n - 1) * MAX_OP_BLOCKS = n * MAX_OP_BLOCKS - MAX_OP_BLOCKS
         /\ OpBlocks < MAX_OP_BLOCKS => n * OpBlocks <= n * MAX_OP_BLOCKS - n
OBVIOUS

\* Inside an operation the log has room, also for the on-disk header block.
LEMMA ReserveGivesRoom ==
  ASSUME IInv, ReserveOK, OpBlocks < MAX_OP_BLOCKS, LOG_SIZE <= NLOG
  PROVE  NoAssertFails
<1> SUFFICES ASSUME NEW t \in Threads, pc[t] \in {"locked", "op"}
             PROVE  LogWriteAsserts /\ ~committing
  BY DEF NoAssertFails
<1>1. outstanding >= 1 /\ ~committing /\ outstanding \in Nat
  BY InsideOp DEF IInv, TypeOK
<1>2. Len(log_hdr) \in Nat
  BY HeaderType DEF IInv, TypeOK
<1>3. outstanding * OpBlocks <= outstanding * MAX_OP_BLOCKS - outstanding
  BY <1>1, Reserve
<1>4. Cardinality(Logged) <= outstanding * MAX_OP_BLOCKS - outstanding
  <2>1. outstanding * OpBlocks \in Nat /\ outstanding * MAX_OP_BLOCKS \in Nat
    BY <1>1
  <2> QED
    BY <1>1, <1>3, <2>1, LoggedBound
<1>5. Len(log_hdr) + Spare + outstanding <= LOG_SIZE
  <2>1. outstanding * MAX_OP_BLOCKS \in Nat
    BY <1>1
  <2> QED
    BY <1>1, <1>2, <1>4, <2>1, LoggedBound DEF ReserveOK, Spare
<1>6. Len(log_hdr) + 2 <= LOG_SIZE
  BY <1>1, <1>2, <1>5 DEF Spare
<1> QED
  BY <1>1, <1>2, <1>6 DEF LogWriteAsserts

\* A step outside of operations: mounting, committing, reading, waiting.
LEMMA ReserveUntouched ==
  ASSUME IInv, ReserveOK,
         UNCHANGED <<outstanding, cur, touched>>,
         log_hdr' = log_hdr \/ outstanding = 0,
         \A u \in Threads : pc'[u] \in OpPCs <=> pc[u] \in OpPCs,
         \A u \in Threads : pc'[u] = "locked" => pc[u] = "locked"
  PROVE  ReserveOK'
<1>1. log_hdr' = log_hdr => Logged' = Logged
  BY DEF Logged, InHeader
<1> QED
  BY <1>1 DEF ReserveOK, Spare

\* begin_op reserves: it counts itself among the operations to come.
LEMMA BeginOpReserves ==
  ASSUME IInv, ReserveOK, MAX_OP_BLOCKS < LOG_SIZE,
         NEW t \in Threads, BeginOp(t)
  PROVE  ReserveOK'
<1>1. /\ phase = "up" /\ ~committing /\ ~LogFull
      /\ outstanding' = outstanding + 1
      /\ pc' = [pc EXCEPT ![t] = "op"]
      /\ UNCHANGED <<log_hdr, cur, touched>>
  BY DEF BeginOp, MustWait
<1>2. outstanding \in Nat /\ Len(log_hdr) \in Nat
  BY HeaderType DEF IInv, TypeOK
<1>3. Logged' = Logged
  BY <1>1 DEF Logged, InHeader
<1>4. Cardinality(Logged) \in Nat
  BY LoggedBound
<1>5. outstanding = 0 => Len(log_hdr) = 0
  BY <1>1, EmptyHeader DEF IInv, HeaderOK
<1>6. Len(log_hdr) + (outstanding + 1) * MAX_OP_BLOCKS <= LOG_SIZE
  <2>1. (outstanding + 1) * MAX_OP_BLOCKS \in Nat
    BY <1>2, Reserve
  <2> QED
    BY <1>1, <1>2, <2>1 DEF LogFull
<1>7. Len(log_hdr') + outstanding' * MAX_OP_BLOCKS + Spare'
        <= LOG_SIZE + Cardinality(Logged')
  <2>1. CASE outstanding = 0
    BY <1>1, <1>3, <1>4, <1>5, <2>1 DEF Spare
  <2>2. CASE outstanding # 0
    <3>1. Spare' = 0 /\ (outstanding + 1) * MAX_OP_BLOCKS \in Nat
      BY <1>1, <1>2, <2>2, Reserve DEF Spare
    <3> QED
      BY <1>1, <1>2, <1>3, <1>4, <1>6, <3>1
  <2> QED
    BY <2>1, <2>2
<1>8. \A u \in Threads : /\ pc'[u] \notin OpPCs => touched'[u] = {}
                         /\ pc'[u] = "locked" => cur'[u] \in touched'[u]
  BY <1>1 DEF ReserveOK, IInv, TypeOK
<1> QED
  BY <1>1, <1>7, <1>8 DEF ReserveOK

\* The caller changes one more block, within its share.
LEMMA ModifyBlockReserves ==
  ASSUME IInv, ReserveOK, NEW t \in Threads, NEW b \in Blocks, NEW v \in Values,
         ModifyBlock(t, b, v)
  PROVE  ReserveOK'
<1>1. /\ pc[t] = "op" /\ Cardinality(touched[t] \cup {b}) <= OpBlocks
      /\ pc' = [pc EXCEPT ![t] = "locked"]
      /\ cur' = [cur EXCEPT ![t] = b]
      /\ touched' = [touched EXCEPT ![t] = touched[t] \cup {b}]
      /\ UNCHANGED <<log_hdr, outstanding>>
  BY DEF ModifyBlock
<1>2. \A u \in Threads : /\ IsFiniteSet(touched'[u])
                         /\ Cardinality(touched'[u]) <= OpBlocks
  <2>1. IsFiniteSet(touched[t] \cup {b})
    BY FS_AddElement DEF ReserveOK
  <2> QED
    BY <1>1, <2>1 DEF ReserveOK, IInv, TypeOK
<1>3. \A u \in Threads : /\ pc'[u] \notin OpPCs => touched'[u] = {}
                         /\ pc'[u] = "locked" => cur'[u] \in touched'[u]
  BY <1>1 DEF ReserveOK, IInv, TypeOK
<1>4. Cardinality(Logged) <= Cardinality(Logged') /\ Cardinality(Logged') \in Nat
  <2>1. CASE InHeader(log_hdr, b)
    <3>1. Logged' = Logged \cup {<<t, b>>}
      BY <1>1, <2>1 DEF Logged, InHeader, IInv, TypeOK
    <3>2. IsFiniteSet(Logged')
      BY <3>1, LoggedBound, FS_AddElement
    <3> QED
      BY <3>1, <3>2, LoggedBound, FS_Subset, FS_CardinalityType
  <2>2. CASE ~InHeader(log_hdr, b)
    <3>1. Logged' = Logged
      BY <1>1, <2>2 DEF Logged, InHeader, IInv, TypeOK
    <3> QED
      BY <3>1, LoggedBound
  <2> QED
    BY <2>1, <2>2
<1>5. Spare' = Spare /\ outstanding * MAX_OP_BLOCKS \in Nat /\ Len(log_hdr) \in Nat
      /\ outstanding \in Nat
  BY <1>1, Reserve, HeaderType DEF Spare, IInv, TypeOK
<1>6. outstanding >= 1 => Len(log_hdr') + outstanding' * MAX_OP_BLOCKS + Spare'
        <= LOG_SIZE + Cardinality(Logged')
  <2>1. outstanding >= 1 => Len(log_hdr) + outstanding * MAX_OP_BLOCKS + Spare
          <= LOG_SIZE + Cardinality(Logged)
    BY DEF ReserveOK
  <2>2. PICK n : n = outstanding * MAX_OP_BLOCKS
    OBVIOUS
  <2>3. PICK k : k = Cardinality(Logged)
    OBVIOUS
  <2>4. n \in Nat /\ k \in Nat /\ Spare \in Nat /\ LOG_SIZE \in Nat
    BY <1>5, <2>2, <2>3, LoggedBound, LogAssumption DEF Spare
  <2> QED
    BY <1>1, <1>4, <1>5, <2>1, <2>2, <2>3, <2>4
<1> QED
  BY <1>1, <1>2, <1>3, <1>6 DEF ReserveOK

\* log_write: a new entry is one of the caller's share.
LEMMA LogWriteReserves ==
  ASSUME IInv, ReserveOK, NEW t \in Threads, LogWrite(t)
  PROVE  ReserveOK'
<1>1. /\ pc[t] = "locked" /\ Len(log_hdr) < LOG_SIZE
      /\ log_hdr' = IF InHeader(log_hdr, cur[t]) THEN log_hdr
                    ELSE Append(log_hdr, cur[t])
      /\ pc' = [pc EXCEPT ![t] = "logged"]
      /\ UNCHANGED <<outstanding, cur, touched>>
  BY DEF LogWrite, LogWriteAsserts
<1>2. PICK b \in Blocks : b = cur[t] /\ b \in touched[t]
  BY <1>1 DEF ReserveOK, IInv, TypeOK
<1>3. \A u \in Threads : /\ pc'[u] \notin OpPCs => touched'[u] = {}
                         /\ pc'[u] = "locked" => cur'[u] \in touched'[u]
  BY <1>1 DEF ReserveOK, IInv, TypeOK
<1>4. CASE InHeader(log_hdr, b)
  <2>1. Logged' = Logged /\ log_hdr' = log_hdr
    BY <1>1, <1>2, <1>4 DEF Logged, InHeader
  <2> QED
    BY <1>1, <1>3, <2>1 DEF ReserveOK, Spare
<1>5. CASE ~InHeader(log_hdr, b)
  <2>1. /\ Len(log_hdr') = Len(log_hdr) + 1 /\ Len(log_hdr) \in Nat
        /\ \A i \in 1 .. Len(log_hdr) : log_hdr'[i] = log_hdr[i]
        /\ log_hdr'[Len(log_hdr) + 1] = b
    BY <1>1, <1>2, <1>5, HeaderAppend, HeaderType DEF IInv, TypeOK, HeaderOK
  <2>2. \A c \in Blocks : InHeader(log_hdr, c) => InHeader(log_hdr', c)
    BY <2>1 DEF InHeader
  <2>3. InHeader(log_hdr', b)
    BY <2>1 DEF InHeader
  <2>4. Logged \cup {<<t, b>>} \subseteq Logged' /\ <<t, b>> \notin Logged
    BY <1>1, <1>2, <1>5, <2>2, <2>3 DEF Logged
  <2>5. IInv'
    BY LogWriteInv
  <2>6. /\ IsFiniteSet(Logged') /\ Cardinality(Logged') \in Nat
        /\ Cardinality(Logged) + 1 <= Cardinality(Logged')
    <3>1. Logged' \subseteq Logged \cup
            {p \in Threads \X Blocks : p[2] = b /\ b \in touched[p[1]]}
      BY <1>1, <2>1 DEF Logged, InHeader
    <3>2. {p \in Threads \X Blocks : p[2] = b /\ b \in touched[p[1]]}
            \subseteq Threads \X {b}
      OBVIOUS
    <3>3. IsFiniteSet(Threads \X {b})
      BY FS_Product, FS_Singleton
    <3>4. IsFiniteSet(Logged \cup (Threads \X {b}))
      BY <3>3, LoggedBound, FS_Union
    <3>5. IsFiniteSet(Logged')
      BY <3>1, <3>2, <3>4, FS_Subset
    <3>6. Cardinality(Logged \cup {<<t, b>>}) = Cardinality(Logged) + 1
      BY <2>4, LoggedBound, FS_AddElement
    <3> QED
      BY <2>4, <3>5, <3>6, FS_Subset, FS_CardinalityType
  <2>7. /\ Spare' = Spare /\ Spare \in Nat
        /\ outstanding * MAX_OP_BLOCKS \in Nat /\ outstanding \in Nat
    BY <1>1, Reserve DEF Spare, IInv, TypeOK
  <2>8. outstanding >= 1 => Len(log_hdr') + outstanding' * MAX_OP_BLOCKS + Spare'
          <= LOG_SIZE + Cardinality(Logged')
    <3>1. outstanding >= 1 => Len(log_hdr) + outstanding * MAX_OP_BLOCKS + Spare
            <= LOG_SIZE + Cardinality(Logged)
      BY DEF ReserveOK
    <3>2. Cardinality(Logged) \in Nat
      BY LoggedBound
    <3>3. outstanding' * MAX_OP_BLOCKS = outstanding * MAX_OP_BLOCKS
      BY <1>1
    <3> QED
      BY <2>1, <2>6, <2>7, <3>1, <3>2, <3>3
  <2> QED
    BY <1>1, <1>3, <2>8 DEF ReserveOK
<1> QED
  BY <1>4, <1>5

\* end_op gives the whole reservation back, and at most OpBlocks entries of it
\* were used.
LEMMA EndOpReserves ==
  ASSUME IInv, ReserveOK, OpBlocks < MAX_OP_BLOCKS, NEW t \in Threads, EndOp(t)
  PROVE  ReserveOK'
<1>1. /\ pc[t] = "op" /\ outstanding # 1
      /\ outstanding' = outstanding - 1
      /\ \A u \in Threads \ {t} : pc'[u] = IF pc[u] = "wait" THEN "begin" ELSE pc[u]
      /\ pc'[t] = "idle"
      /\ touched' = [touched EXCEPT ![t] = {}]
      /\ UNCHANGED <<log_hdr, cur>>
  BY DEF EndOp, NotifyAll, IInv, TypeOK
<1>2. outstanding \in Nat /\ outstanding >= 2
  BY <1>1, InsideOp DEF IInv, TypeOK
<1>3. ASSUME NEW u \in Threads
      PROVE  /\ IsFiniteSet(touched'[u])
             /\ Cardinality(touched'[u]) <= OpBlocks
             /\ pc'[u] \notin OpPCs => touched'[u] = {}
             /\ pc'[u] = "locked" => cur'[u] \in touched'[u]
  <2>1. IsFiniteSet({}) /\ Cardinality({}) = 0 /\ OpBlocks >= 0
    BY FS_EmptySet
  <2>2. touched'[t] = {} /\ (u # t => touched'[u] = touched[u])
    BY <1>1 DEF IInv, TypeOK
  <2>3. CASE u = t
    BY <2>3, <1>1, <2>1, <2>2
  <2>4. CASE u # t
    BY <2>4, <1>1, <2>2 DEF ReserveOK
  <2> QED
    BY <2>3, <2>4
<1> DEFINE mine == {t} \X touched[t]
<1>4. IsFiniteSet(mine) /\ Cardinality(mine) <= OpBlocks /\ Cardinality(mine) \in Nat
  <2>1. IsFiniteSet(touched[t]) /\ Cardinality(touched[t]) <= OpBlocks
        /\ Cardinality(touched[t]) \in Nat
    BY FS_CardinalityType DEF ReserveOK
  <2>2. IsFiniteSet(mine) /\ Cardinality(mine) = 1 * Cardinality(touched[t])
    <3>1. IsFiniteSet({t}) /\ Cardinality({t}) = 1
      BY FS_Singleton
    <3> QED
      BY <2>1, <3>1, FS_Product
  <2> QED
    BY <2>1, <2>2
<1>5. Logged' = Logged \ mine
  BY <1>1 DEF Logged, InHeader, IInv, TypeOK
<1> HIDE DEF mine
<1>6. /\ Cardinality(Logged') \in Nat
      /\ Cardinality(Logged) <= Cardinality(Logged') + OpBlocks
  <2>1. /\ IsFiniteSet(Logged \ mine)
        /\ Cardinality(Logged \ mine) = Cardinality(Logged) - Cardinality(Logged \cap mine)
    BY LoggedBound, FS_Difference
  <2>2. /\ Cardinality(Logged \cap mine) <= Cardinality(mine)
        /\ Cardinality(Logged \cap mine) \in Nat
    BY <1>4, FS_Intersection, FS_CardinalityType
  <2> QED
    BY <1>4, <1>5, <2>1, <2>2, LoggedBound, FS_CardinalityType
<1>7. /\ outstanding * MAX_OP_BLOCKS \in Nat
      /\ outstanding' * MAX_OP_BLOCKS = outstanding * MAX_OP_BLOCKS - MAX_OP_BLOCKS
  BY <1>1, <1>2, Reserve
<1>8. Spare = 0 /\ Spare' \in {0, 1} /\ Len(log_hdr) \in Nat
  BY <1>1, HeaderType DEF Spare, IInv, TypeOK
<1>9. Len(log_hdr') + outstanding' * MAX_OP_BLOCKS + Spare'
        <= LOG_SIZE + Cardinality(Logged')
  <2>1. Len(log_hdr) + outstanding * MAX_OP_BLOCKS <= LOG_SIZE + Cardinality(Logged)
    BY <1>2, <1>7, <1>8 DEF ReserveOK
  <2> QED
    BY <1>1, <1>6, <1>7, <1>8, <2>1, LoggedBound
<1> QED
  BY <1>3, <1>9 DEF ReserveOK

\* The process dies: no operation is left.
LEMMA DieReserves ==
  ASSUME Die
  PROVE  ReserveOK'
<1>1. IsFiniteSet({}) /\ Cardinality({}) = 0 /\ OpBlocks >= 0
  BY FS_EmptySet
<1> QED
  BY <1>1 DEF Die, ReserveOK

\* The last end_op leaves no operation behind.
LEMMA EndLastOpReserves ==
  ASSUME IInv, ReserveOK, NEW t \in Threads, EndLastOp(t)
  PROVE  ReserveOK'
<1>1. IsFiniteSet({}) /\ Cardinality({}) = 0 /\ OpBlocks >= 0
  BY FS_EmptySet
<1>2. /\ outstanding' = 0 /\ cur' = cur
      /\ touched'[t] = {} /\ pc'[t] \in {"write_log", "done"}
      /\ \A u \in Threads \ {t} : touched'[u] = touched[u] /\ pc'[u] = pc[u]
  BY DEF EndLastOp, IInv, TypeOK
<1>3. ASSUME NEW u \in Threads
      PROVE  /\ IsFiniteSet(touched'[u])
             /\ Cardinality(touched'[u]) <= OpBlocks
             /\ pc'[u] \notin OpPCs => touched'[u] = {}
             /\ pc'[u] = "locked" => cur'[u] \in touched'[u]
  <2>1. CASE u = t
    BY <2>1, <1>1, <1>2
  <2>2. CASE u # t
    BY <2>2, <1>2 DEF ReserveOK
  <2> QED
    BY <2>1, <2>2
<1> QED
  BY <1>2, <1>3 DEF ReserveOK

\* Every step of the log keeps the reservations.
LEMMA NextReserves ==
  ASSUME IInv, ReserveOK, [Next]_vars,
         OpBlocks < MAX_OP_BLOCKS, MAX_OP_BLOCKS < LOG_SIZE
  PROVE  ReserveOK'
<1>1. CASE UNCHANGED vars
  BY <1>1, ReserveUntouched DEF vars
<1>2. CASE Recover
  <2>1. phase # "up"
    BY <1>2 DEF Recover, ReadHead, ReplayBlock, FinishRecovery
  <2> QED
    BY <1>2, <2>1, ReserveUntouched DEF Recover, ReadHead, ReplayBlock,
       FinishRecovery, IInv, DownOK
<1>3. CASE Crash
  BY <1>3, DieReserves DEF Crash
<1>4. ASSUME NEW t \in Threads, ThreadStep(t)
      PROVE  ReserveOK'
  <2>1. CASE BeginWait(t)
    <3>1. /\ pc[t] \in {"idle", "begin"} /\ pc' = [pc EXCEPT ![t] = "wait"]
          /\ UNCHANGED <<outstanding, cur, touched, log_hdr>>
      BY <2>1 DEF BeginWait
    <3> QED
      BY <3>1, ReserveUntouched DEF IInv, TypeOK
  <2>2. CASE \E b \in Blocks : ReadBlock(t, b)
    <3>1. PICK b \in Blocks : ReadBlock(t, b)
      BY <2>2
    <3>2. /\ pc[t] \in {"idle", "op"}
          /\ pc' = [pc EXCEPT ![t] = IF pc[t] = "op" THEN "op_read" ELSE "reading"]
          /\ cur' = [cur EXCEPT ![t] = b]
          /\ UNCHANGED <<outstanding, touched, log_hdr>>
      BY <3>1 DEF ReadBlock
    <3>3. Logged' = Logged /\ Spare' = Spare
      BY <3>2 DEF Logged, InHeader, Spare
    <3> QED
      BY <3>2, <3>3 DEF ReserveOK, IInv, TypeOK
  <2>3. CASE ReleaseBlock(t)
    <3>1. /\ pc[t] \in {"logged", "op_read", "reading"}
          /\ pc' = [pc EXCEPT ![t] = IF pc[t] = "reading" THEN "idle" ELSE "op"]
          /\ cur' = [cur EXCEPT ![t] = None]
          /\ UNCHANGED <<outstanding, touched, log_hdr>>
      BY <2>3 DEF ReleaseBlock
    <3>2. Logged' = Logged /\ Spare' = Spare
      BY <3>1 DEF Logged, InHeader, Spare
    <3> QED
      BY <3>1, <3>2 DEF ReserveOK, IInv, TypeOK
  <2>4. CASE WriteLog(t) \/ WriteHead(t) \/ Install(t) \/ EraseLog(t)
    <3>1. pc[t] \in CommitPCs
      BY <2>4 DEF WriteLog, WriteHead, Install, EraseLog
    <3>2. outstanding = 0
      BY <3>1, CommitterAlone
    <3>3. PICK l \in CommitPCs : pc' = [pc EXCEPT ![t] = l]
      BY <2>4 DEF WriteLog, WriteHead, Install, EraseLog
    <3>4. UNCHANGED <<outstanding, cur, touched>>
      BY <2>4 DEF WriteLog, WriteHead, Install, EraseLog
    <3> QED
      BY <3>1, <3>2, <3>3, <3>4, ReserveUntouched DEF IInv, TypeOK
  <2>5. CASE CommitDone(t)
    <3>1. /\ UNCHANGED <<outstanding, cur, touched, log_hdr>>
          /\ pc[t] = "done"
          /\ pc' = [u \in Threads |-> IF u = t THEN "idle"
                                      ELSE IF pc[u] = "wait" THEN "begin" ELSE pc[u]]
      BY <2>5 DEF CommitDone, NotifyAll, IInv, TypeOK
    <3> QED
      BY <3>1, ReserveUntouched
  <2>6. CASE LogWriteAbort(t)
    BY <2>6, DieReserves DEF LogWriteAbort
  <2> QED
    BY <1>4, <2>1, <2>2, <2>3, <2>4, <2>5, <2>6, BeginOpReserves, ModifyBlockReserves,
       LogWriteReserves, EndOpReserves, EndLastOpReserves DEF ThreadStep
<1> QED
  BY <1>1, <1>2, <1>3, <1>4 DEF Next

\* The assertions of log_write and end_op hold for every number of threads and
\* every log of these proportions, those of inc/common.h among them (10 blocks for an
\* operation, 30 for the log and for its area on disk): an operation that gives
\* log_write fewer blocks than begin_op() reserves never finds the log full,
\* whatever operations run beside it.
THEOREM ReservationSuffices ==
  ASSUME OpBlocks < MAX_OP_BLOCKS, MAX_OP_BLOCKS < LOG_SIZE, LOG_SIZE <= NLOG
  PROVE  Spec => []NoAssertFails
<1>1. Init => ReserveOK
  <2>1. IsFiniteSet({}) /\ Cardinality({}) = 0 /\ OpBlocks >= 0
    BY FS_EmptySet
  <2> QED
    BY <2>1 DEF Init, ReserveOK
<1>2. IInv /\ ReserveOK /\ [Next]_vars => ReserveOK'
  BY NextReserves
<1>3. IInv /\ ReserveOK => NoAssertFails
  BY ReserveGivesRoom
<1> QED
  BY <1>1, <1>2, <1>3, InvariantHolds, PTL DEF Spec

============================================================================
