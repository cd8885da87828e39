--------------------------- MODULE LogRefinement ----------------------------
(***************************************************************************)
(* Proof that the log implements the disk of TxDisk.  What recovery would  *)
(* restore is the stable copy, what the cache returns is the volatile one. *)
(***************************************************************************)
EXTENDS LogProofs

\* The assumption on the constants, and the sets of program counters.
USE LogAssumption DEF Slots, OpPCs, CommitPCs, PCs

----------------------------------------------------------------------------
(* The refinement mapping.                                                 *)

\* Recovery restores the first (and only) log block of every block named by the
\* header, and leaves the others at home.
LEMMA RecoveredAt ==
  ASSUME TypeOK, Distinct(dhdr)
  PROVE  /\ \A i \in 1 .. Len(dhdr) : Recovered[dhdr[i]] = logblk[i]
         /\ \A b \in Blocks : ~InHeader(dhdr, b) => Recovered[b] = home[b]
<1>1. \A i \in 1 .. Len(dhdr) : dhdr[i] \in Blocks
  BY HeaderType DEF TypeOK
<1>2. ASSUME NEW i \in 1 .. Len(dhdr)
      PROVE  Recovered[dhdr[i]] = logblk[i]
  <2>1. InHeader(dhdr, dhdr[i])
    BY DEF InHeader
  <2>2. (CHOOSE j \in 1 .. Len(dhdr) : dhdr[j] = dhdr[i]) = i
    BY DEF Distinct
  <2> QED
    BY <1>1, <2>1, <2>2 DEF Recovered
<1>3. \A b \in Blocks : ~InHeader(dhdr, b) => Recovered[b] = home[b]
  BY DEF Recovered
<1> QED
  BY <1>2, <1>3

\* If the log blocks are home already, erasing the header changes nothing.
LEMMA InstalledIsHome ==
  ASSUME TypeOK, Distinct(dhdr), \A i \in 1 .. Len(dhdr) : home[dhdr[i]] = logblk[i]
  PROVE  Recovered = home
<1>1. ASSUME NEW b \in Blocks PROVE Recovered[b] = home[b]
  BY RecoveredAt DEF InHeader
<1>2. Recovered = [b \in Blocks |-> Recovered[b]]
  BY DEF Recovered
<1>3. home = [b \in Blocks |-> home[b]]
  BY DEF TypeOK
<1> QED
  BY <1>1, <1>2, <1>3

\* Writing the home location of a block the header names does not change what
\* recovery restores.
LEMMA RecoveredKept ==
  ASSUME UNCHANGED <<logblk, dhdr>>,
         \A b \in Blocks : ~InHeader(dhdr, b) => home'[b] = home[b]
  PROVE  Recovered' = Recovered
BY DEF Recovered, InHeader

\* The view is the content of every block.
LEMMA ViewKept ==
  ASSUME \A b \in Blocks : Content(b)' = Content(b)
  PROVE  View' = View
BY DEF View

\* A step that touches neither the image nor the cache changes no disk.
LEMMA MemUntouched ==
  ASSUME UNCHANGED <<home, logblk, dhdr, data, refcnt, phase>>
  PROVE  Recovered' = Recovered /\ Mem' = Mem
BY DEF Recovered, InHeader, Mem, View, Content

\* A step that changes none of the three is a stutter of TxDisk.
LEMMA Stutters ==
  ASSUME Recovered' = Recovered, Mem' = Mem, Active' = Active
  PROVE  [Tx!Next]_(Tx!vars)
BY DEF Tx!vars

----------------------------------------------------------------------------
(* The steps of operations.                                                *)

\* begin_op is Begin.
LEMMA BeginOpStep ==
  ASSUME IInv, NEW t \in Threads, BeginOp(t)
  PROVE  Tx!Begin(t)
<1>1. /\ pc[t] \in {"idle", "begin"} /\ pc' = [pc EXCEPT ![t] = "op"]
      /\ UNCHANGED <<home, logblk, dhdr, data, refcnt, phase>>
  BY DEF BeginOp, image, cache
<1>2. t \notin Active /\ Active' = Active \cup {t}
  BY <1>1 DEF IInv, TypeOK, Active
<1> QED
  BY <1>1, <1>2, MemUntouched DEF Tx!Begin

\* Changing a cached block is Write.
LEMMA ModifyBlockStep ==
  ASSUME IInv, NEW t \in Threads, NEW b \in Blocks, NEW v \in Values,
         ModifyBlock(t, b, v)
  PROVE  Tx!Write(t, b, v)
<1>1. /\ pc[t] = "op" /\ pc' = [pc EXCEPT ![t] = "locked"]
      /\ refcnt' = [refcnt EXCEPT ![b] = refcnt[b] + 1]
      /\ UNCHANGED <<home, logblk, dhdr, phase>>
  BY DEF ModifyBlock, SetRef, image
<1>2. data' = [data EXCEPT ![b] = v]
  BY DEF ModifyBlock, SetRef, IInv, TypeOK
<1>3. Recovered' = Recovered
  BY <1>1, RecoveredKept
<1>4. t \in Active /\ Active' = Active
  BY <1>1 DEF IInv, TypeOK, Active
<1>5. phase = "up" /\ phase' = "up"
  BY <1>1, BusyIsUp
<1>6. \A c \in Blocks : Content(c)' = IF c = b THEN v ELSE Content(c)
  BY <1>1, <1>2 DEF IInv, TypeOK, Content
<1>7. View' = [View EXCEPT ![b] = v]
  BY <1>6 DEF View
<1> QED
  BY <1>3, <1>4, <1>5, <1>7 DEF Mem, Tx!Write

\* log_write changes no disk: the block was referenced, and is still.
LEMMA LogWriteStep ==
  ASSUME IInv, NEW t \in Threads, LogWrite(t)
  PROVE  Recovered' = Recovered /\ Mem' = Mem /\ Active' = Active
<1>1. /\ pc[t] = "locked" /\ pc' = [pc EXCEPT ![t] = "logged"]
      /\ refcnt' = [refcnt EXCEPT ![cur[t]] = refcnt[cur[t]] + PinRefs(cur[t])]
      /\ UNCHANGED <<home, logblk, dhdr, phase>>
  BY DEF LogWrite, SetRef, image
<1>2. phase = "up" /\ cur[t] \in Blocks /\ Held(cur[t])
  BY <1>1, BusyIsUp DEF IInv, TypeOK, HoldersOK, Held
<1>3. refcnt[cur[t]] >= 1
  BY <1>2, Referenced
<1>4. data' = data
  BY <1>2, <1>3 DEF LogWrite, SetRef, PinRefs, IInv, TypeOK
<1>5. \A c \in Blocks : Content(c)' = Content(c)
  BY <1>1, <1>2, <1>3, <1>4 DEF IInv, TypeOK, Content, PinRefs
<1>6. Active' = Active
  BY <1>1 DEF IInv, TypeOK, Active
<1> QED
  BY <1>1, <1>5, <1>6, ViewKept, RecoveredKept DEF Mem

\* A block_read brings in the content the block has.
LEMMA ReadBlockStep ==
  ASSUME IInv, NEW t \in Threads, NEW b \in Blocks, ReadBlock(t, b)
  PROVE  Recovered' = Recovered /\ Mem' = Mem /\ Active' = Active
<1>1. /\ pc[t] \in {"idle", "op"}
      /\ pc' = [pc EXCEPT ![t] = IF @ = "op" THEN "op_read" ELSE "reading"]
      /\ refcnt' = [refcnt EXCEPT ![b] = refcnt[b] + 1]
      /\ UNCHANGED <<home, logblk, dhdr, phase>>
  BY DEF ReadBlock, SetRef, image
<1>2. data' = [data EXCEPT ![b] = Content(b)]
  BY DEF ReadBlock, SetRef, IInv, TypeOK
<1>3. \A c \in Blocks : Content(c)' = Content(c)
  BY <1>1, <1>2 DEF IInv, TypeOK, Content
<1>4. Active' = Active
  BY <1>1 DEF IInv, TypeOK, Active
<1> QED
  BY <1>1, <1>3, <1>4, ViewKept, RecoveredKept DEF Mem

\* A block_release that deletes the block deletes what is at home as well.
LEMMA ReleaseBlockStep ==
  ASSUME IInv, NEW t \in Threads, ReleaseBlock(t)
  PROVE  Recovered' = Recovered /\ Mem' = Mem /\ Active' = Active
<1>1. PICK b : b = cur[t]
  OBVIOUS
<1>2. /\ pc[t] \in {"logged", "op_read", "reading"}
      /\ pc' = [pc EXCEPT ![t] = IF @ = "reading" THEN "idle" ELSE "op"]
      /\ refcnt' = [refcnt EXCEPT ![b] = refcnt[b] - 1]
      /\ data' = IF refcnt[b] - 1 = 0 THEN [data EXCEPT ![b] = None] ELSE data
      /\ UNCHANGED <<home, logblk, dhdr, phase>>
  BY <1>1 DEF ReleaseBlock, SetRef, image
<1>3. phase = "up" /\ b \in Blocks /\ Held(b)
  BY <1>1, <1>2, BusyIsUp DEF IInv, TypeOK, HoldersOK, Held
<1>4. refcnt[b] >= 1 /\ (refcnt[b] = 1 => ~Pinned(b))
  BY <1>3, Referenced
<1>5. \A u \in Threads : cur[u] = b => pc[u] # "locked"
  BY <1>1, <1>2, <1>3 DEF IInv, TypeOK, HoldersOK
<1>6. refcnt[b] = 1 => data[b] = home[b]
  BY <1>3, <1>4, <1>5 DEF IInv, CleanOK
<1>7. ASSUME NEW c \in Blocks PROVE Content(c)' = Content(c)
  BY <1>2, <1>3, <1>4, <1>6 DEF IInv, TypeOK, Content
<1>8. Active' = Active
  BY <1>2 DEF IInv, TypeOK, Active
<1> QED
  BY <1>2, <1>7, <1>8, ViewKept, RecoveredKept DEF Mem

\* end_op is End, of the last operation too: its commit comes later.
LEMMA EndOpStep ==
  ASSUME IInv, NEW t \in Threads, EndOp(t) \/ EndLastOp(t)
  PROVE  Tx!End(t)
<1>1. pc[t] = "op" /\ UNCHANGED <<home, logblk, dhdr, data, refcnt, phase>>
  BY DEF EndOp, EndLastOp, image, cache
<1>2. t \in Active
  BY <1>1 DEF Active
<1>3. Active' = Active \ {t}
  <2>1. CASE EndOp(t)
    BY <2>1 DEF EndOp, NotifyAll, IInv, TypeOK, Active
  <2>2. CASE EndLastOp(t)
    BY <2>2 DEF EndLastOp, IInv, TypeOK, Active
  <2> QED
    BY <2>1, <2>2
<1> QED
  BY <1>1, <1>2, <1>3, MemUntouched DEF Tx!End

\* Waiting in begin_op, and waking the waiters, change no disk.
LEMMA WaitStep ==
  ASSUME IInv, NEW t \in Threads, BeginWait(t) \/ CommitDone(t)
  PROVE  Recovered' = Recovered /\ Mem' = Mem /\ Active' = Active
<1>1. UNCHANGED <<home, logblk, dhdr, data, refcnt, phase>>
  BY DEF BeginWait, CommitDone, image, cache
<1>2. Active' = Active
  <2>1. CASE BeginWait(t)
    BY <2>1 DEF BeginWait, IInv, TypeOK, Active
  <2>2. CASE CommitDone(t)
    BY <2>2 DEF CommitDone, NotifyAll, IInv, TypeOK, Active
  <2> QED
    BY <2>1, <2>2
<1> QED
  BY <1>1, <1>2, MemUntouched

----------------------------------------------------------------------------
(* The steps of commit().                                                  *)

\* Copying to the log changes no disk: the header on disk is still empty.
LEMMA WriteLogStep ==
  ASSUME IInv, NEW t \in Threads, WriteLog(t)
  PROVE  Recovered' = Recovered /\ Mem' = Mem /\ Active' = Active
<1>1. /\ pc[t] = "write_log"
      /\ pc' = [pc EXCEPT ![t] =
                  IF tail + 1 < Len(log_hdr) THEN "write_log" ELSE "write_head"]
      /\ UNCHANGED <<home, dhdr, data, refcnt, phase>>
  BY DEF WriteLog, cache
<1>2. phase = "up" /\ ~Installing
  BY <1>1, CommitterAlone
<1>3. dhdr = << >> /\ dhdr' = << >>
  BY <1>1, <1>2 DEF IInv, HeaderOK
<1>4. Recovered' = Recovered
  BY <1>1, <1>3, EmptyHeader DEF Recovered, InHeader
<1>5. Mem' = Mem
  BY <1>1, <1>2 DEF Mem, View, Content
<1>6. Active' = Active
  BY <1>1 DEF IInv, TypeOK, Active
<1> QED
  BY <1>4, <1>5, <1>6

\* Writing the header is Commit: what recovery restores becomes, in that one
\* block write, what the cache holds.
LEMMA WriteHeadStep ==
  ASSUME IInv, NEW t \in Threads, WriteHead(t)
  PROVE  Tx!Commit
<1>1. /\ pc[t] = "write_head" /\ dhdr' = log_hdr
      /\ pc' = [pc EXCEPT ![t] = "install"]
      /\ UNCHANGED <<home, logblk, data, refcnt, phase>>
  BY DEF WriteHead, cache
<1>2. /\ phase = "up" /\ Active = {} /\ ~Installing
      /\ \A u \in Threads : pc[u] \notin OpPCs
  BY <1>1, CommitterAlone
<1>3. Active' = {}
  BY <1>1, <1>2 DEF IInv, TypeOK, Active
<1>4. Mem = View /\ Mem' = View
  BY <1>1, <1>2 DEF Mem, View, Content
<1>5. ASSUME NEW i \in 1 .. Len(log_hdr)
      PROVE  Content(log_hdr[i]) = logblk[i]
  <2>1. log_hdr[i] \in Blocks
    BY HeaderType DEF IInv, TypeOK
  <2>2. Pinned(log_hdr[i])
    BY <1>2 DEF Pinned
  <2>3. refcnt[log_hdr[i]] > 0
    BY <1>2, <2>1, <2>2, Referenced DEF IInv, TypeOK
  <2>4. logblk[i] = data[log_hdr[i]]
    BY <1>1 DEF IInv, CommitOK
  <2> QED
    BY <2>3, <2>4 DEF Content
<1>6. ASSUME NEW b \in Blocks, ~InHeader(log_hdr, b)
      PROVE  Content(b) = home[b]
  <2>1. ~Pinned(b)
    BY <1>6 DEF Pinned, InHeader
  <2>2. \A u \in Threads : pc[u] # "locked"
    BY <1>2
  <2> QED
    BY <2>1, <2>2 DEF IInv, TypeOK, CleanOK, Content
<1>7. ASSUME NEW b \in Blocks
      PROVE  Recovered'[b] = Content(b)
  <2>1. CASE InHeader(log_hdr, b)
    <3>1. PICK i \in 1 .. Len(log_hdr) : log_hdr[i] = b
      BY <2>1 DEF InHeader
    <3>2. \A j \in 1 .. Len(log_hdr) : log_hdr[j] = b => j = i
      BY <3>1 DEF IInv, HeaderOK, Distinct
    <3>3. (CHOOSE j \in 1 .. Len(log_hdr) : log_hdr[j] = b) = i
      BY <3>1, <3>2
    <3>4. Recovered'[b] = logblk[i]
      BY <1>1, <2>1, <3>3 DEF Recovered, InHeader
    <3> QED
      BY <1>5, <3>1, <3>4
  <2>2. CASE ~InHeader(log_hdr, b)
    BY <1>1, <1>6, <2>2 DEF Recovered, InHeader
  <2> QED
    BY <2>1, <2>2
<1>8. Recovered' = View
  <2>1. Recovered' = [b \in Blocks |-> Recovered'[b]]
    BY DEF Recovered
  <2> QED
    BY <1>7, <2>1 DEF View
<1> QED
  BY <1>2, <1>3, <1>4, <1>8 DEF Tx!Commit

\* Installing a block changes no disk: the header still names it, and the
\* cache had this content already.
LEMMA InstallStep ==
  ASSUME IInv, NEW t \in Threads, Install(t)
  PROVE  Recovered' = Recovered /\ Mem' = Mem /\ Active' = Active
<1>1. PICK b : b = log_hdr[tail + 1]
  OBVIOUS
<1>2. PICK w : w = logblk[tail + 1]
  OBVIOUS
<1>3. /\ pc[t] = "install" /\ ~Held(b)
      /\ home' = [home EXCEPT ![b] = w]
      /\ refcnt' = [refcnt EXCEPT ![b] = refcnt[b] - 1]
      /\ data' = IF refcnt[b] - 1 = 0
                   THEN [[data EXCEPT ![b] = w] EXCEPT ![b] = None]
                   ELSE [data EXCEPT ![b] = w]
      /\ pc' = [pc EXCEPT ![t] =
                  IF tail + 1 < Len(log_hdr) THEN "install" ELSE "erase"]
      /\ UNCHANGED <<logblk, dhdr, phase>>
  BY <1>1, <1>2 DEF Install, SetRef
<1>4. phase = "up" /\ Installing
  BY <1>3, CommitterAlone
<1>5. tail \in Nat /\ Len(log_hdr) \in Nat /\ tail + 1 \in 1 .. Len(log_hdr)
  BY <1>3, HeaderType DEF IInv, TypeOK, CommitOK
<1>6. b \in Blocks /\ dhdr = log_hdr /\ InHeader(dhdr, b)
  BY <1>1, <1>4, <1>5, HeaderType DEF IInv, TypeOK, HeaderOK, InHeader
<1>7. Recovered' = Recovered
  BY <1>3, <1>6, RecoveredKept DEF IInv, TypeOK
<1>8. Pinned(b)
  BY <1>1, <1>5 DEF Pinned
<1>9. refcnt[b] >= 1
  BY <1>4, <1>6, <1>8, Referenced
<1>10. data[b] = w
  BY <1>1, <1>2, <1>3, <1>5 DEF IInv, CommitOK
<1>11. ASSUME NEW c \in Blocks PROVE Content(c)' = Content(c)
  BY <1>3, <1>6, <1>9, <1>10 DEF IInv, TypeOK, Content
<1>12. Active' = Active
  BY <1>3 DEF IInv, TypeOK, Active
<1> QED
  BY <1>3, <1>7, <1>11, <1>12, ViewKept DEF Mem

\* Erasing the header changes no disk: everything it names is at home.
LEMMA EraseLogStep ==
  ASSUME IInv, IInv', NEW t \in Threads, EraseLog(t)
  PROVE  Recovered' = Recovered /\ Mem' = Mem /\ Active' = Active
<1>1. /\ pc[t] = "erase" /\ pc' = [pc EXCEPT ![t] = "done"] /\ dhdr' = << >>
      /\ UNCHANGED <<home, logblk, data, refcnt, phase>>
  BY DEF EraseLog, ClearHeader, cache
<1>2. phase = "up" /\ Installing
  BY <1>1, CommitterAlone
<1>3. dhdr = log_hdr
  BY <1>2 DEF IInv, HeaderOK
<1>4. \A i \in 1 .. Len(dhdr) : home[dhdr[i]] = logblk[i]
  BY <1>1, <1>3 DEF IInv, CommitOK
<1>5. Recovered = home
  BY <1>4, InstalledIsHome DEF IInv, HeaderOK
<1>6. Recovered' = home'
  BY <1>1, EmptyHeader DEF Recovered, InHeader, IInv, TypeOK
<1>7. Mem' = Mem
  BY <1>1, <1>2 DEF Mem, View, Content
<1>8. Active' = Active
  BY <1>1 DEF IInv, TypeOK, Active
<1> QED
  BY <1>1, <1>5, <1>6, <1>7, <1>8

----------------------------------------------------------------------------
(* Crash and recovery.                                                     *)

\* Death of the process, by a crash or by a failed assertion, is Crash.
LEMMA DieStep ==
  ASSUME IInv, Die
  PROVE  Tx!Crash
<1>1. /\ phase' = "read_head" /\ pc' = [t \in Threads |-> "idle"]
      /\ UNCHANGED <<home, logblk, dhdr>>
  BY DEF Die, image
<1>2. Recovered' = Recovered
  BY <1>1, RecoveredKept
<1>3. Mem' = Recovered
  BY <1>1, <1>2 DEF Mem
<1>4. Active' = {}
  BY <1>1 DEF Active
<1> QED
  BY <1>2, <1>3, <1>4 DEF Tx!Crash

\* Recovery changes no disk: each of its steps leaves what a recovery started
\* over would restore, and the last one leaves exactly that at home.
LEMMA RecoverStep ==
  ASSUME IInv, Recover
  PROVE  Recovered' = Recovered /\ Mem' = Mem /\ Active' = Active
<1>1. phase # "up" /\ UNCHANGED <<logblk, data, refcnt, pc>>
  BY DEF Recover, ReadHead, ReplayBlock, FinishRecovery, image, cache
<1>2. Active' = Active
  BY <1>1 DEF Active
<1>3. CASE ReadHead
  <2>1. phase' # "up" /\ UNCHANGED <<home, logblk, dhdr>>
    BY <1>3 DEF ReadHead, image
  <2> QED
    BY <1>1, <1>2, <2>1, RecoveredKept DEF Mem
<1>4. CASE ReplayBlock
  <2>1. /\ phase = "replay" /\ phase' # "up" /\ tail < Len(log_hdr)
        /\ home' = [home EXCEPT ![log_hdr[tail + 1]] = logblk[tail + 1]]
        /\ UNCHANGED <<logblk, dhdr>>
    BY <1>4 DEF ReplayBlock
  <2>2. InHeader(dhdr, log_hdr[tail + 1])
    BY <2>1, HeaderType DEF IInv, TypeOK, ReplayOK, InHeader
  <2>3. \A b \in Blocks : ~InHeader(dhdr, b) => home'[b] = home[b]
    BY <2>1, <2>2 DEF IInv, TypeOK
  <2> QED
    BY <1>1, <1>2, <2>1, <2>3, RecoveredKept DEF Mem
<1>5. CASE FinishRecovery
  <2>1. /\ phase = "replay" /\ tail >= Len(log_hdr) /\ dhdr' = << >>
        /\ UNCHANGED <<home, logblk, refcnt>>
    BY <1>5 DEF FinishRecovery, ClearHeader, cache
  <2>2. \A i \in 1 .. Len(dhdr) : home[dhdr[i]] = logblk[i]
    BY <2>1, HeaderType DEF IInv, TypeOK, ReplayOK
  <2>3. Recovered = home
    BY <2>2, InstalledIsHome DEF IInv, HeaderOK
  <2>4. Recovered' = home
    BY <2>1, EmptyHeader DEF Recovered, InHeader, IInv, TypeOK
  <2>5. refcnt' = [b \in Blocks |-> 0]
    BY <1>1, <2>1 DEF IInv, DownOK
  <2>6. View' = home
    BY <2>1, <2>5 DEF View, Content, IInv, TypeOK
  <2> QED
    BY <1>1, <1>2, <2>3, <2>4, <2>6 DEF Mem
<1> QED
  BY <1>3, <1>4, <1>5 DEF Recover

----------------------------------------------------------------------------
(* The refinement.                                                         *)

\* A mkfs image, about to be mounted, is an initial state of TxDisk.
LEMMA InitStep == Init => Tx!Init
<1> SUFFICES ASSUME Init PROVE Tx!Init
  OBVIOUS
<1>1. Recovered = home
  BY InitInv, RecoveredIsHome DEF Init, IInv
<1>2. Mem = Recovered /\ Active = {}
  BY DEF Init, Mem, Active
<1> QED
  BY <1>1, <1>2 DEF Init, Tx!Init

\* Every step of the log is a step of TxDisk or a stutter.
LEMMA NextStep == IInv /\ IInv' /\ [Next]_vars => [Tx!Next]_(Tx!vars)
<1> SUFFICES ASSUME IInv, IInv', [Next]_vars PROVE [Tx!Next]_(Tx!vars)
  OBVIOUS
<1>1. ASSUME NEW t \in Threads, ThreadStep(t) PROVE [Tx!Next]_(Tx!vars)
  <2>1. CASE BeginOp(t)
    BY <2>1, BeginOpStep DEF Tx!Next
  <2>2. CASE \E b \in Blocks, v \in Values : ModifyBlock(t, b, v)
    BY <2>2, ModifyBlockStep DEF Tx!Next
  <2>3. CASE EndOp(t) \/ EndLastOp(t)
    BY <2>3, EndOpStep DEF Tx!Next
  <2>4. CASE WriteHead(t)
    BY <2>4, WriteHeadStep DEF Tx!Next
  <2>5. CASE LogWriteAbort(t)
    BY <2>5, DieStep DEF LogWriteAbort, Tx!Next
  <2>6. CASE \/ BeginWait(t) \/ CommitDone(t) \/ LogWrite(t) \/ ReleaseBlock(t)
             \/ \E b \in Blocks : ReadBlock(t, b)
             \/ WriteLog(t) \/ Install(t) \/ EraseLog(t)
    BY <2>6, WaitStep, LogWriteStep, ReleaseBlockStep, ReadBlockStep,
       WriteLogStep, InstallStep, EraseLogStep, Stutters
  <2> QED
    BY <1>1, <2>1, <2>2, <2>3, <2>4, <2>5, <2>6 DEF ThreadStep
<1>2. CASE Recover
  BY <1>2, RecoverStep, Stutters
<1>3. CASE Crash
  BY <1>3, DieStep DEF Crash, Tx!Next
<1>4. CASE UNCHANGED vars
  BY <1>4, MemUntouched, Stutters DEF vars, Active
<1> QED
  BY <1>1, <1>2, <1>3, <1>4 DEF Next

\* The log implements the crash-atomic disk: for every number of threads, every
\* set of blocks and every interleaving of operations, commits, crashes and
\* recoveries, what survives a crash is the state after the last commit, and a
\* commit happens only with no operation in progress.
THEOREM LogImplementsTxDisk == Spec => AtomicDisk
BY InitStep, NextStep, InvariantHolds, PTL DEF Spec, AtomicDisk, Tx!Spec

============================================================================
