------------------------------- MODULE LogInv -------------------------------
(***************************************************************************)
(* The inductive invariant of Log, the strengthening from which module     *)
(* LogProofs derives the properties of Log and the refinement of TxDisk.   *)
(***************************************************************************)
EXTENDS Log

\* The operations in progress.
Active == {t \in Threads : pc[t] \in OpPCs}

\* What the file system above the log sees: the cache, or once mounting is
\* over, what recovery will have restored.
Mem == IF phase = "up" THEN View ELSE Recovered

Tx == INSTANCE TxDisk WITH stable <- Recovered, mem <- Mem, active <- Active

\* The log implements a disk that changes only by whole groups of finished
\* operations: what recovery would restore is at every moment the state after
\* the last commit, through crashes at any step, during recovery too.
AtomicDisk == Tx!Spec

----------------------------------------------------------------------------
\* No block has two entries: log absorption.
Distinct(h) == \A i, j \in 1 .. Len(h) : h[i] = h[j] => i = j

\* While mounting, nothing else has happened yet.
DownOK ==
  phase # "up" =>
    /\ refcnt = [b \in Blocks |-> 0]
    /\ outstanding = 0
    /\ ~committing
    /\ pc = [t \in Threads |-> "idle"]
    /\ cur = [t \in Threads |-> None]

\* recover_from_log has copied the first tail blocks.
ReplayOK ==
  phase = "replay" =>
    /\ log_hdr = dhdr
    /\ tail <= Len(log_hdr)
    /\ \A i \in 1 .. tail : home[log_hdr[i]] = logblk[i]

\* Log::outstanding counts the operations, one thread at most commits, and it
\* does so alone.
CountOK ==
  /\ outstanding = Cardinality(Active)
  /\ committing => outstanding = 0
  /\ committing <=> \E t \in Threads : pc[t] \in CommitPCs
  /\ \A t, u \in Threads : pc[t] \in CommitPCs /\ pc[u] \in CommitPCs => t = u

\* A block has one holder.
HoldersOK ==
  /\ \A t \in Threads :
       cur[t] # None <=> pc[t] \in {"locked", "logged", "op_read", "reading"}
  /\ \A t, u \in Threads : cur[t] # None /\ cur[t] = cur[u] => t = u

\* A block the log does not pin, and nobody is changing, is as on disk.
CleanOK ==
  \A b \in Blocks :
    /\ data[b] = None <=> refcnt[b] = 0
    /\ \/ refcnt[b] = 0
       \/ Pinned(b)
       \/ \E t \in Threads : cur[t] = b /\ pc[t] = "locked"
       \/ data[b] = home[b]

\* The disk has a header from the commit point until the log is erased, and
\* the memory has one only for somebody's sake.
HeaderOK ==
  /\ Distinct(log_hdr) /\ Distinct(dhdr)
  /\ phase = "up" => dhdr = IF Installing THEN log_hdr ELSE << >>
  /\ phase = "up" /\ outstanding = 0 /\ ~committing => log_hdr = << >>
  /\ \A t \in Threads : pc[t] = "done" => log_hdr = << >>

\* What commit() has done so far.
CommitOK ==
  \A t \in Threads :
    /\ pc[t] \in {"write_log", "install"} => tail < Len(log_hdr)
    /\ pc[t] = "write_log" =>
         \A i \in 1 .. tail : logblk[i] = data[log_hdr[i]]
    /\ pc[t] = "write_head" =>
         /\ Len(log_hdr) > 0
         /\ \A i \in 1 .. Len(log_hdr) : logblk[i] = data[log_hdr[i]]
    /\ pc[t] = "install" =>
         /\ \A i \in 1 .. tail : logblk[i] = home[log_hdr[i]]
         /\ \A i \in tail + 1 .. Len(log_hdr) : logblk[i] = data[log_hdr[i]]
    /\ pc[t] = "erase" =>
         /\ tail = Len(log_hdr)
         /\ \A i \in 1 .. Len(log_hdr) : logblk[i] = home[log_hdr[i]]

\* The inductive invariant of the log: what every critical section of Log and
\* every block written by commit() and recover_from_log() preserves.
IInv ==
  /\ TypeOK
  /\ DownOK
  /\ ReplayOK
  /\ CountOK
  /\ HoldersOK
  /\ PinnedUntilInstalled
  /\ CleanOK
  /\ HeaderOK
  /\ CommitOK
  /\ NoLostWakeup

============================================================================
