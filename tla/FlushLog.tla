------------------------------ MODULE FlushLog ------------------------------
(***************************************************************************)
(* op_flush next to everything else the log does (src/src/op_flush.cxx).   *)
(* FUSE calls it on every close(2).  It rewrites each cached inode in an   *)
(* operation of its own, which Log's operations cover, and then calls      *)
(* Log::write_log and Log::write_head itself, outside of any operation and *)
(* without Log::mtx.                                                       *)
(***************************************************************************)
EXTENDS Log

VARIABLE flushing  \* per thread: the slot write_log is at, 0 when not in it

flushVars == <<vars, flushing>>

FlushBegin(t) ==
  /\ phase = "up"
  /\ pc[t] = "idle" /\ flushing[t] = 0
  /\ flushing' = [flushing EXCEPT ![t] = 1]
  /\ UNCHANGED vars

\* An iteration of write_log; log_hdr.n is read anew each time.
FlushWriteLog(t) ==
  LET i == flushing[t] IN
  /\ i \in 1 .. Len(log_hdr)
  /\ ~Held(log_hdr[i])
  /\ logblk' = [logblk EXCEPT ![i] = Content(log_hdr[i])]
  /\ flushing' = [flushing EXCEPT ![t] = i + 1]
  /\ UNCHANGED <<home, dhdr, cache, log_hdr, outstanding, committing, tail,
                 phase, boot, pc, cur, touched>>

FlushWriteHead(t) ==
  /\ flushing[t] > Len(log_hdr)
  /\ dhdr' = log_hdr
  /\ flushing' = [flushing EXCEPT ![t] = 0]
  /\ UNCHANGED <<home, logblk, cache, log_hdr, outstanding, committing, tail,
                 phase, boot, pc, cur, touched>>

NoFlush == [t \in Threads |-> 0]

\* Flushes in progress die with the process.
FlushesDie == flushing' = IF phase' = "up" THEN flushing ELSE NoFlush

FlushInit == Init /\ flushing = NoFlush

FlushNext ==
  \/ \E t \in Threads :
       \/ flushing[t] = 0 /\ ThreadStep(t) /\ FlushesDie
       \/ FlushBegin(t) \/ FlushWriteLog(t) \/ FlushWriteHead(t)
  \/ Recover /\ FlushesDie
  \/ Crash /\ FlushesDie

FlushSpec == FlushInit /\ [][FlushNext]_flushVars

============================================================================
