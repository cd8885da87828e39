------------------------------ MODULE LogLive ------------------------------
(***************************************************************************)
(* Progress of the log.  The clients of Log make finitely many calls in    *)
(* all, so that what must happen is the log's own doing.                   *)
(***************************************************************************)
EXTENDS Log

CONSTANTS
  MaxCalls,    \* operations begun and blocks accessed, at most
  MaxCrashes   \* crashes, at most

ASSUME LiveAssumption == MaxCalls \in Nat /\ MaxCrashes \in Nat

VARIABLES
  budget,   \* calls that can still be made
  crashes   \* crashes so far

liveVars == <<vars, budget, crashes>>

\* The caller's choices: begin an operation, access a block.
Call(t) ==
  /\ budget > 0
  /\ budget' = budget - 1
  /\ \/ pc[t] = "idle" /\ (BeginOp(t) \/ BeginWait(t))
     \/ \E b \in Blocks, v \in Values : ModifyBlock(t, b, v)
     \/ \E b \in Blocks : ReadBlock(t, b)
  /\ UNCHANGED crashes

\* What a thread does next of itself once it has called.
Continue(t) ==
  /\ \/ pc[t] = "begin" /\ (BeginOp(t) \/ BeginWait(t))
     \/ LogWrite(t)
     \/ LogWriteAbort(t)
     \/ ReleaseBlock(t)
     \/ EndOp(t)
     \/ EndLastOp(t)
     \/ WriteLog(t)
     \/ WriteHead(t)
     \/ Install(t)
     \/ EraseLog(t)
     \/ CommitDone(t)
  /\ UNCHANGED <<budget, crashes>>

Mount == Recover /\ UNCHANGED <<budget, crashes>>

BoundedCrash ==
  /\ crashes < MaxCrashes
  /\ crashes' = crashes + 1
  /\ Crash
  /\ UNCHANGED budget

\* Everybody has made their calls and they have returned.
Finished ==
  /\ phase = "up"
  /\ budget = 0
  /\ \A t \in Threads : pc[t] = "idle"
  /\ UNCHANGED liveVars

LiveInit == Init /\ budget = MaxCalls /\ crashes = 0

LiveNext ==
  \/ \E t \in Threads : Call(t) \/ Continue(t)
  \/ Mount
  \/ BoundedCrash
  \/ Finished

\* The operating system runs every thread that can run.
Fairness == (\A t \in Threads : WF_liveVars(Continue(t))) /\ WF_liveVars(Mount)

LiveSpec == LiveInit /\ [][LiveNext]_liveVars /\ Fairness

\* begin_op, end_op and the block accesses return (or the process dies): no
\* thread sleeps in begin_op for ever, and a commit finishes.
EveryCallReturns == \A t \in Threads : pc[t] # "idle" ~> pc[t] = "idle"

\* Logged blocks do not stay in the log: they are committed and installed, or
\* lost in a crash.
LogDrains == Len(log_hdr) > 0 ~> Len(log_hdr) = 0

============================================================================
