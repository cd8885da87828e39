------------------------------- MODULE TxDisk -------------------------------
(***************************************************************************)
(* What the log of xv6fs promises to the file system above it: a disk      *)
(* whose blocks change only by whole groups of operations.  Operations     *)
(* write to a volatile copy; the stable copy is replaced by the volatile   *)
(* one in a single step, and only when no operation is in progress; a      *)
(* crash takes the disk back to the stable copy.                           *)
(***************************************************************************)
CONSTANTS Threads, Blocks, Values

VARIABLES
  stable,  \* what survives a crash
  mem,     \* what reads return
  active   \* threads inside an operation

vars == <<stable, mem, active>>

Init ==
  /\ stable \in [Blocks -> Values]
  /\ mem = stable
  /\ active = {}

Begin(t) ==
  /\ t \notin active
  /\ active' = active \cup {t}
  /\ UNCHANGED <<stable, mem>>

Write(t, b, v) ==
  /\ t \in active
  /\ mem' = [mem EXCEPT ![b] = v]
  /\ UNCHANGED <<stable, active>>

End(t) ==
  /\ t \in active
  /\ active' = active \ {t}
  /\ UNCHANGED <<stable, mem>>

Commit ==
  /\ active = {}
  /\ stable' = mem
  /\ UNCHANGED <<mem, active>>

Crash ==
  /\ mem' = stable
  /\ active' = {}
  /\ UNCHANGED stable

Next ==
  \/ \E t \in Threads :
       Begin(t) \/ End(t) \/ \E b \in Blocks, v \in Values : Write(t, b, v)
  \/ Commit
  \/ Crash

Spec == Init /\ [][Next]_vars

============================================================================
