----------------------------- MODULE NameSpace ------------------------------
(***************************************************************************)
(* What the directories promise: every name leads to one node until it is  *)
(* removed, only the call made on a name changes it, and a node that gets  *)
(* a new name is in nobody's use.  Slots, link counts and inodes are not   *)
(* seen here.                                                              *)
(***************************************************************************)
EXTENDS Integers

CONSTANTS
  Nodes,      \* files and directories
  Root,
  FileNames

VARIABLES
  tree,   \* per directory and name: the node, or 0
  opens   \* handles of each node

nsVars == <<tree, opens>>

Keys == Nodes \X FileNames

Init ==
  /\ tree = [k \in Keys |-> 0]
  /\ opens = [i \in Nodes |-> 0]

Named(i) == \E k \in Keys : tree[k] = i
InUse(i) == i = Root \/ opens[i] > 0 \/ Named(i)

\* A new node gets a name, in a directory that can be reached; it may be open.
Bind(k, i) ==
  /\ tree[k] = 0
  /\ InUse(k[1])
  /\ ~InUse(i)
  /\ tree' = [tree EXCEPT ![k] = i]
  /\ opens' \in {opens, [opens EXCEPT ![i] = 1]}

Unbind(k) ==
  /\ tree[k] # 0
  /\ tree' = [tree EXCEPT ![k] = 0]
  /\ UNCHANGED opens

OpenNode(i) ==
  /\ opens' = [opens EXCEPT ![i] = @ + 1]
  /\ UNCHANGED tree
  /\ Named(i) \/ i = Root

CloseNode(i) ==
  /\ opens' = [opens EXCEPT ![i] = @ - 1]
  /\ opens[i] > 0
  /\ UNCHANGED tree

\* The names survive a restart, handles do not.
Restart ==
  /\ opens' = [i \in Nodes |-> 0]
  /\ UNCHANGED tree

\* The name that a step changes.
Changed(k) == tree'[k] # tree[k]

Next ==
  \/ \E i \in Nodes : OpenNode(i) \/ CloseNode(i)
  \/ Restart
  \/ \E k \in Keys : Changed(k) /\ (Unbind(k) \/ \E i \in Nodes : Bind(k, i))

Spec == Init /\ [][Next]_nsVars

============================================================================
