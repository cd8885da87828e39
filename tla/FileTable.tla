----------------------------- MODULE FileTable ------------------------------
(***************************************************************************)
(* The table of open files (src/src/FileTable.cxx) and how do_open,        *)
(* op_create and op_release use it (src/src/op_open.cxx, op_create.cxx,    *)
(* op_release.cxx).  op_getattr and op_truncate open and close in the same *)
(* call.                                                                   *)
(*                                                                         *)
(* A client is an open file description of the kernel, from its open to    *)
(* its release, whichever FUSE thread serves it.  ofile_alloc takes a slot *)
(* whose type is FD_NONE and sets its ref under FileTable::mtx; the caller *)
(* sets type and ip afterwards, holding the inode's mutex only.            *)
(***************************************************************************)
EXTENDS Integers, FiniteSets, FiniteSetsExt

CONSTANTS
  Clients,   \* open file descriptions
  INodes,    \* files
  NFILE,     \* slots of the table
  None       \* no client, no inode

ASSUME FileTableAssumption ==
  /\ IsFiniteSet(Clients)
  /\ NFILE \in Nat \ {0}
  /\ None \notin Clients \cup INodes

Slots == 1 .. NFILE

VARIABLES
  type,    \* OFile::type
  ref,     \* OFile::ref
  ip,      \* OFile::ip
  iref,    \* INode::ref, as far as these clients are concerned
  ilock,   \* INode::mtx: its owner
  pc,      \* where each client is
  file,    \* the inode a client's call is about
  fh       \* the handle: fi->fh, a slot, or 0

vars == <<type, ref, ip, iref, ilock, pc, file, fh>>

table == <<type, ref, ip>>

TypeOK ==
  /\ type \in [Slots -> {"FD_NONE", "FD_INODE"}]
  /\ ref \in [Slots -> Nat]
  /\ ip \in [Slots -> INodes \cup {None}]
  /\ iref \in [INodes -> Nat]
  /\ ilock \in [INodes -> Clients \cup {None}]
  /\ pc \in [Clients -> {"closed", "lock", "alloc", "type", "ip", "open", "put"}]
  /\ file \in [Clients -> INodes \cup {None}]
  /\ fh \in [Clients -> 0 .. NFILE]

Init ==
  /\ type = [s \in Slots |-> "FD_NONE"]
  /\ ref = [s \in Slots |-> 0]
  /\ ip = [s \in Slots |-> None]
  /\ iref = [i \in INodes |-> 0]
  /\ ilock = [i \in INodes |-> None]
  /\ pc = [c \in Clients |-> "closed"]
  /\ file = [c \in Clients |-> None]
  /\ fh = [c \in Clients |-> 0]

----------------------------------------------------------------------------
(* do_open, op_create.                                                     *)

\* inode_name or create: a reference to the inode.
Lookup(c, i) ==
  /\ pc[c] = "closed"
  /\ iref' = [iref EXCEPT ![i] = @ + 1]
  /\ file' = [file EXCEPT ![c] = i]
  /\ pc' = [pc EXCEPT ![c] = "lock"]
  /\ UNCHANGED <<table, ilock, fh>>

\* ip->lock().
CanAlwaysLock(c) == TRUE
CanLock(c) == ilock[file[c]] = None

LockINode(c) ==
  /\ pc[c] = "lock"
  /\ CanLock(c)
  /\ ilock' = [ilock EXCEPT ![file[c]] = c]
  /\ pc' = [pc EXCEPT ![c] = "alloc"]
  /\ UNCHANGED <<table, iref, file, fh>>

\* The slots ofile_alloc considers free.
FreeSlots == {s \in Slots : type[s] = "FD_NONE"}

OfileAlloc(c) ==
  /\ pc[c] = "alloc"
  /\ FreeSlots # {}
  /\ LET s == Min(FreeSlots) IN
       /\ ref' = [ref EXCEPT ![s] = 1]
       /\ fh' = [fh EXCEPT ![c] = s]
  /\ pc' = [pc EXCEPT ![c] = "type"]
  /\ UNCHANGED <<type, ip, iref, ilock, file>>

\* ofile_alloc returns nullptr: inode_unlock_put, the open fails.
OfileAllocFailsKeepsRef(c) ==
  /\ pc[c] = "alloc"
  /\ FreeSlots = {}
  /\ ilock' = [ilock EXCEPT ![file[c]] = None]
  /\ file' = [file EXCEPT ![c] = None]
  /\ pc' = [pc EXCEPT ![c] = "closed"]
  /\ UNCHANGED <<table, iref, fh>>
OfileAllocFails(c) ==
  /\ pc[c] = "alloc"
  /\ FreeSlots = {}
  /\ ilock' = [ilock EXCEPT ![file[c]] = None]
  /\ iref' = [iref EXCEPT ![file[c]] = @ - 1]
  /\ file' = [file EXCEPT ![c] = None]
  /\ pc' = [pc EXCEPT ![c] = "closed"]
  /\ UNCHANGED <<table, fh>>

SetType(c) ==
  /\ pc[c] = "type"
  /\ type' = [type EXCEPT ![fh[c]] = "FD_INODE"]
  /\ pc' = [pc EXCEPT ![c] = "ip"]
  /\ UNCHANGED <<ref, ip, iref, ilock, file, fh>>

\* f->ip = ip and the flags; then ip->unlock(), and the handle is returned.
SetIpAndUnlock(c) ==
  /\ pc[c] = "ip"
  /\ ip' = [ip EXCEPT ![fh[c]] = file[c]]
  /\ ilock' = [ilock EXCEPT ![file[c]] = None]
  /\ pc' = [pc EXCEPT ![c] = "open"]
  /\ UNCHANGED <<type, ref, iref, file, fh>>

----------------------------------------------------------------------------
(* ofile_close.                                                            *)

\* The assertions of ofile_close on the slot it is given.  A failed one ends
\* the process.
CloseAsserts(s) == ref[s] >= 1 /\ (ref[s] = 1 => type[s] # "FD_NONE")

\* The critical section: count down, free the slot, remember its inode.
OfileClose(c) ==
  LET s == fh[c] IN
  /\ pc[c] = "open"
  /\ CloseAsserts(s)
  /\ ref' = [ref EXCEPT ![s] = @ - 1]
  /\ type' = IF ref[s] = 1 THEN [type EXCEPT ![s] = "FD_NONE"] ELSE type
  /\ file' = [file EXCEPT ![c] = IF ref[s] = 1 THEN ip[s] ELSE None]
  /\ pc' = [pc EXCEPT ![c] = IF ref[s] = 1 THEN "put" ELSE "closed"]
  /\ fh' = [fh EXCEPT ![c] = 0]
  /\ UNCHANGED <<ip, iref, ilock>>

\* inode_put(ff.ip), in an operation of its own.
InodePut(c) ==
  /\ pc[c] = "put"
  /\ iref' = [iref EXCEPT ![file[c]] = @ - 1]
  /\ file' = [file EXCEPT ![c] = None]
  /\ pc' = [pc EXCEPT ![c] = "closed"]
  /\ UNCHANGED <<table, ilock, fh>>

Next ==
  \E c \in Clients :
    \/ \E i \in INodes : Lookup(c, i)
    \/ LockINode(c)
    \/ OfileAlloc(c)
    \/ OfileAllocFails(c)
    \/ SetType(c)
    \/ SetIpAndUnlock(c)
    \/ OfileClose(c)
    \/ InodePut(c)

Spec == Init /\ [][Next]_vars

----------------------------------------------------------------------------
\* An open file stands for the file it was opened for: its reads and writes go
\* to that inode.
HandleIsMine ==
  \A c \in Clients : pc[c] = "open" => ip[fh[c]] = file[c]

\* No two clients are given the same slot of the table.
SlotExclusive ==
  \A c, d \in Clients : fh[c] # 0 /\ fh[c] = fh[d] => c = d

\* Every reference to an inode is accounted for: a client that has it in hand,
\* or one that has it open; none is lost when the table is full, none is
\* dropped twice.
INodeRefsExact ==
  \A i \in INodes :
    iref[i] = Cardinality({c \in Clients : file[c] = i})

\* The assertions of ofile_close hold whenever an open file is closed.
CloseNeverAborts == \A c \in Clients : pc[c] = "open" => CloseAsserts(fh[c])

============================================================================
