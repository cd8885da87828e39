----------------------------- MODULE INodeCache -----------------------------
(***************************************************************************)
(* The inode cache (src/src/INodeCache.cxx, INode.cxx) under concurrent    *)
(* opens, creations, removals and closes of files, at the granularity of   *)
(* its mutexes: INodeCache::mtx for the map and the reference counts, one  *)
(* mutex per inode for everything else in it.                              *)
(*                                                                         *)
(* A client is an open file description: it opens or creates a file,       *)
(* removes one or looks at one in a listing, and drops its reference when  *)
(* it is done.  Names are the entries of a directory.  The inode blocks    *)
(* are seen through the block cache, so a change is visible at once;       *)
(* crashes are the subject of Log.                                         *)
(*                                                                         *)
(* libfuse and the kernel lock the path of a call: creating or removing a  *)
(* name excludes every other call on that name, and the listing that comes *)
(* by it.                                                                  *)
(***************************************************************************)
EXTENDS Integers, FiniteSets

CONSTANTS
  Clients,   \* open file descriptions, each served by one thread at a time
  INums,     \* inode numbers
  Names,     \* names of the directory
  None       \* no client, no inode, no name

ASSUME INodeAssumption ==
  /\ IsFiniteSet(Clients) /\ IsFiniteSet(Names)
  /\ None \notin Clients \cup INums \cup Names

VARIABLES
  mtx,     \* INodeCache::mtx: its owner
  inodes,  \* INodeCache::inodes: the cached inodes
  ref,     \* INode::ref
  ilock,   \* INode::mtx: its owner
  valid,   \* INode::valid
  dinode,  \* INode::dinode, the copy in memory
  disk,    \* the inode blocks
  dir,     \* the directory: name to inode number
  pc,      \* where each client is
  ip,      \* the inode its call is about
  name,    \* the name its call is about
  reused   \* history: inodes allocated while the inode_put that freed them had
           \* still to drop its reference

state == <<mtx, inodes, ref, ilock, valid, dinode, disk, dir, pc, ip, name>>
vars == <<state, reused>>

\* DiskINode: the type and the number of links.
Free == [type |-> "Invalid", nlink |-> 0]
DiskINode == [type : {"Invalid", "T_FILE"}, nlink : 0 .. Cardinality(Names)]

PCs == {"idle", "get", "open_lock", "open_load", "unlink_lock", "unlink_load",
        "create_lock", "create_load", "list_lock", "list_load",
        "list_unlock", "list_put", "open", "unlock", "unlock_put", "put",
        "put_lock", "trunc", "inval", "drop"}

TypeOK ==
  /\ mtx \in Clients \cup {None}
  /\ inodes \in SUBSET INums
  /\ ref \in [INums -> Nat]
  /\ ilock \in [INums -> Clients \cup {None}]
  /\ valid \in [INums -> BOOLEAN]
  /\ dinode \in [INums -> DiskINode]
  /\ disk \in [INums -> DiskINode]
  /\ dir \in [Names -> INums \cup {None}]
  /\ pc \in [Clients -> PCs]
  /\ ip \in [Clients -> INums \cup {None}]
  /\ name \in [Clients -> Names \cup {None}]
  /\ reused \subseteq INums

\* An empty directory; nothing is cached.
Init ==
  /\ mtx = None
  /\ inodes = {}
  /\ ref = [i \in INums |-> 0]
  /\ ilock = [i \in INums |-> None]
  /\ valid = [i \in INums |-> FALSE]
  /\ dinode = [i \in INums |-> Free]
  /\ disk = [i \in INums |-> Free]
  /\ dir = [n \in Names |-> None]
  /\ pc = [c \in Clients |-> "idle"]
  /\ ip = [c \in Clients |-> None]
  /\ name = [c \in Clients |-> None]
  /\ reused = {}

Goto(c, l) == pc' = [pc EXCEPT ![c] = l]

----------------------------------------------------------------------------
(* Getting an inode.                                                       *)

\* inode_get: count a reference, or make a new cache entry that is not valid.
InodeGet(c, i) ==
  /\ mtx = None
  /\ inodes' = inodes \cup {i}
  /\ ref' = [ref EXCEPT ![i] = IF i \in inodes THEN @ + 1 ELSE 1]
  /\ valid' = [valid EXCEPT ![i] = i \in inodes /\ @]
  /\ ip' = [ip EXCEPT ![c] = i]

\* libfuse has no other call in progress on name n; none but opens and listings.
PathFree(n) == \A c \in Clients : name[c] # n
PathShared(n) ==
  \A c \in Clients : name[c] = n =>
    pc[c] \in {"open_lock", "open_load", "unlock",
               "list_lock", "list_load", "list_unlock", "list_put"}

\* dirlookup finds the entry and gets its inode.
Lookup(c, n, next) ==
  /\ pc[c] = "idle"
  /\ dir[n] # None
  /\ InodeGet(c, dir[n])
  /\ name' = [name EXCEPT ![c] = n]
  /\ Goto(c, next)
  /\ UNCHANGED <<mtx, ilock, dinode, disk, dir>>

\* do_open and do_unlink begin; op_readdir comes to an entry.
OpenLookup(c, n) == PathShared(n) /\ Lookup(c, n, "open_lock")
ListLookup(c, n) == PathShared(n) /\ Lookup(c, n, "list_lock")
UnlinkLookup(c, n) == PathFree(n) /\ Lookup(c, n, "unlink_lock")

\* create, inode_alloc: an inode block's free entry is taken, under the mutex
\* of the block.  (The scan is over several blocks: any free inode may be it.)
InodeAlloc(c, n, i) ==
  /\ pc[c] = "idle"
  /\ PathFree(n)
  /\ dir[n] = None
  /\ disk[i] = Free
  /\ disk' = [disk EXCEPT ![i] = [Free EXCEPT !.type = "T_FILE"]]
  /\ ip' = [ip EXCEPT ![c] = i]
  /\ name' = [name EXCEPT ![c] = n]
  /\ Goto(c, "get")
  /\ UNCHANGED <<mtx, inodes, ref, ilock, valid, dinode, dir>>

\* No inode is free: create returns nullptr.
InodeAllocFails(c, n) ==
  /\ pc[c] = "idle"
  /\ PathFree(n)
  /\ dir[n] = None
  /\ \A i \in INums : disk[i] # Free
  /\ UNCHANGED state

\* The inode_get at the end of inode_alloc.
InodeAllocGet(c) ==
  /\ pc[c] = "get"
  /\ InodeGet(c, ip[c])
  /\ Goto(c, "create_lock")
  /\ UNCHANGED <<mtx, ilock, dinode, disk, dir, name>>

----------------------------------------------------------------------------
(* INode::lock, INode::unlock.                                             *)

LockThen(c, next) ==
  /\ ilock[ip[c]] = None
  /\ ilock' = [ilock EXCEPT ![ip[c]] = c]
  /\ Goto(c, next)
  /\ UNCHANGED <<mtx, inodes, ref, valid, dinode, disk, dir, ip, name>>

Lock(c) ==
  \/ pc[c] = "open_lock" /\ LockThen(c, "open_load")
  \/ pc[c] = "unlink_lock" /\ LockThen(c, "unlink_load")
  \/ pc[c] = "create_lock" /\ LockThen(c, "create_load")
  \/ pc[c] = "list_lock" /\ LockThen(c, "list_load")

\* lock() asserts that the inode it loads has a type.
LoadAsserts(i) == valid[i] \/ disk[i].type # "Invalid"

\* The inode as lock() leaves it: read from its block unless it is valid.
Loaded(i) == IF valid[i] THEN dinode[i] ELSE disk[i]

\* The rest of lock() in a call that leaves the inode as it is.
Load(c, from, to) ==
  /\ pc[c] = from
  /\ LoadAsserts(ip[c])
  /\ dinode' = [dinode EXCEPT ![ip[c]] = Loaded(ip[c])]
  /\ valid' = [valid EXCEPT ![ip[c]] = TRUE]
  /\ Goto(c, to)
  /\ UNCHANGED <<mtx, inodes, ref, ilock, disk, dir, ip, name>>

\* An open file is handed out; do_fillstatbuf in a listing.
OpenLoad(c) == Load(c, "open_load", "unlock")
ListLoad(c) == Load(c, "list_load", "list_unlock")

\* Changing the inode, and update().
Update(i, d) ==
  /\ dinode' = [dinode EXCEPT ![i] = d]
  /\ disk' = [disk EXCEPT ![i] = d]
  /\ valid' = [valid EXCEPT ![i] = TRUE]

\* The entry of name n is written over with zeroes.
EntryStays(n) == dir
ClearEntry(n) == [dir EXCEPT ![n] = None]

\* do_unlink: clear the entry, nlink--, update.
Unlink(c) ==
  LET i == ip[c] IN
  /\ pc[c] = "unlink_load"
  /\ LoadAsserts(i)
  /\ Loaded(i).nlink >= 1
  /\ dir' = ClearEntry(name[c])
  /\ Update(i, [Loaded(i) EXCEPT !.nlink = @ - 1])
  /\ Goto(c, "unlock_put")
  /\ UNCHANGED <<mtx, inodes, ref, ilock, ip, name>>

\* create: nlink = 1, update, dirlink.
LinkNew(c) ==
  LET i == ip[c] IN
  /\ pc[c] = "create_load"
  /\ LoadAsserts(i)
  /\ dir' = [dir EXCEPT ![name[c]] = i]
  /\ Update(i, [Loaded(i) EXCEPT !.nlink = 1])
  /\ Goto(c, "unlock")
  /\ UNCHANGED <<mtx, inodes, ref, ilock, ip, name>>

\* dirlink fails (no block for the entry): nlink = 0, update, unlock, put.
LinkNewFails(c) ==
  LET i == ip[c] IN
  /\ pc[c] = "create_load"
  /\ LoadAsserts(i)
  /\ Update(i, [Loaded(i) EXCEPT !.nlink = 0])
  /\ Goto(c, "unlock_put")
  /\ UNCHANGED <<mtx, inodes, ref, ilock, dir, ip, name>>

\* The end of an open or a creation: the handle keeps the reference.
Unlock(c) ==
  /\ pc[c] = "unlock"
  /\ ilock' = [ilock EXCEPT ![ip[c]] = None]
  /\ name' = [name EXCEPT ![c] = None]
  /\ Goto(c, "open")
  /\ UNCHANGED <<mtx, inodes, ref, valid, dinode, disk, dir, ip>>

\* inode_unlock_put as far as the unlock.
UnlockPut(c, from, to) ==
  /\ pc[c] = from
  /\ ilock' = [ilock EXCEPT ![ip[c]] = None]
  /\ Goto(c, to)
  /\ UNCHANGED <<mtx, inodes, ref, valid, dinode, disk, dir, ip, name>>

----------------------------------------------------------------------------
(* inode_put.  A listing calls it outside of any operation of the log, the *)
(* others inside of one.                                                   *)

Putting(c) == pc[c] \in {"put", "list_put"}

\* op_release closes the file.
Release(c) ==
  /\ pc[c] = "open"
  /\ Goto(c, "put")
  /\ UNCHANGED <<mtx, inodes, ref, ilock, valid, dinode, disk, dir, ip, name>>

\* The inode has no links and no other references.
LastOfUnlinkedTooLate(i) == ref[i] = 0 /\ valid[i] /\ dinode[i].nlink = 0
LastOfUnlinkedAnyRef(i) == valid[i] /\ dinode[i].nlink = 0
LastOfUnlinked(i) == ref[i] = 1 /\ valid[i] /\ dinode[i].nlink = 0

\* ref--, and the end of the INode at zero.
DropsLastButOne(n) == n <= 1
DropsLast(n) == n = 0

DropRef(c) ==
  LET i == ip[c] IN
  /\ ref' = [ref EXCEPT ![i] = @ - 1]
  /\ inodes' = IF DropsLast(ref[i] - 1) THEN inodes \ {i} ELSE inodes
  /\ ip' = [ip EXCEPT ![c] = None]
  /\ name' = [name EXCEPT ![c] = None]
  /\ Goto(c, "idle")

Put(c) ==
  /\ Putting(c)
  /\ mtx = None
  /\ ~LastOfUnlinked(ip[c])
  /\ DropRef(c)
  /\ UNCHANGED <<mtx, ilock, valid, dinode, disk, dir>>

\* The inode has to be freed: its mutex is taken with INodeCache::mtx held.
PutLast(c) ==
  /\ Putting(c)
  /\ mtx = None
  /\ LastOfUnlinked(ip[c])
  /\ mtx' = c
  /\ Goto(c, "put_lock")
  /\ UNCHANGED <<inodes, ref, ilock, valid, dinode, disk, dir, ip, name>>

PutLock(c) ==
  /\ pc[c] = "put_lock"
  /\ ilock[ip[c]] = None
  /\ ilock' = [ilock EXCEPT ![ip[c]] = c]
  /\ mtx' = None
  /\ Goto(c, "trunc")
  /\ UNCHANGED <<inodes, ref, valid, dinode, disk, dir, ip, name>>

\* trunc, type = Invalid, update: from here on inode_alloc may take it.
Trunc(c) ==
  /\ pc[c] = "trunc"
  /\ dinode' = [dinode EXCEPT ![ip[c]] = Free]
  /\ disk' = [disk EXCEPT ![ip[c]] = Free]
  /\ Goto(c, "inval")
  /\ UNCHANGED <<mtx, inodes, ref, ilock, valid, dir, ip, name>>

\* valid = false.
StaysValid(i) == TRUE
ValidAfterFree(i) == FALSE

\* ... and unlock.
Invalidate(c) ==
  /\ pc[c] = "inval"
  /\ valid' = [valid EXCEPT ![ip[c]] = ValidAfterFree(ip[c])]
  /\ ilock' = [ilock EXCEPT ![ip[c]] = None]
  /\ Goto(c, "drop")
  /\ UNCHANGED <<mtx, inodes, ref, dinode, disk, dir, ip, name>>

PutDrop(c) ==
  /\ pc[c] = "drop"
  /\ mtx = None
  /\ DropRef(c)
  /\ UNCHANGED <<mtx, ilock, valid, dinode, disk, dir>>

----------------------------------------------------------------------------
ClientStep(c) ==
  \/ \E n \in Names : OpenLookup(c, n)
  \/ \E n \in Names : UnlinkLookup(c, n)
  \/ \E n \in Names : ListLookup(c, n)
  \/ \E n \in Names, i \in INums : InodeAlloc(c, n, i)
  \/ \E n \in Names : InodeAllocFails(c, n)
  \/ InodeAllocGet(c)
  \/ Lock(c)
  \/ OpenLoad(c)
  \/ ListLoad(c)
  \/ Unlink(c)
  \/ LinkNew(c)
  \/ LinkNewFails(c)
  \/ Unlock(c)
  \/ UnlockPut(c, "unlock_put", "put")
  \/ UnlockPut(c, "list_unlock", "list_put")
  \/ Release(c)
  \/ Put(c)
  \/ PutLast(c)
  \/ PutLock(c)
  \/ Trunc(c)
  \/ Invalidate(c)
  \/ PutDrop(c)

\* Clients between the two halves of an inode_put that frees inode i.
Freeing(i) == {c \in Clients : ip[c] = i /\ pc[c] \in {"inval", "drop"}}

Remember ==
  reused' = {i \in INums :
    /\ disk'[i] # Free
    /\ i \in reused \/ (disk[i] = Free /\ Freeing(i) # {})}

Next == (\E c \in Clients : ClientStep(c)) /\ Remember

Spec == Init /\ [][Next]_vars

----------------------------------------------------------------------------
\* The clients with a counted pointer to inode i.
Pointers(i) == {c \in Clients : ip[c] = i /\ pc[c] # "get"}

\* INode::ref is exact, and the cache has an INode exactly while somebody has a
\* pointer to it: inode_put never deletes one under another client, and the
\* last put always deletes it.
RefExact ==
  \A i \in INums :
    /\ i \in inodes <=> Pointers(i) # {}
    /\ i \in inodes => ref[i] = Cardinality(Pointers(i))

\* A file that is open, or has a name, keeps its inode: inode_put frees an
\* inode on disk only after the last name and the last handle are gone.
OpenOrNamedIsAllocated ==
  \A i \in INums :
    (\E n \in Names : dir[n] = i) \/ (\E c \in Clients : pc[c] = "open" /\ ip[c] = i)
      => disk[i].type = "T_FILE"

\* A cached inode nobody is freeing is what its block says, so that nobody who
\* locks it works on the remains of a file that was deleted before.
CachedIsCurrent ==
  \A i \in INums : i \in inodes /\ valid[i] /\ ilock[i] = None => dinode[i] = disk[i]

\* INode::lock never finds an inode without a type.
LockNeverAborts ==
  \A c \in Clients :
    pc[c] \in {"open_load", "unlink_load", "create_load", "list_load"} => LoadAsserts(ip[c])

\* The inode's mutex is free when inode_put takes it with INodeCache::mtx held.
PutNeverBlocks == \A c \in Clients : pc[c] = "put_lock" => ilock[ip[c]] = None

\* op_readdir's inode_put never has a file to free, which it would do outside of
\* any operation of the log: the name it came by is still there.
ListingFreesNothing ==
  \A c \in Clients : pc[c] = "list_put" => ~LastOfUnlinked(ip[c])

\* An inode that nobody names and nobody has in hand is free, whatever order
\* its users came and went in, unless inode_alloc gave it out between the two
\* halves of the inode_put that had freed it: that put drops the last
\* reference without a second look.
LostOnlyIfReused ==
  \A i \in INums \ reused :
    disk[i] # Free => (\E n \in Names : dir[n] = i) \/ (\E c \in Clients : ip[c] = i)

============================================================================
