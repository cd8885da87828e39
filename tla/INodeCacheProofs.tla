-------------------------- MODULE INodeCacheProofs --------------------------
(***************************************************************************)
(* Proofs about INodeCache, for any number of clients, inodes and names.   *)
(***************************************************************************)
EXTENDS INodeCache, FiniteSetTheorems, TLAPS

----------------------------------------------------------------------------
(* The inductive invariant.                                                *)

\* An allocated inode with k links.
File(k) == [type |-> "T_FILE", nlink |-> k]

Named(i) == \E n \in Names : dir[n] = i

\* Inside create before the name is linked; after an existing name was looked
\* up and before the call is over; where calls may share a path.
CreatePCs == {"get", "create_lock", "create_load"}
NamedPCs == {"open_lock", "open_load", "unlock", "list_lock", "list_load",
             "list_unlock", "list_put", "unlink_lock", "unlink_load"}
SharedPCs == {"open_lock", "open_load", "unlock",
              "list_lock", "list_load", "list_unlock", "list_put"}

\* Where the inode's mutex is held; where the inode was loaded by this client.
HoldPCs == {"open_load", "unlink_load", "create_load", "list_load", "unlock",
            "unlock_put", "list_unlock", "trunc", "inval"}
LoadedPCs == {"unlock", "open", "unlock_put", "put", "list_unlock", "list_put",
              "put_lock", "trunc", "inval"}

\* A call in progress, its path and the directory.
PathsOK ==
  /\ \A c \in Clients : pc[c] = "idle" <=> ip[c] = None
  /\ \A c \in Clients :
       pc[c] \in CreatePCs => name[c] \in Names /\ dir[name[c]] = None
  /\ \A c \in Clients :
       pc[c] \in NamedPCs => name[c] \in Names /\ dir[name[c]] = ip[c]
  /\ \A c, d \in Clients :
       c # d /\ name[c] = name[d] /\ name[c] # None => pc[c] \in SharedPCs

\* Who holds which mutex.
LocksOK ==
  /\ \A c \in Clients : pc[c] = "put_lock" <=> mtx = c
  /\ \A i \in INums, c \in Clients :
       ilock[i] = c <=> ip[c] = i /\ pc[c] \in HoldPCs

\* The inode blocks and the directory agree: an inode has one name and one
\* link, or none.
DiskOK ==
  /\ \A i \in INums : disk[i] \in {Free, File(0), File(1)}
  /\ \A i \in INums : disk[i] = File(1) <=> Named(i)
  /\ \A n, m \in Names : dir[n] = dir[m] /\ dir[n] # None => n = m

\* An inode in use is allocated; one that was loaded stays valid.
UseOK ==
  /\ \A c \in Clients : pc[c] \notin {"idle", "inval", "drop"} => disk[ip[c]] # Free
  /\ \A c \in Clients : pc[c] \in LoadedPCs => valid[ip[c]]

\* A creator is alone at its inode, but for an inode_put that freed the inode
\* before.
CreatorOK ==
  /\ \A c \in Clients : pc[c] \in CreatePCs => disk[ip[c]] = File(0)
  /\ \A c, d \in Clients :
       c # d /\ ip[c] = ip[d] /\ pc[c] \in CreatePCs => pc[d] \in {"inval", "drop"}

\* An inode_put that frees an inode is alone until the inode is free, and there
\* is no second one.
FreerOK ==
  /\ \A i \in INums, c \in Clients :
       ip[c] = i /\ pc[c] \in {"put_lock", "trunc", "inval"} => ~Named(i)
  /\ \A c, d \in Clients :
       c # d /\ pc[c] \in {"put_lock", "trunc"} => ip[d] # ip[c]
  /\ \A c, d \in Clients :
       c # d /\ ip[c] = ip[d] /\ pc[c] = "inval" => pc[d] \in {"get", "create_lock"}
  /\ \A c, d \in Clients :
       c # d /\ ip[c] = ip[d] /\ pc[c] = "drop" => pc[d] # "drop"

\* A valid copy in memory is what the block says, except between trunc and
\* valid = false.
CacheOK ==
  \A i \in inodes :
    valid[i] => \/ dinode[i] = disk[i] /\ disk[i] # Free
                \/ \E c \in Clients : ip[c] = i /\ pc[c] = "inval"

\* What the history variable remembers.
ReuseOK ==
  \A c \in Clients :
    pc[c] \in {"inval", "drop"} /\ disk[ip[c]] # Free => ip[c] \in reused

IInv ==
  /\ TypeOK
  /\ PathsOK
  /\ LocksOK
  /\ DiskOK
  /\ UseOK
  /\ CreatorOK
  /\ FreerOK
  /\ CacheOK
  /\ ReuseOK
  /\ RefExact
  /\ LostOnlyIfReused

USE INodeAssumption DEF PCs, CreatePCs, NamedPCs, SharedPCs, HoldPCs, LoadedPCs

----------------------------------------------------------------------------
(* The values of an inode block, and the pointers to an inode.             *)

\* The three contents an inode block has, told apart.
LEMMA Contents ==
  /\ Free.type = "Invalid" /\ Free.nlink = 0
  /\ File(0).type = "T_FILE" /\ File(0).nlink = 0
  /\ File(1).type = "T_FILE" /\ File(1).nlink = 1
  /\ Free # File(0) /\ Free # File(1) /\ File(0) # File(1)
  /\ [Free EXCEPT !.type = "T_FILE"] = File(0)
  /\ [File(1) EXCEPT !.nlink = @ - 1] = File(0)
  /\ [File(0) EXCEPT !.nlink = 1] = File(1)
  /\ [File(0) EXCEPT !.nlink = 0] = File(0)
BY DEF Free, File

\* One link is within the type of an inode block once there is a name.
LEMMA ContentsType ==
  /\ Free \in DiskINode /\ File(0) \in DiskINode
  /\ Names # {} => File(1) \in DiskINode
<1>1. Cardinality(Names) \in Nat
  BY FS_CardinalityType
<1>2. Names # {} => Cardinality(Names) # 0
  BY FS_EmptySet
<1> QED
  BY <1>1, <1>2 DEF DiskINode, Free, File

\* A client inside a call has an inode.
LEMMA InCall ==
  ASSUME IInv, NEW c \in Clients, pc[c] # "idle"
  PROVE  ip[c] \in INums
BY DEF IInv, TypeOK, PathsOK

\* There are finitely many clients, so the pointers to an inode can be counted.
LEMMA PointersFinite ==
  ASSUME NEW i \in INums
  PROVE  IsFiniteSet(Pointers(i)) /\ Cardinality(Pointers(i)) \in Nat
<1>1. Pointers(i) \in SUBSET Clients
  BY DEF Pointers
<1> QED
  BY <1>1, FS_Subset, FS_CardinalityType

\* inode_get gives a pointer to a client that had none.
LEMMA GetAddsPointer ==
  ASSUME IInv, NEW c \in Clients, NEW i \in INums, InodeGet(c, i),
         pc[c] = "idle" \/ (pc[c] = "get" /\ ip[c] = i),
         NEW l \in PCs \ {"idle", "get"}, Goto(c, l)
  PROVE  /\ c \notin Pointers(i)
         /\ Pointers(i)' = Pointers(i) \cup {c}
         /\ \A j \in INums \ {i} : Pointers(j)' = Pointers(j)
BY DEF InodeGet, Goto, Pointers, IInv, TypeOK, PathsOK

\* ref-- takes one away.
LEMMA DropRemovesPointer ==
  ASSUME IInv, NEW c \in Clients, pc[c] \notin {"idle", "get"}, DropRef(c),
         NEW i, i = ip[c]
  PROVE  /\ i \in INums /\ c \in Pointers(i)
         /\ Pointers(i)' = Pointers(i) \ {c}
         /\ \A j \in INums \ {i} : Pointers(j)' = Pointers(j)
<1>1. i \in INums
  BY InCall
<1> QED
  BY <1>1 DEF DropRef, Goto, Pointers, IInv, TypeOK

\* The other steps leave the pointers as they are.
LEMMA PointersKept ==
  ASSUME IInv, NEW c \in Clients, NEW l \in PCs \ {"idle", "get"}, Goto(c, l),
         pc[c] \notin {"idle", "get"}, ip' = ip
  PROVE  \A i \in INums : Pointers(i)' = Pointers(i)
BY DEF Goto, Pointers, IInv, TypeOK

\* A reference count of one means the only pointer.
LEMMA OnlyPointer ==
  ASSUME IInv, NEW i \in INums, NEW c \in Pointers(i)
  PROVE  /\ i \in inodes /\ ref[i] >= 1
         /\ ref[i] = Cardinality(Pointers(i))
         /\ ref[i] = 1 => Pointers(i) = {c}
<1>1. i \in inodes /\ ref[i] = Cardinality(Pointers(i))
  BY DEF IInv, RefExact
<1>2. /\ Cardinality(Pointers(i) \ {c}) = Cardinality(Pointers(i)) - 1
      /\ IsFiniteSet(Pointers(i) \ {c})
  BY PointersFinite, FS_RemoveElement
<1>3. Cardinality(Pointers(i) \ {c}) \in Nat
  BY <1>2, FS_CardinalityType
<1>4. Cardinality(Pointers(i) \ {c}) = 0 => Pointers(i) = {c}
  BY <1>2, FS_EmptySet
<1> QED
  BY <1>1, <1>2, <1>3, <1>4, PointersFinite

\* The history, in a step that leaves the inode blocks alone.
LEMMA RememberKept ==
  ASSUME IInv, Remember, disk' = disk
  PROVE  reused' = {i \in reused : disk[i] # Free} /\ reused' \subseteq INums
BY DEF Remember, IInv, TypeOK

\* A client that holds the inode's mutex works on what the block says.
LEMMA LoadedIsDisk ==
  ASSUME IInv, NEW c \in Clients, pc[c] \in {"unlink_load", "create_load"}
  PROVE  ip[c] \in INums /\ Loaded(ip[c]) = disk[ip[c]]
<1>1. ip[c] \in INums
  BY InCall
<1>2. c \in Pointers(ip[c])
  BY <1>1 DEF Pointers
<1>3. ip[c] \in inodes
  BY <1>1, <1>2 DEF IInv, RefExact
<1>4. \A d \in Clients : ~(ip[d] = ip[c] /\ pc[d] = "inval")
  BY <1>1 DEF IInv, LocksOK
<1> QED
  BY <1>1, <1>3, <1>4 DEF Loaded, IInv, CacheOK

----------------------------------------------------------------------------
(* Every step keeps the invariant.                                         *)

\* Init: an empty directory, nothing cached.
LEMMA InitInv == Init => IInv
<1> SUFFICES ASSUME Init PROVE IInv
  OBVIOUS
<1>1. \A i \in INums : Pointers(i) = {} /\ ~Named(i)
  BY DEF Init, Pointers, Named
<1> QED
  BY <1>1, Contents, ContentsType DEF Init, IInv, TypeOK, PathsOK, LocksOK, DiskOK,
     UseOK, CreatorOK, FreerOK, CacheOK, ReuseOK, RefExact, LostOnlyIfReused

\* INode::lock takes the mutex.
LEMMA LockInv ==
  ASSUME IInv, NEW c \in Clients, Lock(c), Remember
  PROVE  IInv'
<1> USE DEF Lock, LockThen, Goto
<1>i. ip[c] \in INums
  BY InCall
<1>r. reused' = {i \in reused : disk[i] # Free} /\ reused' \subseteq INums
  BY RememberKept
<1>n. \A i \in INums : Named(i)' <=> Named(i)
  BY DEF Named
<1>p. \A i \in INums : Pointers(i)' = Pointers(i)
  BY PointersKept
<1>1. TypeOK'
  BY <1>i, <1>r DEF IInv, TypeOK
<1>2. PathsOK'
  BY <1>i DEF IInv, TypeOK, PathsOK
<1>3. LocksOK'
  BY <1>i DEF IInv, TypeOK, LocksOK
<1>4. DiskOK'
  BY <1>i, <1>n DEF IInv, TypeOK, DiskOK
<1>5. UseOK'
  BY <1>i DEF IInv, TypeOK, UseOK
<1>6. CreatorOK'
  BY <1>i DEF IInv, TypeOK, CreatorOK
<1>7. FreerOK'
  BY <1>i, <1>n DEF IInv, TypeOK, FreerOK, LocksOK
<1>8. CacheOK'
  BY <1>i DEF IInv, TypeOK, CacheOK
<1>9. ReuseOK'
  BY <1>i, <1>r DEF IInv, TypeOK, ReuseOK
<1>10. RefExact'
  BY <1>i, <1>p DEF IInv, TypeOK, RefExact
<1>11. LostOnlyIfReused'
  BY <1>i, <1>r DEF IInv, TypeOK, LostOnlyIfReused, Named
<1> QED
  BY <1>1, <1>2, <1>3, <1>4, <1>5, <1>6, <1>7, <1>8, <1>9, <1>10, <1>11 DEF IInv

\* INode::lock reads the inode, in an open or a listing.
LEMMA LoadInv ==
  ASSUME IInv, NEW c \in Clients, OpenLoad(c) \/ ListLoad(c), Remember
  PROVE  IInv'
<1>e. /\ valid' = [valid EXCEPT ![ip[c]] = TRUE]
      /\ UNCHANGED <<mtx, inodes, ref, ilock, disk, dir, ip, name>>
      /\ \/ pc[c] = "open_load" /\ pc' = [pc EXCEPT ![c] = "unlock"]
         \/ pc[c] = "list_load" /\ pc' = [pc EXCEPT ![c] = "list_unlock"]
  BY DEF OpenLoad, ListLoad, Load, Goto
<1>i. ip[c] \in INums
  BY <1>e, InCall
<1>l. PICK x \in DiskINode :
        /\ (x = dinode[ip[c]] /\ valid[ip[c]]) \/ (x = disk[ip[c]] /\ ~valid[ip[c]])
        /\ dinode' = [dinode EXCEPT ![ip[c]] = x]
  BY <1>i DEF OpenLoad, ListLoad, Load, Loaded, IInv, TypeOK
<1>r. reused' = {i \in reused : disk[i] # Free} /\ reused' \subseteq INums
  BY <1>e, RememberKept
<1>n. \A i \in INums : Named(i)' <=> Named(i)
  BY <1>e DEF Named
<1>p. \A i \in INums : Pointers(i)' = Pointers(i)
  BY <1>e, PointersKept DEF Goto
<1>1. TypeOK'
  BY <1>e, <1>i, <1>l, <1>r DEF IInv, TypeOK
<1>2. PathsOK'
  BY <1>e, <1>i, <1>l DEF IInv, TypeOK, PathsOK
<1>3. LocksOK'
  BY <1>e, <1>i, <1>l DEF IInv, TypeOK, LocksOK
<1>4. DiskOK'
  BY <1>e, <1>i, <1>l, <1>n DEF IInv, TypeOK, DiskOK
<1>5. UseOK'
  BY <1>e, <1>i, <1>l DEF IInv, TypeOK, UseOK
<1>6. CreatorOK'
  BY <1>e, <1>i, <1>l DEF IInv, TypeOK, CreatorOK
<1>7. FreerOK'
  BY <1>e, <1>i, <1>l, <1>n DEF IInv, TypeOK, FreerOK
<1>8. CacheOK'
  <2> SUFFICES ASSUME NEW j \in inodes, valid'[j]
               PROVE  \/ dinode'[j] = disk[j] /\ disk[j] # Free
                      \/ \E d \in Clients : ip[d] = j /\ pc'[d] = "inval"
    BY <1>e DEF CacheOK
  <2>1. CASE j = ip[c]
    BY <2>1, <1>i, <1>l, <1>e DEF IInv, TypeOK, CacheOK, UseOK
  <2>2. CASE j # ip[c]
    BY <2>2, <1>i, <1>l, <1>e DEF IInv, TypeOK, CacheOK
  <2> QED
    BY <2>1, <2>2
<1>9. ReuseOK'
  BY <1>e, <1>i, <1>l, <1>r DEF IInv, TypeOK, ReuseOK
<1>10. RefExact'
  BY <1>e, <1>i, <1>l, <1>p DEF IInv, TypeOK, RefExact
<1>11. LostOnlyIfReused'
  BY <1>e, <1>i, <1>l, <1>r DEF IInv, TypeOK, LostOnlyIfReused, Named
<1> QED
  BY <1>1, <1>2, <1>3, <1>4, <1>5, <1>6, <1>7, <1>8, <1>9, <1>10, <1>11 DEF IInv

\* The handle keeps the reference.
LEMMA UnlockInv ==
  ASSUME IInv, NEW c \in Clients, Unlock(c), Remember
  PROVE  IInv'
<1> USE DEF Unlock, Goto
<1>i. ip[c] \in INums
  BY InCall
<1>r. reused' = {i \in reused : disk[i] # Free} /\ reused' \subseteq INums
  BY RememberKept
<1>n. \A i \in INums : Named(i)' <=> Named(i)
  BY DEF Named
<1>p. \A i \in INums : Pointers(i)' = Pointers(i)
  BY PointersKept
<1>1. TypeOK'
  BY <1>i, <1>r DEF IInv, TypeOK
<1>2. PathsOK'
  BY <1>i DEF IInv, TypeOK, PathsOK
<1>3. LocksOK'
  BY <1>i DEF IInv, TypeOK, LocksOK
<1>4. DiskOK'
  BY <1>i, <1>n DEF IInv, TypeOK, DiskOK
<1>5. UseOK'
  BY <1>i DEF IInv, TypeOK, UseOK
<1>6. CreatorOK'
  BY <1>i DEF IInv, TypeOK, CreatorOK
<1>7. FreerOK'
  BY <1>i, <1>n DEF IInv, TypeOK, FreerOK
<1>8. CacheOK'
  BY <1>i DEF IInv, TypeOK, CacheOK
<1>9. ReuseOK'
  BY <1>i, <1>r DEF IInv, TypeOK, ReuseOK
<1>10. RefExact'
  BY <1>i, <1>p DEF IInv, TypeOK, RefExact
<1>11. LostOnlyIfReused'
  BY <1>i, <1>r DEF IInv, TypeOK, LostOnlyIfReused, Named
<1> QED
  BY <1>1, <1>2, <1>3, <1>4, <1>5, <1>6, <1>7, <1>8, <1>9, <1>10, <1>11 DEF IInv

\* inode_unlock_put's unlock.
LEMMA UnlockPutInv ==
  ASSUME IInv, NEW c \in Clients, Remember,
         UnlockPut(c, "unlock_put", "put") \/ UnlockPut(c, "list_unlock", "list_put")
  PROVE  IInv'
<1> USE DEF UnlockPut, Goto
<1>i. ip[c] \in INums
  BY InCall
<1>r. reused' = {i \in reused : disk[i] # Free} /\ reused' \subseteq INums
  BY RememberKept
<1>n. \A i \in INums : Named(i)' <=> Named(i)
  BY DEF Named
<1>p. \A i \in INums : Pointers(i)' = Pointers(i)
  BY PointersKept
<1>1. TypeOK'
  BY <1>i, <1>r DEF IInv, TypeOK
<1>2. PathsOK'
  BY <1>i DEF IInv, TypeOK, PathsOK
<1>3. LocksOK'
  BY <1>i DEF IInv, TypeOK, LocksOK
<1>4. DiskOK'
  BY <1>i, <1>n DEF IInv, TypeOK, DiskOK
<1>5. UseOK'
  BY <1>i DEF IInv, TypeOK, UseOK
<1>6. CreatorOK'
  BY <1>i DEF IInv, TypeOK, CreatorOK
<1>7. FreerOK'
  BY <1>i, <1>n DEF IInv, TypeOK, FreerOK
<1>8. CacheOK'
  BY <1>i DEF IInv, TypeOK, CacheOK
<1>9. ReuseOK'
  BY <1>i, <1>r DEF IInv, TypeOK, ReuseOK
<1>10. RefExact'
  BY <1>i, <1>p DEF IInv, TypeOK, RefExact
<1>11. LostOnlyIfReused'
  BY <1>i, <1>r DEF IInv, TypeOK, LostOnlyIfReused, Named
<1> QED
  BY <1>1, <1>2, <1>3, <1>4, <1>5, <1>6, <1>7, <1>8, <1>9, <1>10, <1>11 DEF IInv

\* op_release.
LEMMA ReleaseInv ==
  ASSUME IInv, NEW c \in Clients, Release(c), Remember
  PROVE  IInv'
<1> USE DEF Release, Goto
<1>i. ip[c] \in INums
  BY InCall
<1>r. reused' = {i \in reused : disk[i] # Free} /\ reused' \subseteq INums
  BY RememberKept
<1>n. \A i \in INums : Named(i)' <=> Named(i)
  BY DEF Named
<1>p. \A i \in INums : Pointers(i)' = Pointers(i)
  BY PointersKept
<1>1. TypeOK'
  BY <1>i, <1>r DEF IInv, TypeOK
<1>2. PathsOK'
  BY <1>i DEF IInv, TypeOK, PathsOK
<1>3. LocksOK'
  BY <1>i DEF IInv, TypeOK, LocksOK
<1>4. DiskOK'
  BY <1>i, <1>n DEF IInv, TypeOK, DiskOK
<1>5. UseOK'
  BY <1>i DEF IInv, TypeOK, UseOK
<1>6. CreatorOK'
  BY <1>i DEF IInv, TypeOK, CreatorOK
<1>7. FreerOK'
  BY <1>i, <1>n DEF IInv, TypeOK, FreerOK
<1>8. CacheOK'
  BY <1>i DEF IInv, TypeOK, CacheOK
<1>9. ReuseOK'
  BY <1>i, <1>r DEF IInv, TypeOK, ReuseOK
<1>10. RefExact'
  BY <1>i, <1>p DEF IInv, TypeOK, RefExact
<1>11. LostOnlyIfReused'
  BY <1>i, <1>r DEF IInv, TypeOK, LostOnlyIfReused, Named
<1> QED
  BY <1>1, <1>2, <1>3, <1>4, <1>5, <1>6, <1>7, <1>8, <1>9, <1>10, <1>11 DEF IInv

\* inode_put takes the inode's mutex and gives the cache's back.
LEMMA PutLockInv ==
  ASSUME IInv, NEW c \in Clients, PutLock(c), Remember
  PROVE  IInv'
<1> USE DEF PutLock, Goto
<1>i. ip[c] \in INums
  BY InCall
<1>r. reused' = {i \in reused : disk[i] # Free} /\ reused' \subseteq INums
  BY RememberKept
<1>n. \A i \in INums : Named(i)' <=> Named(i)
  BY DEF Named
<1>p. \A i \in INums : Pointers(i)' = Pointers(i)
  BY PointersKept
<1>1. TypeOK'
  BY <1>i, <1>r DEF IInv, TypeOK
<1>2. PathsOK'
  BY <1>i DEF IInv, TypeOK, PathsOK
<1>3. LocksOK'
  BY <1>i DEF IInv, TypeOK, LocksOK
<1>4. DiskOK'
  BY <1>i, <1>n DEF IInv, TypeOK, DiskOK
<1>5. UseOK'
  BY <1>i DEF IInv, TypeOK, UseOK
<1>6. CreatorOK'
  BY <1>i DEF IInv, TypeOK, CreatorOK
<1>7. FreerOK'
  BY <1>i, <1>n DEF IInv, TypeOK, FreerOK
<1>8. CacheOK'
  BY <1>i DEF IInv, TypeOK, CacheOK
<1>9. ReuseOK'
  BY <1>i, <1>r DEF IInv, TypeOK, ReuseOK
<1>10. RefExact'
  BY <1>i, <1>p DEF IInv, TypeOK, RefExact
<1>11. LostOnlyIfReused'
  BY <1>i, <1>r DEF IInv, TypeOK, LostOnlyIfReused, Named
<1> QED
  BY <1>1, <1>2, <1>3, <1>4, <1>5, <1>6, <1>7, <1>8, <1>9, <1>10, <1>11 DEF IInv

\* valid = false.
LEMMA InvalidateInv ==
  ASSUME IInv, NEW c \in Clients, Invalidate(c), Remember
  PROVE  IInv'
<1> USE DEF Invalidate, ValidAfterFree, Goto
<1>i. ip[c] \in INums
  BY InCall
<1>r. reused' = {i \in reused : disk[i] # Free} /\ reused' \subseteq INums
  BY RememberKept
<1>n. \A i \in INums : Named(i)' <=> Named(i)
  BY DEF Named
<1>p. \A i \in INums : Pointers(i)' = Pointers(i)
  BY PointersKept
<1>1. TypeOK'
  BY <1>i, <1>r DEF IInv, TypeOK
<1>2. PathsOK'
  BY <1>i DEF IInv, TypeOK, PathsOK
<1>3. LocksOK'
  BY <1>i DEF IInv, TypeOK, LocksOK
<1>4. DiskOK'
  BY <1>i, <1>n DEF IInv, TypeOK, DiskOK
<1>5. UseOK'
  BY <1>i DEF IInv, TypeOK, UseOK, FreerOK
<1>6. CreatorOK'
  BY <1>i DEF IInv, TypeOK, CreatorOK
<1>7. FreerOK'
  BY <1>i, <1>n DEF IInv, TypeOK, FreerOK
<1>8. CacheOK'
  BY <1>i DEF IInv, TypeOK, CacheOK
<1>9. ReuseOK'
  BY <1>i, <1>r DEF IInv, TypeOK, ReuseOK
<1>10. RefExact'
  BY <1>i, <1>p DEF IInv, TypeOK, RefExact
<1>11. LostOnlyIfReused'
  BY <1>i, <1>r DEF IInv, TypeOK, LostOnlyIfReused, Named
<1> QED
  BY <1>1, <1>2, <1>3, <1>4, <1>5, <1>6, <1>7, <1>8, <1>9, <1>10, <1>11 DEF IInv

\* inode_put frees the inode on disk.
LEMMA TruncInv ==
  ASSUME IInv, NEW c \in Clients, Trunc(c), Remember
  PROVE  IInv'
<1> USE DEF Trunc, Goto
<1>i. ip[c] \in INums
  BY InCall
<1>n. \A i \in INums : Named(i)' <=> Named(i)
  BY DEF Named
<1>p. \A i \in INums : Pointers(i)' = Pointers(i)
  BY PointersKept
<1>a. /\ \A d \in Clients \ {c} : ip[d] # ip[c]
      /\ ~Named(ip[c])
  BY <1>i DEF IInv, FreerOK
<1>r. reused' = {j \in reused : disk'[j] # Free} /\ reused' \subseteq INums
  BY <1>i DEF Remember, IInv, TypeOK
<1>1. TypeOK'
  BY <1>i, <1>a, <1>r, ContentsType DEF IInv, TypeOK
<1>2. PathsOK'
  BY <1>i, <1>a DEF IInv, TypeOK, PathsOK
<1>3. LocksOK'
  BY <1>i, <1>a DEF IInv, TypeOK, LocksOK
<1>4. DiskOK'
  BY <1>i, <1>n, <1>a, Contents DEF IInv, TypeOK, DiskOK
<1>5. UseOK'
  BY <1>i, <1>a DEF IInv, TypeOK, UseOK
<1>6. CreatorOK'
  BY <1>i, <1>a DEF IInv, TypeOK, CreatorOK, FreerOK
<1>7. FreerOK'
  BY <1>i, <1>n, <1>a DEF IInv, TypeOK, FreerOK
<1>8. CacheOK'
  BY <1>i, <1>a DEF IInv, TypeOK, CacheOK, LocksOK
<1>9. ReuseOK'
  BY <1>i, <1>a, <1>r DEF IInv, TypeOK, ReuseOK
<1>10. RefExact'
  BY <1>i, <1>p, <1>a DEF IInv, TypeOK, RefExact
<1>11. LostOnlyIfReused'
  BY <1>i, <1>a, <1>r DEF IInv, TypeOK, LostOnlyIfReused, Named
<1> QED
  BY <1>1, <1>2, <1>3, <1>4, <1>5, <1>6, <1>7, <1>8, <1>9, <1>10, <1>11 DEF IInv

\* inode_put finds that it has to free the inode.
LEMMA PutLastInv ==
  ASSUME IInv, NEW c \in Clients, PutLast(c), Remember
  PROVE  IInv'
<1> USE DEF PutLast, Putting, LastOfUnlinked, Goto
<1>i. ip[c] \in INums
  BY InCall
<1>n. \A i \in INums : Named(i)' <=> Named(i)
  BY DEF Named
<1>p. \A i \in INums : Pointers(i)' = Pointers(i)
  BY PointersKept
<1>r. reused' = {i \in reused : disk[i] # Free} /\ reused' \subseteq INums
  BY RememberKept
<1>q. ip[c] \in inodes /\ Pointers(ip[c]) = {c}
  <2>1. c \in Pointers(ip[c])
    BY <1>i DEF Pointers
  <2> QED
    BY <2>1, <1>i, OnlyPointer
<1>a. \A d \in Clients \ {c} : ip[d] # ip[c]
  BY <1>i, <1>q DEF Pointers, IInv, CreatorOK
<1>z. ~Named(ip[c])
  BY <1>i, <1>q, <1>a, Contents DEF IInv, CacheOK, DiskOK
<1>y. pc[c] = "put"
  BY <1>i, <1>z DEF IInv, PathsOK, Named
<1>1. TypeOK'
  BY <1>i, <1>r, <1>a, <1>z, <1>y DEF IInv, TypeOK
<1>2. PathsOK'
  BY <1>i, <1>a, <1>z, <1>y DEF IInv, TypeOK, PathsOK
<1>3. LocksOK'
  BY <1>i, <1>a, <1>z, <1>y DEF IInv, TypeOK, LocksOK
<1>4. DiskOK'
  BY <1>i, <1>n, <1>a, <1>z, <1>y DEF IInv, TypeOK, DiskOK
<1>5. UseOK'
  BY <1>i, <1>a, <1>z, <1>y DEF IInv, TypeOK, UseOK
<1>6. CreatorOK'
  BY <1>i, <1>a, <1>z, <1>y DEF IInv, TypeOK, CreatorOK
<1>7. FreerOK'
  BY <1>i, <1>n, <1>a, <1>z, <1>y DEF IInv, TypeOK, FreerOK
<1>8. CacheOK'
  BY <1>i, <1>a, <1>z, <1>y DEF IInv, TypeOK, CacheOK
<1>9. ReuseOK'
  BY <1>i, <1>r, <1>a, <1>z, <1>y DEF IInv, TypeOK, ReuseOK
<1>10. RefExact'
  BY <1>i, <1>p, <1>q, <1>a, <1>z, <1>y DEF IInv, TypeOK, RefExact
<1>11. LostOnlyIfReused'
  BY <1>i, <1>r, <1>a, <1>z, <1>y DEF IInv, TypeOK, LostOnlyIfReused, Named
<1> QED
  BY <1>1, <1>2, <1>3, <1>4, <1>5, <1>6, <1>7, <1>8, <1>9, <1>10, <1>11 DEF IInv

\* inode_alloc finds no free inode.
LEMMA AllocFailsInv ==
  ASSUME IInv, NEW c \in Clients, UNCHANGED state, Remember
  PROVE  IInv'
<1> USE DEF state
<1>r. reused' = {i \in reused : disk[i] # Free} /\ reused' \subseteq INums
  BY RememberKept
<1>n. \A i \in INums : Named(i)' <=> Named(i)
  BY DEF Named
<1>p. \A i \in INums : Pointers(i)' = Pointers(i)
  BY DEF Pointers
<1>1. TypeOK'
  BY <1>r DEF IInv, TypeOK
<1>2. PathsOK'
  BY DEF IInv, TypeOK, PathsOK
<1>3. LocksOK'
  BY DEF IInv, TypeOK, LocksOK
<1>4. DiskOK'
  BY <1>n DEF IInv, TypeOK, DiskOK
<1>5. UseOK'
  BY DEF IInv, TypeOK, UseOK
<1>6. CreatorOK'
  BY DEF IInv, TypeOK, CreatorOK
<1>7. FreerOK'
  BY <1>n DEF IInv, TypeOK, FreerOK
<1>8. CacheOK'
  BY DEF IInv, TypeOK, CacheOK
<1>9. ReuseOK'
  BY <1>r DEF IInv, TypeOK, ReuseOK
<1>10. RefExact'
  BY <1>p DEF IInv, TypeOK, RefExact
<1>11. LostOnlyIfReused'
  BY <1>r DEF IInv, TypeOK, LostOnlyIfReused, Named
<1> QED
  BY <1>1, <1>2, <1>3, <1>4, <1>5, <1>6, <1>7, <1>8, <1>9, <1>10, <1>11 DEF IInv

\* do_unlink clears the entry and counts the link down.
LEMMA UnlinkInv ==
  ASSUME IInv, NEW c \in Clients, Unlink(c), Remember
  PROVE  IInv'
<1>m. name[c] \in Names /\ dir[name[c]] = ip[c] /\ ip[c] \in INums
  BY InCall DEF Unlink, IInv, PathsOK
<1>l. Loaded(ip[c]) = File(1) /\ disk[ip[c]] = File(1)
  BY <1>m, LoadedIsDisk DEF Unlink, IInv, DiskOK, Named
<1>e. /\ pc[c] = "unlink_load" /\ ip[c] \in INums /\ disk[ip[c]] = File(1)
      /\ dinode' = [dinode EXCEPT ![ip[c]] = File(0)]
      /\ disk' = [disk EXCEPT ![ip[c]] = File(0)]
      /\ valid' = [valid EXCEPT ![ip[c]] = TRUE]
      /\ dir' = [dir EXCEPT ![name[c]] = None]
      /\ pc' = [pc EXCEPT ![c] = "unlock_put"]
      /\ UNCHANGED <<mtx, inodes, ref, ilock, ip, name>>
  BY <1>m, <1>l, Contents DEF Unlink, Update, ClearEntry, Goto
<1>n. \A i \in INums : Named(i)' <=> Named(i) /\ i # ip[c]
  BY <1>m, <1>e DEF Named, IInv, DiskOK, TypeOK
<1>x. \A d \in Clients \ {c} : name[d] # name[c]
  BY <1>m, <1>e DEF IInv, PathsOK
<1>p. \A i \in INums : Pointers(i)' = Pointers(i)
  BY <1>e, PointersKept DEF Goto
<1>r. reused' = {j \in reused : disk'[j] # Free} /\ reused' \subseteq INums
  BY <1>e, Contents DEF Remember, IInv, TypeOK
<1>1. TypeOK'
  BY <1>m, <1>l, <1>e, <1>x, <1>r, ContentsType DEF IInv, TypeOK
<1>2. PathsOK'
  BY <1>m, <1>l, <1>e, <1>x DEF IInv, TypeOK, PathsOK, DiskOK
<1>3. LocksOK'
  BY <1>m, <1>l, <1>e, <1>x DEF IInv, TypeOK, LocksOK
<1>4. DiskOK'
  BY <1>m, <1>l, <1>e, <1>n, <1>x, Contents DEF IInv, TypeOK, DiskOK
<1>5. UseOK'
  BY <1>m, <1>l, <1>e, <1>x, Contents DEF IInv, TypeOK, UseOK
<1>6. CreatorOK'
  BY <1>m, <1>l, <1>e, <1>x, Contents DEF IInv, TypeOK, CreatorOK
<1>7. FreerOK'
  BY <1>m, <1>l, <1>e, <1>n, <1>x DEF IInv, TypeOK, FreerOK, LocksOK
<1>8. CacheOK'
  <2> SUFFICES ASSUME NEW j \in inodes, valid'[j]
               PROVE  \/ dinode'[j] = disk'[j] /\ disk'[j] # Free
                      \/ \E d \in Clients : ip[d] = j /\ pc'[d] = "inval"
    BY <1>e DEF CacheOK
  <2>1. CASE j = ip[c]
    BY <2>1, <1>e, Contents DEF IInv, TypeOK
  <2>2. CASE j # ip[c]
    BY <2>2, <1>e DEF IInv, TypeOK, CacheOK
  <2> QED
    BY <2>1, <2>2
<1>9. ReuseOK'
  BY <1>m, <1>l, <1>e, <1>x, <1>r, Contents DEF IInv, TypeOK, ReuseOK
<1>10. RefExact'
  BY <1>m, <1>l, <1>e, <1>x, <1>p DEF IInv, TypeOK, RefExact
<1>11. LostOnlyIfReused'
  BY <1>m, <1>l, <1>e, <1>x, <1>r, Contents DEF IInv, TypeOK, LostOnlyIfReused, Named
<1> QED
  BY <1>1, <1>2, <1>3, <1>4, <1>5, <1>6, <1>7, <1>8, <1>9, <1>10, <1>11 DEF IInv

\* create gives the new inode its link and its name.
LEMMA LinkNewInv ==
  ASSUME IInv, NEW c \in Clients, LinkNew(c), Remember
  PROVE  IInv'
<1>m. name[c] \in Names /\ dir[name[c]] = None /\ ip[c] \in INums
  BY InCall DEF LinkNew, IInv, PathsOK
<1>l. Loaded(ip[c]) = File(0) /\ disk[ip[c]] = File(0)
  BY <1>m, LoadedIsDisk DEF LinkNew, IInv, CreatorOK
<1>e. /\ pc[c] = "create_load" /\ ip[c] \in INums /\ disk[ip[c]] = File(0)
      /\ dinode' = [dinode EXCEPT ![ip[c]] = File(1)]
      /\ disk' = [disk EXCEPT ![ip[c]] = File(1)]
      /\ valid' = [valid EXCEPT ![ip[c]] = TRUE]
      /\ dir' = [dir EXCEPT ![name[c]] = ip[c]]
      /\ pc' = [pc EXCEPT ![c] = "unlock"]
      /\ UNCHANGED <<mtx, inodes, ref, ilock, ip, name>>
  BY <1>m, <1>l, Contents DEF LinkNew, Update, Goto
<1>n. \A i \in INums : Named(i)' <=> Named(i) \/ i = ip[c]
  BY <1>m, <1>e DEF Named, IInv, TypeOK
<1>o. ~Named(ip[c])
  BY <1>m, <1>e, Contents DEF IInv, DiskOK
<1>x. \A d \in Clients \ {c} : name[d] # name[c]
  BY <1>m, <1>e DEF IInv, PathsOK
<1>y. \A d \in Clients \ {c} : ip[d] = ip[c] => pc[d] = "drop"
  BY <1>m, <1>e DEF IInv, CreatorOK, LocksOK
<1>p. \A i \in INums : Pointers(i)' = Pointers(i)
  BY <1>e, PointersKept DEF Goto
<1>r. reused' = {j \in reused : disk'[j] # Free} /\ reused' \subseteq INums
  BY <1>e, Contents DEF Remember, IInv, TypeOK
<1>1. TypeOK'
  BY <1>m, <1>l, <1>e, <1>o, <1>x, <1>y, <1>r, ContentsType DEF IInv, TypeOK
<1>2. PathsOK'
  BY <1>m, <1>l, <1>e, <1>o, <1>x, <1>y DEF IInv, TypeOK, PathsOK
<1>3. LocksOK'
  BY <1>m, <1>l, <1>e, <1>o, <1>x, <1>y DEF IInv, TypeOK, LocksOK
<1>4. DiskOK'
  BY <1>m, <1>l, <1>e, <1>n, <1>o, <1>x, <1>y, Contents DEF IInv, TypeOK, DiskOK, Named
<1>5. UseOK'
  BY <1>m, <1>l, <1>e, <1>o, <1>x, <1>y, Contents DEF IInv, TypeOK, UseOK
<1>6. CreatorOK'
  BY <1>m, <1>l, <1>e, <1>o, <1>x, <1>y, Contents DEF IInv, TypeOK, CreatorOK
<1>7. FreerOK'
  BY <1>m, <1>l, <1>e, <1>n, <1>o, <1>x, <1>y DEF IInv, TypeOK, FreerOK
<1>8. CacheOK'
  <2> SUFFICES ASSUME NEW j \in inodes, valid'[j]
               PROVE  \/ dinode'[j] = disk'[j] /\ disk'[j] # Free
                      \/ \E d \in Clients : ip[d] = j /\ pc'[d] = "inval"
    BY <1>e DEF CacheOK
  <2>1. CASE j = ip[c]
    BY <2>1, <1>e, Contents DEF IInv, TypeOK
  <2>2. CASE j # ip[c]
    BY <2>2, <1>e DEF IInv, TypeOK, CacheOK
  <2> QED
    BY <2>1, <2>2
<1>9. ReuseOK'
  BY <1>m, <1>l, <1>e, <1>o, <1>x, <1>y, <1>r, Contents DEF IInv, TypeOK, ReuseOK
<1>10. RefExact'
  BY <1>m, <1>l, <1>e, <1>o, <1>x, <1>y, <1>p DEF IInv, TypeOK, RefExact
<1>11. LostOnlyIfReused'
  BY <1>m, <1>l, <1>e, <1>o, <1>x, <1>y, <1>r, Contents DEF IInv, TypeOK, LostOnlyIfReused, Named
<1> QED
  BY <1>1, <1>2, <1>3, <1>4, <1>5, <1>6, <1>7, <1>8, <1>9, <1>10, <1>11 DEF IInv

\* create finds no room for the entry and gives the inode up.
LEMMA LinkNewFailsInv ==
  ASSUME IInv, NEW c \in Clients, LinkNewFails(c), Remember
  PROVE  IInv'
<1>m. ip[c] \in INums
  BY InCall DEF LinkNewFails
<1>l. Loaded(ip[c]) = File(0) /\ disk[ip[c]] = File(0)
  BY <1>m, LoadedIsDisk DEF LinkNewFails, IInv, CreatorOK
<1>e. /\ pc[c] = "create_load" /\ ip[c] \in INums /\ disk[ip[c]] = File(0)
      /\ dinode' = [dinode EXCEPT ![ip[c]] = File(0)]
      /\ disk' = [disk EXCEPT ![ip[c]] = File(0)]
      /\ valid' = [valid EXCEPT ![ip[c]] = TRUE]
      /\ dir' = dir
      /\ pc' = [pc EXCEPT ![c] = "unlock_put"]
      /\ UNCHANGED <<mtx, inodes, ref, ilock, ip, name>>
  BY <1>m, <1>l, Contents DEF LinkNewFails, Update, Goto
<1>n. \A i \in INums : Named(i)' <=> Named(i)
  BY <1>m, <1>e DEF Named, IInv, TypeOK
<1>p. \A i \in INums : Pointers(i)' = Pointers(i)
  BY <1>e, PointersKept DEF Goto
<1>r. reused' = {j \in reused : disk'[j] # Free} /\ reused' \subseteq INums
  BY <1>e, Contents DEF Remember, IInv, TypeOK
<1>1. TypeOK'
  BY <1>m, <1>l, <1>e, <1>r, ContentsType DEF IInv, TypeOK
<1>2. PathsOK'
  BY <1>m, <1>l, <1>e DEF IInv, TypeOK, PathsOK
<1>3. LocksOK'
  BY <1>m, <1>l, <1>e DEF IInv, TypeOK, LocksOK
<1>4. DiskOK'
  BY <1>m, <1>l, <1>e, <1>n, Contents DEF IInv, TypeOK, DiskOK
<1>5. UseOK'
  BY <1>m, <1>l, <1>e, Contents DEF IInv, TypeOK, UseOK
<1>6. CreatorOK'
  BY <1>m, <1>l, <1>e, Contents DEF IInv, TypeOK, CreatorOK
<1>7. FreerOK'
  BY <1>m, <1>l, <1>e, <1>n DEF IInv, TypeOK, FreerOK
<1>8. CacheOK'
  <2> SUFFICES ASSUME NEW j \in inodes, valid'[j]
               PROVE  \/ dinode'[j] = disk'[j] /\ disk'[j] # Free
                      \/ \E d \in Clients : ip[d] = j /\ pc'[d] = "inval"
    BY <1>e DEF CacheOK
  <2>1. CASE j = ip[c]
    BY <2>1, <1>e, Contents DEF IInv, TypeOK
  <2>2. CASE j # ip[c]
    BY <2>2, <1>e DEF IInv, TypeOK, CacheOK
  <2> QED
    BY <2>1, <2>2
<1>9. ReuseOK'
  BY <1>m, <1>l, <1>e, <1>r, Contents DEF IInv, TypeOK, ReuseOK
<1>10. RefExact'
  BY <1>m, <1>l, <1>e, <1>p DEF IInv, TypeOK, RefExact
<1>11. LostOnlyIfReused'
  BY <1>m, <1>l, <1>e, <1>r, Contents DEF IInv, TypeOK, LostOnlyIfReused, Named
<1> QED
  BY <1>1, <1>2, <1>3, <1>4, <1>5, <1>6, <1>7, <1>8, <1>9, <1>10, <1>11 DEF IInv

\* The end of inode_put: the inode it gives up last has a name, is free, or was
\* given out again.
LEMMA DropRefInv ==
  ASSUME IInv, NEW c \in Clients, NEW i, i = ip[c],
         pc[c] \in {"put", "list_put", "drop"}, DropRef(c),
         UNCHANGED <<mtx, ilock, valid, dinode, disk, dir>>,
         i \notin reused /\ disk[i] # Free /\ ref[i] = 1 => Named(i), Remember
  PROVE  IInv'
<1>q. /\ i \in INums /\ c \in Pointers(i)
      /\ Pointers(i)' = Pointers(i) \ {c}
      /\ \A j \in INums \ {i} : Pointers(j)' = Pointers(j)
  BY DropRemovesPointer
<1>f. /\ i \in inodes /\ ref[i] >= 1 /\ ref[i] \in Nat
      /\ ref[i] = Cardinality(Pointers(i))
      /\ ref[i] = 1 => Pointers(i) = {c}
  BY <1>q, OnlyPointer DEF IInv, TypeOK
<1>g. /\ Cardinality(Pointers(i) \ {c}) = ref[i] - 1
      /\ ref[i] # 1 => Pointers(i) \ {c} # {}
  <2>1. Cardinality(Pointers(i) \ {c}) = Cardinality(Pointers(i)) - 1
    BY <1>q, PointersFinite, FS_RemoveElement
  <2>2. Pointers(i) \ {c} = {} => Cardinality(Pointers(i) \ {c}) = 0
    BY FS_EmptySet
  <2> QED
    BY <1>f, <2>1, <2>2
<1>e. /\ ref' = [ref EXCEPT ![i] = ref[i] - 1]
      /\ inodes' = IF ref[i] = 1 THEN inodes \ {i} ELSE inodes
      /\ ip' = [ip EXCEPT ![c] = None]
      /\ name' = [name EXCEPT ![c] = None]
      /\ pc' = [pc EXCEPT ![c] = "idle"]
  BY <1>f DEF DropRef, DropsLast, Goto
<1>r. reused' = {x \in reused : disk[x] # Free} /\ reused' \subseteq INums
  BY RememberKept
<1>n. \A x \in INums : Named(x)' <=> Named(x)
  BY DEF Named
<1>1. TypeOK'
  BY <1>q, <1>f, <1>g, <1>e, <1>r DEF IInv, TypeOK
<1>2. PathsOK'
  BY <1>q, <1>f, <1>g, <1>e DEF IInv, TypeOK, PathsOK
<1>3. LocksOK'
  BY <1>q, <1>f, <1>g, <1>e DEF IInv, TypeOK, LocksOK
<1>4. DiskOK'
  BY <1>q, <1>f, <1>g, <1>e, <1>n DEF IInv, TypeOK, DiskOK
<1>5. UseOK'
  BY <1>q, <1>f, <1>g, <1>e DEF IInv, TypeOK, UseOK
<1>6. CreatorOK'
  BY <1>q, <1>f, <1>g, <1>e DEF IInv, TypeOK, CreatorOK, PathsOK
<1>7. FreerOK'
  BY <1>q, <1>f, <1>g, <1>e, <1>n DEF IInv, TypeOK, FreerOK, PathsOK
<1>8. CacheOK'
  BY <1>q, <1>f, <1>g, <1>e DEF IInv, TypeOK, CacheOK
<1>9. ReuseOK'
  BY <1>q, <1>f, <1>g, <1>e, <1>r DEF IInv, TypeOK, ReuseOK
<1>10. RefExact'
  <2>1. /\ i \in inodes' <=> Pointers(i)' # {}
        /\ i \in inodes' => ref'[i] = Cardinality(Pointers(i))'
    BY <1>q, <1>f, <1>g, <1>e DEF IInv, TypeOK
  <2>2. ASSUME NEW j \in INums \ {i}
        PROVE  /\ j \in inodes' <=> Pointers(j)' # {}
               /\ j \in inodes' => ref'[j] = Cardinality(Pointers(j))'
    BY <2>2, <1>q, <1>e DEF IInv, TypeOK, RefExact
  <2> QED
    BY <2>1, <2>2 DEF RefExact
<1>11. LostOnlyIfReused'
  <2> SUFFICES ASSUME NEW j \in INums \ reused', disk[j] # Free
               PROVE  Named(j) \/ \E d \in Clients : ip'[d] = j
    BY <1>n DEF LostOnlyIfReused, Named
  <2>1. j \notin reused
    BY <1>r
  <2>2. CASE j = i /\ ref[i] = 1
    BY <2>1, <2>2
  <2>3. CASE j = i /\ ref[i] # 1
    <3>1. PICK d \in Clients \ {c} : ip[d] = i
      BY <1>g, <2>3 DEF Pointers
    <3> QED
      BY <3>1, <2>3, <1>e DEF IInv, TypeOK
  <2>4. CASE j # i
    BY <2>1, <2>4, <1>e DEF IInv, TypeOK, LostOnlyIfReused, Named
  <2> QED
    BY <2>2, <2>3, <2>4
<1> QED
  BY <1>1, <1>2, <1>3, <1>4, <1>5, <1>6, <1>7, <1>8, <1>9, <1>10, <1>11 DEF IInv

\* inode_put when there is nothing to free.
LEMMA PutInv ==
  ASSUME IInv, NEW c \in Clients, Put(c), Remember
  PROVE  IInv'
<1>1. PICK i : i = ip[c]
  OBVIOUS
<1>2. i \in INums /\ pc[c] \in {"put", "list_put"}
  BY <1>1, InCall DEF Put, Putting
<1>3. c \in Pointers(i)
  BY <1>1, <1>2 DEF Pointers
<1>4. i \in inodes /\ valid[i]
  BY <1>1, <1>2, <1>3, OnlyPointer DEF IInv, UseOK
<1>5. dinode[i] = disk[i] /\ disk[i] # Free
  <2>1. \A d \in Clients : ~(ip[d] = i /\ pc[d] = "inval")
    BY <1>1, <1>2 DEF IInv, FreerOK
  <2> QED
    BY <2>1, <1>4 DEF IInv, CacheOK
<1>6. ref[i] = 1 => Named(i)
  BY <1>1, <1>2, <1>4, <1>5, Contents DEF Put, LastOfUnlinked, IInv, DiskOK
<1> QED
  BY <1>1, <1>2, <1>6, DropRefInv DEF Put

\* inode_put after it freed the inode.
LEMMA PutDropInv ==
  ASSUME IInv, NEW c \in Clients, PutDrop(c), Remember
  PROVE  IInv'
<1>1. PICK i : i = ip[c]
  OBVIOUS
<1>2. disk[i] # Free => i \in reused
  BY <1>1 DEF PutDrop, IInv, ReuseOK
<1> QED
  BY <1>1, <1>2, DropRefInv DEF PutDrop

\* dirlookup and inode_get.
LEMMA LookupInv ==
  ASSUME IInv, NEW c \in Clients, NEW n \in Names, NEW i \in INums, i = dir[n],
         NEW l \in {"open_lock", "list_lock", "unlink_lock"}, Lookup(c, n, l),
         IF l = "unlink_lock" THEN PathFree(n) ELSE PathShared(n), Remember
  PROVE  IInv'
<1>q. /\ c \notin Pointers(i)
      /\ Pointers(i)' = Pointers(i) \cup {c}
      /\ \A j \in INums \ {i} : Pointers(j)' = Pointers(j)
  BY GetAddsPointer DEF Lookup
<1>e. /\ pc[c] = "idle" /\ ip[c] = None
      /\ inodes' = inodes \cup {i}
      /\ ref' = [ref EXCEPT ![i] = IF i \in inodes THEN @ + 1 ELSE 1]
      /\ valid' = [valid EXCEPT ![i] = i \in inodes /\ @]
      /\ ip' = [ip EXCEPT ![c] = i]
      /\ name' = [name EXCEPT ![c] = n]
      /\ pc' = [pc EXCEPT ![c] = l]
      /\ UNCHANGED <<mtx, ilock, dinode, disk, dir>>
  BY DEF Lookup, InodeGet, Goto, IInv, PathsOK
<1>m. Named(i) /\ disk[i] = File(1)
  BY DEF Named, IInv, DiskOK
<1>v. \A d \in Clients : ip[d] = i /\ pc[d] \in LoadedPCs => i \in inodes
  BY DEF IInv, RefExact, Pointers
<1>r. reused' = {x \in reused : disk[x] # Free} /\ reused' \subseteq INums
  BY <1>e, RememberKept
<1>n. \A x \in INums : Named(x)' <=> Named(x)
  BY <1>e DEF Named
<1>s. \A d \in Clients \ {c} : name[d] = n => pc[d] \in SharedPCs /\ l \in SharedPCs
  BY DEF PathFree, PathShared
<1>1. TypeOK'
  BY <1>q, <1>e, <1>m, <1>v, <1>r, <1>s DEF IInv, TypeOK
<1>2. PathsOK'
  BY <1>q, <1>e, <1>m, <1>v, <1>s DEF IInv, TypeOK, PathsOK
<1>3. LocksOK'
  BY <1>q, <1>e, <1>m, <1>v, <1>s DEF IInv, TypeOK, LocksOK
<1>4. DiskOK'
  BY <1>q, <1>e, <1>m, <1>v, <1>n, <1>s DEF IInv, TypeOK, DiskOK
<1>5. UseOK'
  BY <1>q, <1>e, <1>m, <1>v, <1>s, Contents DEF IInv, TypeOK, UseOK
<1>6. CreatorOK'
  BY <1>q, <1>e, <1>m, <1>v, <1>s, Contents DEF IInv, TypeOK, CreatorOK
<1>7. FreerOK'
  BY <1>q, <1>e, <1>m, <1>v, <1>n, <1>s DEF IInv, TypeOK, FreerOK
<1>8. CacheOK'
  <2> SUFFICES ASSUME NEW j \in inodes', valid'[j]
               PROVE  \/ dinode[j] = disk[j] /\ disk[j] # Free
                      \/ \E d \in Clients : ip'[d] = j /\ pc'[d] = "inval"
    BY <1>e DEF CacheOK
  <2>1. j \in inodes /\ valid[j]
    <3>1. DOMAIN valid = INums /\ j \in inodes \cup {i}
      BY <1>e DEF IInv, TypeOK
    <3>2. CASE j = i
      BY <1>e, <3>1, <3>2
    <3>3. CASE j # i
      BY <1>e, <3>1, <3>3
    <3> QED
      BY <3>2, <3>3
  <2>2. \/ dinode[j] = disk[j] /\ disk[j] # Free
        \/ \E d \in Clients \ {c} : ip[d] = j /\ pc[d] = "inval"
    BY <2>1, <1>e DEF IInv, CacheOK
  <2> QED
    BY <2>2, <1>e DEF IInv, TypeOK
<1>9. ReuseOK'
  BY <1>q, <1>e, <1>m, <1>v, <1>r, <1>s DEF IInv, TypeOK, ReuseOK
<1>10. RefExact'
  <2>1. /\ i \in inodes' /\ Pointers(i)' # {}
        /\ ref'[i] = Cardinality(Pointers(i))'
    <3>1. Cardinality(Pointers(i) \cup {c}) = Cardinality(Pointers(i)) + 1
      BY <1>q, PointersFinite, FS_AddElement
    <3>2. i \notin inodes => Cardinality(Pointers(i)) = 0
      BY FS_EmptySet DEF IInv, RefExact
    <3> QED
      BY <3>1, <3>2, <1>q, <1>e DEF IInv, TypeOK, RefExact
  <2>2. ASSUME NEW j \in INums \ {i}
        PROVE  /\ j \in inodes' <=> Pointers(j)' # {}
               /\ j \in inodes' => ref'[j] = Cardinality(Pointers(j))'
    BY <2>2, <1>q, <1>e DEF IInv, TypeOK, RefExact
  <2> QED
    BY <2>1, <2>2 DEF RefExact
<1>11. LostOnlyIfReused'
  BY <1>q, <1>e, <1>m, <1>v, <1>r, <1>s DEF IInv, TypeOK, LostOnlyIfReused, Named
<1> QED
  BY <1>1, <1>2, <1>3, <1>4, <1>5, <1>6, <1>7, <1>8, <1>9, <1>10, <1>11 DEF IInv

\* inode_alloc's inode_get.
LEMMA AllocGetInv ==
  ASSUME IInv, NEW c \in Clients, NEW i, i = ip[c], InodeAllocGet(c), Remember
  PROVE  IInv'
<1>i. i \in INums
  BY InCall DEF InodeAllocGet
<1>q. /\ c \notin Pointers(i)
      /\ Pointers(i)' = Pointers(i) \cup {c}
      /\ \A j \in INums \ {i} : Pointers(j)' = Pointers(j)
  BY <1>i, GetAddsPointer DEF InodeAllocGet
<1>e. /\ pc[c] = "get"
      /\ inodes' = inodes \cup {i}
      /\ ref' = [ref EXCEPT ![i] = IF i \in inodes THEN @ + 1 ELSE 1]
      /\ valid' = [valid EXCEPT ![i] = i \in inodes /\ @]
      /\ pc' = [pc EXCEPT ![c] = "create_lock"]
      /\ UNCHANGED <<mtx, ilock, dinode, disk, dir, name, ip>>
  BY <1>i DEF InodeAllocGet, InodeGet, Goto, IInv, TypeOK
<1>v. \A d \in Clients : ip[d] = i /\ pc[d] \in LoadedPCs => i \in inodes
  BY <1>i DEF IInv, RefExact, Pointers
<1>r. reused' = {x \in reused : disk[x] # Free} /\ reused' \subseteq INums
  BY <1>e, RememberKept
<1>n. \A x \in INums : Named(x)' <=> Named(x)
  BY <1>e DEF Named
<1>1. TypeOK'
  BY <1>i, <1>q, <1>e, <1>v, <1>r DEF IInv, TypeOK
<1>2. PathsOK'
  BY <1>i, <1>q, <1>e, <1>v DEF IInv, TypeOK, PathsOK
<1>3. LocksOK'
  BY <1>i, <1>q, <1>e, <1>v DEF IInv, TypeOK, LocksOK
<1>4. DiskOK'
  BY <1>i, <1>q, <1>e, <1>v, <1>n DEF IInv, TypeOK, DiskOK
<1>5. UseOK'
  BY <1>i, <1>q, <1>e, <1>v DEF IInv, TypeOK, UseOK
<1>6. CreatorOK'
  BY <1>i, <1>q, <1>e, <1>v DEF IInv, TypeOK, CreatorOK
<1>7. FreerOK'
  BY <1>i, <1>q, <1>e, <1>v, <1>n DEF IInv, TypeOK, FreerOK
<1>8. CacheOK'
  <2> SUFFICES ASSUME NEW j \in inodes', valid'[j]
               PROVE  \/ dinode[j] = disk[j] /\ disk[j] # Free
                      \/ \E d \in Clients : ip'[d] = j /\ pc'[d] = "inval"
    BY <1>e DEF CacheOK
  <2>1. j \in inodes /\ valid[j]
    BY <1>i, <1>e DEF IInv, TypeOK
  <2>2. \/ dinode[j] = disk[j] /\ disk[j] # Free
        \/ \E d \in Clients \ {c} : ip[d] = j /\ pc[d] = "inval"
    BY <2>1, <1>e DEF IInv, CacheOK
  <2> QED
    BY <2>2, <1>e DEF IInv, TypeOK
<1>9. ReuseOK'
  BY <1>i, <1>q, <1>e, <1>v, <1>r DEF IInv, TypeOK, ReuseOK
<1>10. RefExact'
  <2>1. /\ i \in inodes' /\ Pointers(i)' # {}
        /\ ref'[i] = Cardinality(Pointers(i))'
    <3>1. Cardinality(Pointers(i) \cup {c}) = Cardinality(Pointers(i)) + 1
      BY <1>i, <1>q, PointersFinite, FS_AddElement
    <3>2. i \notin inodes => Cardinality(Pointers(i)) = 0
      BY <1>i, FS_EmptySet DEF IInv, RefExact
    <3> QED
      BY <3>1, <3>2, <1>i, <1>q, <1>e DEF IInv, TypeOK, RefExact
  <2>2. ASSUME NEW j \in INums \ {i}
        PROVE  /\ j \in inodes' <=> Pointers(j)' # {}
               /\ j \in inodes' => ref'[j] = Cardinality(Pointers(j))'
    BY <2>2, <1>q, <1>e DEF IInv, TypeOK, RefExact
  <2> QED
    BY <2>1, <2>2 DEF RefExact
<1>11. LostOnlyIfReused'
  BY <1>i, <1>q, <1>e, <1>v, <1>r DEF IInv, TypeOK, LostOnlyIfReused, Named
<1> QED
  BY <1>1, <1>2, <1>3, <1>4, <1>5, <1>6, <1>7, <1>8, <1>9, <1>10, <1>11 DEF IInv

\* inode_alloc takes a free inode.
LEMMA AllocInv ==
  ASSUME IInv, NEW c \in Clients, NEW n \in Names, NEW i \in INums,
         InodeAlloc(c, n, i), Remember
  PROVE  IInv'
<1>e. /\ pc[c] = "idle" /\ ip[c] = None /\ disk[i] = Free /\ dir[n] = None
      /\ disk' = [disk EXCEPT ![i] = File(0)]
      /\ pc' = [pc EXCEPT ![c] = "get"]
      /\ ip' = [ip EXCEPT ![c] = i]
      /\ name' = [name EXCEPT ![c] = n]
      /\ UNCHANGED <<mtx, inodes, ref, ilock, valid, dinode, dir>>
  BY Contents DEF InodeAlloc, Goto, IInv, PathsOK
<1>s. \A d \in Clients \ {c} : name[d] # n
  BY DEF InodeAlloc, PathFree
<1>o. \A d \in Clients : ip[d] = i => pc[d] \in {"inval", "drop"}
  BY <1>e DEF IInv, UseOK, PathsOK
<1>u. ~Named(i)
  BY <1>e, Contents DEF IInv, DiskOK
<1>n. \A x \in INums : Named(x)' <=> Named(x)
  BY <1>e DEF Named
<1>p. \A x \in INums : Pointers(x)' = Pointers(x)
  BY <1>e DEF Pointers, IInv, TypeOK
<1>r. /\ reused' \subseteq INums
      /\ \A j \in INums \ {i} : j \in reused' <=> j \in reused /\ disk[j] # Free
      /\ \A d \in Clients : ip[d] = i => i \in reused'
  BY <1>e, <1>o, Contents DEF Remember, Freeing, IInv, TypeOK
<1>1. TypeOK'
  BY <1>e, <1>s, <1>o, <1>u, <1>r, ContentsType DEF IInv, TypeOK
<1>2. PathsOK'
  BY <1>e, <1>s, <1>o, <1>u DEF IInv, TypeOK, PathsOK
<1>3. LocksOK'
  BY <1>e, <1>s, <1>o, <1>u DEF IInv, TypeOK, LocksOK
<1>4. DiskOK'
  BY <1>e, <1>s, <1>o, <1>u, <1>n, Contents DEF IInv, TypeOK, DiskOK
<1>5. UseOK'
  BY <1>e, <1>s, <1>o, <1>u, Contents DEF IInv, TypeOK, UseOK
<1>6. CreatorOK'
  BY <1>e, <1>s, <1>o, <1>u, Contents DEF IInv, TypeOK, CreatorOK
<1>7. FreerOK'
  BY <1>e, <1>s, <1>o, <1>u, <1>n DEF IInv, TypeOK, FreerOK
<1>8. CacheOK'
  <2> SUFFICES ASSUME NEW j \in inodes, valid[j]
               PROVE  \/ dinode[j] = disk'[j] /\ disk'[j] # Free
                      \/ \E d \in Clients : ip'[d] = j /\ pc'[d] = "inval"
    BY <1>e DEF CacheOK
  <2>1. \/ dinode[j] = disk[j] /\ disk[j] # Free
        \/ \E d \in Clients \ {c} : ip[d] = j /\ pc[d] = "inval"
    BY <1>e DEF IInv, CacheOK
  <2> QED
    BY <2>1, <1>e DEF IInv, TypeOK
<1>9. ReuseOK'
  BY <1>e, <1>s, <1>o, <1>u, <1>r DEF IInv, TypeOK, ReuseOK
<1>10. RefExact'
  BY <1>e, <1>s, <1>o, <1>u, <1>p DEF IInv, TypeOK, RefExact
<1>11. LostOnlyIfReused'
  BY <1>e, <1>s, <1>o, <1>u, <1>r DEF IInv, TypeOK, LostOnlyIfReused, Named
<1> QED
  BY <1>1, <1>2, <1>3, <1>4, <1>5, <1>6, <1>7, <1>8, <1>9, <1>10, <1>11 DEF IInv

\* Every step of a client, with what it leaves in the history, and every step
\* that leaves the cache alone.
LEMMA NextInv ==
  ASSUME IInv, [Next]_vars
  PROVE  IInv'
<1>1. CASE UNCHANGED vars
  <2>1. \A i \in INums : Pointers(i)' = Pointers(i) /\ (Named(i)' <=> Named(i))
    BY <1>1 DEF vars, state, Pointers, Named
  <2> QED
    BY <1>1, <2>1 DEF vars, state, IInv, TypeOK, PathsOK, LocksOK, DiskOK, UseOK,
       CreatorOK, FreerOK, CacheOK, ReuseOK, RefExact, LostOnlyIfReused
<1>2. ASSUME NEW c \in Clients, ClientStep(c), Remember
      PROVE  IInv'
  <2>1. ASSUME NEW n \in Names, OpenLookup(c, n) \/ UnlinkLookup(c, n) \/ ListLookup(c, n)
        PROVE  IInv'
    <3>1. dir[n] \in INums
      BY <2>1 DEF OpenLookup, UnlinkLookup, ListLookup, Lookup, IInv, TypeOK
    <3> QED
      BY <1>2, <2>1, <3>1, LookupInv DEF OpenLookup, UnlinkLookup, ListLookup
  <2>2. CASE \E n \in Names, i \in INums : InodeAlloc(c, n, i)
    BY <1>2, <2>2, AllocInv
  <2>3. CASE \E n \in Names : InodeAllocFails(c, n)
    BY <1>2, <2>3, AllocFailsInv DEF InodeAllocFails
  <2>4. CASE InodeAllocGet(c)
    BY <1>2, <2>4, AllocGetInv
  <2>5. CASE Lock(c) \/ OpenLoad(c) \/ ListLoad(c)
    BY <1>2, <2>5, LockInv, LoadInv
  <2>6. CASE Unlink(c) \/ LinkNew(c) \/ LinkNewFails(c)
    BY <1>2, <2>6, UnlinkInv, LinkNewInv, LinkNewFailsInv
  <2>7. CASE \/ Unlock(c)
             \/ UnlockPut(c, "unlock_put", "put")
             \/ UnlockPut(c, "list_unlock", "list_put")
    BY <1>2, <2>7, UnlockInv, UnlockPutInv
  <2>8. CASE Release(c) \/ Put(c) \/ PutLast(c) \/ PutLock(c)
    BY <1>2, <2>8, ReleaseInv, PutInv, PutLastInv, PutLockInv
  <2>9. CASE Trunc(c) \/ Invalidate(c) \/ PutDrop(c)
    BY <1>2, <2>9, TruncInv, InvalidateInv, PutDropInv
  <2> QED
    BY <1>2, <2>1, <2>2, <2>3, <2>4, <2>5, <2>6, <2>7, <2>8, <2>9 DEF ClientStep
<1> QED
  BY <1>1, <1>2 DEF Next

----------------------------------------------------------------------------
(* The theorems.                                                           *)

\* The inductive invariant holds in every behaviour of the inode cache.
THEOREM Invariance == Spec => []IInv
<1>1. IInv /\ [Next]_vars => IInv'
  BY NextInv
<1> QED
  BY InitInv, <1>1, PTL DEF Spec

\* The fields of INodeCache and INode keep their types; INode::ref never wraps
\* below zero in inode_put.
THEOREM Types == Spec => []TypeOK
<1>1. IInv => TypeOK
  BY DEF IInv
<1> QED
  BY Invariance, <1>1, PTL

\* inode_put deletes an INode exactly when its last user gives it up.
THEOREM CountsReferences == Spec => []RefExact
<1>1. IInv => RefExact
  BY DEF IInv
<1> QED
  BY Invariance, <1>1, PTL

\* inode_put never frees the inode of a file that is open or has a name.
THEOREM UsedIsAllocated == Spec => []OpenOrNamedIsAllocated
<1>1. IInv => OpenOrNamedIsAllocated
  BY Contents, InCall DEF IInv, DiskOK, UseOK, Named, OpenOrNamedIsAllocated
<1> QED
  BY Invariance, <1>1, PTL

\* Nobody who takes an inode's mutex finds the remains of a deleted file in the
\* cached copy, though inode_alloc may give the inode out before inode_put is
\* done with it.
THEOREM CopiesAreCurrent == Spec => []CachedIsCurrent
<1>1. IInv => CachedIsCurrent
  BY DEF IInv, CacheOK, LocksOK, TypeOK, CachedIsCurrent
<1> QED
  BY Invariance, <1>1, PTL

\* The assertion in INode::lock holds.
THEOREM LockFindsAType == Spec => []LockNeverAborts
<1>1. IInv => LockNeverAborts
  <2> SUFFICES ASSUME IInv, NEW c \in Clients,
                      pc[c] \in {"open_load", "unlink_load", "create_load", "list_load"}
               PROVE  LoadAsserts(ip[c])
    BY DEF LockNeverAborts
  <2>1. ip[c] \in INums
    BY InCall
  <2>2. disk[ip[c]] # Free
    BY DEF IInv, UseOK
  <2> QED
    BY <2>1, <2>2, Contents DEF LoadAsserts, IInv, DiskOK
<1> QED
  BY Invariance, <1>1, PTL

\* inode_put takes the inode's mutex with INodeCache::mtx held, and never waits
\* there: nobody else is at the inode.
THEOREM PutFindsTheMutexFree == Spec => []PutNeverBlocks
<1>1. IInv => PutNeverBlocks
  <2> SUFFICES ASSUME IInv, NEW c \in Clients, pc[c] = "put_lock"
               PROVE  ilock[ip[c]] = None
    BY DEF PutNeverBlocks
  <2>1. ip[c] \in INums
    BY InCall
  <2> QED
    BY <2>1 DEF IInv, TypeOK, LocksOK, FreerOK
<1> QED
  BY Invariance, <1>1, PTL

\* op_readdir, which is in no operation of the log, never frees an inode.
THEOREM ListingOnlyLooks == Spec => []ListingFreesNothing
<1>1. IInv => ListingFreesNothing
  <2> SUFFICES ASSUME IInv, NEW c \in Clients, pc[c] = "list_put",
                      LastOfUnlinked(ip[c])
               PROVE  FALSE
    BY DEF ListingFreesNothing
  <2>1. ip[c] \in INums /\ disk[ip[c]] = File(1)
    BY InCall DEF IInv, PathsOK, DiskOK, Named
  <2>2. c \in Pointers(ip[c])
    BY DEF Pointers
  <2>3. ip[c] \in inodes
    BY <2>1, <2>2 DEF IInv, RefExact
  <2>4. dinode[ip[c]] = disk[ip[c]]
    BY <2>3 DEF LastOfUnlinked, IInv, CacheOK, FreerOK
  <2> QED
    BY <2>1, <2>4, Contents DEF LastOfUnlinked
<1> QED
  BY Invariance, <1>1, PTL

\* An inode without a name and without a user is free, unless inode_alloc gave it
\* out while the inode_put that freed it had still to drop its reference.
THEOREM NothingElseIsLost == Spec => []LostOnlyIfReused
<1>1. IInv => LostOnlyIfReused
  BY DEF IInv
<1> QED
  BY Invariance, <1>1, PTL

============================================================================
