-------------------------- MODULE FileTableProofs ---------------------------
(***************************************************************************)
(* Proofs about FileTable for a single file, with any number of clients    *)
(* and slots: the file's mutex, which do_open and op_create hold from      *)
(* ofile_alloc to f->ip, makes them one at a time.  With two files, nobody *)
(* does: FileTableTwoFiles.cfg shows the table given out twice.            *)
(***************************************************************************)
EXTENDS FileTable, FiniteSetTheorems, TLAPS

USE FileTableAssumption DEF Slots

----------------------------------------------------------------------------
(* The inductive invariant.                                                *)

\* One open of the file holds its mutex.
LocksOK ==
  \A i \in INodes, c \in Clients :
    ilock[i] = c <=> file[c] = i /\ pc[c] \in {"alloc", "type", "ip"}

\* What a client has in hand at each place.
HandsOK ==
  /\ \A c \in Clients : pc[c] = "closed" <=> file[c] = None
  /\ \A c \in Clients : pc[c] \in {"type", "ip", "open"} <=> fh[c] # 0

\* The slot of a handle, as far as it has been filled in.
HandleOK ==
  \A c \in Clients :
    /\ pc[c] \in {"type", "ip", "open"} => ref[fh[c]] = 1
    /\ pc[c] \in {"ip", "open"} => type[fh[c]] = "FD_INODE"
    /\ pc[c] = "open" => ip[fh[c]] = file[c]

IInv ==
  /\ TypeOK
  /\ LocksOK
  /\ HandsOK
  /\ HandleOK
  /\ SlotExclusive
  /\ INodeRefsExact

\* All opens are of the same file.
OneFile == \A i, j \in INodes : i = j

----------------------------------------------------------------------------
(* The table's first free slot, and the users of an inode.                 *)

\* ofile_alloc's scan ends at a free slot, if there is one.
LEMMA FirstFree ==
  ASSUME FreeSlots # {}
  PROVE  Min(FreeSlots) \in Slots /\ type[Min(FreeSlots)] = "FD_NONE"
<1>1. FreeSlots \subseteq Nat
  BY DEF FreeSlots
<1> DEFINE Less == {ss \in Nat \X Nat : ss[1] < ss[2]}
<1>2. IsWellFoundedOn(Less, Nat)
  BY NatLessThanWellFounded DEF OpToRel
<1>3. PICK x \in FreeSlots : \A y \in FreeSlots : ~(<<y, x>> \in Less)
  BY <1>1, <1>2, WFMin
<1>4. ASSUME NEW y \in FreeSlots PROVE x <= y
  <2>1. x \in Nat /\ y \in Nat
    BY <1>1
  <2>2. <<y, x>> \in Nat \X Nat /\ <<y, x>>[1] = y /\ <<y, x>>[2] = x
    BY <2>1
  <2>3. ~(y < x)
    BY <1>3, <2>2
  <2> QED
    BY <2>1, <2>3
<1>5. Min(FreeSlots) \in FreeSlots
  BY <1>4 DEF Min
<1> QED
  BY <1>5 DEF FreeSlots

Users(i) == {c \in Clients : file[c] = i}

\* There are finitely many clients, so the users of an inode can be counted.
LEMMA UsersFinite ==
  ASSUME NEW i
  PROVE  IsFiniteSet(Users(i)) /\ Cardinality(Users(i)) \in Nat
<1>1. Users(i) \in SUBSET Clients
  BY DEF Users
<1> QED
  BY <1>1, FS_Subset, FS_CardinalityType

\* Getting an inode adds a user, putting it takes one away.
LEMMA UsersChange ==
  ASSUME IInv, NEW c \in Clients, NEW i \in INodes
  PROVE  /\ file[c] # i => Cardinality(Users(i) \cup {c}) = Cardinality(Users(i)) + 1
         /\ file[c] = i => /\ Cardinality(Users(i) \ {c}) = Cardinality(Users(i)) - 1
                           /\ Cardinality(Users(i)) >= 1
<1>1. IsFiniteSet(Users(i)) /\ Cardinality(Users(i)) \in Nat
  BY UsersFinite
<1>2. file[c] # i => Cardinality(Users(i) \cup {c}) = Cardinality(Users(i)) + 1
  <2>1. file[c] # i => c \notin Users(i)
    BY DEF Users
  <2> QED
    BY <1>1, <2>1, FS_AddElement
<1>3. file[c] = i => /\ Cardinality(Users(i) \ {c}) = Cardinality(Users(i)) - 1
                     /\ Cardinality(Users(i)) >= 1
  <2>1. file[c] = i => c \in Users(i)
    BY DEF Users
  <2>2. file[c] = i => Cardinality(Users(i)) # 0
    BY <1>1, <2>1, FS_EmptySet
  <2>3. file[c] = i => Cardinality(Users(i) \ {c}) = Cardinality(Users(i)) - 1
    BY <1>1, <2>1, FS_RemoveElement
  <2> QED
    BY <1>1, <2>2, <2>3
<1> QED
  BY <1>2, <1>3

----------------------------------------------------------------------------
(* Every step keeps the invariant.                                         *)

\* Init: nothing is open.
LEMMA InitInv == Init => IInv
<1> SUFFICES ASSUME Init PROVE IInv
  OBVIOUS
<1>1. \A i \in INodes : {c \in Clients : file[c] = i} = {}
  BY DEF Init
<1>2. INodeRefsExact
  BY <1>1, FS_EmptySet DEF Init, INodeRefsExact
<1> QED
  BY <1>2 DEF Init, IInv, TypeOK, LocksOK, HandsOK, HandleOK, SlotExclusive

\* inode_name or create gives the caller a reference.
LEMMA LookupInv ==
  ASSUME IInv, NEW c \in Clients, NEW i \in INodes, Lookup(c, i)
  PROVE  IInv'
<1> USE DEF Lookup, table
<1>1. TypeOK'
  BY DEF IInv, TypeOK
<1>2. LocksOK'
  BY DEF IInv, TypeOK, LocksOK, HandsOK
<1>3. HandsOK' /\ HandleOK' /\ SlotExclusive'
  BY DEF IInv, TypeOK, HandsOK, HandleOK, SlotExclusive
<1>4. file[c] # i
  BY DEF IInv, HandsOK
<1>5. Users(i)' = Users(i) \cup {c} /\ \A j \in INodes \ {i} : Users(j)' = Users(j)
  BY <1>4 DEF IInv, TypeOK, HandsOK, Users
<1>6. ASSUME NEW j \in INodes PROVE iref'[j] = Cardinality(Users(j)')
  <2>1. iref[j] = Cardinality(Users(j))
    BY DEF IInv, INodeRefsExact, Users
  <2>2. CASE j = i
    <3>1. iref'[i] = iref[i] + 1
      BY DEF IInv, TypeOK
    <3>2. Cardinality(Users(i) \cup {c}) = Cardinality(Users(i)) + 1
      BY <1>4, UsersChange
    <3> QED
      BY <2>1, <2>2, <1>5, <3>1, <3>2
  <2>3. CASE j # i
    BY <2>1, <2>3, <1>5 DEF IInv, TypeOK
  <2> QED
    BY <2>2, <2>3
<1>7. INodeRefsExact'
  BY <1>6 DEF INodeRefsExact, Users
<1> QED
  BY <1>1, <1>2, <1>3, <1>7 DEF IInv

\* ip->lock().
LEMMA LockINodeInv ==
  ASSUME IInv, NEW c \in Clients, LockINode(c)
  PROVE  IInv'
<1> USE DEF LockINode, CanLock, table
<1>1. file[c] \in INodes
  BY DEF IInv, TypeOK, HandsOK
<1>2. TypeOK' /\ LocksOK'
  BY <1>1 DEF IInv, TypeOK, LocksOK
<1>3. HandsOK' /\ HandleOK' /\ SlotExclusive'
  BY DEF IInv, TypeOK, HandsOK, HandleOK, SlotExclusive
<1>4. INodeRefsExact'
  BY DEF IInv, INodeRefsExact
<1> QED
  BY <1>2, <1>3, <1>4 DEF IInv

\* ofile_alloc: the slot is nobody's.  Whoever has filled in its type is seen by
\* the scan; whoever has not holds the mutex that the caller holds.
LEMMA OfileAllocInv ==
  ASSUME OneFile, IInv, NEW c \in Clients, OfileAlloc(c)
  PROVE  IInv'
<1>1. PICK s \in Slots :
        /\ type[s] = "FD_NONE" /\ pc[c] = "alloc"
        /\ ref' = [ref EXCEPT ![s] = 1]
        /\ fh' = [fh EXCEPT ![c] = s]
        /\ pc' = [pc EXCEPT ![c] = "type"]
        /\ UNCHANGED <<type, ip, iref, ilock, file>>
  BY FirstFree DEF OfileAlloc
<1>2. \A d \in Clients : pc[d] \in {"alloc", "type", "ip"} => d = c
  <2>1. \A d \in Clients : pc[d] # "closed" => file[d] \in INodes
    BY DEF IInv, TypeOK, HandsOK
  <2> QED
    BY <1>1, <2>1 DEF OneFile, IInv, LocksOK
<1>3. \A d \in Clients : fh[d] # s
  BY <1>1, <1>2 DEF IInv, HandsOK, HandleOK
<1>4. TypeOK' /\ LocksOK' /\ HandsOK'
  BY <1>1 DEF IInv, TypeOK, LocksOK, HandsOK
<1>5. HandleOK'
  BY <1>1, <1>3 DEF IInv, TypeOK, HandsOK, HandleOK
<1>6. SlotExclusive'
  BY <1>1, <1>3 DEF IInv, TypeOK, SlotExclusive
<1>7. INodeRefsExact'
  BY <1>1 DEF IInv, INodeRefsExact
<1> QED
  BY <1>4, <1>5, <1>6, <1>7 DEF IInv

\* The two places where an inode is put: the open that fails, and the close.
LEMMA PutRefInv ==
  ASSUME IInv, NEW c \in Clients, NEW i \in INodes, file[c] = i,
         iref' = [iref EXCEPT ![i] = @ - 1], file' = [file EXCEPT ![c] = None]
  PROVE  INodeRefsExact' /\ iref' \in [INodes -> Nat]
<1>1. Users(i)' = Users(i) \ {c} /\ \A j \in INodes \ {i} : Users(j)' = Users(j)
  BY DEF IInv, TypeOK, Users
<1>2. \A j \in INodes : iref[j] = Cardinality(Users(j))
  BY DEF IInv, INodeRefsExact, Users
<1>3. iref[i] >= 1 /\ Cardinality(Users(i) \ {c}) = iref[i] - 1
  BY <1>2, UsersChange
<1>4. iref' \in [INodes -> Nat]
  BY <1>3 DEF IInv, TypeOK
<1>5. ASSUME NEW j \in INodes PROVE iref'[j] = Cardinality(Users(j)')
  <2>1. CASE j = i
    BY <2>1, <1>1, <1>3 DEF IInv, TypeOK
  <2>2. CASE j # i
    BY <2>2, <1>1, <1>2 DEF IInv, TypeOK
  <2> QED
    BY <2>1, <2>2
<1> QED
  BY <1>4, <1>5 DEF INodeRefsExact, Users

\* ofile_alloc finds no slot: inode_unlock_put.
LEMMA OfileAllocFailsInv ==
  ASSUME IInv, NEW c \in Clients, OfileAllocFails(c)
  PROVE  IInv'
<1> USE DEF OfileAllocFails, table
<1>1. file[c] \in INodes
  BY DEF IInv, TypeOK, HandsOK
<1>2. INodeRefsExact' /\ iref' \in [INodes -> Nat]
  BY <1>1, PutRefInv
<1>3. TypeOK'
  BY <1>1, <1>2 DEF IInv, TypeOK
<1>4. LocksOK'
  BY <1>1 DEF IInv, TypeOK, LocksOK
<1>5. HandsOK' /\ HandleOK' /\ SlotExclusive'
  BY DEF IInv, TypeOK, HandsOK, HandleOK, SlotExclusive
<1> QED
  BY <1>2, <1>3, <1>4, <1>5 DEF IInv

\* f->type.
LEMMA SetTypeInv ==
  ASSUME IInv, NEW c \in Clients, SetType(c)
  PROVE  IInv'
<1> USE DEF SetType
<1>1. fh[c] \in Slots
  BY DEF IInv, TypeOK, HandsOK
<1>2. TypeOK' /\ LocksOK' /\ HandsOK'
  BY <1>1 DEF IInv, TypeOK, LocksOK, HandsOK
<1>3. HandleOK' /\ SlotExclusive'
  BY <1>1 DEF IInv, TypeOK, HandsOK, HandleOK, SlotExclusive
<1>4. INodeRefsExact'
  BY DEF IInv, INodeRefsExact
<1> QED
  BY <1>2, <1>3, <1>4 DEF IInv

\* f->ip, and the inode's mutex given back.
LEMMA SetIpInv ==
  ASSUME IInv, NEW c \in Clients, SetIpAndUnlock(c)
  PROVE  IInv'
<1> USE DEF SetIpAndUnlock
<1>1. fh[c] \in Slots /\ file[c] \in INodes
  BY DEF IInv, TypeOK, HandsOK
<1>2. TypeOK' /\ LocksOK'
  BY <1>1 DEF IInv, TypeOK, LocksOK
<1>3. HandsOK' /\ SlotExclusive' /\ INodeRefsExact'
  BY DEF IInv, TypeOK, HandsOK, SlotExclusive, INodeRefsExact
<1>4. HandleOK'
  BY <1>1 DEF IInv, TypeOK, HandsOK, HandleOK, SlotExclusive
<1> QED
  BY <1>2, <1>3, <1>4 DEF IInv

\* ofile_close's critical section: the slot holds what the client opened.
LEMMA OfileCloseInv ==
  ASSUME IInv, NEW c \in Clients, OfileClose(c)
  PROVE  IInv'
<1>1. /\ pc[c] = "open" /\ fh[c] \in Slots /\ ref[fh[c]] = 1
      /\ ip[fh[c]] = file[c] /\ file[c] \in INodes
  BY DEF OfileClose, IInv, TypeOK, HandsOK, HandleOK
<1>2. /\ ref' = [ref EXCEPT ![fh[c]] = 0]
      /\ type' = [type EXCEPT ![fh[c]] = "FD_NONE"]
      /\ file' = file
      /\ pc' = [pc EXCEPT ![c] = "put"]
      /\ fh' = [fh EXCEPT ![c] = 0]
      /\ UNCHANGED <<ip, iref, ilock>>
  BY <1>1 DEF OfileClose, IInv, TypeOK
<1>3. TypeOK' /\ LocksOK' /\ HandsOK'
  BY <1>1, <1>2 DEF IInv, TypeOK, LocksOK, HandsOK
<1>4. \A d \in Clients \ {c} : fh[d] # fh[c]
  BY <1>1 DEF IInv, SlotExclusive
<1>5. HandleOK'
  BY <1>1, <1>2, <1>4 DEF IInv, TypeOK, HandsOK, HandleOK
<1>6. SlotExclusive' /\ INodeRefsExact'
  BY <1>2 DEF IInv, TypeOK, SlotExclusive, INodeRefsExact
<1> QED
  BY <1>3, <1>5, <1>6 DEF IInv

\* ofile_close's inode_put.
LEMMA InodePutInv ==
  ASSUME IInv, NEW c \in Clients, InodePut(c)
  PROVE  IInv'
<1> USE DEF InodePut, table
<1>1. file[c] \in INodes
  BY DEF IInv, TypeOK, HandsOK
<1>2. INodeRefsExact' /\ iref' \in [INodes -> Nat]
  BY <1>1, PutRefInv
<1>3. TypeOK'
  BY <1>1, <1>2 DEF IInv, TypeOK
<1>4. LocksOK'
  BY <1>1 DEF IInv, TypeOK, LocksOK
<1>5. HandsOK' /\ HandleOK' /\ SlotExclusive'
  BY DEF IInv, TypeOK, HandsOK, HandleOK, SlotExclusive
<1> QED
  BY <1>2, <1>3, <1>4, <1>5 DEF IInv

\* The invariant is inductive, for one file.
LEMMA NextInv ==
  ASSUME OneFile, IInv, [Next]_vars
  PROVE  IInv'
<1>1. CASE UNCHANGED vars
  BY <1>1 DEF vars, IInv, TypeOK, LocksOK, HandsOK, HandleOK, SlotExclusive,
     INodeRefsExact
<1> QED
  BY <1>1, LookupInv, LockINodeInv, OfileAllocInv, OfileAllocFailsInv, SetTypeInv,
     SetIpInv, OfileCloseInv, InodePutInv DEF Next

----------------------------------------------------------------------------
(* The theorems.                                                           *)

\* The invariant of the table of open files, with all opens of one file.
THEOREM Invariance ==
  ASSUME OneFile
  PROVE  Spec => []IInv
<1>1. IInv /\ [Next]_vars => IInv'
  BY NextInv
<1> QED
  BY InitInv, <1>1, PTL DEF Spec

\* ofile_alloc never gives one slot to two opens of a file, though it marks the
\* slot only after it has let FileTable::mtx go.
THEOREM SlotsExclusive ==
  ASSUME OneFile
  PROVE  Spec => []SlotExclusive
<1>1. IInv => SlotExclusive
  BY DEF IInv
<1> QED
  BY Invariance, <1>1, PTL

\* do_open, op_create and ofile_close lose no reference to the inode and drop
\* none twice, a full table included.
THEOREM RefsExact ==
  ASSUME OneFile
  PROVE  Spec => []INodeRefsExact
<1>1. IInv => INodeRefsExact
  BY DEF IInv
<1> QED
  BY Invariance, <1>1, PTL

\* The assertions of ofile_close hold.
THEOREM ClosesNeverAbort ==
  ASSUME OneFile
  PROVE  Spec => []CloseNeverAborts
<1>1. IInv => CloseNeverAborts
  BY DEF IInv, HandleOK, CloseNeverAborts, CloseAsserts
<1> QED
  BY Invariance, <1>1, PTL

============================================================================
