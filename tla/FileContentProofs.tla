------------------------- MODULE FileContentProofs -------------------------
(***************************************************************************)
(* Proofs about FileContent, for any threads, handles and files, any       *)
(* number and size of blocks and any calls.                                *)
(***************************************************************************)
EXTENDS FileContent, FiniteSetTheorems, NaturalsInduction, WellFoundedInduction, TLAPS

\* What most proofs need of the constants.
LEMMA Constants ==
  /\ NBLOCKS \in Nat /\ NDIRECT \in Nat /\ NINDIRECT \in Nat \ {0} /\ BSIZE \in Nat \ {0}
  /\ None \notin Threads /\ None \notin Handles /\ None \notin Files /\ None \notin INodes
BY ContentAssumption

USE Constants DEF Blocks, MAX_FILE

----------------------------------------------------------------------------
(* The inductive invariant.                                                *)

Positions == 0 .. MAX_FILE

\* The block at position p of file i as its users see it, 0 if there is none or
\* a trunc in progress has freed it; and the one the inode on disk leads to.
At(i, p) == IF p < Freed(i) THEN 0 ELSE Phys(disk, Current(i), p)
OnDisk(i, p) == Phys(disk, disk.ino[i], p)

\* Nothing has been changed under the file's mutex that update() has not
\* written yet, but for what a read allocates.
Settled(i) == ilock[i] # None => pc[ilock[i]] = "read" \/ tot[ilock[i]] = 0

\* TypeOK, with the domains of the functions.
StateOK ==
  /\ TypeOK
  /\ mem \in [Files -> INodes \cup {None}]
  /\ logged \in [Threads -> SUBSET (Blocks \cup {BITMAP, INODE})]

\* Open files are cached.
CachedOK == \A h \in Handles : fp[h] # None => mem[fp[h]] # None

\* A call has a handle of an open file.
HandleOK(t) ==
  /\ fd[t] # None <=> pc[t] # "idle"
  /\ fd[t] # None => fp[fd[t]] # None

\* Which inode's mutex the call holds, and where its loop variable is in use.
LockPCs == {"read", "write", "trunc"}
LockOK(t) ==
  /\ \A i \in Files : ilock[i] = t <=> pc[t] \in LockPCs /\ File(t) = i
  /\ pc[t] \notin LockPCs => tot[t] = 0

\* A write that has begun was in range.
WriteOK(t) ==
  pc[t] = "write" =>
    /\ tot[t] <= Chunk(t)
    /\ tot[t] > 0 => ~OutOfRange(t)

\* A trunc has cleared the direct addresses it has passed, and the indirect one
\* last.
TruncOK(t) ==
  pc[t] = "trunc" =>
    /\ tot[t] <= MAX_FILE + 1
    /\ \A p \in 0 .. NDIRECT - 1 : p < tot[t] => mem[File(t)].addrs[p] = 0
    /\ tot[t] = MAX_FILE + 1 => mem[File(t)].addrs[NDIRECT] = 0

\* What its operation has logged: a write the bitmap, the indirect block and the
\* blocks it has come by.
Passed(t) == {At(File(t), p) : p \in {q \in Positions :
               q >= pos[t] \div BSIZE /\ q <= (pos[t] + tot[t] - 1) \div BSIZE}}
LogOK(t) ==
  /\ pc[t] \notin {"write", "trunc", "end_op"} => logged[t] = {}
  /\ pc[t] = "trunc" => logged[t] \subseteq {BITMAP}
  /\ pc[t] = "write" => logged[t] \subseteq {BITMAP, At(File(t), MAX_FILE)} \cup Passed(t)
  /\ pc[t] = "end_op" => Cardinality(logged[t]) <= MAX_OP_BLOCKS - 1

CallOK(t) == HandleOK(t) /\ LockOK(t) /\ WriteOK(t) /\ TruncOK(t) /\ LogOK(t)

\* Blocks in use are in one place each, or lost to a hole; their bytes are
\* their file's.
OneOwner ==
  \A i, j \in Files, p, q \in Positions :
    At(i, p) # 0 /\ At(i, p) = At(j, q) => i = j /\ p = q
Marked == \A i \in Files, p \in Positions : At(i, p) # 0 => At(i, p) \in disk.used
Owned ==
  \A b \in disk.used : b \in holes \/ \E i \in Files, p \in Positions : At(i, p) = b
OwnBytes ==
  \A i \in Files, p \in 0 .. MAX_FILE - 1 :
    At(i, p) # 0 => disk.blk[At(i, p)] \subseteq {i}

\* What the inode on disk does not lead to was allocated by a read.
Written ==
  \A i \in Files, p \in Positions :
    Settled(i) => OnDisk(i, p) = At(i, p) \/ (OnDisk(i, p) = 0 /\ At(i, p) \in holes)

\* All of this about a disk on which inodes are all there is, with blocks H lost
\* to holes: the stable copy is such a disk.
Exact(d, H) ==
  /\ \A i, j \in Files, p, q \in Positions :
       LET b == Phys(d, d.ino[i], p) IN b # 0 /\ b = Phys(d, d.ino[j], q) => i = j /\ p = q
  /\ \A i \in Files, p \in Positions :
       LET b == Phys(d, d.ino[i], p) IN
       b # 0 => b \in d.used /\ (p # MAX_FILE => d.blk[b] \subseteq {i})
  /\ \A b \in d.used : b \in H \/ \E i \in Files, p \in Positions : Phys(d, d.ino[i], p) = b
StableOK == Exact(stable, holes)

\* The calls, and the blocks as operations see them.
CallsOK == \A t \in Threads : CallOK(t)
BlocksOK == OneOwner /\ Marked /\ Owned /\ OwnBytes /\ Written

IInv ==
  /\ StateOK
  /\ CachedOK
  /\ CallsOK
  /\ BlocksOK
  /\ StableOK

----------------------------------------------------------------------------
(* block_alloc and block_map, on any disk and any addresses.               *)

Addrs == [0 .. NDIRECT -> 0 .. NBLOCKS]
Maps ==
  [disk : Disks, addrs : Addrs, log : SUBSET (Blocks \cup {BITMAP, INODE}), b : 0 .. NBLOCKS]

\* The block at position p of an inode with addresses a.
Place(d, a, p) == Phys(d, [size |-> 0, addrs |-> a], p)

LEMMA PlaceIs ==
  ASSUME NEW d, NEW m, NEW p
  PROVE  Phys(d, m, p) = Place(d, m.addrs, p)
BY DEF Phys, Place

\* The three kinds of position: direct, an entry of the indirect block, and the
\* indirect block.
LEMMA PlaceDirect ==
  ASSUME NEW d, NEW a, NEW p \in 0 .. NDIRECT - 1
  PROVE  Place(d, a, p) = a[p]
BY DEF Phys, Place

LEMMA PlaceEntry ==
  ASSUME NEW d, NEW a, NEW p \in NDIRECT .. MAX_FILE - 1
  PROVE  Place(d, a, p) = IF a[NDIRECT] = 0 THEN 0 ELSE d.ind[a[NDIRECT]][p - NDIRECT]
BY DEF Phys, Place

LEMMA PlaceTop ==
  ASSUME NEW d, NEW a
  PROVE  Place(d, a, MAX_FILE) = a[NDIRECT]
BY DEF Phys, Place

\* A position holds a block or 0.
LEMMA PlaceType ==
  ASSUME NEW d \in Disks, NEW a \in Addrs, NEW p \in Positions
  PROVE  Place(d, a, p) \in 0 .. NBLOCKS
<1>1. CASE p < NDIRECT
  <2>1. p \in 0 .. NDIRECT - 1 /\ p \in 0 .. NDIRECT
    BY <1>1 DEF Positions
  <2>2. Place(d, a, p) = a[p]
    BY <2>1, PlaceDirect
  <2> QED
    BY <2>1, <2>2 DEF Addrs
<1>2. CASE p = MAX_FILE
  BY <1>2, PlaceTop DEF Positions, Addrs
<1>3. CASE p >= NDIRECT /\ p # MAX_FILE
  <2>1. p \in NDIRECT .. MAX_FILE - 1 /\ p - NDIRECT \in 0 .. NINDIRECT - 1
    BY <1>3 DEF Positions
  <2>2. a[NDIRECT] \in 0 .. NBLOCKS
    BY DEF Addrs
  <2>5. Place(d, a, p) = IF a[NDIRECT] = 0 THEN 0 ELSE d.ind[a[NDIRECT]][p - NDIRECT]
    BY <2>1, PlaceEntry
  <2>3. CASE a[NDIRECT] = 0
    BY <2>5, <2>3
  <2>4. CASE a[NDIRECT] # 0
    <3>1. PICK f : f = d.ind[a[NDIRECT]]
      OBVIOUS
    <3>2. f \in [0 .. NINDIRECT - 1 -> 0 .. NBLOCKS]
      <4>1. d.ind \in [Blocks -> [0 .. NINDIRECT - 1 -> 0 .. NBLOCKS]]
        BY DEF Disks
      <4>2. a[NDIRECT] \in Blocks
        BY <2>2, <2>4
      <4> QED
        BY <3>1, <4>1, <4>2
    <3>3. f[p - NDIRECT] \in 0 .. NBLOCKS
      BY <2>1, <3>2
    <3> QED
      BY <2>4, <2>5, <3>1, <3>3
  <2> QED
    BY <2>3, <2>4
<1> QED
  BY <1>1, <1>2, <1>3 DEF Positions

\* The least of some numbers is one of them, and the least.
LEMMA MinIs ==
  ASSUME NEW S \in SUBSET Nat, S # {}
  PROVE  Min(S) \in S /\ \A y \in S : Min(S) <= y
<1> DEFINE Less == {ss \in Nat \X Nat : ss[1] < ss[2]}
<1>1. IsWellFoundedOn(Less, Nat)
  BY NatLessThanWellFounded DEF OpToRel
<1>2. PICK x \in S : \A y \in S : ~(<<y, x>> \in Less)
  BY <1>1, WFMin
<1>3. ASSUME NEW y \in S PROVE x <= y
  <2>1. x \in Nat /\ y \in Nat
    OBVIOUS
  <2>2. <<y, x>> \in Nat \X Nat /\ <<y, x>>[1] = y /\ <<y, x>>[2] = x
    BY <2>1
  <2>3. ~(y < x)
    BY <1>2, <2>2
  <2> QED
    BY <2>1, <2>3
<1> QED
  BY <1>3 DEF Min

\* Disk e is disk d with block b marked and zeroed.
Fresh(d, e, b) ==
  /\ b \in Blocks \ d.used
  /\ e \in Disks
  /\ e.used = d.used \cup {b}
  /\ e.ino = d.ino
  /\ e.ind = [d.ind EXCEPT ![b] = NoEntries]
  /\ e.blk = [d.blk EXCEPT ![b] = {}]

\* block_alloc: a free block, or nothing when all are used.
LEMMA BlockAllocIs ==
  ASSUME NEW s \in Maps, NEW r, r = BlockAlloc(s)
  PROVE  /\ r \in Maps
         /\ r.addrs = s.addrs
         /\ \/ r.b = 0 /\ r.disk = s.disk /\ r.log = s.log
            \/ /\ r.b # 0
               /\ Fresh(s.disk, r.disk, r.b)
               /\ r.log = s.log \cup {BITMAP, r.b}
<1>1. CASE s.disk.used = Blocks
  BY <1>1 DEF BlockAlloc, Maps
<1>2. CASE s.disk.used # Blocks
  <2>1. PICK b : b = Min(Blocks \ s.disk.used)
    OBVIOUS
  <2>2. b \in Blocks \ s.disk.used
    <3>1. s.disk.used \in SUBSET Blocks
      BY DEF Maps, Disks
    <3>2. Blocks \ s.disk.used # {}
      BY <1>2, <3>1
    <3>3. Blocks \ s.disk.used \in SUBSET Nat
      OBVIOUS
    <3> QED
      BY <2>1, <3>2, <3>3, MinIs
  <2>3. r = [s EXCEPT !.b = b,
                      !.disk.used = @ \cup {b},
                      !.disk.blk[b] = {},
                      !.disk.ind[b] = NoEntries,
                      !.log = @ \cup {BITMAP, b}]
    BY <1>2, <2>1 DEF BlockAlloc
  <2>4. PICK d : d = s.disk
    OBVIOUS
  <2>5. d \in Disks
    BY <2>4 DEF Maps
  <2>6. PICK e : e = [d EXCEPT !.used = d.used \cup {b},
                               !.blk = [d.blk EXCEPT ![b] = {}],
                               !.ind = [d.ind EXCEPT ![b] = NoEntries]]
    OBVIOUS
  <2>7. r = [disk |-> e, addrs |-> s.addrs, log |-> s.log \cup {BITMAP, b}, b |-> b]
    BY <2>3, <2>4, <2>6 DEF Maps, Disks
  <2>8. NoEntries \in [0 .. NINDIRECT - 1 -> 0 .. NBLOCKS]
    BY DEF NoEntries
  <2>9. Fresh(d, e, b)
    <3>1. /\ e.used = d.used \cup {b} /\ e.ino = d.ino
          /\ e.ind = [d.ind EXCEPT ![b] = NoEntries]
          /\ e.blk = [d.blk EXCEPT ![b] = {}]
      BY <2>5, <2>6 DEF Disks
    <3>2. e \in Disks
      BY <2>2, <2>5, <2>6, <2>8 DEF Disks
    <3> QED
      BY <2>2, <2>4, <3>1, <3>2 DEF Fresh
  <2> QED
    BY <2>2, <2>4, <2>7, <2>9 DEF Maps, Fresh, BITMAP
<1> QED
  BY <1>1, <1>2

\* The block of one address, there or allocated.
AddrMapped(s, k, r) ==
  /\ r \in Maps
  /\ r.b = r.addrs[k]
  /\ \/ r.disk = s.disk /\ r.addrs = s.addrs /\ r.log = s.log
     \/ /\ s.addrs[k] = 0
        /\ Fresh(s.disk, r.disk, r.b)
        /\ r.addrs = [s.addrs EXCEPT ![k] = r.b]
        /\ r.log = s.log \cup {BITMAP, r.b}

LEMMA MapAddrIs ==
  ASSUME NEW s \in Maps, NEW k \in 0 .. NDIRECT, NEW r, r = MapAddr(s, k)
  PROVE  AddrMapped(s, k, r)
<1>1. PICK a : a = BlockAlloc(s)
  OBVIOUS
<1>2. /\ a \in Maps
      /\ a.addrs = s.addrs
      /\ \/ a.b = 0 /\ a.disk = s.disk /\ a.log = s.log
         \/ a.b # 0 /\ Fresh(s.disk, a.disk, a.b) /\ a.log = s.log \cup {BITMAP, a.b}
  BY <1>1, BlockAllocIs
<1>3. CASE s.addrs[k] # 0
  BY <1>3 DEF MapAddr, Maps, Addrs, AddrMapped
<1>4. CASE s.addrs[k] = 0
  <2>1. r = [a EXCEPT !.addrs[k] = a.b]
    BY <1>1, <1>4 DEF MapAddr
  <2>2. /\ r \in Maps /\ r.b = a.b /\ r.disk = a.disk /\ r.log = a.log
        /\ r.addrs = [s.addrs EXCEPT ![k] = a.b]
    <3>1. PICK c : c = [s.addrs EXCEPT ![k] = a.b]
      OBVIOUS
    <3>2. s.addrs \in Addrs /\ a.b \in 0 .. NBLOCKS
      BY <1>2 DEF Maps
    <3>3. c \in Addrs
      BY <3>1, <3>2 DEF Addrs
    <3>4. r = [a EXCEPT !.addrs = c]
      BY <1>2, <2>1, <3>1
    <3> QED
      BY <1>2, <3>1, <3>3, <3>4 DEF Maps
  <2>3. s.addrs \in Addrs
    BY DEF Maps
  <2>4. r.b = r.addrs[k]
    BY <2>2, <2>3 DEF Addrs
  <2>5. a.b = 0 => r.addrs = s.addrs
    BY <1>4, <2>2, <2>3 DEF Addrs
  <2> QED
    BY <1>2, <1>4, <2>2, <2>4, <2>5 DEF AddrMapped
<1> QED
  BY <1>3, <1>4

\* Disk e is disk d with block b marked, zeroed and made entry j of block t.
FreshEntry(d, e, b, t, j) ==
  /\ b \in Blocks \ d.used
  /\ e \in Disks
  /\ e.used = d.used \cup {b}
  /\ e.ino = d.ino
  /\ e.ind = [[d.ind EXCEPT ![b] = NoEntries] EXCEPT ![t][j] = b]
  /\ e.blk = [d.blk EXCEPT ![b] = {}]

\* Entry j of the indirect block: the block itself may have to be allocated
\* first, and then the entry.
EntryMapped(u, j, r) ==
  /\ r \in Maps
  /\ r.addrs = u.addrs
  /\ \/ r.disk = u.disk /\ r.log = u.log /\ r.b = 0
     \/ u.b # 0 /\ r.disk = u.disk /\ r.log = u.log /\ r.b = u.disk.ind[u.b][j]
     \/ /\ u.b # 0
        /\ u.disk.ind[u.b][j] = 0
        /\ FreshEntry(u.disk, r.disk, r.b, u.b, j)
        /\ r.log = u.log \cup {BITMAP, r.b, u.b}

LEMMA MapIndirectIs ==
  ASSUME NEW s \in Maps, NEW j \in 0 .. NINDIRECT - 1, NEW r, r = MapIndirect(s, j),
         NEW u, u = MapAddr(s, NDIRECT)
  PROVE  EntryMapped(u, j, r)
<1>1. u \in Maps /\ u.b \in 0 .. NBLOCKS
  <2>1. NDIRECT \in 0 .. NDIRECT
    OBVIOUS
  <2>2. u \in Maps
    BY <2>1, MapAddrIs DEF AddrMapped
  <2> QED
    BY <2>2 DEF Maps
<1>2. PICK a : a = BlockAlloc(u)
  OBVIOUS
<1>3. /\ a \in Maps
      /\ a.addrs = u.addrs
      /\ \/ a.b = 0 /\ a.disk = u.disk /\ a.log = u.log
         \/ a.b # 0 /\ Fresh(u.disk, a.disk, a.b) /\ a.log = u.log \cup {BITMAP, a.b}
  BY <1>1, <1>2, BlockAllocIs
<1>4. CASE u.b = 0
  BY <1>1, <1>4 DEF MapIndirect, EntryMapped
<1>5. CASE u.b # 0 /\ u.disk.ind[u.b][j] # 0
  <2>1. r = [u EXCEPT !.b = u.disk.ind[u.b][j]]
    BY <1>5 DEF MapIndirect
  <2>2. u.disk.ind \in [Blocks -> [0 .. NINDIRECT - 1 -> 0 .. NBLOCKS]] /\ u.b \in Blocks
    <3>1. u.disk \in Disks
      BY <1>1 DEF Maps
    <3> QED
      BY <1>1, <1>5, <3>1 DEF Disks
  <2>3. u.disk.ind[u.b][j] \in 0 .. NBLOCKS
    <3>1. PICK f, t : f = u.disk.ind /\ t = u.b
      OBVIOUS
    <3>2. f[t] \in [0 .. NINDIRECT - 1 -> 0 .. NBLOCKS]
      BY <2>2, <3>1
    <3> QED
      BY <3>1, <3>2
  <2> QED
    BY <1>1, <1>5, <2>1, <2>3 DEF Maps, EntryMapped
<1>6. CASE u.b # 0 /\ u.disk.ind[u.b][j] = 0 /\ a.b = 0
  <2>1. r = a
    BY <1>2, <1>6 DEF MapIndirect
  <2> QED
    BY <1>3, <1>6, <2>1 DEF EntryMapped
<1>7. CASE u.b # 0 /\ u.disk.ind[u.b][j] = 0 /\ a.b # 0
  <2>1. r = [a EXCEPT !.disk.ind[u.b][j] = a.b, !.log = @ \cup {u.b}]
    BY <1>2, <1>7 DEF MapIndirect
  <2>2. PICK e, b, t, l : e = a.disk /\ b = a.b /\ t = u.b /\ l = a.log
    OBVIOUS
  <2>3. e \in Disks /\ b \in Blocks /\ t \in Blocks
    BY <1>1, <1>3, <1>7, <2>2 DEF Maps
  <2>4. r = [disk |-> [e EXCEPT !.ind[t][j] = b], addrs |-> a.addrs,
             log |-> l \cup {t}, b |-> b]
    BY <1>3, <2>1, <2>2 DEF Maps
  <2>5. [e EXCEPT !.ind[t][j] = b] \in Disks
    <3>1. [e.ind EXCEPT ![t][j] = b] \in [Blocks -> [0 .. NINDIRECT - 1 -> 0 .. NBLOCKS]]
      BY <2>3 DEF Disks
    <3> QED
      BY <2>3, <3>1 DEF Disks
  <2>6. r \in Maps
    BY <1>3, <2>2, <2>3, <2>4, <2>5 DEF Maps
  <2>7. /\ r.disk = [e EXCEPT !.ind[t][j] = b] /\ r.addrs = u.addrs
        /\ r.b = b /\ r.log = l \cup {t}
    BY <1>3, <2>4
  <2>8. Fresh(u.disk, e, b) /\ l = u.log \cup {BITMAP, b}
    BY <1>3, <1>7, <2>2
  <2>9. r.log = u.log \cup {BITMAP, r.b, u.b}
    BY <2>2, <2>7, <2>8
  <2>10. /\ r.disk.used = e.used /\ r.disk.ino = e.ino /\ r.disk.blk = e.blk
         /\ r.disk.ind = [e.ind EXCEPT ![t][j] = b] /\ r.disk \in Disks
    BY <2>3, <2>5, <2>7 DEF Disks
  <2>11. FreshEntry(u.disk, r.disk, b, t, j)
    BY <2>8, <2>10 DEF Fresh, FreshEntry
  <2> QED
    BY <1>7, <2>2, <2>6, <2>7, <2>9, <2>11 DEF EntryMapped
<1> QED
  BY <1>4, <1>5, <1>6, <1>7

----------------------------------------------------------------------------
(* What block_map does to a file: old positions stay, new ones get fresh   *)
(* blocks, nothing else is touched.                                        *)

\* Every block of an inode with addresses a is in use.
AllMarked(d, a) == \A p \in Positions : Place(d, a, p) # 0 => Place(d, a, p) \in d.used

\* Only block b is new: zeroed, and in use.  Indirect block t may have changed.
Alloc(d, e, t, b) ==
  /\ b \in Blocks \ d.used
  /\ e.used = d.used \cup {b}
  /\ e.ino = d.ino
  /\ e.blk[b] = {}
  /\ \A x \in d.used : e.blk[x] = d.blk[x]
  /\ \A x \in d.used : x # t => e.ind[x] = d.ind[x]

Grown(d, a, e, c) ==
  /\ e.ino = d.ino
  /\ d.used \subseteq e.used
  /\ \A b \in d.used : e.blk[b] = d.blk[b]
  /\ \A b \in e.used \ d.used : e.blk[b] = {}
  /\ \A b \in d.used : b # a[NDIRECT] => e.ind[b] = d.ind[b]
  /\ \A p \in Positions : Place(d, a, p) # 0 => Place(e, c, p) = Place(d, a, p)
  /\ \A p \in Positions :
       Place(d, a, p) = 0 /\ Place(e, c, p) # 0 => Place(e, c, p) \in e.used \ d.used
  /\ \A p, q \in Positions :
       Place(d, a, p) = 0 /\ Place(e, c, p) # 0 /\ Place(e, c, p) = Place(e, c, q) => p = q
  /\ \A b \in e.used \ d.used : \E p \in Positions : Place(e, c, p) = b

LEMMA GrownSame ==
  ASSUME NEW d, NEW a
  PROVE  Grown(d, a, d, a)
BY DEF Grown

\* One block more, in one place.
LEMMA GrownByOne ==
  ASSUME NEW d, NEW a, NEW e, NEW c, NEW b, NEW k \in Positions,
         AllMarked(d, a), Alloc(d, e, a[NDIRECT], b), Place(d, a, k) = 0,
         \A p \in Positions : Place(e, c, p) = IF p = k THEN b ELSE Place(d, a, p)
  PROVE  Grown(d, a, e, c)
<1>1. b # 0 /\ b \notin d.used /\ e.used \ d.used = {b}
  BY DEF Alloc
<1>2. \A p \in Positions : Place(d, a, p) # b
  BY <1>1 DEF AllMarked
<1>3. \A p \in Positions : Place(d, a, p) # 0 => Place(e, c, p) = Place(d, a, p)
  OBVIOUS
<1>4. \A p \in Positions : Place(d, a, p) = 0 /\ Place(e, c, p) # 0 => p = k
  OBVIOUS
<1>5. \A p, q \in Positions :
        Place(d, a, p) = 0 /\ Place(e, c, p) # 0 /\ Place(e, c, p) = Place(e, c, q) => p = q
  BY <1>2, <1>4
<1>6. Place(e, c, k) = b
  OBVIOUS
<1>7. \A x \in e.used \ d.used : \E p \in Positions : Place(e, c, p) = x
  BY <1>1, <1>6
<1>8. \A p \in Positions :
        Place(d, a, p) = 0 /\ Place(e, c, p) # 0 => Place(e, c, p) \in e.used \ d.used
  BY <1>1, <1>4, <1>6
<1>9. \A x \in e.used \ d.used : e.blk[x] = {}
  BY <1>1 DEF Alloc
<1> QED
  BY <1>3, <1>5, <1>7, <1>8, <1>9 DEF Grown, Alloc

\* Growing twice.
LEMMA GrownTwice ==
  ASSUME NEW d, NEW a, NEW e, NEW c, NEW f, NEW g, e.used \subseteq Blocks,
         AllMarked(d, a), Grown(d, a, e, c), Grown(e, c, f, g)
  PROVE  Grown(d, a, f, g)
<1>0. NDIRECT \in Nat /\ MAX_FILE \in Positions
  BY DEF Positions
<1>1. Place(d, a, MAX_FILE) = a[NDIRECT] /\ Place(e, c, MAX_FILE) = c[NDIRECT]
  BY PlaceTop
<1>2. \A b \in d.used : b # a[NDIRECT] => b # c[NDIRECT]
  <2>1. a[NDIRECT] # 0 => c[NDIRECT] = a[NDIRECT]
    BY <1>0, <1>1 DEF Grown
  <2>2. a[NDIRECT] = 0 => c[NDIRECT] = 0 \/ c[NDIRECT] \notin d.used
    BY <1>0, <1>1 DEF Grown
  <2>3. ASSUME NEW b \in d.used, b # a[NDIRECT], b = c[NDIRECT] PROVE FALSE
    BY <2>1, <2>2, <2>3
  <2> QED
    BY <2>3
<1>3. /\ f.ino = d.ino
      /\ d.used \subseteq f.used
      /\ \A b \in d.used : f.blk[b] = d.blk[b]
      /\ \A b \in f.used \ d.used : f.blk[b] = {}
  BY DEF Grown
<1>4. \A b \in d.used : b # a[NDIRECT] => f.ind[b] = d.ind[b]
  BY <1>2 DEF Grown
<1>5. \A p \in Positions : Place(d, a, p) # 0 => Place(f, g, p) = Place(d, a, p)
  BY DEF Grown
<1>6. \A p \in Positions :
        Place(d, a, p) = 0 /\ Place(f, g, p) # 0 => Place(f, g, p) \in f.used \ d.used
  <2> SUFFICES ASSUME NEW p \in Positions, Place(d, a, p) = 0, Place(f, g, p) # 0
               PROVE  Place(f, g, p) \in f.used \ d.used
    OBVIOUS
  <2>1. CASE Place(e, c, p) = 0
    BY <2>1 DEF Grown
  <2>2. CASE Place(e, c, p) # 0
    BY <2>2 DEF Grown
  <2> QED
    BY <2>1, <2>2
<1>7. \A p, q \in Positions :
        Place(d, a, p) = 0 /\ Place(f, g, p) # 0 /\ Place(f, g, p) = Place(f, g, q) => p = q
  <2> SUFFICES ASSUME NEW p \in Positions, NEW q \in Positions,
                      Place(d, a, p) = 0, Place(f, g, p) # 0, Place(f, g, p) = Place(f, g, q)
               PROVE  p = q
    OBVIOUS
  <2>1. CASE Place(e, c, p) = 0
    BY <2>1 DEF Grown
  <2>2. CASE Place(e, c, p) # 0 /\ Place(e, c, q) = 0
    <3>1. Place(f, g, p) = Place(e, c, p) /\ Place(e, c, p) \in e.used
      BY <2>2 DEF Grown
    <3>2. Place(f, g, q) \notin e.used
      BY <2>2 DEF Grown
    <3> QED
      BY <3>1, <3>2
  <2>3. CASE Place(e, c, p) # 0 /\ Place(e, c, q) # 0
    <3>1. Place(f, g, p) = Place(e, c, p) /\ Place(f, g, q) = Place(e, c, q)
      BY <2>3 DEF Grown
    <3>2. \A x, y \in Positions :
            Place(d, a, x) = 0 /\ Place(e, c, x) # 0 /\ Place(e, c, x) = Place(e, c, y) => x = y
      BY DEF Grown
    <3> QED
      BY <2>3, <3>1, <3>2
  <2> QED
    BY <2>1, <2>2, <2>3
<1>8. \A b \in f.used \ d.used : \E p \in Positions : Place(f, g, p) = b
  <2> SUFFICES ASSUME NEW b \in f.used \ d.used
               PROVE  \E p \in Positions : Place(f, g, p) = b
    OBVIOUS
  <2>1. CASE b \in e.used
    <3>1. PICK p \in Positions : Place(e, c, p) = b
      BY <2>1 DEF Grown
    <3>2. b # 0
      BY <2>1
    <3> QED
      BY <3>1, <3>2 DEF Grown
  <2>2. CASE b \notin e.used
    BY <2>2 DEF Grown
  <2> QED
    BY <2>1, <2>2
<1> QED
  BY <1>3, <1>4, <1>5, <1>6, <1>7, <1>8 DEF Grown

\* A grown file is in use as a whole.
LEMMA GrownMarked ==
  ASSUME NEW d, NEW a, NEW e, NEW c, AllMarked(d, a), Grown(d, a, e, c)
  PROVE  AllMarked(e, c)
<1> SUFFICES ASSUME NEW p \in Positions, Place(e, c, p) # 0
             PROVE  Place(e, c, p) \in e.used
  BY DEF AllMarked
<1>1. CASE Place(d, a, p) = 0
  BY <1>1 DEF Grown
<1>2. CASE Place(d, a, p) # 0
  BY <1>2 DEF Grown, AllMarked
<1> QED
  BY <1>1, <1>2

\* A new block for one address.
LEMMA GrownAddr ==
  ASSUME NEW d \in Disks, NEW a \in Addrs, NEW e, NEW b, NEW k \in 0 .. NDIRECT, NEW c,
         AllMarked(d, a), Fresh(d, e, b), a[k] = 0,
         \A y \in 0 .. NDIRECT : c[y] = IF y = k THEN b ELSE a[y]
  PROVE  Grown(d, a, e, c)
<1>1. PICK z : z = IF k = NDIRECT THEN MAX_FILE ELSE k
  OBVIOUS
<1>2. z \in Positions /\ Place(d, a, z) = 0
  <2>1. CASE k = NDIRECT
    BY <1>1, <2>1, PlaceTop DEF Positions
  <2>2. CASE k # NDIRECT
    <3>1. k \in 0 .. NDIRECT - 1 /\ z = k
      BY <1>1, <2>2
    <3>2. Place(d, a, k) = a[k]
      BY <3>1, PlaceDirect
    <3> QED
      BY <3>1, <3>2 DEF Positions
  <2> QED
    BY <2>1, <2>2
<1>3. a[NDIRECT] \in 0 .. NBLOCKS
  BY DEF Addrs
<1>4. a[NDIRECT] # 0 => a[NDIRECT] \in d.used
  <2>1. Place(d, a, MAX_FILE) = a[NDIRECT] /\ MAX_FILE \in Positions
    BY PlaceTop DEF Positions
  <2> QED
    BY <2>1 DEF AllMarked
<1>5. /\ b \in Blocks \ d.used /\ e.ind[b] = NoEntries /\ e.blk[b] = {}
      /\ \A x \in d.used : x \in Blocks /\ x # b /\ e.ind[x] = d.ind[x] /\ e.blk[x] = d.blk[x]
  <2>1. /\ d.used \subseteq Blocks
        /\ d.ind \in [Blocks -> [0 .. NINDIRECT - 1 -> 0 .. NBLOCKS]]
        /\ d.blk \in [Blocks -> SUBSET Files]
    BY DEF Disks
  <2>2. /\ b \in Blocks \ d.used
        /\ e.ind = [d.ind EXCEPT ![b] = NoEntries] /\ e.blk = [d.blk EXCEPT ![b] = {}]
    BY DEF Fresh
  <2> QED
    BY <2>1, <2>2
<1>6. ASSUME NEW p \in Positions
      PROVE  Place(e, c, p) = IF p = z THEN b ELSE Place(d, a, p)
  <2>1. CASE p < NDIRECT
    <3>1. p \in 0 .. NDIRECT - 1 /\ p \in 0 .. NDIRECT /\ (p = z <=> p = k)
      BY <1>1, <2>1 DEF Positions
    <3>2. Place(e, c, p) = c[p] /\ Place(d, a, p) = a[p]
      BY <3>1, PlaceDirect
    <3> QED
      BY <1>3, <3>1, <3>2
  <2>2. CASE p = MAX_FILE
    <3>1. Place(e, c, p) = c[NDIRECT] /\ Place(d, a, p) = a[NDIRECT]
      BY <2>2, PlaceTop
    <3>2. NDIRECT \in 0 .. NDIRECT /\ (p = z <=> k = NDIRECT)
      BY <1>1, <2>2
    <3> QED
      BY <1>3, <3>1, <3>2
  <2>3. CASE p >= NDIRECT /\ p # MAX_FILE
    <3>1. p \in NDIRECT .. MAX_FILE - 1 /\ p - NDIRECT \in 0 .. NINDIRECT - 1 /\ p # z
      BY <1>1, <2>3 DEF Positions
    <3>2. /\ Place(e, c, p) = IF c[NDIRECT] = 0 THEN 0 ELSE e.ind[c[NDIRECT]][p - NDIRECT]
          /\ Place(d, a, p) = IF a[NDIRECT] = 0 THEN 0 ELSE d.ind[a[NDIRECT]][p - NDIRECT]
      BY <3>1, PlaceEntry
    <3>3. NDIRECT \in 0 .. NDIRECT
      OBVIOUS
    <3>4. CASE k = NDIRECT
      <4>1. c[NDIRECT] = b /\ NoEntries[p - NDIRECT] = 0 /\ a[NDIRECT] = 0
        BY <1>3, <3>1, <3>3, <3>4 DEF NoEntries
      <4> QED
        BY <1>5, <3>1, <3>2, <4>1
    <3>5. CASE k # NDIRECT
      <4>1. c[NDIRECT] = a[NDIRECT]
        BY <1>3, <3>3, <3>5
      <4> QED
        BY <1>4, <1>5, <3>1, <3>2, <4>1
    <3> QED
      BY <3>4, <3>5
  <2> QED
    BY <2>1, <2>2, <2>3 DEF Positions
<1>7. Alloc(d, e, a[NDIRECT], b)
  BY <1>5 DEF Fresh, Alloc
<1> QED
  BY <1>2, <1>6, <1>7, GrownByOne

\* A new block for entry j of the indirect block.
LEMMA GrownEntry ==
  ASSUME NEW d \in Disks, NEW a \in Addrs, NEW e, NEW b, NEW j \in 0 .. NINDIRECT - 1, NEW t,
         AllMarked(d, a), FreshEntry(d, e, b, t, j), t = a[NDIRECT], t # 0, d.ind[t][j] = 0
  PROVE  Grown(d, a, e, a)
<1>1. PICK z : z = NDIRECT + j
  OBVIOUS
<1>2. /\ z \in Positions /\ z \in NDIRECT .. MAX_FILE - 1 /\ z - NDIRECT = j
  BY <1>1 DEF Positions
<1>3. Place(d, a, z) = 0
  BY <1>2, PlaceEntry
<1>4. t \in d.used
  <2>1. Place(d, a, MAX_FILE) = a[NDIRECT] /\ MAX_FILE \in Positions
    BY PlaceTop DEF Positions
  <2> QED
    BY <2>1 DEF AllMarked
<1>5. /\ b \in Blocks \ d.used /\ e.blk[b] = {}
      /\ \A x \in d.used : x \in Blocks /\ x # b /\ e.blk[x] = d.blk[x]
      /\ \A x \in d.used : x # t => e.ind[x] = d.ind[x]
  <2>1. /\ d.used \subseteq Blocks
        /\ d.ind \in [Blocks -> [0 .. NINDIRECT - 1 -> 0 .. NBLOCKS]]
        /\ d.blk \in [Blocks -> SUBSET Files]
    BY DEF Disks
  <2>2. b \in Blocks \ d.used /\ e.blk = [d.blk EXCEPT ![b] = {}]
    BY DEF FreshEntry
  <2>3. PICK f, g : f = [d.ind EXCEPT ![b] = NoEntries] /\ g = [f EXCEPT ![t][j] = b]
    OBVIOUS
  <2>4. e.ind = g
    BY <2>3 DEF FreshEntry
  <2>5. DOMAIN f = Blocks /\ \A x \in d.used : f[x] = d.ind[x]
    BY <2>1, <2>2, <2>3
  <2>6. \A x \in d.used : x # t => g[x] = f[x]
    BY <2>1, <2>3, <2>5
  <2> QED
    BY <2>1, <2>2, <2>4, <2>5, <2>6
<1>6. \A y \in 0 .. NINDIRECT - 1 : e.ind[t][y] = IF y = j THEN b ELSE d.ind[t][y]
  <2>1. PICK f : f = [d.ind EXCEPT ![b] = NoEntries]
    OBVIOUS
  <2>2. /\ f \in [Blocks -> [0 .. NINDIRECT - 1 -> 0 .. NBLOCKS]] /\ t \in Blocks
        /\ f[t] = d.ind[t]
    <3>1. /\ d.ind \in [Blocks -> [0 .. NINDIRECT - 1 -> 0 .. NBLOCKS]]
          /\ t \in Blocks /\ b \in Blocks /\ t # b
      BY <1>4, <1>5 DEF Disks
    <3>2. NoEntries \in [0 .. NINDIRECT - 1 -> 0 .. NBLOCKS]
      BY DEF NoEntries
    <3> QED
      BY <2>1, <3>1, <3>2
  <2>3. PICK h : h = [f[t] EXCEPT ![j] = b]
    OBVIOUS
  <2>4. e.ind = [f EXCEPT ![t][j] = b]
    BY <2>1 DEF FreshEntry
  <2>5. e.ind[t] = h
    BY <2>2, <2>3, <2>4
  <2>6. f[t] \in [0 .. NINDIRECT - 1 -> 0 .. NBLOCKS]
    BY <2>2
  <2>7. \A y \in 0 .. NINDIRECT - 1 : h[y] = IF y = j THEN b ELSE f[t][y]
    BY <2>3, <2>6
  <2> QED
    BY <2>2, <2>5, <2>7
<1>7. ASSUME NEW p \in Positions
      PROVE  Place(e, a, p) = IF p = z THEN b ELSE Place(d, a, p)
  <2>1. CASE p < NDIRECT
    <3>1. p \in 0 .. NDIRECT - 1 /\ p # z
      BY <1>2, <2>1 DEF Positions
    <3>2. Place(e, a, p) = a[p] /\ Place(d, a, p) = a[p]
      BY <3>1, PlaceDirect
    <3> QED
      BY <3>1, <3>2
  <2>2. CASE p = MAX_FILE
    <3>1. Place(e, a, p) = a[NDIRECT] /\ Place(d, a, p) = a[NDIRECT] /\ p # z
      BY <1>2, <2>2, PlaceTop
    <3> QED
      BY <3>1
  <2>3. CASE p >= NDIRECT /\ p # MAX_FILE
    <3>1. /\ p \in NDIRECT .. MAX_FILE - 1 /\ p - NDIRECT \in 0 .. NINDIRECT - 1
          /\ p = z <=> p - NDIRECT = j
      BY <1>1, <2>3 DEF Positions
    <3>2. /\ Place(e, a, p) = IF t = 0 THEN 0 ELSE e.ind[t][p - NDIRECT]
          /\ Place(d, a, p) = IF t = 0 THEN 0 ELSE d.ind[t][p - NDIRECT]
      BY <3>1, PlaceEntry
    <3> QED
      BY <1>6, <3>1, <3>2
  <2> QED
    BY <2>1, <2>2, <2>3 DEF Positions
<1>8. Alloc(d, e, a[NDIRECT], b)
  BY <1>5 DEF FreshEntry, Alloc
<1> QED
  BY <1>2, <1>3, <1>7, <1>8, GrownByOne

\* The file after the block of one address was looked up or allocated.
LEMMA AddrGrows ==
  ASSUME NEW s \in Maps, NEW k \in 0 .. NDIRECT, NEW r, r = MapAddr(s, k),
         AllMarked(s.disk, s.addrs)
  PROVE  Grown(s.disk, s.addrs, r.disk, r.addrs)
<1>1. \/ r.disk = s.disk /\ r.addrs = s.addrs
      \/ /\ s.addrs[k] = 0 /\ Fresh(s.disk, r.disk, r.b)
         /\ r.addrs = [s.addrs EXCEPT ![k] = r.b]
  BY MapAddrIs DEF AddrMapped
<1>2. CASE r.disk = s.disk /\ r.addrs = s.addrs
  BY <1>2, GrownSame
<1>3. CASE /\ s.addrs[k] = 0 /\ Fresh(s.disk, r.disk, r.b)
           /\ r.addrs = [s.addrs EXCEPT ![k] = r.b]
  <2>1. PICK d, a, e, c, b :
          d = s.disk /\ a = s.addrs /\ e = r.disk /\ c = r.addrs /\ b = r.b
    OBVIOUS
  <2>2. d \in Disks /\ a \in Addrs
    BY <2>1 DEF Maps
  <2>3. c = [a EXCEPT ![k] = b] /\ a[k] = 0 /\ Fresh(d, e, b) /\ AllMarked(d, a)
    BY <1>3, <2>1
  <2>4. \A y \in 0 .. NDIRECT : c[y] = IF y = k THEN b ELSE a[y]
    BY <2>2, <2>3 DEF Addrs
  <2>5. Grown(d, a, e, c)
    BY <2>2, <2>3, <2>4, GrownAddr
  <2> QED
    BY <2>1, <2>5
<1> QED
  BY <1>1, <1>2, <1>3

\* What block_map for position n leaves behind.
Grew(d, a, n, r) ==
  /\ r \in Maps
  /\ Grown(d, a, r.disk, r.addrs)
  /\ r.b # 0 => r.b = Place(r.disk, r.addrs, n)
  /\ r.log \subseteq {BITMAP, r.addrs[NDIRECT], r.b}

LEMMA DirectGrows ==
  ASSUME NEW s \in Maps, NEW n \in 0 .. NDIRECT - 1, NEW r, r = MapAddr(s, n),
         AllMarked(s.disk, s.addrs), s.log = {}
  PROVE  Grew(s.disk, s.addrs, n, r)
<1>1. n \in 0 .. NDIRECT
  OBVIOUS
<1>2. r \in Maps /\ r.b = r.addrs[n] /\ (r.log = s.log \/ r.log = s.log \cup {BITMAP, r.b})
  <2>1. AddrMapped(s, n, r)
    BY <1>1, MapAddrIs
  <2> QED
    BY <2>1 DEF AddrMapped
<1>3. Grown(s.disk, s.addrs, r.disk, r.addrs)
  BY <1>1, AddrGrows
<1>4. Place(r.disk, r.addrs, n) = r.addrs[n]
  BY PlaceDirect
<1> QED
  BY <1>2, <1>3, <1>4 DEF Grew

LEMMA IndirectGrows ==
  ASSUME NEW s \in Maps, NEW n \in NDIRECT .. MAX_FILE - 1, NEW j, j = n - NDIRECT,
         NEW r, r = MapIndirect(s, j), AllMarked(s.disk, s.addrs), s.log = {}
  PROVE  Grew(s.disk, s.addrs, n, r)
<1>1. j \in 0 .. NINDIRECT - 1 /\ NDIRECT \in 0 .. NDIRECT
  OBVIOUS
<1>2. PICK u : u = MapAddr(s, NDIRECT)
  OBVIOUS
<1>3. /\ u \in Maps /\ u.b = u.addrs[NDIRECT]
      /\ u.log = s.log \/ u.log = s.log \cup {BITMAP, u.b}
  <2>1. AddrMapped(s, NDIRECT, u)
    BY <1>1, <1>2, MapAddrIs
  <2> QED
    BY <2>1 DEF AddrMapped
<1>4. Grown(s.disk, s.addrs, u.disk, u.addrs)
  BY <1>1, <1>2, AddrGrows
<1>5. AllMarked(u.disk, u.addrs)
  BY <1>4, GrownMarked
<1>6. /\ r \in Maps
      /\ r.addrs = u.addrs
      /\ \/ r.disk = u.disk /\ r.log = u.log /\ r.b = 0
         \/ u.b # 0 /\ r.disk = u.disk /\ r.log = u.log /\ r.b = u.disk.ind[u.b][j]
         \/ /\ u.b # 0 /\ u.disk.ind[u.b][j] = 0
            /\ FreshEntry(u.disk, r.disk, r.b, u.b, j)
            /\ r.log = u.log \cup {BITMAP, r.b, u.b}
  <2>1. EntryMapped(u, j, r)
    BY <1>1, <1>2, MapIndirectIs
  <2> QED
    BY <2>1 DEF EntryMapped
<1>7. Place(r.disk, r.addrs, n) = IF u.b = 0 THEN 0 ELSE r.disk.ind[u.b][j]
  BY <1>3, <1>6, PlaceEntry
<1>8. CASE /\ r.disk = u.disk /\ r.log = u.log
           /\ r.b = 0 \/ (u.b # 0 /\ r.b = u.disk.ind[u.b][j])
  BY <1>3, <1>4, <1>6, <1>7, <1>8 DEF Grew
<1>9. CASE /\ u.b # 0 /\ u.disk.ind[u.b][j] = 0
           /\ FreshEntry(u.disk, r.disk, r.b, u.b, j)
           /\ r.log = u.log \cup {BITMAP, r.b, u.b}
  <2>1. PICK d, a, e, b, t :
          d = u.disk /\ a = u.addrs /\ e = r.disk /\ b = r.b /\ t = u.b
    OBVIOUS
  <2>2. d \in Disks /\ a \in Addrs /\ AllMarked(d, a)
    BY <1>3, <1>5, <2>1 DEF Maps
  <2>3. FreshEntry(d, e, b, t, j) /\ t = a[NDIRECT] /\ t # 0 /\ d.ind[t][j] = 0
    BY <1>3, <1>9, <2>1
  <2>4. Grown(d, a, e, a)
    BY <1>1, <2>2, <2>3, GrownEntry
  <2>5. Grown(s.disk, s.addrs, r.disk, r.addrs)
    <3>1. d.used \subseteq Blocks
      BY <2>2 DEF Disks
    <3> QED
      BY <1>4, <1>6, <2>1, <2>4, <3>1, GrownTwice
  <2>6. r.disk.ind[u.b][j] = r.b
    <3>1. PICK f : f = [d.ind EXCEPT ![b] = NoEntries]
      OBVIOUS
    <3>2. t \in Blocks /\ b \in Blocks
      BY <1>3, <2>1, <2>3 DEF Maps, FreshEntry
    <3>3. d.ind \in [Blocks -> [0 .. NINDIRECT - 1 -> 0 .. NBLOCKS]]
      BY <2>2 DEF Disks
    <3>4. NoEntries \in [0 .. NINDIRECT - 1 -> 0 .. NBLOCKS]
      BY DEF NoEntries
    <3>5. f \in [Blocks -> [0 .. NINDIRECT - 1 -> 0 .. NBLOCKS]]
      BY <3>1, <3>2, <3>3, <3>4
    <3>6. e.ind = [f EXCEPT ![t][j] = b]
      BY <2>3, <3>1 DEF FreshEntry
    <3>7. e.ind[t][j] = b
      BY <1>1, <3>2, <3>5, <3>6
    <3> QED
      BY <2>1, <3>7
  <2> QED
    BY <1>3, <1>6, <1>7, <1>9, <2>5, <2>6 DEF Grew
<1> QED
  BY <1>6, <1>8, <1>9

\* block_map(i, n).
LEMMA BlockMapGrows ==
  ASSUME disk \in Disks, NEW i, mem[i] \in INodes, NEW n \in 0 .. MAX_FILE - 1,
         AllMarked(disk, mem[i].addrs), NEW r, r = BlockMap(i, n)
  PROVE  Grew(disk, mem[i].addrs, n, r)
<1>1. PICK s : s = [disk |-> disk, addrs |-> mem[i].addrs, log |-> {}, b |-> 0]
  OBVIOUS
<1>2. /\ s \in Maps /\ s.disk = disk /\ s.addrs = mem[i].addrs /\ s.log = {}
  BY <1>1 DEF Maps, INodes, Addrs
<1>3. r = IF n < NDIRECT THEN MapAddr(s, n) ELSE MapIndirect(s, n - NDIRECT)
  BY <1>1 DEF BlockMap
<1>4. CASE n < NDIRECT
  <2>1. n \in 0 .. NDIRECT - 1 /\ r = MapAddr(s, n)
    BY <1>3, <1>4
  <2>2. Grew(s.disk, s.addrs, n, r)
    BY <1>2, <2>1, DirectGrows
  <2> QED
    BY <1>2, <2>2
<1>5. CASE n >= NDIRECT
  <2>1. n \in NDIRECT .. MAX_FILE - 1 /\ r = MapIndirect(s, n - NDIRECT)
    BY <1>3, <1>5
  <2>2. Grew(s.disk, s.addrs, n, r)
    BY <1>2, <2>1, IndirectGrows
  <2> QED
    BY <1>2, <2>2
<1> QED
  BY <1>4, <1>5

----------------------------------------------------------------------------
(* Calls, mutexes and files.                                               *)

\* A thread in a call has a handle on a cached file.
LEMMA Caller ==
  ASSUME IInv, NEW t \in Threads, pc[t] # "idle"
  PROVE  /\ fd[t] \in Handles /\ File(t) = fp[fd[t]] /\ File(t) \in Files
         /\ mem[File(t)] \in INodes
<1>1. fd[t] \in Handles
  BY DEF IInv, CallsOK, CallOK, HandleOK, StateOK, TypeOK
<1>2. fp[fd[t]] \in Files
  BY <1>1 DEF IInv, CallsOK, CallOK, HandleOK, StateOK, TypeOK
<1>3. mem[fp[fd[t]]] \in INodes
  BY <1>1, <1>2 DEF IInv, CachedOK, StateOK
<1> QED
  BY <1>1, <1>2, <1>3 DEF File

\* At and OnDisk are positions of inodes, now and in the next state.
LEMMA AtIs ==
  ASSUME NEW i, NEW p
  PROVE  /\ At(i, p) = IF p < Freed(i) THEN 0 ELSE Place(disk, Current(i).addrs, p)
         /\ OnDisk(i, p) = Place(disk, disk.ino[i].addrs, p)
BY PlaceIs DEF At, OnDisk

LEMMA AtNextIs ==
  ASSUME NEW i, NEW p
  PROVE  /\ At(i, p)' = IF p < Freed(i)' THEN 0 ELSE Place(disk', Current(i)'.addrs, p)
         /\ OnDisk(i, p)' = Place(disk', disk'.ino[i].addrs, p)
<1>1. /\ Phys(disk', Current(i)', p) = Place(disk', Current(i)'.addrs, p)
      /\ Phys(disk', disk'.ino[i], p) = Place(disk', disk'.ino[i].addrs, p)
  BY PlaceIs
<1> QED
  BY <1>1 DEF At, OnDisk

\* A block in a position is a block.
LEMMA AtType ==
  ASSUME StateOK, NEW i \in Files
  PROVE  /\ Current(i) \in INodes
         /\ Freed(i) \in Nat
         /\ \A p \in Positions : At(i, p) \in 0 .. NBLOCKS /\ OnDisk(i, p) \in 0 .. NBLOCKS
         /\ \A p \in Positions :
              At(i, p) = IF p < Freed(i) THEN 0 ELSE Place(disk, Current(i).addrs, p)
         /\ \A p \in Positions : OnDisk(i, p) = Place(disk, disk.ino[i].addrs, p)
<1>1. disk \in Disks /\ disk.ino[i] \in INodes
  BY DEF StateOK, TypeOK, Disks
<1>2. Current(i) \in INodes
  BY <1>1 DEF StateOK, Current
<1>3. Freed(i) \in Nat
  BY DEF StateOK, TypeOK, Freed
<1>4. ASSUME NEW p \in Positions
      PROVE  /\ At(i, p) = IF p < Freed(i) THEN 0 ELSE Place(disk, Current(i).addrs, p)
             /\ OnDisk(i, p) = Place(disk, disk.ino[i].addrs, p)
  BY PlaceIs DEF At, OnDisk
<1>5. Current(i).addrs \in Addrs /\ disk.ino[i].addrs \in Addrs
  BY <1>1, <1>2 DEF INodes, Addrs
<1>6. ASSUME NEW p \in Positions
      PROVE  At(i, p) \in 0 .. NBLOCKS /\ OnDisk(i, p) \in 0 .. NBLOCKS
  <2>1. Place(disk, Current(i).addrs, p) \in 0 .. NBLOCKS
    BY <1>1, <1>5, PlaceType
  <2>2. Place(disk, disk.ino[i].addrs, p) \in 0 .. NBLOCKS
    BY <1>1, <1>5, PlaceType
  <2> QED
    BY <1>4, <2>1, <2>2
<1> QED
  BY <1>2, <1>3, <1>4, <1>6

\* Positions depend on the addresses and on the indirect block they lead to.
LEMMA PlaceSame ==
  ASSUME NEW d, NEW e, NEW a, a[NDIRECT] # 0 => e.ind[a[NDIRECT]] = d.ind[a[NDIRECT]],
         NEW p \in Positions
  PROVE  Place(e, a, p) = Place(d, a, p)
<1>1. CASE p < NDIRECT
  <2>1. p \in 0 .. NDIRECT - 1
    BY <1>1 DEF Positions
  <2> QED
    BY <2>1, PlaceDirect
<1>2. CASE p = MAX_FILE
  BY <1>2, PlaceTop
<1>3. CASE p >= NDIRECT /\ p # MAX_FILE
  <2>1. p \in NDIRECT .. MAX_FILE - 1
    BY <1>3 DEF Positions
  <2>2. /\ Place(e, a, p) = IF a[NDIRECT] = 0 THEN 0 ELSE e.ind[a[NDIRECT]][p - NDIRECT]
        /\ Place(d, a, p) = IF a[NDIRECT] = 0 THEN 0 ELSE d.ind[a[NDIRECT]][p - NDIRECT]
    BY <2>1, PlaceEntry
  <2> QED
    BY <2>2
<1> QED
  BY <1>1, <1>2, <1>3 DEF Positions

\* A file's indirect block is its own until the file gives it up, also in a
\* trunc; and the inode on disk leads to no other.
LEMMA TopIs ==
  ASSUME IInv, NEW j \in Files
  PROVE  /\ Freed(j) > MAX_FILE => Current(j).addrs[NDIRECT] = 0
         /\ Current(j).addrs[NDIRECT] # 0 => At(j, MAX_FILE) = Current(j).addrs[NDIRECT]
         /\ Settled(j) /\ disk.ino[j].addrs[NDIRECT] # 0 =>
              At(j, MAX_FILE) = disk.ino[j].addrs[NDIRECT]
<1>1. MAX_FILE \in Positions
  BY DEF Positions
<1>2. Freed(j) > MAX_FILE => Current(j).addrs[NDIRECT] = 0
  <2> SUFFICES ASSUME Freed(j) > MAX_FILE PROVE Current(j).addrs[NDIRECT] = 0
    OBVIOUS
  <2>1. PICK t : t = ilock[j]
    OBVIOUS
  <2>2. t \in Threads /\ pc[t] = "trunc" /\ tot[t] > MAX_FILE
    BY <2>1 DEF Freed, IInv, StateOK, TypeOK
  <2>3. File(t) = j
    BY <2>1, <2>2 DEF IInv, CallsOK, CallOK, LockOK
  <2>4. mem[j] \in INodes
    BY <2>2, <2>3, Caller
  <2>5. tot[t] = MAX_FILE + 1
    <3>1. tot[t] \in Nat
      BY <2>2 DEF IInv, StateOK, TypeOK
    <3>2. tot[t] <= MAX_FILE + 1
      BY <2>2 DEF IInv, CallsOK, CallOK, TruncOK
    <3> QED
      BY <2>2, <3>1, <3>2
  <2>6. mem[j].addrs[NDIRECT] = 0
    BY <2>2, <2>3, <2>5 DEF IInv, CallsOK, CallOK, TruncOK
  <2> QED
    BY <2>4, <2>6 DEF Current
<1>3. StateOK
  BY DEF IInv
<1>4. /\ At(j, MAX_FILE) =
           IF MAX_FILE < Freed(j) THEN 0 ELSE Place(disk, Current(j).addrs, MAX_FILE)
      /\ OnDisk(j, MAX_FILE) = Place(disk, disk.ino[j].addrs, MAX_FILE)
      /\ Freed(j) \in Nat
  BY <1>1, <1>3, AtType
<1>5. /\ Place(disk, Current(j).addrs, MAX_FILE) = Current(j).addrs[NDIRECT]
      /\ Place(disk, disk.ino[j].addrs, MAX_FILE) = disk.ino[j].addrs[NDIRECT]
  BY PlaceTop
<1>6. Settled(j) /\ OnDisk(j, MAX_FILE) # 0 => At(j, MAX_FILE) = OnDisk(j, MAX_FILE)
  BY <1>1 DEF IInv, BlocksOK, Written
<1> QED
  BY <1>2, <1>4, <1>5, <1>6

\* A step that leaves a file's inode and its indirect block alone leaves its
\* blocks where they are.
LEMMA FileStays ==
  ASSUME IInv, StateOK', NEW j \in Files, Current(j)' = Current(j), Freed(j)' = Freed(j),
         disk'.ino[j] = disk.ino[j],
         At(j, MAX_FILE) # 0 => disk'.ind[At(j, MAX_FILE)] = disk.ind[At(j, MAX_FILE)]
  PROVE  /\ \A p \in Positions : At(j, p)' = At(j, p)
         /\ Settled(j) => \A p \in Positions : OnDisk(j, p)' = OnDisk(j, p)
<1>1. PICK a, b, d, e, n : a = Current(j).addrs /\ b = disk.ino[j].addrs
                          /\ d = disk /\ e = disk' /\ n = Freed(j)
  OBVIOUS
<1>2. a[NDIRECT] # 0 => e.ind[a[NDIRECT]] = d.ind[a[NDIRECT]]
  BY <1>1, TopIs
<1>3. Settled(j) /\ b[NDIRECT] # 0 => e.ind[b[NDIRECT]] = d.ind[b[NDIRECT]]
  BY <1>1, TopIs
<1>4. ASSUME NEW p \in Positions
      PROVE  At(j, p)' = At(j, p) /\ (Settled(j) => OnDisk(j, p)' = OnDisk(j, p))
  <2>1. At(j, p) = (IF p < n THEN 0 ELSE Place(d, a, p)) /\ OnDisk(j, p) = Place(d, b, p)
    BY <1>1, AtIs
  <2>2. At(j, p)' = (IF p < n THEN 0 ELSE Place(e, a, p)) /\ OnDisk(j, p)' = Place(e, b, p)
    BY <1>1, AtNextIs
  <2>3. Place(e, a, p) = Place(d, a, p)
    BY <1>2, PlaceSame
  <2>4. Settled(j) => Place(e, b, p) = Place(d, b, p)
    <3> SUFFICES ASSUME Settled(j) PROVE Place(e, b, p) = Place(d, b, p)
      OBVIOUS
    <3>1. b[NDIRECT] # 0 => e.ind[b[NDIRECT]] = d.ind[b[NDIRECT]]
      BY <1>3
    <3> QED
      BY <3>1, PlaceSame
  <2> QED
    BY <2>1, <2>2, <2>3, <2>4
<1> QED
  BY <1>4

\* A step that only adds blocks, fresh ones, to file i.
LEMMA OwnersGrow ==
  ASSUME IInv, NEW i \in Files, disk.used \subseteq disk'.used, holes \subseteq holes',
         \A j \in Files \ {i}, p \in Positions : At(j, p)' = At(j, p),
         \A p \in Positions : At(i, p) # 0 => At(i, p)' = At(i, p),
         \A p \in Positions :
           At(i, p) = 0 /\ At(i, p)' # 0 => At(i, p)' \in disk'.used \ disk.used,
         \A p, q \in Positions :
           At(i, p) = 0 /\ At(i, p)' # 0 /\ At(i, p)' = At(i, q)' => p = q,
         \A b \in disk'.used \ disk.used : \E p \in Positions : At(i, p)' = b
  PROVE  OneOwner' /\ Marked' /\ Owned'
<1>1. OneOwner /\ Marked /\ Owned
  BY DEF IInv, BlocksOK
<1>2. Marked'
  <2> SUFFICES ASSUME NEW j \in Files, NEW p \in Positions, At(j, p)' # 0
               PROVE  At(j, p)' \in disk'.used
    BY DEF Marked
  <2>1. CASE j # i \/ At(j, p) # 0
    <3>1. At(j, p)' = At(j, p)
      BY <2>1
    <3> QED
      BY <1>1, <3>1 DEF Marked
  <2>2. CASE j = i /\ At(j, p) = 0
    BY <2>2
  <2> QED
    BY <2>1, <2>2
<1>3. OneOwner'
  <2>1. ASSUME NEW j \in Files, NEW p \in Positions, At(j, p)' # 0
        PROVE  \/ At(j, p)' = At(j, p) /\ At(j, p) \in disk.used
               \/ j = i /\ At(i, p) = 0 /\ At(i, p)' \notin disk.used
    <3>1. CASE j # i \/ At(j, p) # 0
      <4>1. At(j, p)' = At(j, p)
        BY <3>1
      <4> QED
        BY <1>1, <2>1, <4>1 DEF Marked
    <3>2. CASE j = i /\ At(j, p) = 0
      BY <2>1, <3>2
    <3> QED
      BY <3>1, <3>2
  <2> SUFFICES ASSUME NEW j \in Files, NEW k \in Files, NEW p \in Positions, NEW q \in Positions,
                      At(j, p)' # 0, At(j, p)' = At(k, q)'
               PROVE  j = k /\ p = q
    BY DEF OneOwner
  <2>2. CASE At(j, p)' \in disk.used
    <3>1. At(j, p)' = At(j, p) /\ At(k, q)' = At(k, q)
      BY <2>1, <2>2
    <3>2. At(j, p) # 0 /\ At(j, p) = At(k, q)
      BY <3>1
    <3>3. OneOwner
      BY <1>1
    <3> QED
      BY <3>2, <3>3 DEF OneOwner
  <2>3. CASE At(j, p)' \notin disk.used
    <3>1. j = i /\ k = i /\ At(i, p) = 0
      BY <2>1, <2>3
    <3> QED
      BY <3>1
  <2> QED
    BY <2>2, <2>3
<1>4. Owned'
  <2> SUFFICES ASSUME NEW b \in disk'.used
               PROVE  b \in holes' \/ \E j \in Files, p \in Positions : At(j, p)' = b
    BY DEF Owned
  <2>1. CASE b \in disk.used
    <3>1. CASE b \in holes
      BY <3>1
    <3>2. CASE b \notin holes
      <4>1. PICK j \in Files, p \in Positions : At(j, p) = b
        BY <1>1, <2>1, <3>2 DEF Owned
      <4>2. b # 0
        BY <2>1 DEF IInv, StateOK, TypeOK, Disks
      <4>3. At(j, p)' = b
        BY <4>1, <4>2
      <4> QED
        BY <4>3
    <3> QED
      BY <3>1, <3>2
  <2>2. CASE b \notin disk.used
    BY <2>2
  <2> QED
    BY <2>1, <2>2
<1> QED
  BY <1>2, <1>3, <1>4

\* The holder of a file's mutex, in read or write, sees the file whole.
LEMMA HolderSees ==
  ASSUME IInv, NEW t \in Threads, NEW i, i = File(t), pc[t] \in {"read", "write"}
  PROVE  /\ i \in Files /\ mem[i] \in INodes /\ Current(i) = mem[i]
         /\ ilock[i] = t /\ Freed(i) = 0
         /\ AllMarked(disk, mem[i].addrs)
<1>1. i \in Files /\ mem[i] \in INodes
  BY Caller
<1>2. ilock[i] = t
  BY <1>1 DEF IInv, CallsOK, CallOK, LockOK, LockPCs
<1>3. Current(i) = mem[i] /\ Freed(i) = 0
  BY <1>1, <1>2 DEF Current, Freed
<1>4. ASSUME NEW p \in Positions, Place(disk, mem[i].addrs, p) # 0
      PROVE  Place(disk, mem[i].addrs, p) \in disk.used
  <2>1. At(i, p) = Place(disk, mem[i].addrs, p)
    BY <1>3, AtIs DEF Positions
  <2> QED
    BY <1>1, <1>4, <2>1 DEF IInv, BlocksOK, Marked
<1> QED
  BY <1>1, <1>2, <1>3, <1>4 DEF AllMarked

\* A step of file i that maps position n, with what else it may do to the file's
\* inode and to the bytes of the block.
MapStep(i, n, r) ==
  /\ i \in Files /\ mem[i] \in INodes /\ mem'[i] \in INodes
  /\ Freed(i) = 0 /\ Freed(i)' = 0
  /\ n \in 0 .. MAX_FILE - 1
  /\ Grew(disk, mem[i].addrs, n, r)
  /\ disk'.used = r.disk.used
  /\ disk'.ind = r.disk.ind
  /\ mem'[i].addrs = r.addrs
  /\ \A b \in Blocks :
       \/ disk'.blk[b] = r.disk.blk[b]
       \/ b = r.b /\ disk'.blk[b] \subseteq r.disk.blk[b] \cup {i}
  /\ \A j \in Files \ {i} :
       Current(j)' = Current(j) /\ disk'.ino[j] = disk.ino[j] /\ Freed(j)' = Freed(j)
  /\ holes \subseteq holes'

\* The other files stay as they are.
LEMMA MapStepOthers ==
  ASSUME IInv, StateOK', NEW i, NEW n, NEW r, MapStep(i, n, r), NEW j \in Files \ {i}
  PROVE  /\ \A p \in Positions : At(j, p)' = At(j, p)
         /\ Settled(j) => \A p \in Positions : OnDisk(j, p)' = OnDisk(j, p)
<1>1. /\ Current(j)' = Current(j) /\ disk'.ino[j] = disk.ino[j] /\ Freed(j)' = Freed(j)
      /\ disk'.ind = r.disk.ind /\ Grown(disk, mem[i].addrs, r.disk, r.addrs)
      /\ i \in Files /\ Current(i) = mem[i]
  BY DEF MapStep, Grew, Current
<1>2. ASSUME At(j, MAX_FILE) # 0
      PROVE  disk'.ind[At(j, MAX_FILE)] = disk.ind[At(j, MAX_FILE)]
  <2>1. MAX_FILE \in Positions
    BY DEF Positions
  <2>2. At(j, MAX_FILE) \in disk.used
    BY <1>2, <2>1 DEF IInv, BlocksOK, Marked
  <2>3. At(j, MAX_FILE) # At(i, MAX_FILE)
    BY <1>1, <1>2, <2>1 DEF IInv, BlocksOK, OneOwner
  <2>4. At(j, MAX_FILE) # mem[i].addrs[NDIRECT]
    BY <1>1, <1>2, <2>3, TopIs
  <2> QED
    BY <1>1, <2>2, <2>4 DEF Grown
<1> QED
  BY <1>1, <1>2, FileStays

\* The blocks of file i itself before and after.
LEMMA MapStepOwn ==
  ASSUME IInv, NEW i, NEW n, NEW r, MapStep(i, n, r), NEW p \in Positions
  PROVE  /\ At(i, p) = Place(disk, mem[i].addrs, p)
         /\ At(i, p)' = Place(r.disk, r.addrs, p)
<1>1. /\ Freed(i) = 0 /\ Freed(i)' = 0 /\ Current(i) = mem[i]
      /\ Current(i)' = mem'[i] /\ mem'[i].addrs = r.addrs /\ disk'.ind = r.disk.ind
  BY DEF MapStep, Current
<1>2. At(i, p) = Place(disk, mem[i].addrs, p)
  BY <1>1, AtIs DEF Positions
<1>3. At(i, p)' = Place(disk', r.addrs, p)
  BY <1>1, AtNextIs DEF Positions
<1>4. Place(disk', r.addrs, p) = Place(r.disk, r.addrs, p)
  BY <1>1, PlaceSame
<1> QED
  BY <1>2, <1>3, <1>4

LEMMA MapStepOwners ==
  ASSUME IInv, StateOK', NEW i, NEW n, NEW r, MapStep(i, n, r)
  PROVE  OneOwner' /\ Marked' /\ Owned'
<1>1. PICK d, a, e, c : d = disk /\ a = mem[i].addrs /\ e = r.disk /\ c = r.addrs
  OBVIOUS
<1>2. /\ i \in Files /\ Grown(d, a, e, c) /\ disk'.used = e.used /\ holes \subseteq holes'
  BY <1>1 DEF MapStep, Grew
<1>3. \A p \in Positions : At(i, p) = Place(d, a, p) /\ At(i, p)' = Place(e, c, p)
  BY <1>1, MapStepOwn
<1>4. \A j \in Files \ {i}, p \in Positions : At(j, p)' = At(j, p)
  BY MapStepOthers
<1>5. /\ disk.used \subseteq disk'.used
      /\ \A p \in Positions : At(i, p) # 0 => At(i, p)' = At(i, p)
      /\ \A p \in Positions :
           At(i, p) = 0 /\ At(i, p)' # 0 => At(i, p)' \in disk'.used \ disk.used
  BY <1>1, <1>2, <1>3 DEF Grown
<1>6. \A p, q \in Positions :
        At(i, p) = 0 /\ At(i, p)' # 0 /\ At(i, p)' = At(i, q)' => p = q
  BY <1>1, <1>2, <1>3 DEF Grown
<1>7. \A b \in disk'.used \ disk.used : \E p \in Positions : At(i, p)' = b
  BY <1>1, <1>2, <1>3 DEF Grown
<1> QED
  BY <1>2, <1>4, <1>5, <1>6, <1>7, OwnersGrow

\* New blocks are empty, and bytes are written to the file's own block.
LEMMA MapStepBytes ==
  ASSUME IInv, StateOK', NEW i, NEW n, NEW r, MapStep(i, n, r)
  PROVE  OwnBytes'
<1>1. /\ i \in Files /\ Grown(disk, mem[i].addrs, r.disk, r.addrs)
      /\ n \in Positions
      /\ r.b # 0 => r.b = Place(r.disk, r.addrs, n)
      /\ disk'.used = r.disk.used
  BY DEF MapStep, Grew, Positions
<1>2. \A b \in Blocks :
        \/ disk'.blk[b] = r.disk.blk[b]
        \/ b = r.b /\ disk'.blk[b] \subseteq r.disk.blk[b] \cup {i}
  BY DEF MapStep
<1>3. /\ \A b \in disk.used : r.disk.blk[b] = disk.blk[b]
      /\ \A b \in disk'.used \ disk.used : r.disk.blk[b] = {}
  BY <1>1 DEF Grown
<1>4. OneOwner' /\ Marked'
  BY MapStepOwners
<1>5. disk'.used \subseteq Blocks
  BY DEF StateOK, TypeOK, Disks
<1> SUFFICES ASSUME NEW j \in Files, NEW p \in 0 .. MAX_FILE - 1, NEW x, x = At(j, p)', x # 0
             PROVE  disk'.blk[x] \subseteq {j}
  BY DEF OwnBytes
<1>6. p \in Positions /\ x \in disk'.used /\ x \in Blocks
  <2>1. p \in Positions
    BY DEF Positions
  <2> QED
    BY <1>4, <1>5, <2>1 DEF Marked
<1>7. CASE j # i
  <2>1. At(j, p)' = At(j, p)
    BY <1>6, <1>7, MapStepOthers
  <2>2. x \in disk.used /\ disk.blk[x] \subseteq {j}
    BY <1>6, <2>1 DEF IInv, BlocksOK, Marked, OwnBytes
  <2>3. x # r.b
    <3> SUFFICES ASSUME x = r.b PROVE FALSE
      OBVIOUS
    <3>1. At(i, n)' = r.b
      BY <1>1, MapStepOwn
    <3>2. At(i, n)' = At(j, p)' /\ At(j, p)' # 0
      BY <3>1
    <3>3. n \in Positions /\ i \in Files
      BY <1>1
    <3>4. ASSUME NEW k \in Files, NEW l \in Files, NEW y \in Positions, NEW z \in Positions,
                 At(k, y)' # 0, At(k, y)' = At(l, z)'
          PROVE  k = l
      BY <1>4, <3>4 DEF OneOwner
    <3> QED
      BY <1>6, <1>7, <3>2, <3>3, <3>4
  <2> QED
    BY <1>2, <1>3, <1>6, <2>2, <2>3
<1>8. CASE j = i
  <2>1. r.disk.blk[x] \subseteq {i}
    <3>1. CASE At(i, p) # 0
      <4>1. At(i, p) = Place(disk, mem[i].addrs, p) /\ x = Place(r.disk, r.addrs, p)
        BY <1>6, <1>8, MapStepOwn
      <4>2. x = At(i, p)
        BY <1>1, <1>6, <3>1, <4>1 DEF Grown
      <4>3. x \in disk.used /\ disk.blk[x] \subseteq {i}
        BY <1>1, <1>6, <4>2 DEF IInv, BlocksOK, Marked, OwnBytes
      <4> QED
        BY <1>3, <4>3
    <3>2. CASE At(i, p) = 0
      <4>1. At(i, p) = Place(disk, mem[i].addrs, p) /\ x = Place(r.disk, r.addrs, p)
        BY <1>6, <1>8, MapStepOwn
      <4>2. x \in disk'.used \ disk.used
        BY <1>1, <1>6, <3>2, <4>1 DEF Grown
      <4> QED
        BY <1>3, <4>2
    <3> QED
      BY <3>1, <3>2
  <2> QED
    BY <1>2, <1>6, <1>8, <2>1
<1> QED
  BY <1>7, <1>8

\* What a settled inode on disk leads to, for one file.
WrittenAt(i) ==
  Settled(i) => \A p \in Positions :
    OnDisk(i, p) = At(i, p) \/ (OnDisk(i, p) = 0 /\ At(i, p) \in holes)

\* The other files again.
LEMMA MapStepWritten ==
  ASSUME IInv, StateOK', NEW i, NEW n, NEW r, MapStep(i, n, r), NEW j \in Files \ {i},
         Settled(j)' => Settled(j)
  PROVE  WrittenAt(j)'
<1> SUFFICES ASSUME Settled(j)', NEW p \in Positions
             PROVE  OnDisk(j, p)' = At(j, p)' \/ (OnDisk(j, p)' = 0 /\ At(j, p)' \in holes')
  BY DEF WrittenAt
<1>1. Settled(j)
  OBVIOUS
<1>2. OnDisk(j, p) = At(j, p) \/ (OnDisk(j, p) = 0 /\ At(j, p) \in holes)
  BY <1>1 DEF IInv, BlocksOK, Written
<1>3. At(j, p)' = At(j, p) /\ OnDisk(j, p)' = OnDisk(j, p)
  BY <1>1, MapStepOthers
<1>4. holes \subseteq holes'
  BY DEF MapStep
<1> QED
  BY <1>2, <1>3, <1>4

\* A read leaves the inode on disk alone, and what it allocates is in holes.
LEMMA MapStepRead ==
  ASSUME IInv, StateOK', NEW i, NEW n, NEW r, MapStep(i, n, r), Settled(i),
         disk'.ino = disk.ino, disk'.used \ disk.used \subseteq holes'
  PROVE  WrittenAt(i)'
<1> SUFFICES ASSUME NEW p \in Positions
             PROVE  OnDisk(i, p)' = At(i, p)' \/ (OnDisk(i, p)' = 0 /\ At(i, p)' \in holes')
  BY DEF WrittenAt
<1>0. /\ i \in Files /\ holes \subseteq holes'
      /\ disk'.ind = r.disk.ind /\ disk'.used = r.disk.used
      /\ Grown(disk, mem[i].addrs, r.disk, r.addrs)
      /\ mem'[i] \in INodes /\ mem'[i].addrs = r.addrs
  BY DEF MapStep, Grew
<1>1. OnDisk(i, p) = At(i, p) \/ (OnDisk(i, p) = 0 /\ At(i, p) \in holes)
  BY <1>0 DEF IInv, BlocksOK, Written
<1>2. /\ At(i, p) # 0 => At(i, p)' = At(i, p)
      /\ At(i, p) = 0 /\ At(i, p)' # 0 => At(i, p)' \in disk'.used \ disk.used
  <2>1. At(i, p) = Place(disk, mem[i].addrs, p) /\ At(i, p)' = Place(r.disk, r.addrs, p)
    BY MapStepOwn
  <2> QED
    BY <1>0, <2>1 DEF Grown
<1>3. OnDisk(i, p)' = OnDisk(i, p) \/ OnDisk(i, p)' = At(i, p)'
  <2>1. PICK b, c, d, e : b = disk.ino[i].addrs /\ c = r.addrs /\ d = disk /\ e = disk'
    OBVIOUS
  <2>2. OnDisk(i, p) = Place(d, b, p) /\ OnDisk(i, p)' = Place(e, b, p)
    BY <2>1, AtIs, AtNextIs
  <2>3. CASE b[NDIRECT] = 0
    BY <2>2, <2>3, PlaceSame
  <2>4. CASE b[NDIRECT] # 0
    <3>1. MAX_FILE \in Positions
      BY DEF Positions
    <3>2. At(i, MAX_FILE) = b[NDIRECT]
      BY <1>0, <2>1, <2>4, TopIs
    <3>3. c[NDIRECT] = b[NDIRECT]
      <4>1. At(i, MAX_FILE) = Place(disk, mem[i].addrs, MAX_FILE)
        BY <3>1, MapStepOwn
      <4>2. Place(r.disk, r.addrs, MAX_FILE) = Place(disk, mem[i].addrs, MAX_FILE)
        BY <1>0, <2>4, <3>1, <3>2, <4>1 DEF Grown
      <4>3. Place(r.disk, r.addrs, MAX_FILE) = c[NDIRECT]
        BY <2>1, PlaceTop
      <4> QED
        BY <3>2, <4>1, <4>2, <4>3
    <3>4. At(i, p)' = Place(e, c, p)
      <4>1. At(i, p)' = Place(r.disk, r.addrs, p)
        BY MapStepOwn
      <4>2. Place(disk', r.addrs, p) = Place(r.disk, r.addrs, p)
        BY <1>0, PlaceSame
      <4> QED
        BY <2>1, <4>1, <4>2
    <3>5. CASE p < NDIRECT
      <4>1. p \in 0 .. NDIRECT - 1
        BY <3>5 DEF Positions
      <4> QED
        BY <2>2, <4>1, PlaceDirect
    <3>6. CASE p = MAX_FILE
      BY <2>2, <3>6, PlaceTop
    <3>7. CASE p >= NDIRECT /\ p # MAX_FILE
      <4>1. p \in NDIRECT .. MAX_FILE - 1
        BY <3>7 DEF Positions
      <4>2. Place(e, c, p) = IF c[NDIRECT] = 0 THEN 0 ELSE e.ind[c[NDIRECT]][p - NDIRECT]
        BY <4>1, PlaceEntry
      <4>3. Place(e, b, p) = IF b[NDIRECT] = 0 THEN 0 ELSE e.ind[b[NDIRECT]][p - NDIRECT]
        BY <4>1, PlaceEntry
      <4> QED
        BY <2>2, <3>3, <3>4, <4>2, <4>3
    <3> QED
      BY <3>5, <3>6, <3>7 DEF Positions
  <2> QED
    BY <2>3, <2>4
<1> QED
  BY <1>0, <1>1, <1>2, <1>3

\* update() writes what the file has become.
LEMMA UpdateWrites ==
  ASSUME NEW i, Freed(i)' = 0, Current(i)' = disk'.ino[i]
  PROVE  WrittenAt(i)'
<1> SUFFICES ASSUME NEW p \in Positions PROVE OnDisk(i, p)' = At(i, p)'
  BY DEF WrittenAt
<1> QED
  BY AtNextIs DEF Positions

----------------------------------------------------------------------------
(* What one thread's step leaves alone.                                    *)

\* The arithmetic of blocks.
LEMMA DivIs ==
  ASSUME NEW x \in Int
  PROVE  /\ x \div BSIZE \in Int
         /\ BSIZE * (x \div BSIZE) <= x
         /\ x < BSIZE * (x \div BSIZE) + BSIZE
OBVIOUS

LEMMA DivNat ==
  ASSUME NEW x \in Nat
  PROVE  x \div BSIZE \in Nat
OBVIOUS

LEMMA DivLess ==
  ASSUME NEW x \in Int, NEW k \in Int, x < k * BSIZE
  PROVE  x \div BSIZE < k
<1>1. PICK q : q = x \div BSIZE
  OBVIOUS
<1>2. q \in Int /\ BSIZE * q <= x
  BY <1>1, DivIs
<1> SUFFICES ASSUME q >= k PROVE FALSE
  BY <1>1, <1>2
<1>3. PICK z \in Nat : q = k + z
  BY <1>2
<1>4. BSIZE * q = k * BSIZE + BSIZE * z /\ BSIZE * z >= 0
  BY <1>3
<1> QED
  BY <1>2, <1>4

LEMMA DivMono ==
  ASSUME NEW x \in Int, NEW y \in Int, x <= y
  PROVE  x \div BSIZE <= y \div BSIZE
<1>1. PICK q : q = y \div BSIZE
  OBVIOUS
<1>2. q \in Int /\ y < BSIZE * q + BSIZE
  BY <1>1, DivIs
<1>3. BSIZE * q + BSIZE = (q + 1) * BSIZE /\ BSIZE * q \in Int
  BY <1>2
<1>4. x < (q + 1) * BSIZE
  BY <1>2, <1>3
<1>5. x \div BSIZE < q + 1
  BY <1>2, <1>4, DivLess
<1> QED
  BY <1>1, <1>2, <1>5, DivIs

\* n blocks of bytes, wherever they begin, are in no more than n + 1 blocks.
LEMMA DivSpan ==
  ASSUME NEW x \in Nat, NEW n \in Nat, NEW y \in Nat, y <= n * BSIZE
  PROVE  (x + y - 1) \div BSIZE <= x \div BSIZE + n
<1>1. PICK q : q = x \div BSIZE
  OBVIOUS
<1>2. q \in Int /\ x < BSIZE * q + BSIZE
  BY <1>1, DivIs
<1>3. /\ BSIZE * q + BSIZE + n * BSIZE = (q + n + 1) * BSIZE
      /\ n * BSIZE \in Nat /\ BSIZE * q \in Int
  BY <1>2
<1>4. x + y - 1 < (q + n + 1) * BSIZE
  <2>1. PICK u, v, w : u = BSIZE * q /\ v = n * BSIZE /\ w = (q + n + 1) * BSIZE
    OBVIOUS
  <2>2. u \in Int /\ v \in Nat /\ u + BSIZE + v = w /\ x < u + BSIZE /\ y <= v
    BY <1>2, <1>3, <2>1
  <2>3. x + y - 1 < w
    BY <2>2
  <2> QED
    BY <2>1, <2>3
<1>5. (x + y - 1) \div BSIZE < q + n + 1
  <2>1. x + y - 1 \in Int /\ q + n + 1 \in Int
    BY <1>2
  <2> QED
    BY <1>4, <2>1, DivLess
<1> QED
  BY <1>1, <1>2, <1>5, DivIs

\* A file whose mutex nobody takes, gives back or works under.
Untouched(j) ==
  /\ ilock'[j] = ilock[j]
  /\ ilock[j] # None => pc'[ilock[j]] = pc[ilock[j]] /\ tot'[ilock[j]] = tot[ilock[j]]

LEMMA UntouchedStays ==
  ASSUME NEW j, Untouched(j)
  PROVE  Freed(j)' = Freed(j) /\ Settled(j)' = Settled(j)
BY DEF Untouched, Freed, Settled

\* The step is thread t's: the calls of the others stay where they are.
Mine(t) ==
  \A u \in Threads \ {t} :
    /\ pc'[u] = pc[u] /\ fd'[u] = fd[u] /\ pos'[u] = pos[u] /\ want'[u] = want[u]
    /\ tot'[u] = tot[u] /\ logged'[u] = logged[u]
    /\ \A j \in Files : ilock'[j] = u <=> ilock[j] = u

\* A call whose thread does nothing and whose file, if it holds the mutex,
\* stays as it is.
LEMMA CallStays ==
  ASSUME IInv, NEW t, Mine(t), NEW u \in Threads \ {t},
         fd[u] # None => fp'[fd[u]] = fp[fd[u]],
         pc[u] \in LockPCs =>
           /\ mem'[File(u)] = mem[File(u)]
           /\ \A p \in Positions : At(File(u), p)' = At(File(u), p)
  PROVE  CallOK(u)'
<1>1. CallOK(u)
  BY DEF IInv, CallsOK
<1>2. /\ pc'[u] = pc[u] /\ fd'[u] = fd[u] /\ pos'[u] = pos[u] /\ want'[u] = want[u]
      /\ tot'[u] = tot[u] /\ logged'[u] = logged[u]
      /\ \A j \in Files : ilock'[j] = u <=> ilock[j] = u
  BY DEF Mine
<1>3. fd[u] # None => File(u)' = File(u)
  BY <1>2 DEF File
<1>4. pc[u] # "idle" <=> fd[u] # None
  BY <1>1 DEF CallOK, HandleOK
<1>5. HandleOK(u)'
  BY <1>1, <1>2 DEF CallOK, HandleOK
<1>6. LockOK(u)'
  <2>1. pc[u] \in LockPCs => File(u)' = File(u)
    BY <1>3, <1>4 DEF LockPCs
  <2> QED
    BY <1>1, <1>2, <2>1 DEF CallOK, LockOK
<1>7. WriteOK(u)'
  <2> SUFFICES ASSUME pc[u] = "write"
               PROVE  tot'[u] <= Chunk(u)' /\ (tot'[u] > 0 => ~OutOfRange(u)')
    BY <1>2 DEF WriteOK
  <2>1. File(u)' = File(u) /\ mem'[File(u)] = mem[File(u)]
    BY <1>3, <1>4 DEF LockPCs
  <2>2. Chunk(u)' = Chunk(u)
    BY <1>2 DEF Chunk, MaxChunk
  <2>3. OutOfRange(u)' = OutOfRange(u)
    BY <1>2, <2>1, <2>2 DEF OutOfRange
  <2> QED
    BY <1>1, <1>2, <2>2, <2>3 DEF CallOK, WriteOK
<1>8. TruncOK(u)'
  <2> SUFFICES ASSUME pc[u] = "trunc" PROVE TruncOK(u)'
    BY <1>2 DEF TruncOK
  <2>1. File(u)' = File(u) /\ mem'[File(u)] = mem[File(u)]
    BY <1>3, <1>4 DEF LockPCs
  <2> QED
    BY <1>1, <1>2, <2>1 DEF CallOK, TruncOK
<1>9. LogOK(u)'
  <2>1. CASE pc[u] = "write"
    <3>1. File(u)' = File(u) /\ \A p \in Positions : At(File(u), p)' = At(File(u), p)
      BY <1>3, <1>4, <2>1 DEF LockPCs
    <3>2. PICK f : f = File(u)
      OBVIOUS
    <3>3. \A p \in Positions : (At(File(u), p))' = At(f, p)
      BY <3>1, <3>2
    <3>4. MAX_FILE \in Positions
      BY DEF Positions
    <3>5. Passed(u)' = Passed(u)
      BY <1>2, <3>2, <3>3 DEF Passed
    <3>6. logged[u] \subseteq {BITMAP, At(f, MAX_FILE)} \cup Passed(u)
      BY <1>1, <2>1, <3>2 DEF CallOK, LogOK
    <3>7. logged'[u] \subseteq {BITMAP, (At(File(u), MAX_FILE))'} \cup Passed(u)'
      BY <1>2, <3>3, <3>4, <3>5, <3>6
    <3> QED
      BY <1>2, <2>1, <3>7 DEF LogOK
  <2>2. CASE pc[u] # "write"
    BY <1>1, <1>2, <2>2 DEF CallOK, LogOK
  <2> QED
    BY <2>1, <2>2
<1> QED
  BY <1>5, <1>6, <1>7, <1>8, <1>9 DEF CallOK

\* Files that others have locked stay as they are, and so do their calls.
LEMMA OthersStay ==
  ASSUME IInv, NEW t \in Threads, Mine(t), fp' = fp,
         \A j \in Files : ilock[j] \notin {t, None} => mem'[j] = mem[j],
         \A j \in Files, p \in Positions : ilock[j] \notin {t, None} => At(j, p)' = At(j, p)
  PROVE  \A u \in Threads \ {t} : CallOK(u)'
<1> SUFFICES ASSUME NEW u \in Threads \ {t} PROVE CallOK(u)'
  OBVIOUS
<1>1. ASSUME pc[u] \in LockPCs
      PROVE  /\ mem'[File(u)] = mem[File(u)]
             /\ \A p \in Positions : At(File(u), p)' = At(File(u), p)
  <2>1. PICK j : j = File(u)
    OBVIOUS
  <2>2. j \in Files /\ fd[u] # None
    BY <1>1, <2>1, Caller DEF LockPCs
  <2>3. ilock[j] = u
    BY <1>1, <2>1, <2>2 DEF IInv, CallsOK, CallOK, LockOK
  <2>4. mem'[j] = mem[j] /\ \A p \in Positions : At(j, p)' = At(j, p)
    BY <2>2, <2>3
  <2>5. File(u)' = j
    BY <2>1 DEF File, Mine
  <2> QED
    BY <2>1, <2>4, <2>5
<1> QED
  BY <1>1, CallStays

\* A file that t does not lock before or after the step is untouched.
LEMMA OthersUntouched ==
  ASSUME IInv, NEW t \in Threads, Mine(t), ilock' \in [Files -> Threads \cup {None}],
         NEW j \in Files, ilock[j] # t, ilock'[j] # t
  PROVE  Untouched(j)
<1>1. ilock[j] \in Threads \cup {None} /\ ilock'[j] \in Threads \cup {None}
  BY DEF IInv, StateOK, TypeOK
<1>2. \A u \in Threads \ {t} : ilock'[j] = u <=> ilock[j] = u
  BY DEF Mine
<1>3. ilock'[j] = ilock[j]
  BY <1>1, <1>2
<1> QED
  BY <1>1, <1>3 DEF Untouched, Mine

\* Nothing but who owns which mutex has changed.
LEMMA BlocksStay ==
  ASSUME IInv, StateOK', disk' = disk, holes' = holes,
         \A j \in Files : Current(j)' = Current(j) /\ Freed(j)' = Freed(j),
         \A j \in Files : Settled(j)' => Settled(j)
  PROVE  BlocksOK' /\ \A j \in Files, p \in Positions : At(j, p)' = At(j, p)
<1>1. \A j \in Files, p \in Positions : At(j, p)' = At(j, p) /\ OnDisk(j, p)' = OnDisk(j, p)
  <2> SUFFICES ASSUME NEW j \in Files, NEW p \in Positions
               PROVE  At(j, p)' = At(j, p) /\ OnDisk(j, p)' = OnDisk(j, p)
    OBVIOUS
  <2> QED
    BY AtIs, AtNextIs DEF Positions
<1>2. OneOwner' /\ Marked' /\ Owned' /\ OwnBytes'
  <2>1. \A p \in 0 .. MAX_FILE - 1 : p \in Positions
    BY DEF Positions
  <2>2. OneOwner'
    <3>1. OneOwner
      BY DEF IInv, BlocksOK
    <3> SUFFICES ASSUME NEW j \in Files, NEW k \in Files, NEW p \in Positions,
                        NEW q \in Positions, At(j, p)' # 0, At(j, p)' = At(k, q)'
                 PROVE  j = k /\ p = q
      BY DEF OneOwner
    <3>2. At(j, p)' = At(j, p) /\ At(k, q)' = At(k, q)
      BY <1>1
    <3>3. At(j, p) # 0 /\ At(j, p) = At(k, q)
      BY <3>2
    <3> QED
      BY <3>1, <3>3 DEF OneOwner
  <2>3. Marked' /\ Owned' /\ OwnBytes'
    BY <1>1, <2>1 DEF IInv, BlocksOK, Marked, Owned, OwnBytes
  <2> QED
    BY <2>2, <2>3
<1>3. Written'
  BY <1>1 DEF IInv, BlocksOK, Written
<1> QED
  BY <1>1, <1>2, <1>3 DEF BlocksOK

\* The stable copy changes only in end_op, and blocks are never found again.
LEMMA StableStays ==
  ASSUME IInv, stable' = stable, holes \subseteq holes'
  PROVE  StableOK'
<1>1. ASSUME NEW d, NEW H, NEW G, Exact(d, H), H \subseteq G PROVE Exact(d, G)
  BY <1>1 DEF Exact
<1> QED
  BY <1>1 DEF IInv, StableOK

\* What an operation can have logged is finite.
LEMMA LoggedFinite ==
  ASSUME NEW S, S \subseteq Blocks \cup {BITMAP, INODE}
  PROVE  IsFiniteSet(S)
<1>1. IsFiniteSet(Blocks)
  BY FS_Interval
<1>2. IsFiniteSet((Blocks \cup {BITMAP}) \cup {INODE})
  BY <1>1, FS_AddElement
<1>3. S \subseteq (Blocks \cup {BITMAP}) \cup {INODE}
  OBVIOUS
<1> QED
  BY <1>2, <1>3, FS_Subset

----------------------------------------------------------------------------
(* The actions: calls and mutexes.                                         *)

\* Where it is clear that the types are kept.
LEMMA LoggedType ==
  ASSUME NEW L \in [Threads -> SUBSET (Blocks \cup {BITMAP, INODE})], NEW t \in Threads
  PROVE  IsFiniteSet(L[t])
<1>1. L[t] \subseteq Blocks \cup {BITMAP, INODE}
  OBVIOUS
<1> QED
  BY <1>1, LoggedFinite

\* A thread takes up a call, or the next chunk of a write.
Begins(t) ==
  /\ Mine(t)
  /\ UNCHANGED <<disk, stable, mem, ilock, fp, tot, logged, holes>>
  /\ pc[t] \in {"idle", "write_begin"}
  /\ pc'[t] \in {"read_lock", "write_lock", "trunc_lock", "size_lock"}
  /\ fd'[t] \in Handles
  /\ fp[fd'[t]] # None

LEMMA BeginsOK ==
  ASSUME IInv, StateOK', NEW t \in Threads, Begins(t)
  PROVE  IInv'
<1>1. ASSUME NEW j \in Files PROVE ilock[j] # t
  BY DEF IInv, CallsOK, CallOK, LockOK, LockPCs, Begins
<1>2. ilock' = ilock /\ ilock' \in [Files -> Threads \cup {None}] /\ Mine(t)
  BY DEF Begins, StateOK, TypeOK
<1>3. ASSUME NEW j \in Files PROVE Untouched(j)
  BY <1>1, <1>2 DEF IInv, StateOK, TypeOK, Untouched, Mine
<1>4. ASSUME NEW j \in Files
      PROVE  Current(j)' = Current(j) /\ Freed(j)' = Freed(j) /\ Settled(j)' = Settled(j)
  BY <1>3, UntouchedStays DEF Begins, Current
<1>5. BlocksOK' /\ \A j \in Files, p \in Positions : At(j, p)' = At(j, p)
  BY <1>4, BlocksStay DEF Begins
<1>6. CachedOK'
  BY DEF IInv, CachedOK, Begins
<1>7. StableOK'
  BY StableStays DEF Begins
<1>8. \A u \in Threads \ {t} : CallOK(u)'
  BY <1>5, OthersStay DEF Begins
<1>9. CallOK(t)'
  <2>1. CallOK(t)
    BY DEF IInv, CallsOK
  <2>2. HandleOK(t)' /\ WriteOK(t)' /\ TruncOK(t)' /\ LogOK(t)'
    BY <2>1 DEF Begins, CallOK, HandleOK, WriteOK, TruncOK, LogOK
  <2>3. LockOK(t)'
    BY <1>1, <2>1 DEF Begins, CallOK, LockOK, LockPCs
  <2> QED
    BY <2>2, <2>3 DEF CallOK
<1> QED
  BY <1>5, <1>6, <1>7, <1>8, <1>9 DEF IInv, CallsOK

LEMMA BeginOpOK ==
  ASSUME IInv, NEW t \in Threads, NEW n \in Nat, NEW next,
         next \in {"write_lock", "trunc_lock", "size_lock"},
         pc[t] \in {"idle", "write_begin"}, BeginOp(t, n, next), calls' \in 0 .. MaxCalls,
         NEW h \in Handles, fp[h] # None, fd' = [fd EXCEPT ![t] = h]
  PROVE  IInv'
<1>1. StateOK
  BY DEF IInv
<1>2. StateOK'
  BY <1>1 DEF StateOK, TypeOK, BeginOp, Goto, PCs, OpPCs
<1>3. Begins(t)
  BY <1>1 DEF StateOK, TypeOK, BeginOp, Goto, Begins, Mine
<1> QED
  BY <1>2, <1>3, BeginsOK

LEMMA CallsBegin ==
  ASSUME IInv, NEW t \in Threads, NEW h \in Handles, Call(t, h)
  PROVE  IInv'
<1>1. StateOK /\ calls' \in 0 .. MaxCalls
  BY ContentAssumption DEF IInv, StateOK, TypeOK, Call
<1>2. ASSUME NEW n \in Sizes, WriteBegin(t, h, n) PROVE IInv'
  <2>1. n \in Nat
    BY ContentAssumption
  <2> QED
    BY <1>1, <1>2, <2>1, BeginOpOK DEF WriteBegin, TakeUp
<1>3. ASSUME TruncBegin(t, h) PROVE IInv'
  BY <1>1, <1>3, BeginOpOK DEF TruncBegin, TakeUp
<1>4. ASSUME NEW n \in Lengths, SizeBegin(t, h, n) PROVE IInv'
  <2>1. n \in Nat
    BY ContentAssumption
  <2> QED
    BY <1>1, <1>4, <2>1, BeginOpOK DEF SizeBegin, TakeUp
<1>5. ASSUME NEW o \in Offsets, NEW n \in Sizes, ReadBegin(t, h, o, n) PROVE IInv'
  <2>1. o \in Nat /\ n \in Nat
    BY ContentAssumption
  <2>2. StateOK'
    BY <1>1, <1>5, <2>1 DEF StateOK, TypeOK, ReadBegin, TakeUp, Goto, PCs, OpPCs
  <2>3. Begins(t)
    BY <1>1, <1>5 DEF StateOK, TypeOK, ReadBegin, TakeUp, Goto, Begins, Mine
  <2> QED
    BY <2>2, <2>3, BeginsOK
<1> QED
  BY <1>2, <1>3, <1>4, <1>5 DEF Call

LEMMA WriteNextOK ==
  ASSUME IInv, NEW t \in Threads, WriteNext(t), UNCHANGED calls
  PROVE  IInv'
<1>1. pc[t] = "write_begin" /\ BeginOp(t, want[t], "write_lock") /\ UNCHANGED fd
  BY DEF WriteNext
<1>2. StateOK /\ want[t] \in Nat /\ calls' \in 0 .. MaxCalls
  BY DEF IInv, StateOK, TypeOK
<1>3. fd[t] \in Handles /\ fp[fd[t]] # None
  BY <1>1, Caller
<1>4. fd' = [fd EXCEPT ![t] = fd[t]]
  BY <1>1, <1>2 DEF StateOK, TypeOK
<1> QED
  BY <1>1, <1>2, <1>3, <1>4, BeginOpOK

\* The inode is locked: nothing is done under its mutex yet.
LEMMA LockINodeOK ==
  ASSUME IInv, NEW t \in Threads, UNCHANGED calls, NEW from, NEW to, LockINode(t, from, to),
         <<from, to>> \in {<<"write_lock", "write">>, <<"read_lock", "read">>,
                           <<"trunc_lock", "trunc">>}
  PROVE  IInv'
<1>1. StateOK
  BY DEF IInv
<1>2. /\ pc[t] = from /\ from \in {"write_lock", "read_lock", "trunc_lock"} /\ to \in LockPCs
      /\ pc[t] \notin LockPCs /\ pc[t] # "idle"
  BY DEF LockINode, LockPCs
<1>3. PICK i : i = File(t)
  OBVIOUS
<1>4. i \in Files /\ mem[i] \in INodes /\ fd[t] \in Handles /\ i = fp[fd[t]]
  BY <1>2, <1>3, Caller
<1>5. /\ ilock[i] = None /\ ilock' = [ilock EXCEPT ![i] = t]
      /\ pos' = [pos EXCEPT ![t] = off[fd[t]]] /\ pc' = [pc EXCEPT ![t] = to]
      /\ UNCHANGED <<disk, stable, mem, fp, off, fd, want, tot, logged, holes>>
  BY <1>3 DEF LockINode, Goto
<1>6. to \in PCs
  BY DEF PCs, OpPCs
<1>7. StateOK'
  BY <1>1, <1>4, <1>5, <1>6 DEF StateOK, TypeOK
<1>8. Mine(t)
  BY <1>1, <1>4, <1>5 DEF StateOK, TypeOK, Mine
<1>9. CallOK(t) /\ tot[t] = 0 /\ logged[t] = {}
  BY <1>2 DEF IInv, CallsOK, CallOK, LockOK, LogOK, LockPCs
<1>10. \A j \in Files : ilock[j] # t
  BY <1>2 DEF IInv, CallsOK, CallOK, LockOK
<1>11. ASSUME NEW j \in Files
       PROVE  Freed(j)' = Freed(j) /\ (Settled(j)' => Settled(j))
  <2>1. CASE j = i
    <3>1. ilock[j] = None /\ ilock'[j] = t /\ tot'[t] = 0
      BY <1>1, <1>4, <1>5, <1>9, <2>1 DEF StateOK, TypeOK
    <3> QED
      BY <3>1 DEF Freed, Settled
  <2>2. CASE j # i
    <3>1. ilock'[j] = ilock[j] /\ ilock[j] # t
      BY <1>1, <1>4, <1>5, <1>10, <2>2 DEF StateOK, TypeOK
    <3>2. ilock' \in [Files -> Threads \cup {None}]
      BY <1>7 DEF StateOK, TypeOK
    <3> QED
      BY <1>8, <3>1, <3>2, OthersUntouched, UntouchedStays
  <2> QED
    BY <2>1, <2>2
<1>12. BlocksOK' /\ \A j \in Files, p \in Positions : At(j, p)' = At(j, p)
  <2>1. \A j \in Files : Current(j)' = Current(j)
    BY <1>5 DEF Current
  <2> QED
    BY <1>5, <1>7, <1>11, <2>1, BlocksStay
<1>13. CachedOK' /\ StableOK'
  BY <1>5, StableStays DEF IInv, CachedOK
<1>14. \A u \in Threads \ {t} : CallOK(u)'
  BY <1>5, <1>8, <1>12, OthersStay
<1>15. CallOK(t)'
  <2>1. /\ pc'[t] = to /\ fd'[t] = fd[t] /\ tot'[t] = 0 /\ want'[t] = want[t] /\ logged'[t] = {}
        /\ pos'[t] \in Nat /\ File(t)' = i
    BY <1>1, <1>3, <1>4, <1>5, <1>9 DEF StateOK, TypeOK, File
  <2>2. HandleOK(t)'
    BY <1>2, <1>4, <1>5, <2>1 DEF HandleOK, LockPCs
  <2>3. LockOK(t)'
    BY <1>1, <1>2, <1>4, <1>5, <1>10, <2>1 DEF LockOK, StateOK, TypeOK
  <2>4. WriteOK(t)'
    <3>1. want'[t] \in Nat /\ MaxChunk \in Nat
      <4>1. (MAX_OP_BLOCKS - 1 - 1 - 2) \div 2 \in Nat
        BY ContentAssumption
      <4> QED
        BY <1>7, <4>1 DEF StateOK, TypeOK, MaxChunk
    <3> QED
      BY <2>1, <3>1 DEF WriteOK, Chunk
  <2>5. TruncOK(t)'
    BY <2>1 DEF TruncOK
  <2>6. LogOK(t)'
    BY <1>2, <2>1 DEF LogOK, LockPCs
  <2> QED
    BY <2>2, <2>3, <2>4, <2>5, <2>6 DEF CallOK
<1> QED
  BY <1>7, <1>12, <1>13, <1>14, <1>15 DEF IInv, CallsOK

LEMMA ChunkIs ==
  ASSUME StateOK, NEW t \in Threads
  PROVE  /\ (MAX_OP_BLOCKS - 1 - 1 - 2) \div 2 \in Nat
         /\ MaxChunk \in Nat
         /\ Chunk(t) \in Nat /\ Chunk(t) <= MaxChunk /\ Chunk(t) <= want[t]
<1>1. (MAX_OP_BLOCKS - 1 - 1 - 2) \div 2 \in Nat
  BY ContentAssumption
<1>2. want[t] \in Nat /\ MaxChunk \in Nat
  BY <1>1 DEF StateOK, TypeOK, MaxChunk
<1> QED
  BY <1>1, <1>2 DEF Chunk

LEMMA OneMore ==
  ASSUME NEW S, IsFiniteSet(S), NEW k \in Int, Cardinality(S) <= k, NEW x
  PROVE  IsFiniteSet(S \cup {x}) /\ Cardinality(S \cup {x}) <= k + 1
<1>1. Cardinality(S) \in Nat
  BY FS_CardinalityType
<1>2. /\ IsFiniteSet(S \cup {x})
      /\ Cardinality(S \cup {x}) = IF x \in S THEN Cardinality(S) ELSE Cardinality(S) + 1
  BY FS_AddElement
<1> QED
  BY <1>1, <1>2

\* What a write logs, its inode included, fits what begin_op has reserved: the
\* blocks of a chunk are one more than their number when the first is not begun
\* at its start, and the slop is for that one and for the bitmap.
LEMMA LogFits ==
  ASSUME IInv, NEW t \in Threads, pc[t] = "write", NEW x, NEW L,
         L \subseteq {BITMAP, INODE, x} \cup Passed(t)
  PROVE  Cardinality(L) <= MAX_OP_BLOCKS - 1
<1>1. StateOK /\ pos[t] \in Nat /\ tot[t] \in Nat /\ tot[t] <= Chunk(t)
  BY DEF IInv, CallsOK, CallOK, WriteOK, StateOK, TypeOK
<1>2. PICK n : n = (MAX_OP_BLOCKS - 1 - 1 - 2) \div 2
  OBVIOUS
<1>3. n \in Nat /\ n + 4 <= MAX_OP_BLOCKS - 1
  BY <1>2, ContentAssumption
<1>4. tot[t] <= n * BSIZE
  <2>1. MaxChunk = n * BSIZE /\ MaxChunk \in Nat /\ Chunk(t) \in Nat /\ Chunk(t) <= MaxChunk
    BY <1>1, <1>2, ChunkIs DEF MaxChunk
  <2> QED
    BY <1>1, <2>1
<1>5. PICK lo, hi : lo = pos[t] \div BSIZE /\ hi = (pos[t] + tot[t] - 1) \div BSIZE
  OBVIOUS
<1>6. lo \in Nat /\ hi \in Int /\ hi <= lo + n
  <2>1. hi <= lo + n
    BY <1>1, <1>3, <1>4, <1>5, DivSpan
  <2>2. lo \in Nat
    BY <1>1, <1>5, DivNat
  <2>3. hi \in Int
    <3>1. pos[t] + tot[t] - 1 \in Int
      BY <1>1
    <3> QED
      BY <1>5, <3>1, DivIs
  <2> QED
    BY <2>1, <2>2, <2>3
<1>7. PICK I : I = {q \in Positions : q >= lo /\ q <= hi}
  OBVIOUS
<1>8. IsFiniteSet(I) /\ Cardinality(I) <= n + 1
  <2>1. IsFiniteSet(lo .. lo + n) /\ Cardinality(lo .. lo + n) = n + 1
    <3>1. PICK m : m = lo + n
      OBVIOUS
    <3>2. lo \in Int /\ m \in Int /\ ~(lo > m) /\ m - lo + 1 = n + 1
      BY <1>3, <1>6, <3>1
    <3>3. IsFiniteSet(lo .. m) /\ Cardinality(lo .. m) = m - lo + 1
      BY <3>2, FS_Interval
    <3> QED
      BY <3>1, <3>2, <3>3
  <2>2. I \subseteq lo .. lo + n
    <3>1. ASSUME NEW q \in I PROVE q \in Int /\ q >= lo /\ q <= lo + n
      <4>1. q \in Positions /\ q >= lo /\ q <= hi
        BY <1>7
      <4>2. q \in Int
        BY <4>1 DEF Positions
      <4> QED
        BY <1>3, <1>6, <4>1, <4>2
    <3> QED
      BY <1>3, <1>6, <3>1
  <2>3. IsFiniteSet(I) /\ Cardinality(I) <= Cardinality(lo .. lo + n)
    BY <2>1, <2>2, FS_Subset
  <2> QED
    BY <2>1, <2>3
<1>9. IsFiniteSet(Passed(t)) /\ Cardinality(Passed(t)) <= n + 1
  <2>1. PICK P : P = Passed(t)
    OBVIOUS
  <2>2. PICK f : f = [q \in I |-> At(File(t), q)]
    OBVIOUS
  <2>3. P = {At(File(t), q) : q \in I}
    BY <1>5, <1>7, <2>1 DEF Passed
  <2>4. f \in [I -> P] /\ \A y \in P : \E q \in I : f[q] = y
    BY <2>2, <2>3
  <2>5. f \in Surjection(I, P)
    BY <2>4 DEF Surjection
  <2>6. IsFiniteSet(P) /\ Cardinality(P) <= Cardinality(I)
    BY <1>8, <2>5, FS_Surjection
  <2>7. Cardinality(P) \in Nat /\ Cardinality(I) \in Nat
    BY <1>8, <2>6, FS_CardinalityType
  <2> QED
    BY <1>3, <1>8, <2>1, <2>6, <2>7
<1>10. PICK Q : Q = ((Passed(t) \cup {BITMAP}) \cup {INODE}) \cup {x}
  OBVIOUS
<1>11. IsFiniteSet(Q) /\ Cardinality(Q) <= n + 4
  <2>1. PICK P, R, S : P = Passed(t) \cup {BITMAP} /\ R = P \cup {INODE} /\ S = R \cup {x}
    OBVIOUS
  <2>2. PICK k, l, m : k = n + 1 /\ l = k + 1 /\ m = l + 1
    OBVIOUS
  <2>3. k \in Int /\ l \in Int /\ m \in Int
    BY <1>3, <2>2
  <2>4. PICK T : T = Passed(t)
    OBVIOUS
  <2>5. IsFiniteSet(T) /\ Cardinality(T) <= k
    BY <1>9, <2>2, <2>4
  <2>6. IsFiniteSet(P) /\ Cardinality(P) <= k + 1
    <3>1. P = T \cup {BITMAP}
      BY <2>1, <2>4
    <3>2. IsFiniteSet(T \cup {BITMAP}) /\ Cardinality(T \cup {BITMAP}) <= k + 1
      BY <2>3, <2>5, OneMore
    <3> QED
      BY <3>1, <3>2
  <2>7. IsFiniteSet(R) /\ Cardinality(R) <= l + 1
    BY <2>1, <2>2, <2>3, <2>6, OneMore
  <2>8. IsFiniteSet(S) /\ Cardinality(S) <= m + 1
    BY <2>1, <2>2, <2>3, <2>7, OneMore
  <2> QED
    BY <1>3, <1>10, <2>1, <2>2, <2>8
<1>12. IsFiniteSet(L) /\ Cardinality(L) <= Cardinality(Q)
  <2>1. L \subseteq Q
    BY <1>10
  <2> QED
    BY <1>11, <2>1, FS_Subset
<1>13. Cardinality(L) \in Nat /\ Cardinality(Q) \in Nat
  BY <1>11, <1>12, FS_CardinalityType
<1> QED
  BY <1>3, <1>11, <1>12, <1>13, ContentAssumption

LEMMA WriteRefusedOK ==
  ASSUME IInv, NEW t \in Threads, UNCHANGED calls, WriteRefused(t)
  PROVE  IInv'
<1>1. StateOK /\ CallOK(t) /\ pc[t] = "write"
  BY DEF IInv, CallsOK, WriteRefused
<1>2. PICK i : i = File(t)
  OBVIOUS
<1>3. i \in Files /\ mem[i] \in INodes /\ fd[t] \in Handles /\ i = fp[fd[t]]
  BY <1>1, <1>2, Caller
<1>4. PICK m : m = 2 ^ Width
  OBVIOUS
<1>5. /\ off' = [off EXCEPT ![fd[t]] = @ + (m - 1)] /\ want' = [want EXCEPT ![t] = 0]
      /\ ilock' = [ilock EXCEPT ![i] = None] /\ pos' = [pos EXCEPT ![t] = 0]
      /\ tot' = [tot EXCEPT ![t] = 0] /\ pc' = [pc EXCEPT ![t] = "end_op"]
      /\ UNCHANGED <<disk, stable, mem, fp, fd, logged, holes>>
  BY <1>2, <1>4 DEF WriteRefused, UnlockINode, Goto
<1>6. m \in Nat \ {0}
  BY <1>4, ContentAssumption
<1>7. StateOK'
  BY <1>1, <1>3, <1>5, <1>6 DEF StateOK, TypeOK, PCs, OpPCs
<1>8. \A j \in Files : ilock[j] = t <=> j = i
  BY <1>1, <1>2, <1>3 DEF CallOK, LockOK, LockPCs
<1>9. tot[t] = 0
  <2>1. tot[t] \in Nat /\ (tot[t] > 0 => ~OutOfRange(t))
    BY <1>1 DEF CallOK, WriteOK, StateOK, TypeOK
  <2> QED
    BY <2>1 DEF WriteRefused
<1>10. Mine(t)
  BY <1>1, <1>3, <1>5, <1>8 DEF StateOK, TypeOK, Mine
<1>11. ASSUME NEW j \in Files
       PROVE  Freed(j)' = Freed(j) /\ (Settled(j)' => Settled(j))
  <2>1. CASE j = i
    <3>1. ilock[j] = t /\ ilock'[j] = None
      BY <1>1, <1>3, <1>5, <1>8, <2>1 DEF StateOK, TypeOK
    <3> QED
      BY <1>1, <1>9, <3>1 DEF Freed, Settled
  <2>2. CASE j # i
    <3>1. ilock'[j] = ilock[j] /\ ilock[j] # t
      BY <1>1, <1>3, <1>5, <1>8, <2>2 DEF StateOK, TypeOK
    <3>2. ilock' \in [Files -> Threads \cup {None}]
      BY <1>7 DEF StateOK, TypeOK
    <3> QED
      BY <1>10, <3>1, <3>2, OthersUntouched, UntouchedStays
  <2> QED
    BY <2>1, <2>2
<1>12. BlocksOK' /\ \A j \in Files, p \in Positions : At(j, p)' = At(j, p)
  <2>1. \A j \in Files : Current(j)' = Current(j)
    BY <1>5 DEF Current
  <2> QED
    BY <1>5, <1>7, <1>11, <2>1, BlocksStay
<1>13. CachedOK' /\ StableOK'
  BY <1>5, StableStays DEF IInv, CachedOK
<1>14. \A u \in Threads \ {t} : CallOK(u)'
  BY <1>5, <1>10, <1>12, OthersStay
<1>15. CallOK(t)'
  <2>1. /\ pc'[t] = "end_op" /\ fd'[t] = fd[t] /\ tot'[t] = 0 /\ logged'[t] = logged[t]
    BY <1>1, <1>5 DEF StateOK, TypeOK
  <2>2. \A j \in Files : ilock'[j] # t
    BY <1>1, <1>3, <1>5, <1>8 DEF StateOK, TypeOK
  <2>3. HandleOK(t)' /\ LockOK(t)' /\ WriteOK(t)' /\ TruncOK(t)'
    BY <1>3, <1>5, <2>1, <2>2 DEF HandleOK, LockOK, WriteOK, TruncOK, LockPCs
  <2>4. LogOK(t)'
    <3>1. logged[t] \subseteq {BITMAP, INODE, At(File(t), MAX_FILE)} \cup Passed(t)
      BY <1>1 DEF CallOK, LogOK
    <3>2. Cardinality(logged[t]) <= MAX_OP_BLOCKS - 1
      BY <1>1, <3>1, LogFits
    <3> QED
      BY <2>1, <3>2 DEF LogOK
  <2> QED
    BY <2>3, <2>4 DEF CallOK
<1> QED
  BY <1>7, <1>12, <1>13, <1>14, <1>15 DEF IInv, CallsOK

----------------------------------------------------------------------------
(* The actions: committing, crashing, opening and closing.                 *)

\* When the last operation ends, nobody has a file half changed, and the inodes
\* on disk lead to all blocks but those of holes.
LEMMA CommitExact ==
  ASSUME IInv, \A i \in Files : Settled(i)
  PROVE  Exact(disk, holes)
<1>1. OneOwner /\ Marked /\ Owned /\ OwnBytes /\ Written /\ StateOK
  BY DEF IInv, BlocksOK
<1>2. ASSUME NEW i \in Files, NEW p \in Positions
      PROVE  OnDisk(i, p) = At(i, p) \/ (OnDisk(i, p) = 0 /\ At(i, p) \in holes)
  BY <1>1 DEF Written
<1>3. ASSUME NEW i \in Files, NEW j \in Files, NEW p \in Positions, NEW q \in Positions,
             OnDisk(i, p) # 0, OnDisk(i, p) = OnDisk(j, q)
      PROVE  i = j /\ p = q
  <2>1. OnDisk(i, p) = At(i, p) /\ OnDisk(j, q) = At(j, q)
    BY <1>2, <1>3
  <2>2. At(i, p) # 0 /\ At(i, p) = At(j, q)
    BY <1>3, <2>1
  <2>3. OneOwner
    BY <1>1
  <2> QED
    BY <2>2, <2>3 DEF OneOwner
<1>4. ASSUME NEW i \in Files, NEW p \in Positions, OnDisk(i, p) # 0
      PROVE  /\ OnDisk(i, p) \in disk.used
             /\ p # MAX_FILE => disk.blk[OnDisk(i, p)] \subseteq {i}
  <2>1. OnDisk(i, p) = At(i, p)
    BY <1>2, <1>4
  <2>2. p # MAX_FILE => p \in 0 .. MAX_FILE - 1
    BY DEF Positions
  <2> QED
    BY <1>1, <1>4, <2>1, <2>2 DEF Marked, OwnBytes
<1>5. ASSUME NEW b \in disk.used, b \notin holes
      PROVE  \E i \in Files, p \in Positions : OnDisk(i, p) = b
  <2>1. PICK i \in Files, p \in Positions : At(i, p) = b
    BY <1>1, <1>5 DEF Owned
  <2>2. OnDisk(i, p) = b
    BY <1>2, <1>5, <2>1
  <2> QED
    BY <2>2
<1>6. \A i \in Files, p \in Positions : Phys(disk, disk.ino[i], p) = OnDisk(i, p)
  BY DEF OnDisk
<1>7. \A i, j \in Files, p, q \in Positions :
        Phys(disk, disk.ino[i], p) # 0 /\ Phys(disk, disk.ino[i], p) = Phys(disk, disk.ino[j], q)
          => i = j /\ p = q
  <2> SUFFICES ASSUME NEW i \in Files, NEW j \in Files, NEW p \in Positions, NEW q \in Positions,
                      Phys(disk, disk.ino[i], p) # 0,
                      Phys(disk, disk.ino[i], p) = Phys(disk, disk.ino[j], q)
               PROVE  i = j /\ p = q
    OBVIOUS
  <2>1. OnDisk(i, p) # 0 /\ OnDisk(i, p) = OnDisk(j, q)
    BY <1>6
  <2> QED
    BY <1>3, <2>1
<1>8. \A i \in Files, p \in Positions :
        Phys(disk, disk.ino[i], p) # 0 =>
          /\ Phys(disk, disk.ino[i], p) \in disk.used
          /\ p # MAX_FILE => disk.blk[Phys(disk, disk.ino[i], p)] \subseteq {i}
  BY <1>4, <1>6
<1>9. \A b \in disk.used :
        b \in holes \/ \E i \in Files, p \in Positions : Phys(disk, disk.ino[i], p) = b
  BY <1>5, <1>6
<1> QED
  BY <1>7, <1>8, <1>9 DEF Exact

LEMMA EndOpOK ==
  ASSUME IInv, NEW t \in Threads, UNCHANGED calls, EndOp(t)
  PROVE  IInv'
<1>1. StateOK /\ CallOK(t) /\ pc[t] = "end_op"
  BY DEF IInv, CallsOK, EndOp
<1>2. PICK g, l : /\ g = IF want[t] > 0 THEN fd[t] ELSE None
                  /\ l = IF want[t] > 0 THEN "write_begin" ELSE "idle"
  OBVIOUS
<1>3. fd[t] \in Handles /\ fp[fd[t]] # None /\ g \in Handles \cup {None} /\ l \in PCs
  <2>1. fd[t] \in Handles /\ fp[fd[t]] \in Files
    BY <1>1, Caller
  <2> QED
    BY <1>2, <2>1 DEF PCs
<1>4. /\ logged' = [logged EXCEPT ![t] = {}] /\ fd' = [fd EXCEPT ![t] = g]
      /\ pc' = [pc EXCEPT ![t] = l]
      /\ UNCHANGED <<disk, mem, ilock, fp, off, pos, want, tot, holes>>
  BY <1>2 DEF EndOp, Goto
<1>5. StateOK'
  <2>1. stable' \in Disks
    BY <1>1 DEF StateOK, TypeOK, EndOp
  <2>2. logged' \in [Threads -> SUBSET (Blocks \cup {BITMAP, INODE})]
    BY <1>1, <1>4 DEF StateOK
  <2>3. \A u \in Threads : IsFiniteSet(logged'[u])
    BY <2>2, LoggedType
  <2> QED
    BY <1>1, <1>3, <1>4, <2>1, <2>2, <2>3 DEF StateOK, TypeOK
<1>6. Mine(t)
  BY <1>1, <1>4 DEF StateOK, TypeOK, Mine
<1>7. \A j \in Files : ilock[j] # t
  BY <1>1 DEF CallOK, LockOK, LockPCs
<1>8. ASSUME NEW j \in Files PROVE Freed(j)' = Freed(j) /\ Settled(j)' = Settled(j)
  <2>1. ilock' \in [Files -> Threads \cup {None}]
    BY <1>5 DEF StateOK, TypeOK
  <2>2. ilock'[j] # t /\ ilock[j] # t
    BY <1>4, <1>7
  <2> QED
    BY <1>6, <2>1, <2>2, OthersUntouched, UntouchedStays
<1>9. BlocksOK' /\ \A j \in Files, p \in Positions : At(j, p)' = At(j, p)
  <2>1. \A j \in Files : Current(j)' = Current(j)
    BY <1>4 DEF Current
  <2> QED
    BY <1>4, <1>5, <1>8, <2>1, BlocksStay
<1>10. CachedOK'
  BY <1>4 DEF IInv, CachedOK
<1>11. \A u \in Threads \ {t} : CallOK(u)'
  BY <1>4, <1>6, <1>9, OthersStay
<1>12. CallOK(t)'
  <2>1. pc'[t] = l /\ fd'[t] = g /\ tot'[t] = 0 /\ logged'[t] = {}
    BY <1>1, <1>4 DEF StateOK, TypeOK, CallOK, LockOK, LockPCs
  <2>2. (l = "idle" /\ g = None) \/ (l = "write_begin" /\ g = fd[t])
    BY <1>2
  <2>3. HandleOK(t)'
    BY <1>3, <1>4, <2>1, <2>2 DEF HandleOK
  <2>4. LockOK(t)' /\ WriteOK(t)' /\ TruncOK(t)' /\ LogOK(t)'
    BY <1>4, <1>7, <2>1, <2>2 DEF LockOK, LockPCs, WriteOK, TruncOK, LogOK
  <2> QED
    BY <2>3, <2>4 DEF CallOK
<1>13. StableOK'
  <2>1. CASE Outstanding = 1
    <3>1. ASSUME NEW u \in Threads, pc[u] \in OpPCs PROVE u = t
      <4>1. PICK S : S = {v \in Threads : pc[v] \in OpPCs}
        OBVIOUS
      <4>2. IsFiniteSet(S) /\ Cardinality(S) = 1
        <5>1. S \subseteq Threads /\ IsFiniteSet(Threads)
          BY <4>1, ContentAssumption
        <5>2. IsFiniteSet(S)
          BY <5>1, FS_Subset
        <5> QED
          BY <2>1, <4>1, <5>2 DEF Outstanding
      <4>3. PICK x : S = {x}
        BY <4>2, FS_Singleton
      <4> QED
        BY <1>1, <3>1, <4>1, <4>3 DEF OpPCs
    <3>2. ASSUME NEW i \in Files PROVE Settled(i)
      <4> SUFFICES ASSUME ilock[i] # None PROVE pc[ilock[i]] = "read"
        BY DEF Settled
      <4>1. PICK u : u = ilock[i]
        OBVIOUS
      <4>2. u \in Threads
        BY <1>1, <4>1 DEF StateOK, TypeOK
      <4>3. pc[u] \in LockPCs
        BY <4>1, <4>2 DEF IInv, CallsOK, CallOK, LockOK
      <4>4. pc[u] \in OpPCs => u = t
        BY <3>1, <4>2
      <4> QED
        BY <1>1, <4>1, <4>3, <4>4 DEF LockPCs, OpPCs
    <3>3. Exact(disk, holes)
      BY <3>2, CommitExact
    <3>4. stable' = disk /\ holes' = holes
      BY <2>1 DEF EndOp
    <3> QED
      BY <3>3, <3>4 DEF StableOK
  <2>2. CASE Outstanding # 1
    BY <1>4, <2>2, StableStays DEF EndOp
  <2> QED
    BY <2>1, <2>2
<1> QED
  BY <1>5, <1>9, <1>10, <1>11, <1>12, <1>13 DEF IInv, CallsOK

\* A disk that is exact, with nothing cached and nobody at work.
Quiet ==
  /\ disk \in Disks /\ stable \in Disks /\ holes \in SUBSET Blocks /\ calls \in 0 .. MaxCalls
  /\ Exact(disk, holes) /\ Exact(stable, holes)
  /\ ilock = NoFile /\ mem = NoFile /\ fp = AllHandles(None) /\ off = AllHandles(0)
  /\ pc = AllThreads("idle") /\ fd = AllThreads(None) /\ tot = AllThreads(0)
  /\ pos = AllThreads(0) /\ want = AllThreads(0) /\ logged = AllThreads({})

LEMMA QuietType == Quiet => StateOK
<1> SUFFICES ASSUME Quiet PROVE StateOK
  OBVIOUS
<1>1. logged \in [Threads -> SUBSET (Blocks \cup {BITMAP, INODE})]
  BY DEF Quiet, AllThreads
<1>2. \A u \in Threads : IsFiniteSet(logged[u])
  BY <1>1, LoggedType
<1>3. mem \in [Files -> INodes \cup {None}] /\ ilock \in [Files -> Threads \cup {None}]
  BY DEF Quiet, NoFile
<1>4. fp \in [Handles -> Files \cup {None}] /\ off \in [Handles -> Nat]
  BY DEF Quiet, AllHandles
<1>5. /\ pc \in [Threads -> PCs] /\ fd \in [Threads -> Handles \cup {None}]
      /\ pos \in [Threads -> Nat] /\ want \in [Threads -> Nat] /\ tot \in [Threads -> Nat]
  BY DEF Quiet, AllThreads, PCs
<1> QED
  BY <1>1, <1>2, <1>3, <1>4, <1>5 DEF StateOK, TypeOK, Quiet

LEMMA QuietOK == Quiet => IInv
<1> SUFFICES ASSUME Quiet PROVE IInv
  OBVIOUS
<1>1. ASSUME NEW i \in Files PROVE Current(i) = disk.ino[i] /\ Freed(i) = 0
  BY DEF Quiet, NoFile, Current, Freed
<1>2. ASSUME NEW i \in Files, NEW p \in Positions
      PROVE  /\ At(i, p) = Phys(disk, disk.ino[i], p)
             /\ OnDisk(i, p) = Phys(disk, disk.ino[i], p)
  BY <1>1 DEF At, OnDisk, Positions
<1>3. PICK d, H : d = disk /\ H = holes
  OBVIOUS
<1>4. Exact(d, H) /\ \A i \in Files, p \in Positions : At(i, p) = Phys(d, d.ino[i], p)
  BY <1>2, <1>3 DEF Quiet
<1>5. OneOwner
  <2> SUFFICES ASSUME NEW j \in Files, NEW k \in Files, NEW p \in Positions,
                      NEW q \in Positions, At(j, p) # 0, At(j, p) = At(k, q)
               PROVE  j = k /\ p = q
    BY DEF OneOwner
  <2>1. Phys(d, d.ino[j], p) # 0 /\ Phys(d, d.ino[j], p) = Phys(d, d.ino[k], q)
    BY <1>4
  <2>2. \A i, n \in Files, x, y \in Positions :
          Phys(d, d.ino[i], x) # 0 /\ Phys(d, d.ino[i], x) = Phys(d, d.ino[n], y)
            => i = n /\ x = y
    BY <1>4 DEF Exact
  <2> QED
    BY <2>1, <2>2
<1>6. Marked /\ OwnBytes
  <2>1. ASSUME NEW i \in Files, NEW p \in Positions, At(i, p) # 0
        PROVE  At(i, p) \in d.used /\ (p # MAX_FILE => d.blk[At(i, p)] \subseteq {i})
    BY <1>4, <2>1 DEF Exact
  <2>2. \A p \in 0 .. MAX_FILE - 1 : p \in Positions /\ p # MAX_FILE
    BY DEF Positions
  <2> QED
    BY <1>3, <2>1, <2>2 DEF Marked, OwnBytes
<1>7. Owned
  <2> SUFFICES ASSUME NEW b \in d.used, b \notin H
               PROVE  \E i \in Files, p \in Positions : At(i, p) = b
    BY <1>3 DEF Owned
  <2>1. PICK i \in Files, p \in Positions : Phys(d, d.ino[i], p) = b
    BY <1>4 DEF Exact
  <2>2. At(i, p) = b
    BY <1>4, <2>1
  <2> QED
    BY <2>2
<1>8. Written
  BY <1>2 DEF Written
<1>9. CachedOK
  BY DEF Quiet, CachedOK, AllHandles
<1>10. CallsOK
  BY DEF Quiet, CallsOK, CallOK, HandleOK, LockOK, LockPCs, WriteOK, TruncOK, LogOK,
         AllThreads, NoFile
<1> QED
  BY <1>5, <1>6, <1>7, <1>8, <1>9, <1>10, QuietType DEF IInv, BlocksOK, Quiet, StableOK

LEMMA InitOK == Init => IInv
<1> SUFFICES ASSUME Init PROVE IInv
  OBVIOUS
<1>1. EmptyDisk \in Disks
  BY DEF EmptyDisk, EmptyINode, NoEntries, INodes, Disks
<1>2. ASSUME NEW i \in Files, NEW p \in Positions PROVE Phys(EmptyDisk, EmptyDisk.ino[i], p) = 0
  <2>1. PICK d, a : d = EmptyDisk /\ a = EmptyDisk.ino[i].addrs
    OBVIOUS
  <2>2. \A k \in 0 .. NDIRECT : a[k] = 0
    BY <2>1 DEF EmptyDisk, EmptyINode
  <2>3. Place(d, a, p) = 0
    <3>1. NDIRECT \in 0 .. NDIRECT
      OBVIOUS
    <3>2. CASE p < NDIRECT
      <4>1. p \in 0 .. NDIRECT - 1 /\ p \in 0 .. NDIRECT
        BY <3>2 DEF Positions
      <4> QED
        BY <2>2, <4>1, PlaceDirect
    <3>3. CASE p = MAX_FILE
      BY <2>2, <3>1, <3>3, PlaceTop
    <3>4. CASE p >= NDIRECT /\ p # MAX_FILE
      <4>1. p \in NDIRECT .. MAX_FILE - 1
        BY <3>4 DEF Positions
      <4> QED
        BY <2>2, <3>1, <4>1, PlaceEntry
    <3> QED
      BY <3>2, <3>3, <3>4 DEF Positions
  <2> QED
    BY <2>1, <2>3, PlaceIs
<1>3. EmptyDisk.used = {}
  BY DEF EmptyDisk
<1>4. Exact(EmptyDisk, {})
  BY <1>2, <1>3 DEF Exact
<1>5. Quiet
  BY <1>1, <1>4, ContentAssumption DEF Init, Quiet
<1> QED
  BY <1>5, QuietOK

LEMMA CrashOK ==
  ASSUME IInv, UNCHANGED calls, Crash
  PROVE  IInv'
<1>1. StateOK /\ Exact(stable, holes)
  BY DEF IInv, StableOK
<1>2. Quiet'
  BY <1>1 DEF StateOK, TypeOK, Crash, Quiet
<1>3. Quiet' => IInv'
  BY QuietOK, PTL
<1> QED
  BY <1>2, <1>3

\* Opening and closing leave the calls and the mutexes alone.
LEMMA NoCallMoves ==
  ASSUME UNCHANGED <<ilock, pc, fd, pos, want, tot, logged>>
  PROVE  Mine(None) /\ \A j \in Files : Freed(j)' = Freed(j) /\ Settled(j)' = Settled(j)
BY DEF Mine, Freed, Settled

LEMMA OpenOK ==
  ASSUME IInv, NEW h \in Handles, NEW i \in Files, UNCHANGED calls, Open(h, i)
  PROVE  IInv'
<1>1. StateOK
  BY DEF IInv
<1>2. PICK m : m = IF mem[i] = None THEN disk.ino[i] ELSE mem[i]
  OBVIOUS
<1>3. m \in INodes
  BY <1>1, <1>2 DEF StateOK, TypeOK, Disks
<1>4. /\ fp[h] = None /\ mem' = [mem EXCEPT ![i] = m] /\ fp' = [fp EXCEPT ![h] = i]
      /\ off' = [off EXCEPT ![h] = 0]
      /\ UNCHANGED <<disk, stable, ilock, pc, fd, pos, want, tot, logged, holes>>
  BY <1>2 DEF Open
<1>5. StateOK'
  BY <1>1, <1>3, <1>4 DEF StateOK, TypeOK
<1>6. ASSUME NEW j \in Files
      PROVE  Current(j)' = Current(j) /\ (mem[j] # None => mem'[j] = mem[j])
  BY <1>1, <1>2, <1>3, <1>4 DEF StateOK, Current
<1>7. Mine(None) /\ \A j \in Files : Freed(j)' = Freed(j) /\ Settled(j)' = Settled(j)
  BY <1>4, NoCallMoves
<1>8. BlocksOK' /\ \A j \in Files, p \in Positions : At(j, p)' = At(j, p)
  BY <1>4, <1>5, <1>6, <1>7, BlocksStay
<1>9. CachedOK'
  BY <1>1, <1>3, <1>4 DEF IInv, CachedOK, StateOK, TypeOK
<1>10. StableOK'
  BY <1>4, StableStays
<1>11. ASSUME NEW u \in Threads PROVE CallOK(u)'
  <2>1. fd[u] # None => fp'[fd[u]] = fp[fd[u]]
    <3>1. fd[u] # None => fd[u] \in Handles /\ fp[fd[u]] # None
      BY <1>1 DEF IInv, CallsOK, CallOK, HandleOK, StateOK, TypeOK
    <3> QED
      BY <1>1, <1>4, <3>1 DEF StateOK, TypeOK
  <2>2. ASSUME pc[u] \in LockPCs
        PROVE  /\ mem'[File(u)] = mem[File(u)]
               /\ \A p \in Positions : At(File(u), p)' = At(File(u), p)
    <3>1. PICK j : j = File(u)
      OBVIOUS
    <3>2. j \in Files /\ mem[j] \in INodes /\ fd[u] \in Handles
      BY <2>2, <3>1, Caller DEF LockPCs
    <3>3. File(u)' = j
      BY <1>4, <2>1, <3>1, <3>2 DEF File
    <3> QED
      BY <1>6, <1>8, <3>1, <3>2, <3>3
  <2>3. u \in Threads \ {None}
    OBVIOUS
  <2> QED
    BY <1>7, <2>1, <2>2, <2>3, CallStays
<1> QED
  BY <1>5, <1>8, <1>9, <1>10, <1>11 DEF IInv, CallsOK

\* The inode leaves the cache: what a read has allocated is lost, the rest is on
\* disk.
LEMMA ForgetBlocks ==
  ASSUME IInv, StateOK', NEW i \in Files, disk' = disk, holes' = holes, Settled(i),
         Freed(i)' = 0, Current(i)' = disk.ino[i],
         \A j \in Files \ {i} : Current(j)' = Current(j) /\ Freed(j)' = Freed(j),
         \A j \in Files : Settled(j)' => Settled(j)
  PROVE  BlocksOK' /\ \A j \in Files \ {i}, p \in Positions : At(j, p)' = At(j, p)
<1>1. OneOwner /\ Marked /\ Owned /\ OwnBytes /\ Written
  BY DEF IInv, BlocksOK
<1>2. ASSUME NEW j \in Files, NEW p \in Positions PROVE OnDisk(j, p)' = OnDisk(j, p)
  BY DEF OnDisk
<1>3. ASSUME NEW j \in Files \ {i}, NEW p \in Positions PROVE At(j, p)' = At(j, p)
  BY AtIs, AtNextIs DEF Positions
<1>4. ASSUME NEW p \in Positions PROVE At(i, p)' = OnDisk(i, p)
  BY DEF At, OnDisk, Positions
<1>5. ASSUME NEW j \in Files, NEW p \in Positions
      PROVE  At(j, p)' = At(j, p) \/ (At(j, p)' = 0 /\ At(j, p) \in holes)
  <2>1. CASE j = i
    BY <1>1, <1>4, <2>1 DEF Written
  <2>2. CASE j # i
    BY <1>3, <2>2
  <2> QED
    BY <2>1, <2>2
<1>6. OneOwner'
  <2> SUFFICES ASSUME NEW j \in Files, NEW k \in Files, NEW p \in Positions,
                      NEW q \in Positions, At(j, p)' # 0, At(j, p)' = At(k, q)'
               PROVE  j = k /\ p = q
    BY DEF OneOwner
  <2>1. At(j, p) # 0 /\ At(j, p) = At(k, q)
    BY <1>5
  <2>2. OneOwner
    BY <1>1
  <2> QED
    BY <2>1, <2>2 DEF OneOwner
<1>7. Marked' /\ OwnBytes'
  <2>1. \A p \in 0 .. MAX_FILE - 1 : p \in Positions
    BY DEF Positions
  <2>2. ASSUME NEW j \in Files, NEW p \in Positions, At(j, p)' # 0
        PROVE  At(j, p)' = At(j, p) /\ At(j, p) # 0
    BY <1>5, <2>2
  <2> QED
    BY <1>1, <2>1, <2>2 DEF Marked, OwnBytes
<1>8. Owned'
  <2> SUFFICES ASSUME NEW b \in disk.used, b \notin holes
               PROVE  \E j \in Files, p \in Positions : At(j, p)' = b
    BY DEF Owned
  <2>1. PICK j \in Files, p \in Positions : At(j, p) = b
    BY <1>1 DEF Owned
  <2>2. At(j, p)' = b
    BY <1>5, <2>1
  <2> QED
    BY <2>2
<1>9. Written'
  <2> SUFFICES ASSUME NEW j \in Files, NEW p \in Positions, Settled(j)'
               PROVE  OnDisk(j, p)' = At(j, p)' \/ (OnDisk(j, p)' = 0 /\ At(j, p)' \in holes)
    BY DEF Written
  <2>1. CASE j = i
    BY <1>2, <1>4, <2>1
  <2>2. CASE j # i
    BY <1>1, <1>2, <1>3, <2>2 DEF Written
  <2> QED
    BY <2>1, <2>2
<1> QED
  BY <1>3, <1>6, <1>7, <1>8, <1>9 DEF BlocksOK

LEMMA ReleaseOK ==
  ASSUME IInv, NEW h \in Handles, UNCHANGED calls, Release(h)
  PROVE  IInv'
<1>1. StateOK
  BY DEF IInv
<1>2. PICK i : i = fp[h]
  OBVIOUS
<1>3. i \in Files /\ mem[i] \in INodes
  BY <1>1, <1>2 DEF IInv, CachedOK, StateOK, TypeOK, Release
<1>4. PICK m : m = IF \E g \in Handles \ {h} : fp[g] = i THEN mem[i] ELSE None
  OBVIOUS
<1>5. /\ \A t \in Threads : fd[t] # h
      /\ mem' = [mem EXCEPT ![i] = m] /\ fp' = [fp EXCEPT ![h] = None]
      /\ off' = [off EXCEPT ![h] = 0]
      /\ UNCHANGED <<disk, stable, ilock, pc, fd, pos, want, tot, logged, holes>>
  BY <1>2, <1>4 DEF Release
<1>6. StateOK'
  BY <1>1, <1>3, <1>4, <1>5 DEF StateOK, TypeOK
<1>7. Mine(None) /\ \A j \in Files : Freed(j)' = Freed(j) /\ Settled(j)' = Settled(j)
  BY <1>5, NoCallMoves
<1>8. ASSUME NEW j \in Files \ {i} PROVE Current(j)' = Current(j) /\ mem'[j] = mem[j]
  BY <1>1, <1>5 DEF StateOK, Current
<1>9. ASSUME NEW u \in Threads, fd[u] # None
      PROVE  fd[u] \in Handles \ {h} /\ fp'[fd[u]] = fp[fd[u]]
  BY <1>1, <1>5, <1>9 DEF StateOK, TypeOK
<1>10. ASSUME NEW u \in Threads, pc[u] # "idle", File(u) = i PROVE m = mem[i]
  <2>1. fd[u] # None /\ fp[fd[u]] = i
    BY <1>10, Caller
  <2> QED
    BY <1>4, <1>9, <2>1
<1>11. BlocksOK' /\ \A j \in Files, p \in Positions : (j # i \/ m # None) => At(j, p)' = At(j, p)
  <2>1. CASE m = mem[i]
    <3>1. \A j \in Files : Current(j)' = Current(j)
      BY <1>1, <1>3, <1>5, <2>1 DEF StateOK, Current
    <3> QED
      BY <1>5, <1>6, <1>7, <3>1, BlocksStay
  <2>2. CASE m = None
    <3>1. ilock[i] = None
      <4> SUFFICES ASSUME ilock[i] # None PROVE FALSE
        OBVIOUS
      <4>1. PICK u : u = ilock[i]
        OBVIOUS
      <4>2. u \in Threads
        BY <1>1, <1>3, <4>1 DEF StateOK, TypeOK
      <4>3. pc[u] \in LockPCs /\ File(u) = i
        BY <1>3, <4>1, <4>2 DEF IInv, CallsOK, CallOK, LockOK
      <4>4. m = mem[i]
        BY <1>10, <4>2, <4>3 DEF LockPCs
      <4> QED
        BY <1>3, <2>2, <4>4
    <3>2. Settled(i) /\ Freed(i)' = 0
      BY <1>5, <3>1 DEF Settled, Freed
    <3>3. Current(i)' = disk.ino[i]
      BY <1>1, <1>3, <1>5, <2>2 DEF StateOK, Current
    <3> QED
      BY <1>3, <1>5, <1>6, <1>7, <1>8, <2>2, <3>2, <3>3, ForgetBlocks
  <2> QED
    BY <1>4, <2>1, <2>2
<1>12. CachedOK'
  <2> SUFFICES ASSUME NEW g \in Handles, fp'[g] # None PROVE mem'[fp'[g]] # None
    BY DEF CachedOK
  <2>1. g # h /\ fp'[g] = fp[g] /\ fp[g] \in Files /\ mem[fp[g]] # None
    BY <1>1, <1>5 DEF IInv, CachedOK, StateOK, TypeOK
  <2>2. CASE fp[g] = i
    <3>1. m = mem[i] /\ m # None
      BY <1>3, <1>4, <2>1, <2>2
    <3> QED
      BY <1>1, <1>3, <1>5, <2>1, <2>2, <3>1 DEF StateOK
  <2>3. CASE fp[g] # i
    BY <1>8, <2>1, <2>3
  <2> QED
    BY <2>2, <2>3
<1>13. StableOK'
  BY <1>5, StableStays
<1>14. ASSUME NEW u \in Threads PROVE CallOK(u)'
  <2>1. fd[u] # None => fp'[fd[u]] = fp[fd[u]]
    BY <1>9
  <2>2. ASSUME pc[u] \in LockPCs
        PROVE  /\ mem'[File(u)] = mem[File(u)]
               /\ \A p \in Positions : At(File(u), p)' = At(File(u), p)
    <3>1. PICK j : j = File(u)
      OBVIOUS
    <3>2. j \in Files /\ mem[j] \in INodes /\ fd[u] \in Handles /\ pc[u] # "idle"
      BY <2>2, <3>1, Caller DEF LockPCs
    <3>3. File(u)' = j
      BY <1>5, <2>1, <3>1, <3>2 DEF File
    <3>4. j = i => m = mem[i]
      BY <1>10, <3>1, <3>2
    <3>5. mem'[j] = mem[j] /\ (j # i \/ m # None)
      BY <1>1, <1>3, <1>5, <1>8, <3>2, <3>4 DEF StateOK
    <3>6. \A p \in Positions : At(j, p)' = At(j, p)
      BY <1>11, <3>2, <3>5
    <3> QED
      BY <3>1, <3>3, <3>5, <3>6
  <2>3. u \in Threads \ {None}
    OBVIOUS
  <2> QED
    BY <1>7, <2>1, <2>2, <2>3, CallStays
<1> QED
  BY <1>6, <1>11, <1>12, <1>13, <1>14 DEF IInv, CallsOK

----------------------------------------------------------------------------
(* The actions: reading and writing.                                       *)

\* Thread t works on file i, and has no other file locked.
Works(t, i) ==
  /\ Mine(t)
  /\ UNCHANGED <<fp, stable>>
  /\ i \in Files
  /\ ilock[i] \in {t, None}
  /\ \A j \in Files \ {i} :
       mem'[j] = mem[j] /\ disk'.ino[j] = disk.ino[j] /\ ilock[j] # t /\ ilock'[j] # t

LEMMA WorksOthers ==
  ASSUME IInv, StateOK', NEW t \in Threads, NEW i, Works(t, i), NEW j \in Files \ {i}
  PROVE  /\ Current(j)' = Current(j) /\ disk'.ino[j] = disk.ino[j]
         /\ Freed(j)' = Freed(j) /\ Settled(j)' = Settled(j)
<1>1. /\ mem'[j] = mem[j] /\ disk'.ino[j] = disk.ino[j] /\ ilock[j] # t /\ ilock'[j] # t
      /\ Mine(t)
  BY DEF Works
<1>2. ilock' \in [Files -> Threads \cup {None}]
  BY DEF StateOK, TypeOK
<1>3. Freed(j)' = Freed(j) /\ Settled(j)' = Settled(j)
  BY <1>1, <1>2, OthersUntouched, UntouchedStays
<1> QED
  BY <1>1, <1>3 DEF Current

\* The invariant after such a step, once the file's blocks and the call are.
LEMMA WorksOK ==
  ASSUME IInv, StateOK', NEW t \in Threads, NEW i, Works(t, i), mem'[i] \in INodes,
         \A j \in Files \ {i}, p \in Positions : At(j, p)' = At(j, p),
         holes \subseteq holes', BlocksOK', CallOK(t)'
  PROVE  IInv'
<1>1. CachedOK'
  <2>1. \A j \in Files : mem[j] # None => mem'[j] # None
    BY DEF Works
  <2>2. \A h \in Handles : fp[h] # None => fp[h] \in Files
    BY DEF IInv, StateOK, TypeOK
  <2> QED
    BY <2>1, <2>2 DEF IInv, CachedOK, Works
<1>2. StableOK'
  BY StableStays DEF Works
<1>3. \A u \in Threads \ {t} : CallOK(u)'
  BY OthersStay DEF Works
<1> QED
  BY <1>1, <1>2, <1>3 DEF IInv, CallsOK

LEMMA MapStepOK ==
  ASSUME IInv, StateOK', NEW t \in Threads, NEW i, NEW n, NEW r, Works(t, i),
         MapStep(i, n, r), WrittenAt(i)', CallOK(t)'
  PROVE  IInv'
<1>1. /\ OneOwner' /\ Marked' /\ Owned' /\ OwnBytes'
  BY MapStepOwners, MapStepBytes
<1>2. ASSUME NEW j \in Files \ {i} PROVE WrittenAt(j)'
  BY MapStepWritten, WorksOthers
<1>3. Written'
  BY <1>2 DEF Written, WrittenAt
<1>4. BlocksOK'
  BY <1>1, <1>3 DEF BlocksOK
<1>5. \A j \in Files \ {i}, p \in Positions : At(j, p)' = At(j, p)
  BY MapStepOthers
<1>6. mem'[i] \in INodes /\ holes \subseteq holes'
  BY DEF MapStep
<1> QED
  BY <1>4, <1>5, <1>6, WorksOK

\* The parts of a disk after bytes are put into a block, and after update().
LEMMA PutIs ==
  ASSUME NEW d \in Disks, NEW b \in Blocks, NEW i \in Files, NEW m, NEW e, e = Put(d, b, i, m)
  PROVE  /\ e \in Disks
         /\ e.used = d.used /\ e.ino = d.ino /\ e.ind = d.ind
         /\ \A x \in Blocks :
              e.blk[x] = d.blk[x] \/ (x = b /\ e.blk[x] \subseteq d.blk[x] \cup {i})
<1>1. PICK w : w = IF m = BSIZE THEN {i} ELSE d.blk[b] \cup {i}
  OBVIOUS
<1>2. PICK f : f = [d.blk EXCEPT ![b] = w]
  OBVIOUS
<1>3. w \in SUBSET Files /\ w \subseteq d.blk[b] \cup {i}
  BY <1>1 DEF Disks
<1>4. f \in [Blocks -> SUBSET Files] /\ \A x \in Blocks : f[x] = IF x = b THEN w ELSE d.blk[x]
  BY <1>2, <1>3 DEF Disks
<1>5. e = [d EXCEPT !.blk = f]
  BY <1>1, <1>2 DEF Put, Disks
<1>6. /\ e \in Disks /\ e.blk = f
      /\ e.used = d.used /\ e.ino = d.ino /\ e.ind = d.ind
  BY <1>4, <1>5 DEF Disks
<1> QED
  BY <1>3, <1>4, <1>6

LEMMA UpdateIs ==
  ASSUME NEW d \in Disks, NEW i \in Files, NEW m \in INodes, NEW e, e = Update(d, i, m)
  PROVE  /\ e \in Disks
         /\ e.used = d.used /\ e.ind = d.ind /\ e.blk = d.blk
         /\ e.ino[i] = m /\ \A j \in Files \ {i} : e.ino[j] = d.ino[j]
<1>1. e = [d EXCEPT !.ino = [d.ino EXCEPT ![i] = m]]
  BY DEF Update, Disks
<1> QED
  BY <1>1 DEF Disks

\* A cached inode with other addresses.
LEMMA AddrsSet ==
  ASSUME mem \in [Files -> INodes \cup {None}], NEW i \in Files, mem[i] \in INodes,
         NEW a \in Addrs, NEW f, f = [mem EXCEPT ![i].addrs = a]
  PROVE  /\ f \in [Files -> INodes \cup {None}]
         /\ f[i] \in INodes /\ f[i].addrs = a /\ f[i].size = mem[i].size
         /\ \A j \in Files \ {i} : f[j] = mem[j]
<1>1. PICK m, w : m = mem[i] /\ w = [m EXCEPT !.addrs = a]
  OBVIOUS
<1>2. w \in INodes /\ w.addrs = a /\ w.size = m.size
  BY <1>1 DEF INodes, Addrs
<1>3. f = [mem EXCEPT ![i] = w]
  BY <1>1
<1> QED
  BY <1>1, <1>2, <1>3

\* Block_map is not called, and nothing grows.
LEMMA GrewSame ==
  ASSUME disk \in Disks, NEW i, mem[i] \in INodes,
         NEW r, r = [disk |-> disk, addrs |-> mem[i].addrs, log |-> {}, b |-> 0]
  PROVE  /\ Grew(disk, mem[i].addrs, 0, r) /\ 0 \in 0 .. MAX_FILE - 1
         /\ r.disk = disk /\ r.addrs = mem[i].addrs
<1>1. r \in Maps
  BY DEF Maps, INodes, Addrs
<1> QED
  BY <1>1, GrownSame DEF Grew

\* One step of the loop of read or write moves something, and not too much.
LEMMA InThisBlockIs ==
  ASSUME StateOK, NEW t \in Threads, NEW n \in Nat, tot[t] < n
  PROVE  InThisBlock(t, n) \in Nat \ {0} /\ tot[t] + InThisBlock(t, n) <= n
<1>1. tot[t] \in Nat /\ pos[t] \in Nat
  BY DEF StateOK, TypeOK
<1>2. PICK x, y : x = n - tot[t] /\ y = BSIZE - ((pos[t] + tot[t]) % BSIZE)
  OBVIOUS
<1>3. x \in Nat \ {0} /\ y \in Nat \ {0}
  BY <1>1, <1>2
<1>4. Min({x, y}) \in {x, y} /\ Min({x, y}) <= x
  <2>1. {x, y} \in SUBSET Nat /\ {x, y} # {}
    BY <1>3
  <2>2. Min({x, y}) \in {x, y} /\ \A z \in {x, y} : Min({x, y}) <= z
    BY <2>1, MinIs
  <2> QED
    BY <2>2
<1>5. InThisBlock(t, n) = Min({x, y})
  BY <1>2 DEF InThisBlock
<1> QED
  BY <1>1, <1>2, <1>3, <1>4, <1>5

\* The position of the next byte, when it is within the largest file.
LEMMA NextBlockIs ==
  ASSUME IInv, NEW t \in Threads, pc[t] = "write", tot[t] < Chunk(t), ~OutOfRange(t)
  PROVE  (pos[t] + tot[t]) \div BSIZE \in 0 .. MAX_FILE - 1
<1>1. pos[t] \in Nat /\ tot[t] \in Nat /\ Chunk(t) \in Nat
  BY ChunkIs DEF IInv, StateOK, TypeOK
<1>2. PICK w, z : w = MAX_FILE * BSIZE /\ z = pos[t] + tot[t]
  OBVIOUS
<1>3. w \in Nat /\ ~(pos[t] + Chunk(t) > w)
  BY <1>2 DEF OutOfRange
<1>4. z \in Nat /\ z < w
  BY <1>1, <1>2, <1>3
<1>5. z \div BSIZE \in Nat
  BY <1>4, DivNat
<1>6. z \div BSIZE < MAX_FILE
  <2>1. MAX_FILE \in Int /\ z \in Int /\ z < MAX_FILE * BSIZE
    BY <1>2, <1>4
  <2> QED
    BY <2>1, DivLess
<1> QED
  BY <1>2, <1>5, <1>6

\* The next block of a write.
LEMMA WriteBlockOK ==
  ASSUME IInv, NEW t \in Threads, UNCHANGED calls, WriteBlock(t)
  PROVE  IInv'
<1>1. StateOK /\ CallOK(t) /\ pc[t] = "write" /\ tot[t] < Chunk(t) /\ ~OutOfRange(t)
  BY DEF IInv, CallsOK, WriteBlock
<1>2. PICK i, n : i = File(t) /\ n = (pos[t] + tot[t]) \div BSIZE
  OBVIOUS
<1>3. PICK r, m : r = BlockMap(i, n) /\ m = InThisBlock(t, Chunk(t))
  OBVIOUS
<1>4. /\ i \in Files /\ mem[i] \in INodes /\ Current(i) = mem[i] /\ ilock[i] = t
      /\ Freed(i) = 0 /\ AllMarked(disk, mem[i].addrs)
  BY <1>1, <1>2, HolderSees
<1>5. /\ r.b # 0 /\ disk' = Put(r.disk, r.b, i, m)
      /\ mem' = [mem EXCEPT ![i].addrs = r.addrs]
      /\ logged' = [logged EXCEPT ![t] = @ \cup r.log \cup {r.b}]
      /\ tot' = [tot EXCEPT ![t] = @ + m]
      /\ UNCHANGED <<stable, ilock, fp, off, pc, fd, pos, want, holes>>
  BY <1>2, <1>3 DEF WriteBlock
<1>6. pos[t] \in Nat /\ tot[t] \in Nat /\ Chunk(t) \in Nat /\ disk \in Disks
  BY <1>1, ChunkIs DEF StateOK, TypeOK
<1>7. n \in 0 .. MAX_FILE - 1
  BY <1>1, <1>2, NextBlockIs
<1>8. Grew(disk, mem[i].addrs, n, r)
  BY <1>3, <1>4, <1>6, <1>7, BlockMapGrows
<1>9. /\ r \in Maps /\ r.b \in Blocks /\ r.disk \in Disks /\ r.addrs \in Addrs
      /\ r.log \subseteq Blocks \cup {BITMAP, INODE}
  <2>1. r \in Maps
    BY <1>8 DEF Grew
  <2> QED
    BY <1>5, <2>1 DEF Maps
<1>10. m \in Nat \ {0} /\ tot[t] + m <= Chunk(t)
  BY <1>1, <1>3, <1>6, InThisBlockIs
<1>11. /\ disk' \in Disks /\ disk'.used = r.disk.used /\ disk'.ino = r.disk.ino
       /\ disk'.ind = r.disk.ind
       /\ \A x \in Blocks :
            disk'.blk[x] = r.disk.blk[x]
              \/ (x = r.b /\ disk'.blk[x] \subseteq r.disk.blk[x] \cup {i})
  BY <1>4, <1>5, <1>9, PutIs
<1>12. /\ mem' \in [Files -> INodes \cup {None}] /\ mem'[i] \in INodes
       /\ mem'[i].addrs = r.addrs /\ mem'[i].size = mem[i].size
       /\ \A j \in Files \ {i} : mem'[j] = mem[j]
  BY <1>1, <1>4, <1>5, <1>9, AddrsSet DEF StateOK
<1>13. StateOK'
  <2>1. logged' \in [Threads -> SUBSET (Blocks \cup {BITMAP, INODE})]
    BY <1>1, <1>5, <1>9 DEF StateOK
  <2>2. \A u \in Threads : IsFiniteSet(logged'[u])
    BY <2>1, LoggedType
  <2>3. tot' \in [Threads -> Nat]
    BY <1>1, <1>5, <1>10 DEF StateOK, TypeOK
  <2> QED
    BY <1>1, <1>5, <1>11, <1>12, <2>1, <2>2, <2>3 DEF StateOK, TypeOK
<1>14. \A j \in Files : ilock[j] = t <=> j = i
  BY <1>1, <1>2, <1>4 DEF CallOK, LockOK, LockPCs
<1>15. Works(t, i)
  <2>1. Mine(t)
    BY <1>1, <1>5 DEF StateOK, TypeOK, Mine
  <2>2. disk'.ino = disk.ino
    BY <1>8, <1>11 DEF Grew, Grown
  <2> QED
    BY <1>4, <1>5, <1>12, <1>14, <2>1, <2>2 DEF Works
<1>16. pc'[t] = "write" /\ tot'[t] = tot[t] + m /\ ilock'[i] = t /\ Freed(i)' = 0
  <2>1. pc'[t] = "write" /\ tot'[t] = tot[t] + m /\ ilock'[i] = t
    BY <1>1, <1>4, <1>5 DEF StateOK, TypeOK
  <2> QED
    BY <2>1 DEF Freed
<1>17. MapStep(i, n, r)
  <2>1. \A j \in Files \ {i} :
          Current(j)' = Current(j) /\ disk'.ino[j] = disk.ino[j] /\ Freed(j)' = Freed(j)
    BY <1>13, <1>15, WorksOthers
  <2> QED
    BY <1>4, <1>5, <1>7, <1>8, <1>11, <1>12, <1>16, <2>1 DEF MapStep
<1>18. WrittenAt(i)'
  <2>1. ~Settled(i)'
    BY <1>6, <1>10, <1>16 DEF Settled
  <2> QED
    BY <2>1 DEF WrittenAt
<1>19. CallOK(t)'
  <2>1. File(t)' = i /\ Chunk(t)' = Chunk(t) /\ pos'[t] = pos[t]
    BY <1>2, <1>5 DEF File, Chunk, MaxChunk
  <2>2. HandleOK(t)' /\ LockOK(t)' /\ TruncOK(t)'
    BY <1>1, <1>5, <1>14, <1>16, <2>1 DEF CallOK, HandleOK, LockOK, LockPCs, TruncOK
  <2>3. WriteOK(t)'
    <3>1. ~OutOfRange(t)'
      BY <1>1, <1>2, <1>12, <2>1 DEF OutOfRange
    <3> QED
      BY <1>10, <1>16, <2>1, <3>1 DEF WriteOK
  <2>4. LogOK(t)'
    <3>1. ASSUME NEW p \in Positions, At(i, p) # 0 PROVE At(i, p)' = At(i, p)
      <4>1. At(i, p) = Place(disk, mem[i].addrs, p) /\ At(i, p)' = Place(r.disk, r.addrs, p)
        BY <1>17, MapStepOwn
      <4> QED
        BY <1>8, <3>1, <4>1 DEF Grew, Grown
    <3>2. MAX_FILE \in Positions /\ n \in Positions
      BY <1>7 DEF Positions
    <3>3. At(i, MAX_FILE)' = r.addrs[NDIRECT]
      BY <1>17, <3>2, MapStepOwn, PlaceTop
    <3>4. At(i, n)' = r.b
      BY <1>5, <1>8, <1>17, <3>2, MapStepOwn DEF Grew
    <3>5. PICK lo, hi, top : /\ lo = pos[t] \div BSIZE /\ hi = (pos[t] + tot[t] - 1) \div BSIZE
                             /\ top = (pos[t] + (tot[t] + m) - 1) \div BSIZE
      OBVIOUS
    <3>6. hi <= top /\ lo <= n /\ n <= top /\ hi \in Int /\ top \in Int
      <4>1. PICK x, y, z, w : /\ x = pos[t] /\ y = pos[t] + tot[t] - 1 /\ z = pos[t] + tot[t]
                              /\ w = pos[t] + (tot[t] + m) - 1
        OBVIOUS
      <4>2. /\ x \in Int /\ y \in Int /\ z \in Int /\ w \in Int
            /\ x <= z /\ y <= w /\ z <= w
        BY <1>6, <1>10, <4>1
      <4>3. x \div BSIZE <= z \div BSIZE /\ y \div BSIZE <= w \div BSIZE
              /\ z \div BSIZE <= w \div BSIZE
        BY <4>2, DivMono
      <4>4. y \div BSIZE \in Int /\ w \div BSIZE \in Int
        BY <4>2, DivIs
      <4> QED
        BY <1>2, <3>5, <4>1, <4>3, <4>4
    <3>7. Passed(t)' = {At(i, p)' : p \in {q \in Positions : q >= lo /\ q <= top}}
      <4>1. pos'[t] + tot'[t] - 1 = pos[t] + (tot[t] + m) - 1
        BY <1>16, <2>1
      <4> QED
        BY <2>1, <3>5, <4>1 DEF Passed
    <3>8. Passed(t) = {At(i, p) : p \in {q \in Positions : q >= lo /\ q <= hi}}
      BY <1>2, <3>5 DEF Passed
    <3>9. ASSUME NEW b \in logged'[t]
          PROVE  b \in {BITMAP, At(i, MAX_FILE)'} \cup Passed(t)'
      <4>1. b # 0 /\ (b \in logged[t] \/ b \in r.log \/ b = r.b)
        <5>1. b \in Blocks \cup {BITMAP, INODE}
          BY <1>13 DEF StateOK
        <5> QED
          BY <1>1, <1>5, <5>1 DEF StateOK, BITMAP, INODE
      <4>2. ASSUME b \in logged[t] PROVE b \in {BITMAP, At(i, MAX_FILE)'} \cup Passed(t)'
        <5>1. b \in {BITMAP, At(i, MAX_FILE)} \cup Passed(t)
          BY <1>1, <1>2, <4>2 DEF CallOK, LogOK
        <5>2. CASE b \in Passed(t)
          <6>1. PICK p \in Positions : p >= lo /\ p <= hi /\ b = At(i, p)
            BY <3>8, <5>2
          <6>2. b = At(i, p)' /\ p <= top
            <7>1. p \in Int
              BY DEF Positions
            <7> QED
              BY <3>1, <3>6, <4>1, <6>1, <7>1
          <6> QED
            BY <3>7, <6>1, <6>2
        <5>3. CASE b = At(i, MAX_FILE)
          BY <3>1, <3>2, <4>1, <5>3
        <5> QED
          BY <5>1, <5>2, <5>3
      <4>3. r.b \in Passed(t)'
        <5>1. n >= lo /\ n <= top
          BY <1>7, <3>5, <3>6, DivNat, <1>6
        <5> QED
          BY <3>2, <3>4, <3>7, <5>1
      <4>4. r.log \subseteq {BITMAP, r.addrs[NDIRECT], r.b}
        BY <1>8 DEF Grew
      <4> QED
        BY <3>3, <4>1, <4>2, <4>3, <4>4
    <3>10. logged'[t] \subseteq {BITMAP, (At(File(t), MAX_FILE))'} \cup Passed(t)'
      BY <2>1, <3>9
    <3> QED
      BY <1>16, <3>10 DEF LogOK
  <2> QED
    BY <2>2, <2>3, <2>4 DEF CallOK
<1> QED
  BY <1>13, <1>15, <1>17, <1>18, <1>19, MapStepOK

\* The end of a write: the inode goes to disk with what was mapped.
LEMMA WriteEndOK ==
  ASSUME IInv, NEW t \in Threads, UNCHANGED calls, WriteEnd(t)
  PROVE  IInv'
<1>1. StateOK /\ CallOK(t) /\ pc[t] = "write" /\ tot[t] <= Chunk(t)
  BY DEF IInv, CallsOK, CallOK, WriteOK, WriteEnd
<1>2. PICK i, full : i = File(t) /\ full = (tot[t] = Chunk(t))
  OBVIOUS
<1>3. /\ i \in Files /\ mem[i] \in INodes /\ Current(i) = mem[i] /\ ilock[i] = t
      /\ Freed(i) = 0 /\ AllMarked(disk, mem[i].addrs)
  BY <1>1, <1>2, HolderSees
<1>4. pos[t] \in Nat /\ tot[t] \in Nat /\ Chunk(t) \in Nat /\ Chunk(t) <= want[t]
        /\ want[t] \in Nat /\ disk \in Disks
  BY <1>1, ChunkIs DEF StateOK, TypeOK
<1>5. PICK n : n = IF full THEN 0 ELSE (pos[t] + tot[t]) \div BSIZE
  OBVIOUS
<1>6. PICK r : r = IF full THEN [disk |-> disk, addrs |-> mem[i].addrs, log |-> {}, b |-> 0]
                           ELSE BlockMap(i, n)
  OBVIOUS
<1>7. n \in 0 .. MAX_FILE - 1 /\ Grew(disk, mem[i].addrs, n, r) /\ r.b = 0
  <2>1. CASE full
    BY <1>3, <1>4, <1>5, <1>6, <2>1, GrewSame
  <2>2. CASE ~full
    <3>1. tot[t] < Chunk(t) /\ ~OutOfRange(t)
      <4>1. tot[t] # Chunk(t)
        BY <1>2, <2>2
      <4>2. ~OutOfRange(t)
        BY <4>1 DEF WriteEnd
      <4> QED
        BY <1>1, <1>4, <4>1, <4>2
    <3>2. n \in 0 .. MAX_FILE - 1
      BY <1>1, <1>5, <2>2, <3>1, NextBlockIs
    <3>3. r = BlockMap(i, n)
      BY <1>6, <2>2
    <3>4. Grew(disk, mem[i].addrs, n, r)
      BY <1>3, <1>4, <3>2, <3>3, BlockMapGrows
    <3>5. r.b = 0
      BY <1>2, <1>5, <2>2, <3>3 DEF WriteEnd
    <3> QED
      BY <3>2, <3>4, <3>5
  <2> QED
    BY <2>1, <2>2
<1>8. /\ r \in Maps /\ r.disk \in Disks /\ r.addrs \in Addrs
      /\ r.log \subseteq Blocks \cup {BITMAP, INODE}
  BY <1>7 DEF Grew, Maps
<1>9. PICK m : m = [size |-> Max({mem[i].size, pos[t] + tot[t]}), addrs |-> r.addrs]
  OBVIOUS
<1>10. PICK k : k = IF full THEN want[t] - tot[t] ELSE 0
  OBVIOUS
<1>11. /\ mem' = [mem EXCEPT ![i] = m] /\ disk' = Update(r.disk, i, m)
       /\ logged' = [logged EXCEPT ![t] = @ \cup r.log \cup {INODE}]
       /\ off' = [off EXCEPT ![fd[t]] = @ + tot[t]] /\ want' = [want EXCEPT ![t] = k]
       /\ ilock' = [ilock EXCEPT ![i] = None] /\ pos' = [pos EXCEPT ![t] = 0]
       /\ tot' = [tot EXCEPT ![t] = 0] /\ pc' = [pc EXCEPT ![t] = "end_op"]
       /\ UNCHANGED <<stable, fp, fd, holes>>
  <2>1. CASE full
    <3>1. r = [disk |-> disk, addrs |-> mem[i].addrs, log |-> {}, b |-> 0] /\ tot[t] = Chunk(t)
      BY <1>2, <1>6, <2>1
    <3> QED
      BY <1>2, <1>9, <1>10, <2>1, <3>1 DEF WriteEnd, UnlockINode, Goto
  <2>2. CASE ~full
    <3>1. r = BlockMap(File(t), (pos[t] + tot[t]) \div BSIZE) /\ tot[t] # Chunk(t)
      BY <1>2, <1>5, <1>6, <2>2
    <3> QED
      BY <1>2, <1>9, <1>10, <2>2, <3>1 DEF WriteEnd, UnlockINode, Goto
  <2> QED
    BY <2>1, <2>2
<1>12. m \in INodes /\ m.addrs = r.addrs
  <2>1. Max({mem[i].size, pos[t] + tot[t]}) \in Nat
    <3>1. PICK x, y : x = mem[i].size /\ y = pos[t] + tot[t]
      OBVIOUS
    <3>2. x \in Nat /\ y \in Nat
      BY <1>3, <1>4, <3>1 DEF INodes
    <3>3. \E z \in {x, y} : \A w \in {x, y} : z >= w
      BY <3>2
    <3>4. Max({x, y}) \in {x, y}
      BY <3>3 DEF Max
    <3> QED
      BY <3>1, <3>2, <3>4
  <2> QED
    BY <1>8, <1>9, <2>1 DEF INodes, Addrs
<1>13. /\ disk' \in Disks /\ disk'.used = r.disk.used /\ disk'.ind = r.disk.ind
       /\ disk'.blk = r.disk.blk /\ disk'.ino[i] = m
       /\ \A j \in Files \ {i} : disk'.ino[j] = r.disk.ino[j]
  <2>1. PICK d : d = r.disk
    OBVIOUS
  <2>2. d \in Disks /\ disk' = Update(d, i, m) /\ i \in Files /\ m \in INodes
    BY <1>3, <1>8, <1>11, <1>12, <2>1
  <2>3. /\ disk' \in Disks /\ disk'.used = d.used /\ disk'.ind = d.ind
        /\ disk'.blk = d.blk /\ disk'.ino[i] = m
        /\ \A j \in Files \ {i} : disk'.ino[j] = d.ino[j]
    BY <2>2, UpdateIs
  <2> QED
    BY <2>1, <2>3
<1>14. fd[t] \in Handles /\ k \in Nat
  BY <1>1, <1>2, <1>4, <1>10, Caller
<1>15. StateOK'
  <2>1. logged' \in [Threads -> SUBSET (Blocks \cup {BITMAP, INODE})]
    BY <1>1, <1>8, <1>11 DEF StateOK
  <2>2. \A u \in Threads : IsFiniteSet(logged'[u])
    BY <2>1, LoggedType
  <2>3. /\ mem' \in [Files -> INodes \cup {None}] /\ ilock' \in [Files -> Threads \cup {None}]
        /\ off' \in [Handles -> Nat] /\ want' \in [Threads -> Nat] /\ tot' \in [Threads -> Nat]
        /\ pos' \in [Threads -> Nat] /\ pc' \in [Threads -> PCs]
    BY <1>1, <1>3, <1>4, <1>11, <1>12, <1>14 DEF StateOK, TypeOK, PCs, OpPCs
  <2> QED
    BY <1>1, <1>11, <1>13, <2>1, <2>2, <2>3 DEF StateOK, TypeOK
<1>16. \A j \in Files : ilock[j] = t <=> j = i
  BY <1>1, <1>2, <1>3 DEF CallOK, LockOK, LockPCs
<1>17. \A j \in Files : ilock'[j] = IF j = i THEN None ELSE ilock[j]
  BY <1>1, <1>11 DEF StateOK, TypeOK
<1>18. Works(t, i)
  <2>1. Mine(t)
    BY <1>1, <1>11, <1>16, <1>17 DEF StateOK, TypeOK, Mine
  <2>2. r.disk.ino = disk.ino
    BY <1>7 DEF Grew, Grown
  <2>3. \A j \in Files \ {i} : mem'[j] = mem[j]
    BY <1>1, <1>11 DEF StateOK
  <2> QED
    BY <1>3, <1>11, <1>13, <1>16, <1>17, <2>1, <2>2, <2>3 DEF Works
<1>19. mem'[i] = m /\ Freed(i)' = 0 /\ Current(i)' = disk'.ino[i]
  <2>1. mem'[i] = m /\ ilock'[i] = None
    BY <1>1, <1>3, <1>11, <1>17 DEF StateOK
  <2> QED
    BY <1>12, <1>13, <2>1 DEF Freed, Current
<1>20. MapStep(i, n, r)
  <2>1. \A j \in Files \ {i} :
          Current(j)' = Current(j) /\ disk'.ino[j] = disk.ino[j] /\ Freed(j)' = Freed(j)
    BY <1>15, <1>18, WorksOthers
  <2> QED
    BY <1>3, <1>7, <1>11, <1>12, <1>13, <1>19, <2>1 DEF MapStep
<1>21. WrittenAt(i)'
  BY <1>19, UpdateWrites
<1>22. CallOK(t)'
  <2>1. /\ pc'[t] = "end_op" /\ fd'[t] = fd[t] /\ tot'[t] = 0
        /\ logged'[t] = logged[t] \cup r.log \cup {INODE}
    BY <1>1, <1>11 DEF StateOK, TypeOK
  <2>2. HandleOK(t)' /\ LockOK(t)' /\ WriteOK(t)' /\ TruncOK(t)'
    <3>1. \A j \in Files : ilock'[j] # t
      BY <1>16, <1>17
    <3>2. fp[fd[t]] # None
      BY <1>1, Caller
    <3> QED
      BY <1>11, <1>14, <2>1, <3>1, <3>2 DEF HandleOK, LockOK, WriteOK, TruncOK, LockPCs
  <2>3. ASSUME NEW b \in logged'[t]
        PROVE  b \in {BITMAP, INODE, r.addrs[NDIRECT]} \cup Passed(t)
    <3>1. b # 0
      <4>1. b \in Blocks \cup {BITMAP, INODE}
        BY <1>15 DEF StateOK
      <4> QED
        BY <4>1 DEF BITMAP, INODE
    <3>2. r.log \subseteq {BITMAP, r.addrs[NDIRECT], 0}
      BY <1>7 DEF Grew
    <3>3. ASSUME b \in logged[t] PROVE b \in {BITMAP, r.addrs[NDIRECT]} \cup Passed(t)
      <4>1. b \in {BITMAP, At(i, MAX_FILE)} \cup Passed(t)
        BY <1>1, <1>2, <3>3 DEF CallOK, LogOK
      <4>2. CASE b = At(i, MAX_FILE)
        <5>1. MAX_FILE \in Positions
          BY DEF Positions
        <5>2. At(i, MAX_FILE) = Place(disk, mem[i].addrs, MAX_FILE)
          BY <1>20, <5>1, MapStepOwn
        <5>3. Place(r.disk, r.addrs, MAX_FILE) = b
          BY <1>7, <3>1, <4>2, <5>1, <5>2 DEF Grew, Grown
        <5>4. Place(r.disk, r.addrs, MAX_FILE) = r.addrs[NDIRECT]
          BY PlaceTop
        <5> QED
          BY <5>3, <5>4
      <4> QED
        BY <4>1, <4>2
    <3> QED
      BY <2>1, <3>1, <3>2, <3>3
  <2>4. LogOK(t)'
    <3>1. logged'[t] \subseteq {BITMAP, INODE, r.addrs[NDIRECT]} \cup Passed(t)
      BY <2>3
    <3>2. Cardinality(logged'[t]) <= MAX_OP_BLOCKS - 1
      BY <1>1, <3>1, LogFits
    <3> QED
      BY <2>1, <3>2 DEF LogOK
  <2> QED
    BY <2>2, <2>4 DEF CallOK
<1> QED
  BY <1>15, <1>18, <1>20, <1>21, <1>22, MapStepOK

\* op_truncate changes the size alone, and writes it.
LEMMA SetSizeOK ==
  ASSUME IInv, NEW t \in Threads, UNCHANGED calls, SetSize(t)
  PROVE  IInv'
<1>1. StateOK /\ CallOK(t) /\ pc[t] = "size_lock"
  BY DEF IInv, CallsOK, SetSize
<1>2. PICK i, z : i = File(t) /\ z = RoundUp(want[t])
  OBVIOUS
<1>3. /\ i \in Files /\ mem[i] \in INodes /\ fd[t] \in Handles /\ fp[fd[t]] # None
      /\ disk \in Disks
  BY <1>1, <1>2, Caller DEF StateOK, TypeOK
<1>4. z \in Nat
  <2>1. PICK q : q = (want[t] + BSIZE - 1) \div BSIZE
    OBVIOUS
  <2>2. want[t] + BSIZE - 1 \in Nat
    BY <1>1 DEF StateOK, TypeOK
  <2>3. q \in Nat
    BY <2>1, <2>2, DivNat
  <2>4. q * BSIZE \in Nat
    BY <2>3
  <2>5. PICK r, w : r = q * BSIZE /\ w = 2 ^ Width
    OBVIOUS
  <2>6. r \in Nat /\ w \in Nat \ {0}
    BY <2>4, <2>5, ContentAssumption
  <2>7. r % w \in Nat
    BY <2>6
  <2> QED
    BY <1>2, <2>1, <2>5, <2>7 DEF RoundUp
<1>5. PICK m : m = [mem[i] EXCEPT !.size = z]
  OBVIOUS
<1>6. m \in INodes /\ m.addrs = mem[i].addrs
  BY <1>3, <1>4, <1>5 DEF INodes
<1>7. /\ ilock[i] = None /\ mem' = [mem EXCEPT ![i] = m]
      /\ logged' = [logged EXCEPT ![t] = @ \cup {INODE}] /\ want' = [want EXCEPT ![t] = 0]
      /\ pc' = [pc EXCEPT ![t] = "end_op"]
      /\ UNCHANGED <<stable, ilock, fp, off, fd, pos, tot, holes>>
  BY <1>2, <1>5 DEF SetSize, Goto
<1>8. mem'[i] = m /\ disk' = Update(disk, i, m) /\ \A j \in Files \ {i} : mem'[j] = mem[j]
  <2>1. mem'[i] = m /\ \A j \in Files \ {i} : mem'[j] = mem[j]
    BY <1>1, <1>3, <1>7 DEF StateOK
  <2> QED
    BY <1>2, <2>1 DEF SetSize
<1>9. /\ disk' \in Disks /\ disk'.used = disk.used /\ disk'.ind = disk.ind
      /\ disk'.blk = disk.blk /\ disk'.ino[i] = m
      /\ \A j \in Files \ {i} : disk'.ino[j] = disk.ino[j]
  BY <1>3, <1>6, <1>8, UpdateIs
<1>10. StateOK'
  <2>1. logged' \in [Threads -> SUBSET (Blocks \cup {BITMAP, INODE})]
    BY <1>1, <1>7 DEF StateOK
  <2>2. \A u \in Threads : IsFiniteSet(logged'[u])
    BY <2>1, LoggedType
  <2>3. /\ mem' \in [Files -> INodes \cup {None}] /\ want' \in [Threads -> Nat]
        /\ pc' \in [Threads -> PCs]
    BY <1>1, <1>3, <1>6, <1>7 DEF StateOK, TypeOK, PCs, OpPCs
  <2> QED
    BY <1>1, <1>7, <1>9, <2>1, <2>2, <2>3 DEF StateOK, TypeOK
<1>11. \A j \in Files : ilock[j] # t
  BY <1>1 DEF CallOK, LockOK, LockPCs
<1>12. Works(t, i)
  <2>1. Mine(t)
    BY <1>1, <1>7 DEF StateOK, TypeOK, Mine
  <2> QED
    BY <1>3, <1>7, <1>8, <1>9, <1>11, <2>1 DEF Works
<1>13. /\ Freed(i) = 0 /\ Freed(i)' = 0 /\ Current(i)' = disk'.ino[i]
  BY <1>6, <1>7, <1>8, <1>9 DEF Freed, Current
<1>14. PICK r : r = [disk |-> disk, addrs |-> mem[i].addrs, log |-> {}, b |-> 0]
  OBVIOUS
<1>15. MapStep(i, 0, r)
  <2>1. \A j \in Files \ {i} :
          Current(j)' = Current(j) /\ disk'.ino[j] = disk.ino[j] /\ Freed(j)' = Freed(j)
    BY <1>10, <1>12, WorksOthers
  <2>2. /\ Grew(disk, mem[i].addrs, 0, r) /\ 0 \in 0 .. MAX_FILE - 1
        /\ r.disk = disk /\ r.addrs = mem[i].addrs
    BY <1>3, <1>14, GrewSame
  <2> QED
    BY <1>3, <1>6, <1>7, <1>8, <1>9, <1>13, <2>1, <2>2 DEF MapStep
<1>16. WrittenAt(i)'
  BY <1>13, UpdateWrites
<1>17. CallOK(t)'
  <2>1. pc'[t] = "end_op" /\ fd'[t] = fd[t] /\ tot'[t] = 0 /\ logged'[t] = {INODE}
    BY <1>1, <1>7 DEF StateOK, TypeOK, CallOK, LockOK, LogOK, LockPCs
  <2>2. HandleOK(t)' /\ LockOK(t)' /\ WriteOK(t)' /\ TruncOK(t)'
    BY <1>3, <1>7, <1>11, <2>1 DEF HandleOK, LockOK, WriteOK, TruncOK, LockPCs
  <2>3. Cardinality({INODE}) = 1
    BY FS_Singleton
  <2>4. LogOK(t)'
    BY <2>1, <2>3, ContentAssumption DEF LogOK
  <2> QED
    BY <2>2, <2>4 DEF CallOK
<1> QED
  BY <1>10, <1>12, <1>15, <1>16, <1>17, MapStepOK

\* A read maps blocks too, and never writes the inode: what it allocates goes
\* into holes.
Reads(t, i, n, r) ==
  /\ pc[t] = "read" /\ i = File(t) /\ n \in 0 .. MAX_FILE - 1
  /\ Grew(disk, mem[i].addrs, n, r)
  /\ disk' = r.disk
  /\ mem' = [mem EXCEPT ![i].addrs = r.addrs]
  /\ holes' = holes \cup (r.disk.used \ disk.used)
  /\ UNCHANGED <<stable, fp, logged, calls>>

LEMMA ReadsOK ==
  ASSUME IInv, NEW t \in Threads, NEW i, NEW n, NEW r, Reads(t, i, n, r), Mine(t),
         CallOK(t)', ilock' \in [Files -> Threads \cup {None}],
         \A j \in Files \ {i} : ilock'[j] # t,
         ilock'[i] = None \/ (ilock'[i] = t /\ pc'[t] = "read"),
         off' \in [Handles -> Nat], pc' \in [Threads -> PCs],
         fd' \in [Threads -> Handles \cup {None}], pos' \in [Threads -> Nat],
         want' \in [Threads -> Nat], tot' \in [Threads -> Nat]
  PROVE  IInv'
<1>1. StateOK /\ pc[t] = "read" /\ i = File(t) /\ n \in 0 .. MAX_FILE - 1
  BY DEF IInv, Reads
<1>2. i \in Files /\ mem[i] \in INodes /\ Current(i) = mem[i] /\ ilock[i] = t /\ Freed(i) = 0
  BY <1>1, HolderSees
<1>3. /\ Grew(disk, mem[i].addrs, n, r) /\ disk' = r.disk
      /\ mem' = [mem EXCEPT ![i].addrs = r.addrs]
      /\ holes' = holes \cup (r.disk.used \ disk.used)
      /\ UNCHANGED <<stable, fp, logged, calls>>
  BY DEF Reads
<1>4. r.disk \in Disks /\ r.addrs \in Addrs
  BY <1>3 DEF Grew, Maps
<1>5. /\ mem' \in [Files -> INodes \cup {None}] /\ mem'[i] \in INodes
      /\ mem'[i].addrs = r.addrs /\ \A j \in Files \ {i} : mem'[j] = mem[j]
  BY <1>1, <1>2, <1>3, <1>4, AddrsSet DEF StateOK
<1>6. holes' \in SUBSET Blocks
  BY <1>1, <1>3, <1>4 DEF StateOK, TypeOK, Disks
<1>7. StateOK'
  BY <1>1, <1>3, <1>4, <1>5, <1>6 DEF StateOK, TypeOK
<1>8. \A j \in Files : ilock[j] = t <=> j = i
  BY <1>1, <1>2 DEF IInv, CallsOK, CallOK, LockOK, LockPCs
<1>9. disk'.ino = disk.ino
  BY <1>3 DEF Grew, Grown
<1>10. Works(t, i)
  BY <1>2, <1>3, <1>5, <1>8, <1>9 DEF Works
<1>11. Freed(i)' = 0 /\ Settled(i)
  BY <1>1, <1>2 DEF Freed, Settled
<1>12. MapStep(i, n, r)
  <2>1. \A j \in Files \ {i} :
          Current(j)' = Current(j) /\ disk'.ino[j] = disk.ino[j] /\ Freed(j)' = Freed(j)
    BY <1>7, <1>10, WorksOthers
  <2> QED
    BY <1>1, <1>2, <1>3, <1>5, <1>11, <2>1 DEF MapStep
<1>13. WrittenAt(i)'
  BY <1>3, <1>7, <1>9, <1>11, <1>12, MapStepRead
<1> QED
  BY <1>7, <1>10, <1>12, <1>13, MapStepOK

\* How far a read goes.
LEMMA ReadableIs ==
  ASSUME IInv, NEW t \in Threads, pc[t] = "read"
  PROVE  Readable(t) \in Nat
<1>1. mem[File(t)] \in INodes
  BY Caller
<1>2. PICK z : z = mem[File(t)].size
  OBVIOUS
<1>3. z \in Nat /\ pos[t] \in Nat /\ want[t] \in Nat
  BY <1>1, <1>2 DEF INodes, IInv, StateOK, TypeOK
<1>4. CASE pos[t] > z
  BY <1>2, <1>4 DEF Readable
<1>5. CASE ~(pos[t] > z)
  <2>1. PICK S : S = {want[t], z - pos[t]}
    OBVIOUS
  <2>2. S \in SUBSET Nat /\ S # {}
    BY <1>3, <1>5, <2>1
  <2>3. Min(S) \in S
    BY <2>2, MinIs
  <2> QED
    BY <1>2, <1>5, <2>1, <2>2, <2>3 DEF Readable
<1> QED
  BY <1>4, <1>5

LEMMA ReadMapGrows ==
  ASSUME IInv, NEW t \in Threads, pc[t] = "read", InRange(t), NEW n, NEW i, NEW r,
         n = (pos[t] + tot[t]) \div BSIZE, i = File(t), r = ReadMap(t)
  PROVE  n \in 0 .. MAX_FILE - 1 /\ Grew(disk, mem[i].addrs, n, r)
<1>1. pos[t] + tot[t] \in Nat /\ disk \in Disks
  <2>1. pos[t] \in Nat /\ tot[t] \in Nat /\ disk \in Disks
    BY DEF IInv, StateOK, TypeOK
  <2> QED
    BY <2>1
<1>2. n \in 0 .. MAX_FILE - 1
  <2>1. n \in Nat
    BY <1>1, DivNat
  <2> QED
    BY <2>1 DEF InRange
<1>3. i \in Files /\ mem[i] \in INodes /\ AllMarked(disk, mem[i].addrs)
  BY HolderSees
<1>4. r = BlockMap(i, n)
  BY DEF ReadMap
<1> QED
  BY <1>1, <1>2, <1>3, <1>4, BlockMapGrows

LEMMA ReadBlockOK ==
  ASSUME IInv, NEW t \in Threads, UNCHANGED calls, ReadBlock(t)
  PROVE  IInv'
<1>1. /\ StateOK /\ CallOK(t) /\ pc[t] = "read" /\ tot[t] < Readable(t) /\ InRange(t)
  BY DEF IInv, CallsOK, ReadBlock, Reading, ReadAsserts
<1>2. PICK i, n, r, m : /\ i = File(t) /\ n = (pos[t] + tot[t]) \div BSIZE /\ r = ReadMap(t)
                        /\ m = InThisBlock(t, Readable(t))
  OBVIOUS
<1>3. n \in 0 .. MAX_FILE - 1 /\ Grew(disk, mem[i].addrs, n, r)
  BY <1>1, <1>2, ReadMapGrows
<1>4. /\ disk' = r.disk /\ mem' = [mem EXCEPT ![i].addrs = r.addrs]
      /\ holes' = holes \cup (r.disk.used \ disk.used) /\ tot' = [tot EXCEPT ![t] = @ + m]
      /\ UNCHANGED <<stable, ilock, fp, off, pc, fd, pos, want, logged>>
  BY <1>2 DEF ReadBlock
<1>5. Reads(t, i, n, r)
  BY <1>1, <1>2, <1>3, <1>4 DEF Reads
<1>6. i \in Files /\ ilock[i] = t
  BY <1>1, <1>2, HolderSees
<1>7. \A j \in Files : ilock[j] = t <=> j = i
  BY <1>1, <1>2, <1>6 DEF CallOK, LockOK, LockPCs
<1>8. m \in Nat
  BY <1>1, <1>2, ReadableIs, InThisBlockIs
<1>9. Mine(t)
  BY <1>1, <1>4 DEF StateOK, TypeOK, Mine
<1>10. /\ ilock' \in [Files -> Threads \cup {None}]
       /\ off' \in [Handles -> Nat] /\ pc' \in [Threads -> PCs]
       /\ fd' \in [Threads -> Handles \cup {None}] /\ pos' \in [Threads -> Nat]
       /\ want' \in [Threads -> Nat] /\ tot' \in [Threads -> Nat]
  BY <1>1, <1>4, <1>8 DEF StateOK, TypeOK
<1>11. CallOK(t)'
  <2>1. File(t)' = i
    BY <1>2, <1>4 DEF File
  <2> QED
    BY <1>1, <1>2, <1>4, <1>7, <2>1
    DEF CallOK, HandleOK, LockOK, LockPCs, WriteOK, TruncOK, LogOK
<1>12. \A j \in Files \ {i} : ilock'[j] # t
  BY <1>4, <1>7
<1>13. ilock'[i] = t /\ pc'[t] = "read"
  BY <1>1, <1>4, <1>6
<1> QED
  BY <1>5, <1>9, <1>10, <1>11, <1>12, <1>13, ReadsOK

LEMMA ReadEndOK ==
  ASSUME IInv, NEW t \in Threads, UNCHANGED calls, ReadEnd(t)
  PROVE  IInv'
<1>1. StateOK /\ CallOK(t) /\ pc[t] = "read"
  BY DEF IInv, CallsOK, ReadEnd
<1>2. PICK i, full : i = File(t) /\ full = (tot[t] >= Readable(t))
  OBVIOUS
<1>3. i \in Files /\ ilock[i] = t /\ mem[i] \in INodes /\ fd[t] \in Handles /\ disk \in Disks
  BY <1>1, <1>2, HolderSees, Caller DEF StateOK, TypeOK
<1>4. PICK n : n = IF full THEN 0 ELSE (pos[t] + tot[t]) \div BSIZE
  OBVIOUS
<1>5. PICK r : r = IF full THEN [disk |-> disk, addrs |-> mem[i].addrs, log |-> {}, b |-> 0]
                           ELSE ReadMap(t)
  OBVIOUS
<1>6. /\ n \in 0 .. MAX_FILE - 1 /\ Grew(disk, mem[i].addrs, n, r) /\ disk' = r.disk
      /\ mem' = [mem EXCEPT ![i].addrs = r.addrs]
      /\ holes' = holes \cup (r.disk.used \ disk.used)
  <2>1. CASE full
    <3>1. tot[t] >= Readable(t) /\ n = 0
      BY <1>2, <1>4, <2>1
    <3>2. r = [disk |-> disk, addrs |-> mem[i].addrs, log |-> {}, b |-> 0]
      BY <1>5, <2>1
    <3>3. /\ Grew(disk, mem[i].addrs, 0, r) /\ 0 \in 0 .. MAX_FILE - 1
          /\ r.disk = disk /\ r.addrs = mem[i].addrs
      BY <1>3, <3>2, GrewSame
    <3>4. disk' = disk /\ mem' = mem /\ holes' = holes
      BY <3>1 DEF ReadEnd
    <3>5. [mem EXCEPT ![i].addrs = mem[i].addrs] = mem
      <4>1. PICK w : w = mem[i]
        OBVIOUS
      <4>2. [w EXCEPT !.addrs = w.addrs] = w
        BY <1>3, <4>1 DEF INodes
      <4>3. mem \in [Files -> INodes \cup {None}]
        BY <1>1 DEF StateOK
      <4> QED
        BY <1>3, <4>1, <4>2, <4>3
    <3>6. mem' = [mem EXCEPT ![i].addrs = r.addrs]
      BY <3>3, <3>4, <3>5
    <3> QED
      BY <3>1, <3>3, <3>4, <3>6
  <2>2. CASE ~full
    <3>1. ~(tot[t] >= Readable(t)) /\ n = (pos[t] + tot[t]) \div BSIZE /\ r = ReadMap(t)
      BY <1>2, <1>4, <1>5, <2>2
    <3>2. /\ InRange(t) /\ disk' = r.disk /\ mem' = [mem EXCEPT ![i].addrs = r.addrs]
          /\ holes' = holes \cup (r.disk.used \ disk.used)
      BY <1>2, <3>1 DEF ReadEnd, ReadAsserts
    <3> QED
      BY <1>1, <1>2, <3>1, <3>2, ReadMapGrows
  <2> QED
    BY <2>1, <2>2
<1>7. /\ off' = [off EXCEPT ![fd[t]] = @ + tot[t]] /\ want' = [want EXCEPT ![t] = 0]
      /\ fd' = [fd EXCEPT ![t] = None] /\ ilock' = [ilock EXCEPT ![i] = None]
      /\ pos' = [pos EXCEPT ![t] = 0] /\ tot' = [tot EXCEPT ![t] = 0]
      /\ pc' = [pc EXCEPT ![t] = "idle"] /\ UNCHANGED <<stable, fp, logged>>
  BY <1>2 DEF ReadEnd, UnlockINode, Goto
<1>8. Reads(t, i, n, r)
  BY <1>1, <1>2, <1>6, <1>7 DEF Reads
<1>9. \A j \in Files : ilock[j] = t <=> j = i
  BY <1>1, <1>2, <1>3 DEF CallOK, LockOK, LockPCs
<1>10. \A j \in Files : ilock'[j] = IF j = i THEN None ELSE ilock[j]
  BY <1>1, <1>7 DEF StateOK, TypeOK
<1>11. Mine(t)
  BY <1>1, <1>7, <1>9, <1>10 DEF StateOK, TypeOK, Mine
<1>12. /\ ilock' \in [Files -> Threads \cup {None}]
       /\ off' \in [Handles -> Nat] /\ pc' \in [Threads -> PCs]
       /\ fd' \in [Threads -> Handles \cup {None}] /\ pos' \in [Threads -> Nat]
       /\ want' \in [Threads -> Nat] /\ tot' \in [Threads -> Nat]
  BY <1>1, <1>3, <1>7 DEF StateOK, TypeOK, PCs
<1>13. CallOK(t)'
  <2>1. pc'[t] = "idle" /\ fd'[t] = None /\ tot'[t] = 0 /\ logged'[t] = {}
    BY <1>1, <1>7 DEF StateOK, TypeOK, CallOK, LogOK
  <2>2. \A j \in Files : ilock'[j] # t
    BY <1>9, <1>10
  <2> QED
    BY <2>1, <2>2 DEF CallOK, HandleOK, LockOK, LockPCs, WriteOK, TruncOK, LogOK
<1>14. \A j \in Files \ {i} : ilock'[j] # t
  BY <1>9, <1>10
<1>15. ilock'[i] = None
  BY <1>3, <1>10
<1> QED
  BY <1>8, <1>11, <1>12, <1>13, <1>14, <1>15, ReadsOK

----------------------------------------------------------------------------
(* The actions: trunc.                                                     *)

\* Blocks are given up, and nothing else.
LEMMA BlocksFreed ==
  ASSUME IInv, disk'.used \subseteq disk.used, disk'.blk = disk.blk, holes' = holes,
         \A j \in Files, p \in Positions :
           At(j, p)' = At(j, p) \/ (At(j, p)' = 0 /\ At(j, p) \notin disk'.used),
         \A j \in Files, p \in Positions : At(j, p)' # 0 => At(j, p)' \in disk'.used
  PROVE  OneOwner' /\ Marked' /\ Owned' /\ OwnBytes'
<1>1. OneOwner /\ Owned /\ OwnBytes /\ disk.used \subseteq Blocks
  BY DEF IInv, BlocksOK, StateOK, TypeOK, Disks
<1>2. ASSUME NEW j \in Files, NEW p \in Positions, At(j, p)' # 0
      PROVE  At(j, p)' = At(j, p) /\ At(j, p) # 0
  BY <1>2
<1>3. OneOwner'
  <2> SUFFICES ASSUME NEW j \in Files, NEW k \in Files, NEW p \in Positions,
                      NEW q \in Positions, At(j, p)' # 0, At(j, p)' = At(k, q)'
               PROVE  j = k /\ p = q
    BY DEF OneOwner
  <2>1. At(j, p) # 0 /\ At(j, p) = At(k, q)
    BY <1>2
  <2>2. OneOwner
    BY <1>1
  <2> QED
    BY <2>1, <2>2 DEF OneOwner
<1>4. Marked'
  BY DEF Marked
<1>5. Owned'
  <2> SUFFICES ASSUME NEW b \in disk'.used, b \notin holes
               PROVE  \E j \in Files, p \in Positions : At(j, p)' = b
    BY DEF Owned
  <2>1. PICK j \in Files, p \in Positions : At(j, p) = b
    BY <1>1 DEF Owned
  <2>2. At(j, p)' = b
    BY <2>1
  <2> QED
    BY <2>2
<1>6. OwnBytes'
  <2>1. \A p \in 0 .. MAX_FILE - 1 : p \in Positions
    BY DEF Positions
  <2> QED
    BY <1>1, <1>2, <2>1 DEF OwnBytes
<1> QED
  BY <1>3, <1>4, <1>5, <1>6

\* The blocks of files that t does not work on, when no indirect block changes.
LEMMA WorksStay ==
  ASSUME IInv, StateOK', NEW t \in Threads, NEW i, Works(t, i), disk'.ind = disk.ind,
         holes' = holes, NEW j \in Files \ {i}
  PROVE  (\A p \in Positions : At(j, p)' = At(j, p)) /\ WrittenAt(j)'
<1>1. /\ Current(j)' = Current(j) /\ disk'.ino[j] = disk.ino[j]
      /\ Freed(j)' = Freed(j) /\ Settled(j)' = Settled(j)
  BY WorksOthers
<1>2. /\ \A p \in Positions : At(j, p)' = At(j, p)
      /\ Settled(j) => \A p \in Positions : OnDisk(j, p)' = OnDisk(j, p)
  BY <1>1, FileStays
<1>3. ASSUME Settled(j)', NEW p \in Positions
      PROVE  OnDisk(j, p)' = At(j, p)' \/ (OnDisk(j, p)' = 0 /\ At(j, p)' \in holes')
  <2>1. Settled(j)
    BY <1>1, <1>3
  <2>2. OnDisk(j, p) = At(j, p) \/ (OnDisk(j, p) = 0 /\ At(j, p) \in holes)
    BY <2>1 DEF IInv, BlocksOK, Written
  <2>3. At(j, p)' = At(j, p) /\ OnDisk(j, p)' = OnDisk(j, p)
    BY <1>2, <2>1
  <2> QED
    BY <2>2, <2>3
<1> QED
  BY <1>2, <1>3 DEF WrittenAt

\* The holder of a file's mutex in trunc.
LEMMA TruncSees ==
  ASSUME IInv, NEW t \in Threads, NEW i, i = File(t), pc[t] = "trunc"
  PROVE  /\ i \in Files /\ mem[i] \in INodes /\ mem[i].addrs \in Addrs /\ Current(i) = mem[i]
         /\ ilock[i] = t /\ Freed(i) = tot[t] /\ tot[t] \in Nat
         /\ \A j \in Files : ilock[j] = t <=> j = i
         /\ fd[t] \in Handles /\ fp[fd[t]] # None
<1>1. i \in Files /\ mem[i] \in INodes /\ fd[t] \in Handles /\ fp[fd[t]] # None
  BY Caller
<1>2. \A j \in Files : ilock[j] = t <=> j = i
  BY <1>1 DEF IInv, CallsOK, CallOK, LockOK, LockPCs
<1>3. ilock[i] = t
  BY <1>1, <1>2
<1>4. Current(i) = mem[i] /\ Freed(i) = tot[t] /\ tot[t] \in Nat
  BY <1>1, <1>3 DEF Current, Freed, IInv, StateOK, TypeOK
<1>5. mem[i].addrs \in Addrs
  BY <1>1 DEF INodes, Addrs
<1> QED
  BY <1>1, <1>2, <1>3, <1>4, <1>5

LEMMA TruncFreeOK ==
  ASSUME IInv, NEW t \in Threads, UNCHANGED calls, TruncFree(t)
  PROVE  IInv'
<1>1. StateOK /\ CallOK(t) /\ pc[t] = "trunc"
  BY DEF IInv, CallsOK, TruncFree, Freeing
<1>2. PICK i : i = File(t)
  OBVIOUS
<1>3. /\ i \in Files /\ mem[i] \in INodes /\ mem[i].addrs \in Addrs /\ Current(i) = mem[i]
      /\ ilock[i] = t /\ Freed(i) = tot[t] /\ tot[t] \in Nat
      /\ \A j \in Files : ilock[j] = t <=> j = i
      /\ fd[t] \in Handles /\ fp[fd[t]] # None
  BY <1>1, <1>2, TruncSees
<1>4. PICK S : S = {q \in Mapped(disk, mem[i]) : q >= tot[t]}
  OBVIOUS
<1>5. PICK p, b, a : p = Min(S) /\ b = Phys(disk, mem[i], p) /\ a = mem[i].addrs
  OBVIOUS
<1>6. p \in S /\ \A q \in S : p <= q
  <2>1. S # {}
    BY <1>2, <1>4 DEF TruncFree, Freeing, ToFree
  <2>2. S \in SUBSET Nat
    BY <1>4 DEF Mapped
  <2> QED
    BY <1>5, <2>1, <2>2, MinIs
<1>7. /\ p \in Positions /\ p >= tot[t] /\ b # 0 /\ b = Place(disk, a, p)
      /\ \A q \in Positions : q >= tot[t] /\ q < p => Place(disk, a, q) = 0
  <2>1. \A q : q \in S <=> q \in Positions /\ q >= tot[t] /\ Place(disk, a, q) # 0
    BY <1>4, <1>5, PlaceIs DEF Mapped, Positions
  <2>2. b = Place(disk, a, p)
    BY <1>5, PlaceIs
  <2>3. \A q \in S : ~(q < p)
    BY <1>3, <1>6, <2>1 DEF Positions
  <2> QED
    BY <1>6, <2>1, <2>2, <2>3
<1>8. /\ b \in disk.used /\ disk' = [disk EXCEPT !.used = @ \ {b}]
      /\ logged' = [logged EXCEPT ![t] = @ \cup {BITMAP}] /\ tot' = [tot EXCEPT ![t] = p + 1]
      /\ UNCHANGED <<stable, ilock, fp, off, pc, fd, pos, want, holes>>
  BY <1>2, <1>4, <1>5 DEF TruncFree, FreeAsserts, NextToFree, ToFree
<1>9. mem' = CASE p < NDIRECT -> [mem EXCEPT ![i].addrs[p] = 0]
               [] p = MAX_FILE -> [mem EXCEPT ![i].addrs[NDIRECT] = 0]
               [] OTHER -> mem
  BY <1>2, <1>4, <1>5 DEF TruncFree, FreeAsserts, NextToFree, ToFree
<1>10. PICK c : c = CASE p < NDIRECT -> [a EXCEPT ![p] = 0]
                      [] p = MAX_FILE -> [a EXCEPT ![NDIRECT] = 0]
                      [] OTHER -> a
  OBVIOUS
<1>11. /\ c \in Addrs
       /\ \A k \in 0 .. NDIRECT :
            c[k] = IF k = p \/ (k = NDIRECT /\ p = MAX_FILE) THEN
                     IF p < NDIRECT \/ p = MAX_FILE THEN 0 ELSE a[k]
                   ELSE a[k]
  <2>1. a \in Addrs /\ p \in Int
    BY <1>3, <1>5, <1>7 DEF Positions
  <2>2. CASE p < NDIRECT
    <3>1. c = [a EXCEPT ![p] = 0] /\ p \in 0 .. NDIRECT
      BY <1>7, <1>10, <2>2 DEF Positions
    <3> QED
      BY <2>1, <2>2, <3>1 DEF Addrs
  <2>3. CASE p = MAX_FILE
    <3>1. c = [a EXCEPT ![NDIRECT] = 0] /\ p > NDIRECT
      BY <1>10, <2>3
    <3> QED
      BY <2>1, <2>3, <3>1 DEF Addrs
  <2>4. CASE p >= NDIRECT /\ p # MAX_FILE
    <3>1. c = a
      BY <1>10, <2>1, <2>4
    <3> QED
      BY <2>1, <2>4, <3>1
  <2> QED
    BY <2>1, <2>2, <2>3, <2>4
<1>12. mem' = [mem EXCEPT ![i].addrs = c]
  <2>1. PICK w : w = mem[i]
    OBVIOUS
  <2>2. w \in INodes /\ a = w.addrs /\ p \in Int
    BY <1>3, <1>5, <1>7, <2>1 DEF Positions
  <2>3. CASE p < NDIRECT
    <3>1. mem' = [mem EXCEPT ![i].addrs[p] = 0] /\ c = [a EXCEPT ![p] = 0]
      BY <1>9, <1>10, <2>3
    <3> QED
      BY <2>1, <2>2, <3>1
  <2>4. CASE p = MAX_FILE
    <3>1. mem' = [mem EXCEPT ![i].addrs[NDIRECT] = 0] /\ c = [a EXCEPT ![NDIRECT] = 0]
      BY <1>9, <1>10, <2>4
    <3> QED
      BY <2>1, <2>2, <3>1
  <2>5. CASE p >= NDIRECT /\ p # MAX_FILE
    <3>1. mem' = mem /\ c = a
      BY <1>9, <1>10, <2>2, <2>5
    <3>2. [w EXCEPT !.addrs = w.addrs] = w
      BY <2>2 DEF INodes
    <3>3. mem \in [Files -> INodes \cup {None}]
      BY <1>1 DEF StateOK
    <3> QED
      BY <1>3, <2>1, <2>2, <3>1, <3>2, <3>3
  <2> QED
    BY <2>2, <2>3, <2>4, <2>5
<1>13. /\ mem' \in [Files -> INodes \cup {None}] /\ mem'[i] \in INodes /\ mem'[i].addrs = c
       /\ \A j \in Files \ {i} : mem'[j] = mem[j]
  BY <1>1, <1>3, <1>11, <1>12, AddrsSet DEF StateOK
<1>14. /\ disk' \in Disks /\ disk'.used = disk.used \ {b} /\ disk'.ino = disk.ino
       /\ disk'.ind = disk.ind /\ disk'.blk = disk.blk
  BY <1>1, <1>8 DEF StateOK, TypeOK, Disks
<1>15. StateOK'
  <2>1. logged' \in [Threads -> SUBSET (Blocks \cup {BITMAP, INODE})]
    BY <1>1, <1>8 DEF StateOK
  <2>2. \A u \in Threads : IsFiniteSet(logged'[u])
    BY <2>1, LoggedType
  <2>3. tot' \in [Threads -> Nat]
    BY <1>1, <1>7, <1>8 DEF StateOK, TypeOK, Positions
  <2> QED
    BY <1>1, <1>8, <1>13, <1>14, <2>1, <2>2, <2>3 DEF StateOK, TypeOK
<1>16. Works(t, i)
  <2>1. Mine(t)
    BY <1>1, <1>8 DEF StateOK, TypeOK, Mine
  <2> QED
    BY <1>3, <1>8, <1>13, <1>14, <2>1 DEF Works
<1>17. pc'[t] = "trunc" /\ tot'[t] = p + 1 /\ ilock'[i] = t
  BY <1>1, <1>3, <1>8 DEF StateOK, TypeOK
<1>18. Current(i)' = mem'[i] /\ Freed(i)' = p + 1
  BY <1>13, <1>17 DEF Current, Freed
<1>19. ASSUME NEW q \in Positions PROVE At(i, q)' = IF q = p THEN 0 ELSE At(i, q)
  <2>1. At(i, q) = IF q < tot[t] THEN 0 ELSE Place(disk, a, q)
    BY <1>3, <1>5, AtIs
  <2>2. At(i, q)' = IF q < p + 1 THEN 0 ELSE Place(disk', c, q)
    BY <1>13, <1>18, AtNextIs
  <2>3. p \in Nat /\ q \in Nat /\ p <= MAX_FILE /\ q <= MAX_FILE
    BY <1>7 DEF Positions
  <2>4. CASE q = p
    BY <2>2, <2>3, <2>4
  <2>5. CASE q < p
    <3>1. At(i, q)' = 0
      BY <2>2, <2>3, <2>5
    <3>2. At(i, q) = 0
      BY <1>3, <1>7, <2>1, <2>3, <2>5
    <3> QED
      BY <2>3, <2>5, <3>1, <3>2
  <2>6. CASE q > p
    <3>1. At(i, q)' = Place(disk', c, q) /\ At(i, q) = Place(disk, a, q)
      BY <1>3, <1>7, <2>1, <2>2, <2>3, <2>6
    <3>2. c[NDIRECT] = a[NDIRECT] /\ p # MAX_FILE
      <4>1. NDIRECT \in 0 .. NDIRECT /\ p # MAX_FILE
        BY <2>3, <2>6
      <4> QED
        BY <1>11, <2>3, <4>1
    <3>3. CASE q < NDIRECT
      <4>1. q \in 0 .. NDIRECT - 1 /\ q \in 0 .. NDIRECT /\ q # NDIRECT /\ q # p
        BY <2>3, <2>6, <3>3
      <4>2. Place(disk', c, q) = c[q] /\ Place(disk, a, q) = a[q]
        BY <4>1, PlaceDirect
      <4> QED
        BY <1>11, <3>1, <4>1, <4>2
    <3>4. CASE q = MAX_FILE
      BY <2>3, <2>6, <3>1, <3>2, <3>4, PlaceTop
    <3>5. CASE q >= NDIRECT /\ q # MAX_FILE
      <4>1. q \in NDIRECT .. MAX_FILE - 1
        BY <2>3, <3>5
      <4>2. /\ Place(disk', c, q) = IF c[NDIRECT] = 0 THEN 0 ELSE disk'.ind[c[NDIRECT]][q - NDIRECT]
            /\ Place(disk, a, q) = IF a[NDIRECT] = 0 THEN 0 ELSE disk.ind[a[NDIRECT]][q - NDIRECT]
        BY <4>1, PlaceEntry
      <4> QED
        BY <1>14, <2>3, <2>6, <3>1, <3>2, <4>2
    <3> QED
      BY <2>3, <3>3, <3>4, <3>5
  <2> QED
    BY <2>3, <2>4, <2>5, <2>6
<1>20. At(i, p) = b
  BY <1>3, <1>5, <1>7, AtIs DEF Positions
<1>21. ASSUME NEW j \in Files \ {i}
       PROVE  (\A q \in Positions : At(j, q)' = At(j, q)) /\ WrittenAt(j)'
  BY <1>8, <1>14, <1>15, <1>16, WorksStay
<1>22. BlocksOK'
  <2>1. ASSUME NEW j \in Files, NEW q \in Positions
        PROVE  \/ At(j, q)' = At(j, q) /\ ~(j = i /\ q = p)
               \/ At(j, q)' = 0 /\ At(j, q) = b
    <3>1. CASE j = i /\ q = p
      BY <1>19, <1>20, <3>1
    <3>2. CASE j = i /\ q # p
      BY <1>19, <3>2
    <3>3. CASE j # i
      BY <1>21, <3>3
    <3> QED
      BY <3>1, <3>2, <3>3
  <2>2. \A j \in Files, q \in Positions :
          At(j, q)' = At(j, q) \/ (At(j, q)' = 0 /\ At(j, q) \notin disk'.used)
    BY <1>14, <2>1
  <2>3. ASSUME NEW j \in Files, NEW q \in Positions, At(j, q)' # 0
        PROVE  At(j, q)' \in disk'.used
    <3>1. At(j, q)' = At(j, q) /\ ~(j = i /\ q = p)
      BY <2>1, <2>3
    <3>2. At(j, q) \in disk.used
      BY <2>3, <3>1 DEF IInv, BlocksOK, Marked
    <3>3. At(j, q) # b
      <4>1. OneOwner
        BY DEF IInv, BlocksOK
      <4> QED
        BY <1>3, <1>7, <1>20, <2>3, <3>1, <4>1 DEF OneOwner
    <3> QED
      BY <1>14, <3>1, <3>2, <3>3
  <2>4. OneOwner' /\ Marked' /\ Owned' /\ OwnBytes'
    <3>1. disk'.used \subseteq disk.used /\ disk'.blk = disk.blk /\ holes' = holes
      BY <1>8, <1>14
    <3> QED
      BY <2>2, <2>3, <3>1, BlocksFreed
  <2>5. WrittenAt(i)'
    <3>1. ~Settled(i)'
      BY <1>7, <1>17 DEF Settled, Positions
    <3> QED
      BY <3>1 DEF WrittenAt
  <2>6. Written'
    BY <1>21, <2>5 DEF Written, WrittenAt
  <2> QED
    BY <2>4, <2>6 DEF BlocksOK
<1>23. CallOK(t)'
  <2>1. File(t)' = i /\ logged'[t] \subseteq {BITMAP}
    BY <1>1, <1>2, <1>8 DEF File, StateOK, CallOK, LogOK
  <2>2. HandleOK(t)' /\ LockOK(t)' /\ WriteOK(t)' /\ LogOK(t)'
    BY <1>1, <1>3, <1>8, <1>17, <2>1 DEF CallOK, HandleOK, LockOK, LockPCs, WriteOK, LogOK
  <2>3. TruncOK(t)'
    <3>1. p \in Nat /\ p <= MAX_FILE
      BY <1>7 DEF Positions
    <3>2. ASSUME NEW k \in 0 .. NDIRECT - 1, k < p + 1 PROVE c[k] = 0
      <4>1. k \in 0 .. NDIRECT /\ k \in Positions /\ k # NDIRECT
        BY DEF Positions
      <4>2. CASE k = p
        BY <1>11, <3>2, <4>1, <4>2
      <4>3. CASE k < tot[t] /\ k # p
        <5>1. a[k] = 0
          BY <1>1, <1>2, <1>5, <4>3 DEF CallOK, TruncOK
        <5> QED
          BY <1>11, <4>1, <4>3, <5>1
      <4>4. CASE k >= tot[t] /\ k # p
        <5>1. Place(disk, a, k) = 0
          BY <1>7, <3>1, <3>2, <4>1, <4>4
        <5>2. Place(disk, a, k) = a[k]
          BY PlaceDirect
        <5> QED
          BY <1>11, <4>1, <4>4, <5>1, <5>2
      <4> QED
        BY <1>3, <4>2, <4>3, <4>4
    <3>3. p + 1 = MAX_FILE + 1 => c[NDIRECT] = 0
      <4>1. NDIRECT \in 0 .. NDIRECT
        OBVIOUS
      <4> QED
        BY <1>11, <3>1, <4>1
    <3> QED
      BY <1>13, <1>17, <2>1, <3>1, <3>2, <3>3 DEF TruncOK
  <2> QED
    BY <2>2, <2>3 DEF CallOK
<1>24. \A j \in Files \ {i}, q \in Positions : At(j, q)' = At(j, q)
  BY <1>21
<1> QED
  BY <1>8, <1>13, <1>15, <1>16, <1>22, <1>23, <1>24, WorksOK

\* Every block is freed, and the inode goes to disk without any.
LEMMA TruncEndOK ==
  ASSUME IInv, NEW t \in Threads, UNCHANGED calls, TruncEnd(t)
  PROVE  IInv'
<1>1. StateOK /\ CallOK(t) /\ pc[t] = "trunc"
  BY DEF IInv, CallsOK, TruncEnd
<1>2. PICK i : i = File(t)
  OBVIOUS
<1>3. /\ i \in Files /\ mem[i] \in INodes /\ mem[i].addrs \in Addrs /\ Current(i) = mem[i]
      /\ ilock[i] = t /\ Freed(i) = tot[t] /\ tot[t] \in Nat
      /\ \A j \in Files : ilock[j] = t <=> j = i
      /\ fd[t] \in Handles /\ fp[fd[t]] # None
  BY <1>1, <1>2, TruncSees
<1>4. PICK m, a : m = [mem[i] EXCEPT !.size = 0] /\ a = mem[i].addrs
  OBVIOUS
<1>5. m \in INodes /\ m.addrs = a /\ disk \in Disks
  BY <1>1, <1>3, <1>4 DEF INodes, StateOK, TypeOK
<1>6. /\ mem' = [mem EXCEPT ![i] = m] /\ logged' = [logged EXCEPT ![t] = @ \cup {INODE}]
      /\ ilock' = [ilock EXCEPT ![i] = None] /\ pos' = [pos EXCEPT ![t] = 0]
      /\ tot' = [tot EXCEPT ![t] = 0] /\ pc' = [pc EXCEPT ![t] = "end_op"]
      /\ UNCHANGED <<stable, fp, off, fd, want, holes>>
  BY <1>2, <1>4 DEF TruncEnd, UnlockINode, Goto
<1>7. mem'[i] = m /\ disk' = Update(disk, i, m) /\ \A j \in Files \ {i} : mem'[j] = mem[j]
  <2>1. mem'[i] = m /\ \A j \in Files \ {i} : mem'[j] = mem[j]
    BY <1>1, <1>3, <1>6 DEF StateOK
  <2> QED
    BY <1>2, <2>1 DEF TruncEnd
<1>8. /\ disk' \in Disks /\ disk'.used = disk.used /\ disk'.ind = disk.ind
      /\ disk'.blk = disk.blk /\ disk'.ino[i] = m
      /\ \A j \in Files \ {i} : disk'.ino[j] = disk.ino[j]
  BY <1>3, <1>5, <1>7, UpdateIs
<1>9. StateOK'
  <2>1. logged' \in [Threads -> SUBSET (Blocks \cup {BITMAP, INODE})]
    BY <1>1, <1>6 DEF StateOK
  <2>2. \A u \in Threads : IsFiniteSet(logged'[u])
    BY <2>1, LoggedType
  <2>3. /\ mem' \in [Files -> INodes \cup {None}] /\ ilock' \in [Files -> Threads \cup {None}]
        /\ tot' \in [Threads -> Nat] /\ pos' \in [Threads -> Nat] /\ pc' \in [Threads -> PCs]
    BY <1>1, <1>3, <1>5, <1>6 DEF StateOK, TypeOK, PCs, OpPCs
  <2> QED
    BY <1>1, <1>6, <1>8, <2>1, <2>2, <2>3 DEF StateOK, TypeOK
<1>10. \A j \in Files : ilock'[j] = IF j = i THEN None ELSE ilock[j]
  BY <1>1, <1>6 DEF StateOK, TypeOK
<1>11. Works(t, i)
  <2>1. Mine(t)
    BY <1>1, <1>3, <1>6, <1>10 DEF StateOK, TypeOK, Mine
  <2> QED
    BY <1>3, <1>6, <1>7, <1>8, <1>10, <2>1 DEF Works
<1>12. Freed(i)' = 0 /\ Current(i)' = m
  <2>1. ilock'[i] = None
    BY <1>3, <1>10
  <2> QED
    BY <1>5, <1>7, <2>1 DEF Freed, Current
<1>13. ASSUME NEW q \in Positions PROVE At(i, q) = 0 /\ At(i, q)' = 0
  <2>1. ASSUME NEW p \in Positions, p >= tot[t] PROVE Place(disk, a, p) = 0
    <3>1. p \notin Mapped(disk, mem[i])
      BY <1>2, <1>3, <2>1 DEF TruncEnd, ToFree, Positions
    <3>2. Phys(disk, mem[i], p) = 0
      BY <3>1 DEF Mapped, Positions
    <3> QED
      BY <1>4, <3>2, PlaceIs
  <2>2. At(i, q) = 0
    BY <1>3, <1>4, <2>1, AtIs DEF Positions
  <2>3. MAX_FILE \in Positions
    BY DEF Positions
  <2>4. a[NDIRECT] = 0
    <3>1. CASE tot[t] <= MAX_FILE
      BY <1>3, <2>1, <2>3, <3>1, PlaceTop
    <3>2. CASE tot[t] > MAX_FILE
      <4>1. tot[t] <= MAX_FILE + 1
        BY <1>1 DEF CallOK, TruncOK
      <4>2. tot[t] = MAX_FILE + 1
        BY <1>3, <3>2, <4>1
      <4> QED
        BY <1>1, <1>2, <1>4, <4>2 DEF CallOK, TruncOK
    <3> QED
      BY <1>3, <3>1, <3>2
  <2>5. Place(disk', a, q) = 0
    <3>1. CASE q < NDIRECT
      <4>1. q \in 0 .. NDIRECT - 1
        BY <3>1 DEF Positions
      <4>2. Place(disk', a, q) = a[q] /\ Place(disk, a, q) = a[q]
        BY <4>1, PlaceDirect
      <4>3. CASE q < tot[t]
        BY <1>1, <1>2, <1>4, <4>1, <4>2, <4>3 DEF CallOK, TruncOK
      <4>4. CASE q >= tot[t]
        BY <2>1, <4>2, <4>4
      <4> QED
        BY <1>3, <4>1, <4>3, <4>4
    <3>2. CASE q = MAX_FILE
      BY <2>4, <3>2, PlaceTop
    <3>3. CASE q >= NDIRECT /\ q # MAX_FILE
      <4>1. q \in NDIRECT .. MAX_FILE - 1
        BY <3>3 DEF Positions
      <4> QED
        BY <2>4, <4>1, PlaceEntry
    <3> QED
      BY <3>1, <3>2, <3>3 DEF Positions
  <2>6. At(i, q)' = Place(disk', a, q)
    BY <1>5, <1>12, AtNextIs DEF Positions
  <2> QED
    BY <2>2, <2>5, <2>6
<1>14. ASSUME NEW j \in Files \ {i}
       PROVE  (\A q \in Positions : At(j, q)' = At(j, q)) /\ WrittenAt(j)'
  BY <1>6, <1>8, <1>9, <1>11, WorksStay
<1>15. BlocksOK'
  <2>1. \A j \in Files, q \in Positions : At(j, q)' = At(j, q)
    BY <1>13, <1>14
  <2>2. \A j \in Files, q \in Positions : At(j, q)' # 0 => At(j, q)' \in disk'.used
    BY <1>8, <2>1 DEF IInv, BlocksOK, Marked
  <2>3. OneOwner' /\ Marked' /\ Owned' /\ OwnBytes'
    <3>1. disk'.used \subseteq disk.used /\ disk'.blk = disk.blk /\ holes' = holes
      BY <1>6, <1>8
    <3> QED
      BY <2>1, <2>2, <3>1, BlocksFreed
  <2>4. WrittenAt(i)'
    BY <1>8, <1>12, UpdateWrites
  <2>5. Written'
    BY <1>14, <2>4 DEF Written, WrittenAt
  <2> QED
    BY <2>3, <2>5 DEF BlocksOK
<1>16. CallOK(t)'
  <2>1. /\ pc'[t] = "end_op" /\ fd'[t] = fd[t] /\ tot'[t] = 0
        /\ logged'[t] \subseteq {BITMAP, INODE}
    BY <1>1, <1>6 DEF StateOK, TypeOK, CallOK, LogOK
  <2>2. HandleOK(t)' /\ LockOK(t)' /\ WriteOK(t)' /\ TruncOK(t)'
    BY <1>3, <1>6, <1>10, <2>1 DEF HandleOK, LockOK, WriteOK, TruncOK, LockPCs
  <2>3. Cardinality(logged'[t]) <= MAX_OP_BLOCKS - 1
    <3>1. PICK L, Q : L = logged'[t] /\ Q = {BITMAP} \cup {INODE}
      OBVIOUS
    <3>2. IsFiniteSet({BITMAP}) /\ Cardinality({BITMAP}) <= 1
      BY FS_Singleton
    <3>3. IsFiniteSet(Q) /\ Cardinality(Q) <= 1 + 1
      <4>1. PICK x, y : x = {BITMAP} /\ y = INODE
        OBVIOUS
      <4>2. IsFiniteSet(x) /\ Cardinality(x) <= 1 /\ 1 \in Int
        BY <3>2, <4>1
      <4>3. IsFiniteSet(x \cup {y}) /\ Cardinality(x \cup {y}) <= 1 + 1
        BY <4>2, OneMore
      <4> QED
        BY <3>1, <4>1, <4>3
    <3>4. IsFiniteSet(L) /\ Cardinality(L) <= Cardinality(Q)
      <4>1. L \subseteq Q
        BY <2>1, <3>1
      <4> QED
        BY <3>3, <4>1, FS_Subset
    <3>5. Cardinality(L) \in Nat /\ Cardinality(Q) \in Nat
      BY <3>3, <3>4, FS_CardinalityType
    <3> QED
      BY <3>1, <3>3, <3>4, <3>5, ContentAssumption
  <2>4. LogOK(t)'
    BY <2>1, <2>3 DEF LogOK
  <2> QED
    BY <2>2, <2>4 DEF CallOK
<1>17. \A j \in Files \ {i}, q \in Positions : At(j, q)' = At(j, q)
  BY <1>14
<1> QED
  BY <1>5, <1>6, <1>7, <1>9, <1>11, <1>15, <1>16, <1>17, WorksOK

----------------------------------------------------------------------------
(* The theorems.                                                           *)

LEMMA StutterOK ==
  ASSUME IInv, UNCHANGED vars
  PROVE  IInv'
<1>1. UNCHANGED <<disk, stable, mem, ilock, fp, off, pc, fd, pos, want, tot, logged, holes, calls>>
  BY DEF vars
<1>2. StateOK'
  BY <1>1 DEF IInv, StateOK, TypeOK
<1>3. Mine(None) /\ \A j \in Files : Freed(j)' = Freed(j) /\ Settled(j)' = Settled(j)
  BY <1>1, NoCallMoves
<1>4. BlocksOK' /\ \A j \in Files, p \in Positions : At(j, p)' = At(j, p)
  <2>1. \A j \in Files : Current(j)' = Current(j)
    BY <1>1 DEF Current
  <2> QED
    BY <1>1, <1>2, <1>3, <2>1, BlocksStay
<1>5. CachedOK' /\ StableOK'
  BY <1>1, StableStays DEF IInv, CachedOK
<1>6. ASSUME NEW u \in Threads PROVE CallOK(u)'
  <2>1. ASSUME pc[u] \in LockPCs
        PROVE  /\ mem'[File(u)] = mem[File(u)]
               /\ \A p \in Positions : At(File(u), p)' = At(File(u), p)
    <3>1. PICK j : j = File(u)
      OBVIOUS
    <3>2. j \in Files /\ File(u)' = j
      BY <1>1, <2>1, <3>1, Caller DEF LockPCs, File
    <3> QED
      BY <1>1, <1>4, <3>1, <3>2
  <2>2. u \in Threads \ {None} /\ fp' = fp
    BY <1>1
  <2> QED
    BY <1>3, <2>1, <2>2, CallStays
<1> QED
  BY <1>2, <1>4, <1>5, <1>6 DEF IInv, CallsOK

LEMMA ContinueOK ==
  ASSUME IInv, NEW t \in Threads, Continue(t), UNCHANGED calls
  PROVE  IInv'
<1>1. CASE WriteNext(t)
  BY <1>1, WriteNextOK
<1>2. CASE LockINode(t, "write_lock", "write")
  BY <1>2, LockINodeOK
<1>3. CASE LockINode(t, "read_lock", "read")
  BY <1>3, LockINodeOK
<1>4. CASE LockINode(t, "trunc_lock", "trunc")
  BY <1>4, LockINodeOK
<1>5. CASE WriteRefused(t)
  BY <1>5, WriteRefusedOK
<1>6. CASE WriteBlock(t)
  BY <1>6, WriteBlockOK
<1>7. CASE WriteEnd(t)
  BY <1>7, WriteEndOK
<1>8. CASE ReadBlock(t)
  BY <1>8, ReadBlockOK
<1>9. CASE ReadEnd(t)
  BY <1>9, ReadEndOK
<1>10. CASE Aborts(t)
  BY <1>10, CrashOK DEF Aborts
<1>11. CASE TruncFree(t)
  BY <1>11, TruncFreeOK
<1>12. CASE TruncEnd(t)
  BY <1>12, TruncEndOK
<1>13. CASE SetSize(t)
  BY <1>13, SetSizeOK
<1>14. CASE EndOp(t)
  BY <1>14, EndOpOK
<1> QED
  BY <1>1, <1>2, <1>3, <1>4, <1>5, <1>6, <1>7, <1>8, <1>9, <1>10, <1>11, <1>12, <1>13, <1>14
  DEF Continue

\* The invariant holds in every state: whatever the threads do and wherever the
\* process dies.
THEOREM Invariance == Spec => []IInv
<1>1. Init => IInv
  BY InitOK
<1>2. IInv /\ [Next]_vars => IInv'
  <2> SUFFICES ASSUME IInv, [Next]_vars PROVE IInv'
    OBVIOUS
  <2>1. ASSUME NEW t \in Threads, NEW h \in Handles, Call(t, h) PROVE IInv'
    BY <2>1, CallsBegin
  <2>2. ASSUME NEW h \in Handles, NEW i \in Files, Open(h, i) /\ UNCHANGED calls PROVE IInv'
    BY <2>2, OpenOK
  <2>3. ASSUME NEW h \in Handles, Release(h) /\ UNCHANGED calls PROVE IInv'
    BY <2>3, ReleaseOK
  <2>4. ASSUME NEW t \in Threads, Continue(t) /\ UNCHANGED calls PROVE IInv'
    BY <2>4, ContinueOK
  <2>5. ASSUME Crash /\ UNCHANGED calls PROVE IInv'
    BY <2>5, CrashOK
  <2>6. CASE UNCHANGED vars
    BY <2>6, StutterOK
  <2> QED
    BY <2>1, <2>2, <2>3, <2>4, <2>5, <2>6 DEF Next
<1> QED
  BY <1>1, <1>2, PTL DEF Spec

\* Every variable keeps its type.
THEOREM TypeCorrect == Spec => []TypeOK
<1>1. IInv => TypeOK
  BY DEF IInv, StateOK
<1> QED
  BY <1>1, Invariance, PTL

\* What a file holds, in terms of At.
LEMMA HeldIs ==
  ASSUME IInv, NEW i \in Files, NEW p \in Held(i)
  PROVE  p \in Positions /\ At(i, p) = Phys(disk, Current(i), p) /\ At(i, p) # 0
<1>1. p \in Positions /\ p >= Freed(i) /\ Phys(disk, Current(i), p) # 0
  BY DEF Held, Mapped, Positions
<1>2. Freed(i) \in Nat /\ p \in Nat
  BY <1>1 DEF IInv, StateOK, TypeOK, Freed, Positions
<1> QED
  BY <1>1, <1>2 DEF At

\* A block is never in two files or twice in one, and is marked as long as a file
\* holds it: block_alloc, block_map and trunc keep the bitmap and the addresses
\* in step, for any number of threads, files and blocks.
THEOREM BlocksStayExclusive == Spec => []BlocksExclusive
<1>1. IInv => BlocksExclusive
  <2> SUFFICES ASSUME IInv PROVE BlocksExclusive
    OBVIOUS
  <2>1. OneOwner /\ Marked
    BY DEF IInv, BlocksOK
  <2>2. ASSUME NEW i \in Files, NEW p \in Held(i), NEW j \in Files, NEW q \in Held(j),
               Phys(disk, Current(j), q) = Phys(disk, Current(i), p)
        PROVE  j = i /\ q = p
    <3>1. p \in Positions /\ At(i, p) = Phys(disk, Current(i), p) /\ At(i, p) # 0
      BY HeldIs
    <3>2. q \in Positions /\ At(j, q) = Phys(disk, Current(j), q)
      BY HeldIs
    <3>3. At(i, p) = At(j, q)
      BY <2>2, <3>1, <3>2
    <3> QED
      BY <2>1, <3>1, <3>2, <3>3 DEF OneOwner
  <2>3. ASSUME NEW i \in Files, NEW p \in Held(i)
        PROVE  Phys(disk, Current(i), p) \in disk.used
    <3>1. p \in Positions /\ At(i, p) = Phys(disk, Current(i), p) /\ At(i, p) # 0
      BY HeldIs
    <3> QED
      BY <2>1, <3>1 DEF Marked
  <2> QED
    BY <2>2, <2>3 DEF BlocksExclusive
<1> QED
  BY <1>1, Invariance, PTL

\* Nobody reads another file's bytes, before or after a crash.
THEOREM BytesStayPrivate == Spec => []NoForeignBytes
<1>1. IInv => NoForeignBytes
  <2> SUFFICES ASSUME IInv, NEW i \in Files
               PROVE  /\ \A p \in Held(i) \ {MAX_FILE} :
                           disk.blk[Phys(disk, Current(i), p)] \subseteq {i}
                      /\ \A p \in Mapped(stable, stable.ino[i]) \ {MAX_FILE} :
                           stable.blk[Phys(stable, stable.ino[i], p)] \subseteq {i}
    BY DEF NoForeignBytes
  <2>1. ASSUME NEW p \in Held(i) \ {MAX_FILE}
        PROVE  disk.blk[Phys(disk, Current(i), p)] \subseteq {i}
    <3>1. p \in Positions /\ At(i, p) = Phys(disk, Current(i), p) /\ At(i, p) # 0
      BY HeldIs
    <3>2. p \in 0 .. MAX_FILE - 1
      BY <3>1 DEF Positions
    <3> QED
      BY <3>1, <3>2 DEF IInv, BlocksOK, OwnBytes
  <2>2. ASSUME NEW p \in Mapped(stable, stable.ino[i]) \ {MAX_FILE}
        PROVE  stable.blk[Phys(stable, stable.ino[i], p)] \subseteq {i}
    <3>1. p \in Positions /\ Phys(stable, stable.ino[i], p) # 0
      BY DEF Mapped, Positions
    <3> QED
      BY <3>1 DEF IInv, StableOK, Exact
  <2> QED
    BY <2>1, <2>2
<1> QED
  BY <1>1, Invariance, PTL

\* An operation never gives log_write more blocks than begin_op has reserved for
\* it, for any size of a block, of the write and of the reservation: the formula
\* of OFile::write is right.
THEOREM OperationsFit == Spec => []OpFitsReservation
<1>1. IInv => OpFitsReservation
  <2> SUFFICES ASSUME IInv, NEW t \in Threads
               PROVE  Cardinality(logged[t]) <= MAX_OP_BLOCKS - 1
    BY DEF OpFitsReservation
  <2>1. CallOK(t)
    BY DEF IInv, CallsOK
  <2>2. CASE pc[t] = "write"
    <3>1. logged[t] \subseteq {BITMAP, INODE, At(File(t), MAX_FILE)} \cup Passed(t)
      BY <2>1, <2>2 DEF CallOK, LogOK
    <3> QED
      BY <2>2, <3>1, LogFits
  <2>3. CASE pc[t] = "end_op"
    BY <2>1, <2>3 DEF CallOK, LogOK
  <2>4. CASE pc[t] \notin {"write", "end_op"}
    <3>1. PICK L : L = logged[t]
      OBVIOUS
    <3>2. L \subseteq {BITMAP}
      BY <2>1, <2>4, <3>1 DEF CallOK, LogOK
    <3>3. IsFiniteSet({BITMAP}) /\ Cardinality({BITMAP}) = 1
      BY FS_Singleton
    <3>4. IsFiniteSet(L) /\ Cardinality(L) <= 1
      BY <3>2, <3>3, FS_Subset
    <3>5. Cardinality(L) \in Nat
      BY <3>4, FS_CardinalityType
    <3> QED
      BY <3>1, <3>4, <3>5, ContentAssumption
  <2> QED
    BY <2>2, <2>3, <2>4
<1> QED
  BY <1>1, Invariance, PTL

\* What a crash leaves behind is consistent, whenever it comes: the references
\* are as many as the blocks, all of them marked, and only holes are lost.
THEOREM StableStaysExact == Spec => []StableExact
<1>1. IInv => StableExact
  <2> SUFFICES ASSUME IInv PROVE StableExact
    OBVIOUS
  <2>1. PICK d, H : d = stable /\ H = holes
    OBVIOUS
  <2>2. Exact(d, H) /\ d \in Disks
    BY <2>1 DEF IInv, StableOK, StateOK, TypeOK
  <2>3. PICK R, B : R = References(d) /\ B = Referenced(d)
    OBVIOUS
  <2>4. ASSUME NEW r \in R
        PROVE  /\ r[1] \in Files /\ r[2] \in Positions /\ r = <<r[1], r[2]>>
               /\ Phys(d, d.ino[r[1]], r[2]) # 0
    BY <2>3 DEF References, Positions
  <2>5. PICK f : f = [r \in R |-> Phys(d, d.ino[r[1]], r[2])]
    OBVIOUS
  <2>6. B = {f[r] : r \in R}
    BY <2>3, <2>5 DEF Referenced
  <2>7. f \in Surjection(R, B)
    BY <2>5, <2>6 DEF Surjection
  <2>8. ASSUME NEW r \in R, NEW s \in R, f[r] = f[s] PROVE r = s
    <3>1. Phys(d, d.ino[r[1]], r[2]) = Phys(d, d.ino[s[1]], s[2])
      BY <2>5, <2>8
    <3>2. \A i, j \in Files, p, q \in Positions :
            Phys(d, d.ino[i], p) # 0 /\ Phys(d, d.ino[i], p) = Phys(d, d.ino[j], q)
              => i = j /\ p = q
      BY <2>2 DEF Exact
    <3>3. r[1] = s[1] /\ r[2] = s[2]
      BY <2>4, <3>1, <3>2
    <3> QED
      BY <2>4, <3>3
  <2>9. f \in Injection(R, B)
    <3>1. f \in [R -> B]
      BY <2>7 DEF Surjection
    <3>2. \A r, s \in R : f[r] = f[s] => r = s
      BY <2>8
    <3> QED
      BY <3>1, <3>2 DEF Injection, IsInjective
  <2>10. B \subseteq d.used
    <3>1. ASSUME NEW r \in R PROVE f[r] \in d.used
      BY <2>2, <2>4, <2>5 DEF Exact
    <3> QED
      BY <2>6, <3>1
  <2>11. IsFiniteSet(B)
    <3>1. IsFiniteSet(Blocks)
      BY FS_Interval
    <3>2. B \subseteq Blocks
      BY <2>2, <2>10 DEF Disks
    <3> QED
      BY <3>1, <3>2, FS_Subset
  <2>12. IsFiniteSet(R)
    BY <2>9, <2>11, FS_Injection
  <2>13. Cardinality(B) = Cardinality(R)
    BY <2>7, <2>9, <2>12, FS_Surjection
  <2>14. d.used \ B \subseteq H
    <3> SUFFICES ASSUME NEW b \in d.used, b \notin H PROVE b \in B
      OBVIOUS
    <3>1. PICK i \in Files, p \in Positions : Phys(d, d.ino[i], p) = b
      BY <2>2 DEF Exact
    <3>2. b # 0
      BY <2>2 DEF Disks
    <3>3. <<i, p>> \in R
      BY <2>3, <3>1, <3>2 DEF References, Positions
    <3>4. f[<<i, p>>] = b
      BY <2>5, <3>1, <3>3
    <3> QED
      BY <2>6, <3>3, <3>4
  <2> QED
    BY <2>1, <2>3, <2>10, <2>13, <2>14 DEF StableExact
<1> QED
  BY <1>1, Invariance, PTL

============================================================================
