----------------------------- MODULE MkfsProofs -----------------------------
(***************************************************************************)
(* Proofs about Mkfs, for every geometry, block size and set of files.     *)
(***************************************************************************)
EXTENDS Mkfs, FiniteSetTheorems, FunctionTheorems, SequenceTheorems, TLAPS

\* What most proofs need of the constants.
LEMMA Constants ==
  /\ BSIZE \in Nat \ {0} /\ IPB \in Nat \ {0} /\ BPB \in Nat \ {0}
  /\ NDIRECT \in Nat /\ NINDIRECT \in Nat \ {0} /\ MaxINodes \in Nat
BY MkfsAssumption

USE Constants DEF MAXFILE, ROOTINO

----------------------------------------------------------------------------
(* The layout.                                                             *)

\* Rounded division is monotone.
LEMMA DivMono ==
  ASSUME NEW d \in Nat \ {0}, NEW n \in Nat, NEW i \in 0 .. n
  PROVE  i \div d \in 0 .. (n \div d)
OBVIOUS

\* Rounded division gives a natural number.
LEMMA DivNat ==
  ASSUME NEW d \in Nat \ {0}, NEW n \in Nat
  PROVE  n \div d \in Nat
OBVIOUS

\* The superblock is written first, and then says what mkfs was compiled with.
LayoutOK ==
  /\ geo \in Geometries
  /\ sector1 \in {<<>>, Superblock}
  /\ pc # "layout" => sector1 = Superblock

\* main writes the superblock and nothing changes it.
LEMMA LayoutInv ==
  ASSUME LayoutOK, [Next]_vars
  PROVE  LayoutOK'
<1>1. /\ geo' = geo /\ (sector1' = sector1 \/ sector1' = Superblock)
      /\ pc = "layout" => pc' = "layout" \/ sector1' = Superblock
  BY DEF Next, vars, image, Layout, IallocRoot, AppendDot, AddFile, CopyChunk, CopyDone,
     AppendBlock, AppendFails, AppendEnd, FixRoot, Balloc, BallocFails
<1>2. Superblock' = Superblock
  BY <1>1 DEF Superblock, nmeta, ninodeblocks, nbitmap
<1> QED
  BY <1>1, <1>2 DEF LayoutOK

\* The daemon finds the log, the inodes and the bitmap of every inode and every
\* bit in places of their own, and below the first data block, for every number
\* of blocks, inodes and log blocks mkfs may be compiled with.
THEOREM LayoutHolds == Spec => []LayoutDisjoint
<1>1. Init => LayoutOK
  BY DEF Init, LayoutOK
<1>2. LayoutOK => LayoutDisjoint
  <2> SUFFICES ASSUME LayoutOK, sector1 # <<>>
               PROVE  LayoutDisjoint
    BY DEF LayoutDisjoint
  <2> DEFINE L == geo.LOGSIZE
             NI == geo.NINODES \div IPB
             NB == geo.FSSIZE \div BPB
             I == 2 + L
             B == I + NI + 1
             M == B + NB + 1
  <2>1. L \in Nat /\ geo.FSSIZE \in Nat /\ geo.NINODES \in Nat
    BY MkfsAssumption DEF LayoutOK
  <2>2. NI \in Nat /\ NB \in Nat
    BY <2>1, DivNat
  <2> HIDE DEF L, NI, NB
  <2>3. nmeta = M
    <3>1. nmeta = 1 + 1 + L + (NI + 1) + (NB + 1)
      BY DEF nmeta, ninodeblocks, nbitmap, L, NI, NB
    <3> QED
      BY <2>1, <2>2, <3>1
  <2>4. sector1 = Superblock
    BY DEF LayoutOK
  <2>5. /\ SuperBlockInit.size = geo.FSSIZE
        /\ SuperBlockInit.nblocks = geo.FSSIZE - nmeta
        /\ SuperBlockInit.ninodes = geo.NINODES
        /\ SuperBlockInit.nlog = L
        /\ SuperBlockInit.logstart = 2
        /\ SuperBlockInit.inodestart = 2 + L
        /\ SuperBlockInit.bmapstart = 2 + L + ninodeblocks
    BY <2>4 DEF SuperBlockInit, Superblock, L
  <2>6. 2 + L + ninodeblocks = B
    BY <2>1, <2>2 DEF ninodeblocks, NI
  <2>7. ASSUME NEW i \in 0 .. geo.NINODES - 1
        PROVE  INODE_BLOCK(i) \in I .. B - 1
    <3>1. i \div IPB \in 0 .. NI
      <4>1. i \in 0 .. geo.NINODES
        BY <2>1
      <4> QED
        BY <2>1, <4>1, DivMono DEF NI
    <3> QED
      BY <2>1, <2>2, <2>5, <3>1 DEF INODE_BLOCK
  <2>8. ASSUME NEW b \in 0 .. geo.FSSIZE - 1
        PROVE  BIT_BLOCK(b) \in B .. M - 1
    <3>1. b \div BPB \in 0 .. NB
      BY <2>1, DivMono DEF NB
    <3>2. BIT_BLOCK(b) = b \div BPB + B
      BY <2>5, <2>6 DEF BIT_BLOCK
    <3> QED
      BY <2>1, <2>2, <3>1, <3>2
  <2>9. LogBlocks \subseteq 2 .. I - 1
    BY <2>1, <2>5 DEF LogBlocks
  <2>10. geo.FSSIZE - SuperBlockInit.nblocks = M
    BY <2>1, <2>2, <2>3, <2>5
  <2>11. I \in Nat /\ B \in Nat /\ M \in Nat /\ 2 <= I /\ I < B /\ B < M
    BY <2>1, <2>2
  <2> DEFINE inodes == {INODE_BLOCK(i) : i \in 0 .. SuperBlockInit.ninodes - 1}
             bits == {BIT_BLOCK(b) : b \in 0 .. SuperBlockInit.size - 1}
             free == {b \in Blocks : b >= geo.FSSIZE - SuperBlockInit.nblocks}
  <2>12. inodes \subseteq I .. B - 1
    BY <2>5, <2>7
  <2>13. bits \subseteq B .. M - 1
    BY <2>5, <2>8
  <2>14. free \subseteq {b \in Nat : b >= M}
    BY <2>1, <2>10 DEF Blocks
  <2> HIDE DEF I, B, M, inodes, bits, free
  <2>15. /\ LogBlocks \cap inodes = {} /\ LogBlocks \cap bits = {}
         /\ inodes \cap bits = {}
         /\ (LogBlocks \cup inodes \cup bits) \cap ({0, 1} \cup free) = {}
    BY <2>9, <2>11, <2>12, <2>13, <2>14
  <2> QED
    BY <2>15 DEF LayoutDisjoint, inodes, bits, free
<1> QED
  BY <1>1, <1>2, LayoutInv, PTL DEF Spec

----------------------------------------------------------------------------
(* The inductive invariant.                                                *)

\* A file as iappend sees it while it works on it: the inode, the block at
\* position p (0 if there is none) and the length.  The root keeps the length it
\* had before main rounds its size up.
Place(a, m, p) ==
  IF p < NDIRECT THEN a[p]
  ELSE IF p = MAXFILE THEN a[NDIRECT]
  ELSE IF a[NDIRECT] = 0 THEN 0 ELSE m[a[NDIRECT]][p - NDIRECT]
Cur(i) == IF pc = "iappend" /\ call.inum = i THEN call.din ELSE ino[i]
At(i, p) == Place(Cur(i).addrs, ind, p)
Length(i) ==
  IF pc = "iappend" /\ call.inum = i THEN call.off
  ELSE IF pc \in {"balloc", "done"} /\ i = ROOTINO THEN freeinode
  ELSE ino[i].size
Pending(i) == IF pc = "iappend" /\ call.inum = i THEN Len(call.src) ELSE 0

\* Where main is, or goes on when iappend is done.
Stage == IF pc = "iappend" THEN call.ret ELSE pc

Addrs == [0 .. NDIRECT -> Nat]
Indirects == [0 .. NINDIRECT - 1 -> Nat]
INodes == [type : {"Invalid", "T_DIR", "T_FILE"}, nlink : {0, 1}, size : Nat, addrs : Addrs]
Contents ==
  [inum : Nat, name : FileNames \cup {".", "..", None}] \cup [of : INums, unit : Nat]
Calls == [inum : INums, din : INodes, off : Nat, src : Seq(Contents),
          ret : {"dotdot", "files", "copy"}]

StateOK ==
  /\ pc \in {"layout", "root", "dot", "dotdot", "files", "copy", "iappend", "balloc", "done"}
  /\ pc = "iappend" => call \in Calls
  /\ ino \in [INums -> INodes]
  /\ ind \in [Blocks -> Indirects]
  /\ data \in [Blocks -> [0 .. BSIZE - 1 -> Contents]]
  /\ host \in [INums -> [size : Nat, copied : Nat]]
  /\ used_block \in Nat

\* Inodes are given in order, the root first.
INodesOK ==
  /\ freeinode \in 1 .. geo.NINODES
  /\ pc \in {"layout", "root"} <=> freeinode = 1
  /\ Stage \in {"dot", "dotdot"} => freeinode = 2
  /\ Stage = "copy" => freeinode > 2
  /\ \A i \in INums :
       /\ i < freeinode =>
            Cur(i).nlink = 1 /\ Cur(i).type = IF i = ROOTINO THEN "T_DIR" ELSE "T_FILE"
       /\ i >= freeinode => ino[i] = FreeINode

\* The blocks from nmeta up to used_block are each at one position of one file;
\* the others are inside the image and clear, and so are the indirect blocks as
\* data.
Positions0 == 0 .. MAXFILE
InUse == {b \in Nat : nmeta <= b /\ b < used_block}
Ranged == \A i \in INums, p \in Positions0 : At(i, p) # 0 => At(i, p) \in InUse
OneOwner ==
  \A i, j \in INums, p, q \in Positions0 :
    At(i, p) # 0 /\ At(i, p) = At(j, q) => i = j /\ p = q
Owned == \A b \in InUse : \E i \in INums, p \in Positions0 : At(i, p) = b
Started ==
  /\ pc = "layout" => used_block = 0
  /\ pc # "layout" => used_block >= nmeta
  /\ used_block <= nmeta \/ used_block <= geo.FSSIZE
Cleared == \A b \in Blocks : b >= used_block => ind[b] = NoEntries /\ data[b] = Zeroes
Placed ==
  \A b \in Blocks :
    data[b] # Zeroes => b # 0 /\ \E i \in INums, p \in 0 .. MAXFILE - 1 : At(i, p) = b
BlocksOK == Started /\ Ranged /\ OneOwner /\ Owned /\ Cleared /\ Placed

\* What belongs at offset k of file i.
Belongs(i, k, e) ==
  IF i # ROOTINO THEN e = Unit(i, k + 1)
  ELSE IF k = 0 THEN e = Entry(ROOTINO, ".")
  ELSE IF k = 1 THEN e = Entry(ROOTINO, "..")
  ELSE \E n \in FileNames : e = Entry(k, n)

\* A file has the blocks its length takes, with what belongs there, and zeroes
\* up to the end of the last one.
Mapped ==
  \A i \in INums :
    /\ Length(i) <= MAXFILE * BSIZE
    /\ \A p \in 0 .. MAXFILE - 1 : At(i, p) # 0 <=> p * BSIZE < Length(i)
Holds(i, k, e) == IF k < Length(i) THEN Belongs(i, k, e) ELSE e = FreeSlot
Filled ==
  \A i \in INums, p \in 0 .. MAXFILE - 1, r \in 0 .. BSIZE - 1 :
    At(i, p) # 0 => Holds(i, p * BSIZE + r, data[At(i, p)][r])

\* iappend has the rest of what it was called with.
CallOK ==
  pc = "iappend" =>
    /\ call.inum < freeinode
    /\ call.inum # ROOTINO => call.inum = inum /\ call.ret = "copy"
    /\ \A m \in 1 .. Len(call.src) : Belongs(call.inum, call.off + m - 1, call.src[m])

\* The root has an entry for every inode, under a name of its own.
Expected ==
  IF Stage \in {"layout", "root", "dot"} THEN 0
  ELSE IF Stage = "dotdot" THEN 1
  ELSE freeinode
RootOK ==
  /\ Length(ROOTINO) + Pending(ROOTINO) = Expected
  /\ pc \in {"balloc", "done"} => ino[ROOTINO].size = RoundUp(freeinode)
Slot(k) == data[At(ROOTINO, k \div BSIZE)][k % BSIZE]
NamesOK ==
  /\ \A j, k \in 2 .. Length(ROOTINO) - 1 : Slot(j).name = Slot(k).name => j = k
  /\ Pending(ROOTINO) # 0 =>
       /\ Pending(ROOTINO) = 1
       /\ \A k \in 2 .. Length(ROOTINO) - 1 : Slot(k).name # call.src[1].name

\* What was read of a file has been appended, or will be.
HostOK ==
  \A i \in INums :
    /\ i >= freeinode => host[i].copied = 0
    /\ i # ROOTINO /\ i < freeinode =>
         /\ Length(i) + Pending(i) = host[i].copied
         /\ i < inum \/ Stage # "copy" => host[i].copied = host[i].size

DoneOK == pc = "done" => bitmap = Marked(used_block)

Good ==
  /\ StateOK /\ INodesOK /\ BlocksOK /\ Mapped /\ Filled
  /\ CallOK /\ RootOK /\ NamesOK /\ HostOK /\ DoneOK

\* Nothing is said of the image of a mkfs that failed.
IInv == LayoutOK /\ (pc # "failed" => Good)

----------------------------------------------------------------------------
(* Offsets and positions.                                                  *)

\* An offset is in a block and at a place in it.
LEMMA DivMod ==
  ASSUME NEW k \in Nat
  PROVE  /\ k \div BSIZE \in Nat /\ k % BSIZE \in 0 .. BSIZE - 1
         /\ k = (k \div BSIZE) * BSIZE + (k % BSIZE)
<1>1. k \div BSIZE \in Nat
  BY DivNat
<1>2. k % BSIZE \in 0 .. BSIZE - 1
  OBVIOUS
<1>3. k = BSIZE * (k \div BSIZE) + (k % BSIZE)
  OBVIOUS
<1>4. BSIZE * (k \div BSIZE) = (k \div BSIZE) * BSIZE
  BY <1>1
<1> QED
  BY <1>1, <1>2, <1>3, <1>4

\* Blocks do not overlap.
LEMMA TimesMono ==
  ASSUME NEW p \in Nat, NEW q \in Nat, p < q
  PROVE  p * BSIZE \in Nat /\ q * BSIZE \in Nat /\ p * BSIZE + BSIZE <= q * BSIZE
<1>1. PICK d \in Nat : q = p + 1 + d
  <2>1. q - p - 1 \in Nat /\ q = p + 1 + (q - p - 1)
    OBVIOUS
  <2> QED
    BY <2>1
<1>2. q * BSIZE = p * BSIZE + BSIZE + d * BSIZE
  BY <1>1
<1>3. p * BSIZE \in Nat /\ q * BSIZE \in Nat /\ d * BSIZE \in Nat
  OBVIOUS
<1>4. PICK x, y, z : x = p * BSIZE /\ y = q * BSIZE /\ z = d * BSIZE
  OBVIOUS
<1> QED
  BY <1>2, <1>3, <1>4

\* What is at a place in a block has that block and place.
LEMMA DivModOf ==
  ASSUME NEW p \in Nat, NEW r \in 0 .. BSIZE - 1
  PROVE  /\ p * BSIZE + r \in Nat
         /\ (p * BSIZE + r) \div BSIZE = p /\ (p * BSIZE + r) % BSIZE = r
<1>1. PICK k : k = p * BSIZE + r
  OBVIOUS
<1>2. PICK x : x = p * BSIZE
  OBVIOUS
<1>3. x \in Nat
  BY <1>2
<1>4. k \in Nat /\ k = x + r
  BY <1>1, <1>2, <1>3
<1>5. PICK q, t : q = k \div BSIZE /\ t = k % BSIZE
  OBVIOUS
<1>6. q \in Nat /\ t \in 0 .. BSIZE - 1 /\ k = q * BSIZE + t
  BY <1>4, <1>5, DivMod
<1>7. PICK y : y = q * BSIZE
  OBVIOUS
<1>8. ~(q < p)
  <2> SUFFICES ASSUME q < p PROVE FALSE
    OBVIOUS
  <2>1. y + BSIZE <= x /\ y \in Nat
    BY <1>2, <1>6, <1>7, TimesMono
  <2> QED
    BY <1>3, <1>4, <1>6, <1>7, <2>1
<1>9. ~(p < q)
  <2> SUFFICES ASSUME p < q PROVE FALSE
    OBVIOUS
  <2>1. x + BSIZE <= y /\ y \in Nat
    BY <1>2, <1>6, <1>7, TimesMono
  <2> QED
    BY <1>3, <1>4, <1>6, <1>7, <2>1
<1>10. q = p
  BY <1>6, <1>8, <1>9
<1>11. y = x /\ t = r
  <2>1. y = x
    BY <1>2, <1>7, <1>10
  <2> QED
    BY <1>3, <1>4, <1>6, <1>7, <2>1
<1> QED
  BY <1>1, <1>4, <1>5, <1>10, <1>11

\* The metadata is not empty.
LEMMA Meta ==
  ASSUME LayoutOK
  PROVE  /\ nmeta \in Nat /\ nmeta > 0 /\ geo.FSSIZE \in Nat
         /\ geo.NINODES \in 2 .. MaxINodes
<1>1. geo.LOGSIZE \in Nat /\ geo.FSSIZE \in Nat /\ geo.NINODES \in 2 .. MaxINodes
  BY MkfsAssumption DEF LayoutOK
<1>2. geo.NINODES \div IPB \in Nat /\ geo.FSSIZE \div BPB \in Nat
  BY <1>1, DivNat
<1>3. PICK x, y : x = geo.NINODES \div IPB /\ y = geo.FSSIZE \div BPB
  OBVIOUS
<1>4. nmeta = 1 + 1 + geo.LOGSIZE + (x + 1) + (y + 1)
  BY <1>3 DEF nmeta, ninodeblocks, nbitmap
<1> QED
  BY <1>1, <1>2, <1>3, <1>4

----------------------------------------------------------------------------
(* The block iappend finds or allocates.                                   *)

\* The address is there.
Kept(d, m, u, f, s) ==
  /\ Place(d.addrs, m, f) = s.x /\ s.x # 0
  /\ s.din = d /\ s.ind = m /\ s.used = u

\* The address is new.
OneNew(d, m, u, f, s) ==
  /\ Place(d.addrs, m, f) = 0
  /\ s.x = u /\ s.used = u + 1
  /\ \A p \in Positions0 :
       Place(s.din.addrs, s.ind, p) = IF p = f THEN u ELSE Place(d.addrs, m, p)

\* The indirect block is new too.
TwoNew(d, m, u, f, s) ==
  /\ Place(d.addrs, m, f) = 0 /\ Place(d.addrs, m, MAXFILE) = 0
  /\ s.x = u + 1 /\ s.used = u + 2
  /\ \A p \in Positions0 :
       Place(s.din.addrs, s.ind, p) =
         IF p = f THEN u + 1 ELSE IF p = MAXFILE THEN u ELSE Place(d.addrs, m, p)

\* What else is the same.
Alike(d, m, u, s) ==
  /\ s.din \in INodes /\ s.ind \in [Blocks -> Indirects] /\ s.used \in Nat
  /\ s.din.type = d.type /\ s.din.nlink = d.nlink /\ s.din.size = d.size
  /\ \A b \in Blocks : b # s.din.addrs[NDIRECT] => s.ind[b] = m[b]

\* A direct address, or the one of the indirect block: [din, ind, used, x].
LEMMA DirectBlockIs ==
  ASSUME NEW d \in INodes, NEW m, NEW u \in Nat, NEW k \in 0 .. NDIRECT, NEW s,
         s = DirectBlock([din |-> d, ind |-> m, used |-> u, x |-> 0], k)
  PROVE  \/ d.addrs[k] # 0 /\ s = [din |-> d, ind |-> m, used |-> u, x |-> d.addrs[k]]
         \/ /\ d.addrs[k] = 0
            /\ s = [din |-> [d EXCEPT !.addrs = [d.addrs EXCEPT ![k] = u]],
                    ind |-> m, used |-> u + 1, x |-> u]
<1>1. PICK t : t = [din |-> d, ind |-> m, used |-> u, x |-> 0]
  OBVIOUS
<1>2. t.din = d /\ t.ind = m /\ t.used = u
  BY <1>1
<1>3. CASE d.addrs[k] # 0
  <2>1. s = [t EXCEPT !.x = d.addrs[k]]
    BY <1>1, <1>2, <1>3 DEF DirectBlock
  <2> QED
    BY <1>1, <1>3, <2>1
<1>4. CASE d.addrs[k] = 0
  <2>1. s = [t EXCEPT !.din.addrs[k] = u, !.x = u, !.used = @ + 1]
    BY <1>1, <1>2, <1>4 DEF DirectBlock
  <2>2. s = [t EXCEPT !.din = [d EXCEPT !.addrs = [d.addrs EXCEPT ![k] = u]],
                      !.x = u, !.used = u + 1]
    BY <1>1, <1>2, <2>1 DEF INodes
  <2> QED
    BY <1>1, <1>4, <2>2
<1> QED
  BY <1>3, <1>4

\* An inode with another address.
LEMMA AddrSet ==
  ASSUME NEW d \in INodes, NEW u \in Nat, NEW k \in 0 .. NDIRECT, NEW e,
         e = [d EXCEPT !.addrs = [d.addrs EXCEPT ![k] = u]]
  PROVE  /\ e \in INodes /\ e.type = d.type /\ e.nlink = d.nlink /\ e.size = d.size
         /\ \A j \in 0 .. NDIRECT : e.addrs[j] = IF j = k THEN u ELSE d.addrs[j]
<1>1. PICK a : a = [d.addrs EXCEPT ![k] = u]
  OBVIOUS
<1>2. d.addrs \in Addrs
  BY DEF INodes
<1>3. a \in Addrs /\ \A j \in 0 .. NDIRECT : a[j] = IF j = k THEN u ELSE d.addrs[j]
  BY <1>1, <1>2 DEF Addrs
<1>4. e = [d EXCEPT !.addrs = a]
  BY <1>1
<1>5. e \in INodes /\ e.type = d.type /\ e.nlink = d.nlink /\ e.size = d.size /\ e.addrs = a
  BY <1>3, <1>4 DEF INodes
<1> QED
  BY <1>3, <1>5

\* Indirect blocks with another entry.
WithEntry(m, b, j, u, n) ==
  /\ n \in [Blocks -> Indirects]
  /\ \A c \in Blocks : c # b => n[c] = m[c]
  /\ \A k \in 0 .. NINDIRECT - 1 : n[b][k] = IF k = j THEN u ELSE m[b][k]

LEMMA EntrySet ==
  ASSUME NEW m \in [Blocks -> Indirects], NEW b \in Blocks, NEW j \in 0 .. NINDIRECT - 1,
         NEW u \in Nat, NEW n, n = [m EXCEPT ![b][j] = u]
  PROVE  WithEntry(m, b, j, u, n)
<1>1. PICK g : g = [m[b] EXCEPT ![j] = u]
  OBVIOUS
<1>2. m[b] \in Indirects
  OBVIOUS
<1>3. g \in Indirects /\ \A k \in 0 .. NINDIRECT - 1 : g[k] = IF k = j THEN u ELSE m[b][k]
  BY <1>1, <1>2 DEF Indirects
<1>4. n = [m EXCEPT ![b] = g]
  BY <1>1
<1>5. n \in [Blocks -> Indirects] /\ n[b] = g /\ \A c \in Blocks : c # b => n[c] = m[c]
  BY <1>3, <1>4
<1> QED
  BY <1>3, <1>5 DEF WithEntry

\* Positions in the direct addresses, in the indirect block, and of that block.
LEMMA PlaceIs ==
  ASSUME NEW a, NEW m
  PROVE  /\ \A p \in 0 .. NDIRECT - 1 : Place(a, m, p) = a[p]
         /\ Place(a, m, MAXFILE) = a[NDIRECT]
         /\ \A p \in NDIRECT .. MAXFILE - 1 :
              Place(a, m, p) = IF a[NDIRECT] = 0 THEN 0 ELSE m[a[NDIRECT]][p - NDIRECT]
BY DEF Place

\* The block of a position below NDIRECT.
LEMMA DirectIs ==
  ASSUME NEW d \in INodes, NEW m \in [Blocks -> Indirects], NEW u \in Nat \ {0},
         NEW f \in 0 .. NDIRECT - 1, NEW s,
         s = DirectBlock([din |-> d, ind |-> m, used |-> u, x |-> 0], f)
  PROVE  Alike(d, m, u, s) /\ (Kept(d, m, u, f, s) \/ OneNew(d, m, u, f, s))
<1>1. Place(d.addrs, m, f) = d.addrs[f]
  BY PlaceIs
<1>2. CASE d.addrs[f] # 0
  <2>1. s = [din |-> d, ind |-> m, used |-> u, x |-> d.addrs[f]]
    BY <1>2, DirectBlockIs
  <2>2. s.din = d /\ s.ind = m /\ s.used = u /\ s.x = d.addrs[f]
    BY <2>1
  <2> QED
    BY <1>1, <1>2, <2>2 DEF Alike, Kept
<1>3. CASE d.addrs[f] = 0
  <2>1. PICK e : e = [d EXCEPT !.addrs = [d.addrs EXCEPT ![f] = u]]
    OBVIOUS
  <2>2. s = [din |-> e, ind |-> m, used |-> u + 1, x |-> u]
    BY <1>3, <2>1, DirectBlockIs
  <2>3. s.din = e /\ s.ind = m /\ s.used = u + 1 /\ s.x = u
    BY <2>2
  <2>4. /\ e \in INodes /\ e.type = d.type /\ e.nlink = d.nlink /\ e.size = d.size
        /\ \A j \in 0 .. NDIRECT : e.addrs[j] = IF j = f THEN u ELSE d.addrs[j]
    BY <2>1, AddrSet
  <2>5. ASSUME NEW p \in Positions0
        PROVE  Place(e.addrs, m, p) = IF p = f THEN u ELSE Place(d.addrs, m, p)
    <3>1. e.addrs[NDIRECT] = d.addrs[NDIRECT]
      BY <2>4
    <3>2. CASE p < NDIRECT
      <4>1. p \in 0 .. NDIRECT - 1 /\ p \in 0 .. NDIRECT
        BY <3>2 DEF Positions0
      <4>2. Place(e.addrs, m, p) = e.addrs[p] /\ Place(d.addrs, m, p) = d.addrs[p]
        BY <4>1, PlaceIs
      <4> QED
        BY <2>4, <4>1, <4>2
    <3>3. CASE ~(p < NDIRECT)
      <4>1. p # f
        BY <3>3
      <4> QED
        BY <3>1, <3>3, <4>1 DEF Place
    <3> QED
      BY <3>2, <3>3
  <2> QED
    BY <1>1, <1>3, <2>3, <2>4, <2>5 DEF Alike, OneNew
<1> QED
  BY <1>2, <1>3

\* IndirectBlock, once it has the indirect block t.x.
LEMMA IndirectEntryIs ==
  ASSUME NEW e \in INodes, NEW m \in [Blocks -> Indirects], NEW v \in Nat \ {0},
         NEW j \in 0 .. NINDIRECT - 1, NEW s0, NEW s, NEW b \in Blocks,
         DirectBlock(s0, NDIRECT) = [din |-> e, ind |-> m, used |-> v, x |-> b],
         s = IndirectBlock(s0, j)
  PROVE  \/ m[b][j] # 0 /\ s = [din |-> e, ind |-> m, used |-> v, x |-> m[b][j]]
         \/ /\ m[b][j] = 0
            /\ s = [din |-> e, ind |-> [m EXCEPT ![b][j] = v], used |-> v + 1, x |-> v]
<1>1. PICK t : t = [din |-> e, ind |-> m, used |-> v, x |-> b]
  OBVIOUS
<1>2. t.din = e /\ t.ind = m /\ t.used = v /\ t.x = b /\ DirectBlock(s0, NDIRECT) = t
  BY <1>1
<1>3. CASE m[b][j] # 0
  <2>1. s = [t EXCEPT !.x = m[b][j]]
    BY <1>2, <1>3 DEF IndirectBlock
  <2> QED
    BY <1>1, <1>3, <2>1
<1>4. CASE m[b][j] = 0
  <2>1. s = [t EXCEPT !.ind[b][j] = v, !.x = v, !.used = @ + 1]
    BY <1>2, <1>4 DEF IndirectBlock
  <2>2. s = [t EXCEPT !.ind = [m EXCEPT ![b][j] = v], !.x = v, !.used = v + 1]
    BY <1>1, <1>2, <2>1
  <2> QED
    BY <1>1, <1>4, <2>2
<1> QED
  BY <1>3, <1>4

\* The block of a position in the indirect block.
LEMMA IndirectIs ==
  ASSUME NEW d \in INodes, NEW m \in [Blocks -> Indirects], NEW u \in Nat \ {0},
         NEW f \in NDIRECT .. MAXFILE - 1, NEW s, 0 \in Blocks,
         d.addrs[NDIRECT] # 0 => d.addrs[NDIRECT] \in Blocks,
         \A b \in Blocks : b >= u => m[b] = NoEntries,
         s = IndirectBlock([din |-> d, ind |-> m, used |-> u, x |-> 0], f - NDIRECT),
         s.x \in Blocks
  PROVE  /\ Alike(d, m, u, s)
         /\ Kept(d, m, u, f, s) \/ OneNew(d, m, u, f, s) \/ TwoNew(d, m, u, f, s)
<1>1. PICK j : j = f - NDIRECT
  OBVIOUS
<1>2. j \in 0 .. NINDIRECT - 1 /\ f \in Positions0 /\ f # MAXFILE
  BY <1>1 DEF Positions0
<1>3. PICK s0 : s0 = [din |-> d, ind |-> m, used |-> u, x |-> 0]
  OBVIOUS
<1>4. s = IndirectBlock(s0, j)
  BY <1>1, <1>3
<1>5. Place(d.addrs, m, f) = IF d.addrs[NDIRECT] = 0 THEN 0 ELSE m[d.addrs[NDIRECT]][j]
  BY <1>1, PlaceIs
<1>6. CASE d.addrs[NDIRECT] # 0
  <2>1. PICK b : b = d.addrs[NDIRECT]
    OBVIOUS
  <2>2. b \in Blocks /\ b # 0
    BY <1>6, <2>1
  <2>3. DirectBlock(s0, NDIRECT) = [din |-> d, ind |-> m, used |-> u, x |-> b]
    BY <1>3, <1>6, <2>1, DirectBlockIs
  <2>4. CASE m[b][j] # 0
    <3>1. s = [din |-> d, ind |-> m, used |-> u, x |-> m[b][j]]
      BY <1>2, <1>4, <2>2, <2>3, <2>4, IndirectEntryIs
    <3>2. s.din = d /\ s.ind = m /\ s.used = u /\ s.x = m[b][j]
      BY <3>1
    <3> QED
      BY <1>5, <2>1, <2>2, <2>4, <3>2 DEF Alike, Kept
  <2>5. CASE m[b][j] = 0
    <3>1. PICK n : n = [m EXCEPT ![b][j] = u]
      OBVIOUS
    <3>2. s = [din |-> d, ind |-> n, used |-> u + 1, x |-> u]
      BY <1>2, <1>4, <2>2, <2>3, <2>5, <3>1, IndirectEntryIs
    <3>3. s.din = d /\ s.ind = n /\ s.used = u + 1 /\ s.x = u
      BY <3>2
    <3>4. WithEntry(m, b, j, u, n)
      BY <1>2, <2>2, <3>1, EntrySet
    <3>5. ASSUME NEW p \in Positions0
          PROVE  Place(d.addrs, n, p) = IF p = f THEN u ELSE Place(d.addrs, m, p)
      <4>1. CASE p < NDIRECT \/ p = MAXFILE
        BY <1>2, <4>1 DEF Place
      <4>2. CASE p >= NDIRECT /\ p # MAXFILE
        <5>1. p \in NDIRECT .. MAXFILE - 1 /\ p - NDIRECT \in 0 .. NINDIRECT - 1
          BY <4>2 DEF Positions0
        <5>2. p - NDIRECT = j <=> p = f
          BY <1>1, <5>1
        <5>3. Place(d.addrs, n, p) = n[b][p - NDIRECT] /\ Place(d.addrs, m, p) = m[b][p - NDIRECT]
          BY <2>1, <2>2, <5>1, PlaceIs
        <5> QED
          BY <3>4, <5>1, <5>2, <5>3 DEF WithEntry
      <4> QED
        BY <4>1, <4>2 DEF Positions0
    <3>6. Place(d.addrs, m, f) = 0
      BY <1>5, <2>1, <2>5
    <3>7. Alike(d, m, u, s)
      BY <2>1, <3>3, <3>4 DEF Alike, WithEntry
    <3>8. OneNew(d, m, u, f, s)
      BY <3>3, <3>5, <3>6 DEF OneNew
    <3> QED
      BY <3>7, <3>8
  <2> QED
    BY <2>4, <2>5
<1>7. CASE d.addrs[NDIRECT] = 0
  <2>1. PICK e : e = [d EXCEPT !.addrs = [d.addrs EXCEPT ![NDIRECT] = u]]
    OBVIOUS
  <2>2. DirectBlock(s0, NDIRECT) = [din |-> e, ind |-> m, used |-> u + 1, x |-> u]
    BY <1>3, <1>7, <2>1, DirectBlockIs
  <2>3. u \in Blocks
    <3> SUFFICES ASSUME u \notin Blocks PROVE FALSE
      OBVIOUS
    <3>1. s = DirectBlock(s0, NDIRECT)
      <4>1. PICK t : t = DirectBlock(s0, NDIRECT)
        OBVIOUS
      <4>2. t.x \notin Blocks
        BY <2>2, <4>1
      <4> QED
        BY <1>4, <4>1, <4>2 DEF IndirectBlock
    <3> QED
      BY <2>2, <3>1
  <2>4. m[u] = NoEntries
    BY <2>3
  <2>5. m[u][j] = 0
    BY <1>2, <2>4 DEF NoEntries
  <2>6. /\ e \in INodes /\ e.type = d.type /\ e.nlink = d.nlink /\ e.size = d.size
        /\ \A k \in 0 .. NDIRECT : e.addrs[k] = IF k = NDIRECT THEN u ELSE d.addrs[k]
    BY <2>1, AddrSet
  <2>7. PICK v : v = u + 1
    OBVIOUS
  <2>8. PICK n : n = [m EXCEPT ![u][j] = v]
    OBVIOUS
  <2>9. s = [din |-> e, ind |-> n, used |-> v + 1, x |-> v]
    <3>1. v \in Nat \ {0}
      BY <2>7
    <3> QED
      BY <1>2, <1>4, <2>2, <2>3, <2>5, <2>6, <2>7, <2>8, <3>1, IndirectEntryIs
  <2>10. s.din = e /\ s.ind = n /\ s.used = u + 2 /\ s.x = u + 1
    BY <2>7, <2>9
  <2>11. WithEntry(m, u, j, v, n)
    <3>1. v \in Nat
      BY <2>7
    <3> QED
      BY <1>2, <2>3, <2>8, <3>1, EntrySet
  <2>12. ASSUME NEW p \in Positions0
         PROVE  Place(e.addrs, n, p) =
                  IF p = f THEN u + 1 ELSE IF p = MAXFILE THEN u ELSE Place(d.addrs, m, p)
    <3>1. CASE p < NDIRECT
      <4>1. p \in 0 .. NDIRECT - 1 /\ p \in 0 .. NDIRECT /\ p # f /\ p # MAXFILE
        BY <3>1 DEF Positions0
      <4>2. Place(e.addrs, n, p) = e.addrs[p]
        BY <3>1 DEF Place
      <4>3. Place(d.addrs, m, p) = d.addrs[p]
        BY <3>1 DEF Place
      <4> QED
        BY <2>6, <4>1, <4>2, <4>3
    <3>2. CASE p = MAXFILE
      BY <1>2, <2>6, <3>2, PlaceIs
    <3>3. CASE p >= NDIRECT /\ p # MAXFILE
      <4>1. p \in NDIRECT .. MAXFILE - 1 /\ p - NDIRECT \in 0 .. NINDIRECT - 1
        BY <3>3 DEF Positions0
      <4>2. p - NDIRECT = j <=> p = f
        BY <1>1, <4>1
      <4>3. Place(e.addrs, n, p) = n[u][p - NDIRECT] /\ Place(d.addrs, m, p) = 0
        BY <1>7, <2>6, <4>1, PlaceIs
      <4>4. m[u][p - NDIRECT] = 0
        BY <2>4, <4>1 DEF NoEntries
      <4> QED
        BY <2>7, <2>11, <3>3, <4>1, <4>2, <4>3, <4>4 DEF WithEntry
    <3> QED
      BY <3>1, <3>2, <3>3 DEF Positions0
  <2>13. Place(d.addrs, m, f) = 0 /\ Place(d.addrs, m, MAXFILE) = 0
    BY <1>5, <1>7, PlaceIs
  <2>14. Alike(d, m, u, s)
    <3>1. e.addrs[NDIRECT] = u
      BY <2>6
    <3> QED
      BY <2>6, <2>10, <2>11, <3>1 DEF Alike, WithEntry
  <2>15. TwoNew(d, m, u, f, s)
    BY <2>10, <2>12, <2>13 DEF TwoNew
  <2> QED
    BY <2>14, <2>15
<1> QED
  BY <1>6, <1>7

\* A round of iappend finds the block of its position, or takes the next one or
\* two of the image for it.
LEMMA BlockForIs ==
  ASSUME NEW d \in INodes, NEW m \in [Blocks -> Indirects], NEW u \in Nat \ {0},
         NEW f \in 0 .. MAXFILE - 1, NEW s, 0 \in Blocks,
         d.addrs[NDIRECT] # 0 => d.addrs[NDIRECT] \in Blocks,
         \A b \in Blocks : b >= u => m[b] = NoEntries,
         s = BlockFor([din |-> d, ind |-> m, used |-> u, x |-> 0], f),
         s.x \in Blocks
  PROVE  /\ Alike(d, m, u, s)
         /\ Kept(d, m, u, f, s) \/ OneNew(d, m, u, f, s) \/ TwoNew(d, m, u, f, s)
<1>1. CASE f < NDIRECT
  <2>1. f \in 0 .. NDIRECT - 1
    BY <1>1
  <2>2. s = DirectBlock([din |-> d, ind |-> m, used |-> u, x |-> 0], f)
    BY <1>1 DEF BlockFor
  <2> QED
    BY <2>1, <2>2, DirectIs
<1>2. CASE ~(f < NDIRECT)
  <2>1. f \in NDIRECT .. MAXFILE - 1
    BY <1>2
  <2>2. s = IndirectBlock([din |-> d, ind |-> m, used |-> u, x |-> 0], f - NDIRECT)
    BY <1>2 DEF BlockFor
  <2> QED
    BY <2>1, <2>2, IndirectIs
<1> QED
  BY <1>1, <1>2

----------------------------------------------------------------------------
(* What the invariant says of files.                                       *)

LEMMA Basics ==
  ASSUME LayoutOK, Good
  PROVE  /\ ROOTINO \in INums /\ freeinode \in Nat \ {0} /\ freeinode <= MaxINodes
         /\ geo.FSSIZE \in Nat /\ nmeta \in Nat \ {0} /\ used_block \in Nat
         /\ \A i \in INums : Cur(i) \in INodes /\ Length(i) \in Nat
<1>1. geo.NINODES \in 2 .. MaxINodes /\ geo.FSSIZE \in Nat /\ nmeta \in Nat \ {0}
  BY Meta
<1>2. freeinode \in 1 .. geo.NINODES /\ used_block \in Nat
  BY DEF Good, StateOK, INodesOK
<1>3. ASSUME NEW i \in INums PROVE Cur(i) \in INodes /\ Length(i) \in Nat
  <2>1. ino[i] \in INodes
    BY DEF Good, StateOK
  <2>2. pc = "iappend" => call.din \in INodes /\ call.off \in Nat
    BY DEF Good, StateOK, Calls
  <2>3. ino[i].size \in Nat
    BY <2>1 DEF INodes
  <2>4. Cur(i) \in INodes
    BY <2>1, <2>2 DEF Cur
  <2>5. Length(i) \in Nat
    BY <1>1, <1>2, <2>2, <2>3 DEF Length
  <2> QED
    BY <2>4, <2>5
<1> QED
  BY <1>1, <1>2, <1>3 DEF INums

\* Blocks of files are in the image.
LEMMA InImage ==
  ASSUME LayoutOK, Good, NEW b \in InUse
  PROVE  b \in Blocks /\ b < used_block /\ b # 0
<1>1. /\ geo.FSSIZE \in Nat /\ nmeta \in Nat \ {0} /\ used_block \in Nat
      /\ used_block <= nmeta \/ used_block <= geo.FSSIZE
      /\ b \in Nat /\ nmeta <= b /\ b < used_block
  BY Basics DEF Good, BlocksOK, Started, InUse
<1> QED
  BY <1>1 DEF Blocks

\* What is below the length of a file is in one of its blocks.
LEMMA InFile ==
  ASSUME LayoutOK, Good, NEW i \in INums, NEW k \in Nat, k < Length(i)
  PROVE  /\ k \div BSIZE \in 0 .. MAXFILE - 1 /\ k % BSIZE \in 0 .. BSIZE - 1
         /\ k \div BSIZE \in Positions0
         /\ (k \div BSIZE) * BSIZE + (k % BSIZE) = k
         /\ At(i, k \div BSIZE) # 0 /\ At(i, k \div BSIZE) \in Blocks
<1>1. PICK q, r : q = k \div BSIZE /\ r = k % BSIZE
  OBVIOUS
<1>2. q \in Nat /\ r \in 0 .. BSIZE - 1 /\ k = q * BSIZE + r
  BY <1>1, DivMod
<1>3. PICK x, y : x = q * BSIZE /\ y = MAXFILE * BSIZE
  OBVIOUS
<1>4. x \in Nat /\ y \in Nat /\ k = x + r /\ MAXFILE \in Nat
  BY <1>2, <1>3
<1>5. Length(i) \in Nat /\ Length(i) <= y
  BY <1>3, Basics DEF Good, Mapped
<1>6. x < y
  BY <1>2, <1>4, <1>5
<1>7. q < MAXFILE
  <2> SUFFICES ASSUME ~(q < MAXFILE) PROVE FALSE
    OBVIOUS
  <2>1. q = MAXFILE \/ MAXFILE < q
    BY <1>2, <1>4
  <2>2. MAXFILE < q => y + BSIZE <= x
    BY <1>2, <1>3, <1>4, TimesMono
  <2>3. q = MAXFILE => x = y
    BY <1>3
  <2> QED
    BY <1>4, <1>6, <2>1, <2>2, <2>3
<1>8. q \in 0 .. MAXFILE - 1 /\ q \in Positions0
  BY <1>2, <1>4, <1>7 DEF Positions0
<1>9. q * BSIZE < Length(i)
  BY <1>2, <1>3, <1>4, <1>5
<1>10. At(i, q) # 0
  BY <1>8, <1>9 DEF Good, Mapped
<1>11. At(i, q) \in InUse
  BY <1>8, <1>10 DEF Good, BlocksOK, Ranged
<1> QED
  BY <1>1, <1>2, <1>8, <1>10, <1>11, InImage

\* ... with what belongs there.
LEMMA HasContent ==
  ASSUME LayoutOK, Good, NEW i \in INums, NEW k \in Nat, k < Length(i)
  PROVE  Belongs(i, k, data[At(i, k \div BSIZE)][k % BSIZE])
<1>1. PICK q, r : q = k \div BSIZE /\ r = k % BSIZE
  OBVIOUS
<1>2. q \in 0 .. MAXFILE - 1 /\ r \in 0 .. BSIZE - 1 /\ q * BSIZE + r = k /\ At(i, q) # 0
  BY <1>1, InFile
<1>3. Holds(i, q * BSIZE + r, data[At(i, q)][r])
  BY <1>2 DEF Good, Filled
<1>4. Holds(i, k, data[At(i, q)][r])
  BY <1>2, <1>3
<1>5. Belongs(i, k, data[At(i, q)][r])
  BY <1>4 DEF Holds
<1> QED
  BY <1>1, <1>5

\* A step that leaves blocks and lengths as they are.
Steady ==
  /\ \A i \in INums, p \in Positions0 : At(i, p)' = At(i, p)
  /\ \A i \in INums : Length(i)' = Length(i)
  /\ geo' = geo /\ ind' = ind /\ data' = data /\ used_block' = used_block

LEMMA SteadyKeeps ==
  ASSUME LayoutOK, Good, Steady, pc # "layout", pc' # "layout"
  PROVE  BlocksOK' /\ Mapped' /\ Filled' /\ \A k \in 0 .. Length(ROOTINO) - 1 : Slot(k)' = Slot(k)
<1>1. INums' = INums /\ Positions0' = Positions0 /\ Blocks' = Blocks /\ nmeta' = nmeta
  BY DEF Steady, INums, Positions0, Blocks, nmeta, ninodeblocks, nbitmap
<1>2. InUse' = InUse
  BY <1>1 DEF InUse, Steady
<1>3. 0 .. MAXFILE - 1 \subseteq Positions0
  BY DEF Positions0
<1>4. Started'
  BY <1>1 DEF Good, BlocksOK, Started, Steady
<1>5. Ranged'
  BY <1>1, <1>2 DEF Good, BlocksOK, Ranged, Steady
<1>6. OneOwner'
  BY <1>1 DEF Good, BlocksOK, OneOwner, Steady
<1>7. Owned'
  <2> SUFFICES ASSUME NEW b \in InUse
               PROVE  \E i \in INums, p \in Positions0 : At(i, p)' = b
    BY <1>1, <1>2 DEF Owned
  <2>1. PICK i \in INums, p \in Positions0 : At(i, p) = b
    BY DEF Good, BlocksOK, Owned
  <2> QED
    BY <2>1 DEF Steady
<1>8. Cleared'
  BY <1>1 DEF Good, BlocksOK, Cleared, Steady, NoEntries, Zeroes
<1>8a. Placed'
  <2> SUFFICES ASSUME NEW b \in Blocks, data'[b] # Zeroes
               PROVE  b # 0 /\ \E i \in INums, p \in 0 .. MAXFILE - 1 : At(i, p)' = b
    BY <1>1 DEF Placed, Zeroes, FreeSlot, Entry
  <2>1. PICK i \in INums, p \in 0 .. MAXFILE - 1 : b # 0 /\ At(i, p) = b
    BY DEF Good, BlocksOK, Placed, Steady
  <2> QED
    BY <1>3, <2>1 DEF Steady
<1>9. Mapped'
  <2> SUFFICES ASSUME NEW i \in INums
               PROVE  /\ Length(i)' <= MAXFILE * BSIZE
                      /\ \A p \in 0 .. MAXFILE - 1 : At(i, p)' # 0 <=> p * BSIZE < Length(i)'
    BY <1>1 DEF Mapped
  <2>1. Length(i)' = Length(i) /\ \A p \in 0 .. MAXFILE - 1 : At(i, p)' = At(i, p)
    BY <1>3 DEF Steady
  <2> QED
    BY <2>1 DEF Good, Mapped
<1>10. Filled'
  <2> SUFFICES ASSUME NEW i \in INums, NEW p \in 0 .. MAXFILE - 1, NEW r \in 0 .. BSIZE - 1,
                      At(i, p)' # 0
               PROVE  Holds(i, p * BSIZE + r, data[At(i, p)][r])'
    BY <1>1 DEF Filled
  <2>1. At(i, p)' = At(i, p) /\ Length(i)' = Length(i) /\ data' = data
    BY <1>3 DEF Steady
  <2>2. Holds(i, p * BSIZE + r, data[At(i, p)][r])
    BY <2>1 DEF Good, Filled
  <2>3. Belongs(i, p * BSIZE + r, data[At(i, p)][r])' <=> Belongs(i, p * BSIZE + r, data[At(i, p)][r])
    BY <2>1 DEF Belongs, Entry, Unit
  <2> QED
    BY <2>1, <2>2, <2>3 DEF Holds, FreeSlot, Entry
<1>11. ASSUME NEW k \in 0 .. Length(ROOTINO) - 1 PROVE Slot(k)' = Slot(k)
  <2>1. ROOTINO \in INums /\ Length(ROOTINO) \in Nat
    BY Basics
  <2>2. k \in Nat /\ k < Length(ROOTINO)
    BY <2>1
  <2>3. k \div BSIZE \in Positions0
    BY <2>1, <2>2, InFile
  <2> QED
    BY <2>1, <2>3 DEF Slot, Steady
<1> QED
  BY <1>4, <1>5, <1>6, <1>7, <1>8, <1>9, <1>10, <1>11, <1>8a DEF BlocksOK

----------------------------------------------------------------------------
(* The steps of main.                                                      *)

\* Where the names stay and nothing is to be appended to the root.
LEMMA NamesKept ==
  ASSUME LayoutOK, Good, Steady, pc # "layout", pc' # "layout", Pending(ROOTINO)' = 0
  PROVE  NamesOK'
<1>1. Length(ROOTINO)' = Length(ROOTINO) /\ Length(ROOTINO) \in Nat
  BY Basics DEF Steady
<1>2. \A k \in 0 .. Length(ROOTINO) - 1 : Slot(k)' = Slot(k)
  BY SteadyKeeps
<1>3. \A k \in 2 .. Length(ROOTINO) - 1 : Slot(k)' = Slot(k)
  BY <1>1, <1>2
<1> QED
  BY <1>1, <1>3 DEF Good, NamesOK

LEMMA NoBlocks ==
  ASSUME NEW a, NEW m, a = FreeINode.addrs, NEW p \in Positions0
  PROVE  Place(a, m, p) = 0
<1>1. \A k \in 0 .. NDIRECT : a[k] = 0
  BY DEF FreeINode
<1>2. CASE p < NDIRECT
  <2>1. p \in 0 .. NDIRECT
    BY <1>2 DEF Positions0
  <2> QED
    BY <1>1, <1>2, <2>1 DEF Place
<1>3. CASE ~(p < NDIRECT)
  BY <1>1, <1>3 DEF Place
<1> QED
  BY <1>2, <1>3

LEMMA LayoutKeeps ==
  ASSUME LayoutOK, Good, Layout
  PROVE  Good'
<1>1. /\ pc = "layout" /\ pc' = "root" /\ used_block' = nmeta /\ geo' = geo /\ ino' = ino
      /\ ind' = ind /\ data' = data /\ freeinode' = freeinode /\ host' = host
  BY DEF Layout
<1>2. freeinode = 1 /\ used_block = 0
  BY <1>1 DEF Good, INodesOK, BlocksOK, Started
<1>3. \A i \in INums : ino[i] = FreeINode
  BY <1>2 DEF Good, INodesOK, INums
<1>4. nmeta' = nmeta /\ Blocks' = Blocks /\ nmeta \in Nat /\ geo.FSSIZE \in Nat
  BY <1>1, Meta DEF nmeta, ninodeblocks, nbitmap, Blocks
<1>5. ASSUME NEW i \in INums
      PROVE  /\ Cur(i)' = FreeINode /\ Length(i)' = 0 /\ Pending(i)' = 0
             /\ \A p \in Positions0 : At(i, p)' = 0
  <2>1. Cur(i)' = FreeINode /\ Length(i)' = FreeINode.size /\ Pending(i)' = 0
    BY <1>1, <1>3 DEF Cur, Length, Pending
  <2>2. FreeINode.size = 0
    BY DEF FreeINode
  <2>3. \A p \in Positions0 : At(i, p)' = 0
    BY <2>1, NoBlocks DEF At
  <2> QED
    BY <2>1, <2>2, <2>3
<1>6. StateOK'
  BY <1>1, <1>4 DEF Good, StateOK, Indirects, INodes, Addrs, Contents, INums
<1>7. INodesOK'
  BY <1>1, <1>2, <1>3 DEF Good, INodesOK, Stage, INums, FreeINode
<1>8. InUse' = {}
  BY <1>1, <1>4 DEF InUse
<1>9. BlocksOK'
  <2>1. Started'
    BY <1>1, <1>4 DEF Started
  <2>2. Ranged' /\ OneOwner'
    BY <1>5 DEF Ranged, OneOwner, INums, Positions0
  <2>3. Owned'
    BY <1>8 DEF Owned
  <2>4. Cleared'
    BY <1>1, <1>2, <1>4 DEF Good, BlocksOK, Cleared, Blocks, NoEntries, Zeroes
  <2>5. Placed'
    <3>1. \A b \in Blocks : data[b] = Zeroes
      BY <1>2, <1>4 DEF Good, BlocksOK, Cleared, Blocks
    <3> QED
      BY <1>1, <1>4, <3>1 DEF Placed, Zeroes, FreeSlot, Entry
  <2> QED
    BY <2>1, <2>2, <2>3, <2>4, <2>5 DEF BlocksOK
<1>10. Mapped'
  <2> SUFFICES ASSUME NEW i \in INums
               PROVE  /\ Length(i)' <= MAXFILE * BSIZE
                      /\ \A p \in 0 .. MAXFILE - 1 : At(i, p)' # 0 <=> p * BSIZE < Length(i)'
    BY DEF Mapped, INums
  <2>1. \A p \in 0 .. MAXFILE - 1 : p \in Positions0 /\ p * BSIZE \in Nat
    BY DEF Positions0
  <2>2. MAXFILE * BSIZE \in Nat
    OBVIOUS
  <2> QED
    BY <1>5, <2>1, <2>2
<1>11. Filled'
  <2>1. \A p \in 0 .. MAXFILE - 1 : p \in Positions0
    BY DEF Positions0
  <2> QED
    BY <1>5, <2>1 DEF Filled, INums
<1>12. ROOTINO \in INums
  BY Basics
<1>13. CallOK' /\ HostOK' /\ DoneOK'
  BY <1>1, <1>2 DEF Good, CallOK, HostOK, DoneOK, INums
<1>14. RootOK' /\ NamesOK'
  BY <1>1, <1>5, <1>12 DEF RootOK, NamesOK, Expected, Stage
<1> QED
  BY <1>6, <1>7, <1>9, <1>10, <1>11, <1>13, <1>14 DEF Good

\* ialloc.
LEMMA IallocIs ==
  ASSUME LayoutOK, Good, NEW type \in {"T_DIR", "T_FILE"}, freeinode \in INums, Ialloc(type),
         pc # "iappend"
  PROVE  /\ freeinode' = freeinode + 1
         /\ ino' \in [INums -> INodes]
         /\ ino'[freeinode] = NewINode(type)
         /\ \A j \in INums : j # freeinode => ino'[j] = ino[j]
         /\ \A j \in INums : ino'[j].addrs = ino[j].addrs /\ ino'[j].size = ino[j].size
<1>1. PICK x : x = NewINode(type)
  OBVIOUS
<1>2. FreeINode \in INodes
  BY DEF FreeINode, INodes, Addrs
<1>3. /\ x \in INodes /\ x.addrs = FreeINode.addrs /\ x.size = FreeINode.size
  BY <1>1, <1>2 DEF NewINode, INodes
<1>4. ino' = [ino EXCEPT ![freeinode] = x] /\ freeinode' = freeinode + 1
  BY <1>1 DEF Ialloc
<1>5. ino \in [INums -> INodes]
  BY DEF Good, StateOK
<1>6. ino[freeinode] = FreeINode
  BY Basics DEF Good, INodesOK
<1> QED
  BY <1>1, <1>3, <1>4, <1>5, <1>6

LEMMA NewINodeIs ==
  ASSUME NEW type \in {"T_DIR", "T_FILE"}
  PROVE  /\ NewINode(type).type = type /\ NewINode(type).nlink = 1
         /\ NewINode(type).size = 0
BY DEF NewINode, FreeINode

LEMMA IallocRootKeeps ==
  ASSUME LayoutOK, Good, IallocRoot
  PROVE  Good'
<1>1. /\ pc = "root" /\ pc' = "dot" /\ geo' = geo /\ Ialloc("T_DIR")
      /\ ind' = ind /\ data' = data /\ used_block' = used_block /\ host' = host
  BY DEF IallocRoot
<1>2. freeinode = 1 /\ freeinode \in INums /\ geo.NINODES \in 2 .. MaxINodes
  BY <1>1, Basics, Meta DEF Good, INodesOK
<1>3. /\ freeinode' = 2 /\ ino' \in [INums -> INodes]
      /\ ino'[1] = NewINode("T_DIR")
      /\ \A j \in INums : j # 1 => ino'[j] = ino[j]
      /\ \A j \in INums : ino'[j].addrs = ino[j].addrs /\ ino'[j].size = ino[j].size
  <2>1. /\ freeinode' = freeinode + 1 /\ ino' \in [INums -> INodes]
        /\ ino'[freeinode] = NewINode("T_DIR")
        /\ \A j \in INums : j # freeinode => ino'[j] = ino[j]
        /\ \A j \in INums : ino'[j].addrs = ino[j].addrs /\ ino'[j].size = ino[j].size
    BY <1>1, <1>2, IallocIs
  <2> QED
    BY <1>2, <2>1
<1>4. Steady
  <2>1. \A i \in INums : Cur(i) = ino[i] /\ Cur(i)' = ino'[i]
    BY <1>1 DEF Cur
  <2>2. \A i \in INums : Length(i)' = ino'[i].size /\ Length(i) = ino[i].size
    BY <1>1 DEF Length
  <2>3. \A i \in INums, p \in Positions0 : At(i, p)' = At(i, p)
    BY <1>1, <1>3, <2>1 DEF At
  <2> QED
    BY <1>1, <1>3, <2>2, <2>3 DEF Steady
<1>5. \A i \in INums : Pending(i)' = 0 /\ Pending(i) = 0
  BY <1>1 DEF Pending
<1>6. StateOK'
  <2>1. Blocks' = Blocks
    BY <1>1 DEF Blocks
  <2> QED
    BY <1>1, <1>3, <2>1 DEF Good, StateOK, Indirects, INodes, Addrs, Contents, INums
<1>7. INodesOK'
  <2>1. ASSUME NEW i \in INums
        PROVE  /\ i < 2 => Cur(i)'.nlink = 1 /\ Cur(i)'.type = IF i = 1 THEN "T_DIR" ELSE "T_FILE"
               /\ i >= 2 => ino'[i] = FreeINode
    <3>1. Cur(i)' = ino'[i]
      BY <1>1 DEF Cur
    <3>2. i < 2 => i = 1
      BY DEF INums
    <3>3. i >= 2 => ino[i] = FreeINode
      BY <1>2 DEF Good, INodesOK, INums
    <3> QED
      BY <1>3, <3>1, <3>2, <3>3, NewINodeIs
  <2>2. Stage' = "dot" /\ INums' = INums /\ FreeINode' = FreeINode
    BY <1>1 DEF Stage, INums, FreeINode
  <2> QED
    BY <1>1, <1>2, <1>3, <2>1, <2>2 DEF INodesOK
<1>8. BlocksOK' /\ Mapped' /\ Filled'
  BY <1>1, <1>4, SteadyKeeps
<1>9. NamesOK'
  BY <1>1, <1>2, <1>4, <1>5, NamesKept
<1>10. RootOK'
  <2>1. Length(ROOTINO) + Pending(ROOTINO) = 0
    BY <1>1 DEF Good, RootOK, Expected, Stage
  <2>2. Length(ROOTINO)' = Length(ROOTINO) /\ Expected' = 0
    BY <1>1, <1>2, <1>4 DEF Steady, Expected, Stage
  <2> QED
    BY <1>1, <1>2, <1>5, <2>1, <2>2 DEF RootOK
<1>11. CallOK' /\ HostOK' /\ DoneOK'
  BY <1>1, <1>2, <1>3 DEF Good, CallOK, HostOK, DoneOK, INums
<1> QED
  BY <1>6, <1>7, <1>8, <1>9, <1>10, <1>11 DEF Good

\* iappend begins: nothing has changed yet.
Begun(i, src, ret) ==
  /\ call' \in Calls /\ call'.inum = i /\ call'.src = src /\ call'.ret = ret
  /\ call'.din = ino[i] /\ call'.off = ino[i].size

LEMMA IappendIs ==
  ASSUME LayoutOK, Good, NEW i \in INums, NEW src \in Seq(Contents),
         NEW ret \in {"dotdot", "files", "copy"}, Iappend(i, src, ret),
         pc \notin {"iappend", "balloc", "done"}, ino' \in [INums -> INodes],
         \A j \in INums : ino'[j].addrs = ino[j].addrs /\ ino'[j].size = ino[j].size,
         geo' = geo, ind' = ind, data' = data, used_block' = used_block
  PROVE  /\ Begun(i, src, ret) /\ pc' = "iappend" /\ Stage' = ret
         /\ Steady
         /\ \A j \in INums : Pending(j)' = IF j = i THEN Len(src) ELSE 0
<1>1. ino[i] \in INodes
  BY DEF Good, StateOK
<1>2. /\ pc' = "iappend"
      /\ call' = [inum |-> i, din |-> ino[i], off |-> ino[i].size, src |-> src, ret |-> ret]
  BY DEF Iappend
<1>3. Begun(i, src, ret)
  BY <1>1, <1>2 DEF Begun, Calls, INodes
<1>4. Stage' = ret /\ \A j \in INums : Pending(j)' = IF j = i THEN Len(src) ELSE 0
  BY <1>2, <1>3 DEF Stage, Pending, Begun
<1>5. ASSUME NEW j \in INums
      PROVE  Length(j)' = Length(j) /\ \A p \in Positions0 : At(j, p)' = At(j, p)
  <2>1. Cur(j) = ino[j] /\ Length(j) = ino[j].size
    BY DEF Cur, Length
  <2>2. Cur(j)'.addrs = ino[j].addrs /\ Length(j)' = ino[j].size
    BY <1>2, <1>3 DEF Cur, Length, Begun
  <2> QED
    BY <2>1, <2>2 DEF At
<1> QED
  BY <1>2, <1>3, <1>4, <1>5 DEF Steady

\* A one-element sequence.
LEMMA Single ==
  ASSUME NEW S, NEW e \in S
  PROVE  <<e>> \in Seq(S) /\ Len(<<e>>) = 1 /\ <<e>>[1] = e
OBVIOUS

\* "." and "..", for the k-th of which the root has room at k.
LEMMA AppendDotKeeps ==
  ASSUME LayoutOK, Good, NEW from, NEW name, NEW ret, AppendDot(from, name, ret),
         \/ from = "dot" /\ name = "." /\ ret = "dotdot"
         \/ from = "dotdot" /\ name = ".." /\ ret = "files"
  PROVE  Good'
<1>1. PICK e : e = Entry(1, name)
  OBVIOUS
<1>2. /\ pc = from /\ Iappend(1, <<e>>, ret) /\ geo' = geo /\ ino' = ino /\ ind' = ind
      /\ data' = data /\ used_block' = used_block /\ freeinode' = freeinode /\ host' = host
  BY <1>1 DEF AppendDot, image
<1>3. e \in Contents
  BY <1>1 DEF Entry, Contents
<1>4. <<e>> \in Seq(Contents) /\ Len(<<e>>) = 1 /\ <<e>>[1] = e
  BY <1>3, Single
<1>5. 1 \in INums /\ ino \in [INums -> INodes]
  BY Basics DEF Good, StateOK
<1>6. /\ Begun(1, <<e>>, ret) /\ pc' = "iappend" /\ Stage' = ret /\ Steady
      /\ \A j \in INums : Pending(j)' = IF j = 1 THEN 1 ELSE 0
  BY <1>2, <1>4, <1>5, IappendIs
<1>7. freeinode = 2
  BY <1>2 DEF Good, INodesOK, Stage
<1>8. Length(1) \in Nat /\ Length(1) = (IF from = "dot" THEN 0 ELSE 1) /\ Length(1) = ino[1].size
  <2>1. Length(1) \in Nat
    BY <1>5, Basics
  <2>2. Length(1) + Pending(1) = (IF from = "dot" THEN 0 ELSE 1) /\ Pending(1) = 0
    BY <1>2 DEF Good, RootOK, Expected, Stage, Pending
  <2>3. Length(1) = ino[1].size
    BY <1>2 DEF Length
  <2> QED
    BY <2>1, <2>2, <2>3
<1>9. StateOK'
  <2>1. Blocks' = Blocks
    BY <1>2 DEF Blocks
  <2> QED
    BY <1>2, <1>6, <2>1 DEF Good, StateOK, Begun, Calls, Indirects, INodes, Addrs, Contents, INums
<1>10. INodesOK'
  <2>1. ASSUME NEW i \in INums PROVE Cur(i)' = Cur(i)
    BY <1>2, <1>6 DEF Cur, Begun
  <2> QED
    BY <1>2, <1>6, <1>7, <2>1 DEF Good, INodesOK, INums, FreeINode
<1>11. BlocksOK' /\ Mapped' /\ Filled'
  BY <1>2, <1>6, SteadyKeeps
<1>12. CallOK'
  <2>1. Belongs(1, Length(1), e)
    BY <1>1, <1>2, <1>8 DEF Belongs
  <2>2. call'.off + 1 - 1 = Length(1)
    BY <1>6, <1>8 DEF Begun
  <2>3. Belongs(call.inum, call.off + 1 - 1, call.src[1])'
    BY <1>4, <1>6, <2>1, <2>2 DEF Begun, Belongs, Entry, Unit
  <2>4. \A m \in 1 .. Len(call.src)' : m = 1
    BY <1>4, <1>6 DEF Begun
  <2> QED
    BY <1>2, <1>6, <1>7, <2>3, <2>4 DEF CallOK, Begun
<1>13. RootOK'
  <2>1. Expected' = Length(1) + 1
    BY <1>2, <1>6, <1>7, <1>8 DEF Expected
  <2> QED
    BY <1>5, <1>6, <2>1 DEF RootOK, Steady
<1>14. NamesOK'
  <2>1. Length(1)' = Length(1) /\ 2 .. Length(1) - 1 = {}
    BY <1>5, <1>6, <1>8 DEF Steady
  <2> QED
    BY <1>5, <1>6, <2>1 DEF NamesOK
<1>15. HostOK' /\ DoneOK'
  BY <1>2, <1>6, <1>7 DEF Good, HostOK, DoneOK, INums
<1> QED
  BY <1>9, <1>10, <1>11, <1>12, <1>13, <1>14, <1>15 DEF Good

\* A slot of the root is the entry of the inode with its number.
LEMMA SlotIs ==
  ASSUME LayoutOK, Good, NEW k \in 2 .. Length(ROOTINO) - 1
  PROVE  \E n \in FileNames : Slot(k) = Entry(k, n) /\ Slot(k).name = n
<1>1. 1 \in INums /\ Length(1) \in Nat
  BY Basics
<1>2. k \in Nat /\ k < Length(1) /\ k # 0 /\ k # 1
  BY <1>1
<1>3. Belongs(1, k, Slot(k))
  BY <1>1, <1>2, HasContent DEF Slot
<1>4. PICK n \in FileNames : Slot(k) = Entry(k, n)
  BY <1>2, <1>3 DEF Belongs
<1> QED
  BY <1>4 DEF Entry

LEMMA AddFileKeeps ==
  ASSUME LayoutOK, Good, NEW n \in FileNames, NEW size \in Sizes, AddFile(n, size)
  PROVE  Good'
<1>1. PICK e : e = Entry(freeinode, n)
  OBVIOUS
<1>2. /\ pc = "files" /\ ~InRoot(n) /\ freeinode < geo.NINODES /\ Ialloc("T_FILE")
      /\ Iappend(1, <<e>>, "copy") /\ geo' = geo /\ ind' = ind
      /\ data' = data /\ used_block' = used_block
      /\ host' = [host EXCEPT ![freeinode].size = size]
  BY <1>1 DEF AddFile
<1>3. /\ freeinode \in Nat /\ freeinode >= 2 /\ freeinode \in INums /\ 1 \in INums
      /\ geo.NINODES \in 2 .. MaxINodes
  <2>1. freeinode \in Nat \ {0} /\ freeinode <= MaxINodes /\ 1 \in INums /\ freeinode # 1
    BY <1>2, Basics DEF Good, INodesOK
  <2> QED
    BY <2>1, Meta DEF INums
<1>4. e \in Contents
  BY <1>1, <1>3 DEF Entry, Contents
<1>5. <<e>> \in Seq(Contents) /\ Len(<<e>>) = 1 /\ <<e>>[1] = e
  BY <1>4, Single
<1>6. /\ freeinode' = freeinode + 1 /\ ino' \in [INums -> INodes]
      /\ ino'[freeinode] = NewINode("T_FILE")
      /\ \A j \in INums : j # freeinode => ino'[j] = ino[j]
      /\ \A j \in INums : ino'[j].addrs = ino[j].addrs /\ ino'[j].size = ino[j].size
  BY <1>2, <1>3, IallocIs
<1>7. /\ Begun(1, <<e>>, "copy") /\ pc' = "iappend" /\ Stage' = "copy" /\ Steady
      /\ \A j \in INums : Pending(j)' = IF j = 1 THEN 1 ELSE 0
  BY <1>2, <1>3, <1>5, <1>6, IappendIs
<1>8. Length(1) = freeinode /\ Length(1) = ino[1].size
  <2>1. Length(1) \in Nat
    BY <1>3, Basics
  <2>2. Length(1) + Pending(1) = freeinode /\ Pending(1) = 0
    BY <1>2 DEF Good, RootOK, Expected, Stage, Pending
  <2>3. Length(1) = ino[1].size
    BY <1>2 DEF Length
  <2> QED
    BY <2>1, <2>2, <2>3
<1>9. host \in [INums -> [size : Nat, copied : Nat]]
  BY DEF Good, StateOK
<1>10. /\ host' \in [INums -> [size : Nat, copied : Nat]]
       /\ host'[freeinode].copied = host[freeinode].copied
       /\ \A j \in INums : j # freeinode => host'[j] = host[j]
  <2>1. size \in Nat
    BY MkfsAssumption
  <2>2. PICK h : h = [host[freeinode] EXCEPT !.size = size]
    OBVIOUS
  <2>3. h \in [size : Nat, copied : Nat] /\ h.copied = host[freeinode].copied
    BY <1>3, <1>9, <2>1, <2>2
  <2>4. host' = [host EXCEPT ![freeinode] = h]
    BY <1>2, <2>2
  <2> QED
    BY <1>3, <1>9, <2>3, <2>4
<1>11. StateOK'
  <2>1. Blocks' = Blocks
    BY <1>2 DEF Blocks
  <2> QED
    BY <1>2, <1>6, <1>7, <1>10, <2>1
    DEF Good, StateOK, Begun, Calls, Indirects, INodes, Addrs, Contents, INums
<1>12. INodesOK'
  <2>1. ASSUME NEW i \in INums
        PROVE  /\ i < freeinode' =>
                    Cur(i)'.nlink = 1 /\ Cur(i)'.type = IF i = 1 THEN "T_DIR" ELSE "T_FILE"
               /\ i >= freeinode' => ino'[i] = FreeINode
    <3>1. Cur(i) = ino[i] /\ Cur(i)' = ino'[i]
      BY <1>2, <1>3, <1>6, <1>7 DEF Cur, Begun
    <3>2. CASE i = freeinode
      BY <1>3, <1>6, <3>1, <3>2, NewINodeIs
    <3>3. CASE i # freeinode
      <4>1. (i < freeinode' => i < freeinode) /\ (i >= freeinode' => i >= freeinode)
        BY <1>3, <1>6, <3>3 DEF INums
      <4> QED
        BY <1>6, <3>1, <3>3, <4>1 DEF Good, INodesOK
    <3> QED
      BY <3>2, <3>3
  <2>2. freeinode' \in 1 .. geo.NINODES /\ freeinode' # 1 /\ freeinode' > 2
    BY <1>2, <1>3, <1>6
  <2>3. INums' = INums /\ FreeINode' = FreeINode
    BY DEF INums, FreeINode
  <2> QED
    BY <1>2, <1>7, <2>1, <2>2, <2>3 DEF INodesOK
<1>13. BlocksOK' /\ Mapped' /\ Filled'
  BY <1>2, <1>7, SteadyKeeps
<1>14. CallOK'
  <2>1. Belongs(1, freeinode, e)
    BY <1>1, <1>3 DEF Belongs
  <2>2. call'.off + 1 - 1 = freeinode
    BY <1>3, <1>7, <1>8 DEF Begun
  <2>3. Belongs(call.inum, call.off + 1 - 1, call.src[1])'
    BY <1>5, <1>7, <2>1, <2>2 DEF Begun, Belongs, Entry, Unit
  <2>4. \A m \in 1 .. Len(call.src)' : m = 1
    BY <1>5, <1>7 DEF Begun
  <2> QED
    BY <1>3, <1>6, <1>7, <2>3, <2>4 DEF CallOK, Begun
<1>15. RootOK'
  <2>1. Expected' = freeinode + 1
    BY <1>6, <1>7 DEF Expected
  <2> QED
    BY <1>3, <1>7, <1>8, <2>1 DEF RootOK, Steady
<1>16. NamesOK'
  <2>1. Length(1)' = Length(1) /\ Length(1) \in Nat
    BY <1>3, <1>7, Basics DEF Steady
  <2>2. \A k \in 2 .. Length(1) - 1 : Slot(k)' = Slot(k)
    BY <1>2, <1>7, <2>1, SteadyKeeps
  <2>3. call'.src[1].name = n
    BY <1>1, <1>5, <1>7 DEF Begun, Entry
  <2>4. ASSUME NEW k \in 2 .. Length(1) - 1 PROVE Slot(k).name # n
    <3>1. PICK m \in FileNames : Slot(k) = Entry(k, m) /\ Slot(k).name = m
      BY SlotIs
    <3>2. k \in Nat /\ k < Length(1) /\ k \in INums
      BY <1>3, <1>8, <2>1 DEF INums
    <3>3. At(1, k \div BSIZE) \in Blocks /\ k % BSIZE \in 0 .. BSIZE - 1
      BY <1>3, <3>2, InFile
    <3>4. InRoot(m)
      BY <3>1, <3>2, <3>3 DEF InRoot, Slot
    <3> QED
      BY <1>2, <3>1, <3>4
  <2>5. Pending(1)' = 1
    BY <1>3, <1>7
  <2> QED
    BY <2>1, <2>2, <2>3, <2>4, <2>5 DEF Good, NamesOK
<1>17. HostOK'
  <2>0. \A i \in INums : i >= freeinode' => host'[i].copied = 0
    <3>1. \A i \in INums : i >= freeinode' => i >= freeinode /\ i # freeinode
      BY <1>3, <1>6 DEF INums
    <3> QED
      BY <1>10, <3>1 DEF Good, HostOK
  <2> SUFFICES ASSUME NEW i \in INums, i # 1, i < freeinode'
               PROVE  /\ Length(i)' + Pending(i)' = host'[i].copied
                      /\ i < inum' \/ Stage' # "copy" => host'[i].copied = host'[i].size
    BY <2>0 DEF HostOK, INums
  <2>1. Length(i)' = Length(i) /\ Pending(i)' = 0 /\ Length(i) \in Nat
    BY <1>7, Basics DEF Steady
  <2>2. inum' = freeinode
    BY <1>3, <1>6 DEF inum
  <2>3. CASE i = freeinode
    <3>1. Length(i) = 0
      <4>1. ino[i] = FreeINode /\ Length(i) = ino[i].size
        BY <1>2, <2>3, <1>3 DEF Good, INodesOK, Length
      <4> QED
        BY <4>1 DEF FreeINode
    <3>2. host[freeinode].copied = 0
      BY <1>3 DEF Good, HostOK
    <3>3. ~(i < inum') /\ Stage' = "copy"
      BY <1>3, <1>7, <2>2, <2>3
    <3> QED
      BY <1>10, <2>1, <2>3, <3>1, <3>2, <3>3
  <2>4. CASE i # freeinode
    <3>1. i < freeinode
      BY <1>3, <1>6, <2>4 DEF INums
    <3>2. Pending(i) = 0 /\ Stage = "files"
      BY <1>2 DEF Pending, Stage
    <3>3. Length(i) + Pending(i) = host[i].copied /\ host[i].copied = host[i].size
      BY <3>1, <3>2 DEF Good, HostOK
    <3> QED
      BY <1>10, <2>1, <2>4, <3>2, <3>3
  <2> QED
    BY <2>3, <2>4
<1>18. DoneOK'
  BY <1>7 DEF DoneOK
<1> QED
  BY <1>11, <1>12, <1>13, <1>14, <1>15, <1>16, <1>17, <1>18 DEF Good

LEMMA CopyChunkKeeps ==
  ASSUME LayoutOK, Good, NEW cc \in 1 .. BSIZE, CopyChunk(cc)
  PROVE  Good'
<1>1. PICK i, c, src : /\ i = inum /\ c = host[inum].copied
                       /\ src = [k \in 1 .. cc |-> Unit(i, c + k)]
  OBVIOUS
<1>2. /\ pc = "copy" /\ Iappend(i, src, "copy") /\ geo' = geo /\ ino' = ino /\ ind' = ind
      /\ data' = data /\ used_block' = used_block /\ freeinode' = freeinode
      /\ host' = [host EXCEPT ![i].copied = @ + cc]
  BY <1>1 DEF CopyChunk, image
<1>3. /\ freeinode \in Nat /\ freeinode > 2 /\ 1 \in INums
      /\ i \in INums /\ i = freeinode - 1 /\ i # 1 /\ i < freeinode
  <2>1. freeinode \in Nat /\ freeinode > 2 /\ freeinode <= MaxINodes /\ 1 \in INums
    BY <1>2, Basics DEF Good, INodesOK, Stage
  <2> QED
    BY <1>1, <2>1 DEF INums, inum
<1>4. host \in [INums -> [size : Nat, copied : Nat]] /\ ino \in [INums -> INodes]
  BY DEF Good, StateOK
<1>5. c \in Nat /\ c = host[i].copied /\ cc \in Nat
  BY <1>1, <1>3, <1>4
<1>6. src \in Seq(Contents) /\ Len(src) = cc /\ \A k \in 1 .. cc : src[k] = Unit(i, c + k)
  <2>1. \A k \in 1 .. cc : Unit(i, c + k) \in Contents
    BY <1>3, <1>5 DEF Unit, Contents
  <2> QED
    BY <1>1, <1>5, <2>1
<1>7. /\ Begun(i, src, "copy") /\ pc' = "iappend" /\ Stage' = "copy" /\ Steady
      /\ \A j \in INums : Pending(j)' = IF j = i THEN cc ELSE 0
  BY <1>2, <1>3, <1>4, <1>6, IappendIs
<1>8. Length(i) = c /\ Length(i) = ino[i].size
  <2>1. Length(i) \in Nat
    BY <1>3, Basics
  <2>2. Length(i) + Pending(i) = c /\ Pending(i) = 0
    BY <1>2, <1>3, <1>5 DEF Good, HostOK, Pending
  <2>3. Length(i) = ino[i].size
    BY <1>2 DEF Length
  <2> QED
    BY <2>1, <2>2, <2>3
<1>9. /\ host' \in [INums -> [size : Nat, copied : Nat]]
      /\ host'[i].copied = c + cc
      /\ \A j \in INums : j # i => host'[j] = host[j]
  <2>1. PICK h : h = [host[i] EXCEPT !.copied = c + cc]
    OBVIOUS
  <2>2. h \in [size : Nat, copied : Nat] /\ h.copied = c + cc
    BY <1>3, <1>4, <1>5, <2>1
  <2>3. host' = [host EXCEPT ![i] = h]
    BY <1>2, <1>5, <2>1
  <2> QED
    BY <1>3, <1>4, <2>2, <2>3
<1>10. StateOK'
  <2>1. Blocks' = Blocks
    BY <1>2 DEF Blocks
  <2> QED
    BY <1>2, <1>7, <1>9, <2>1
    DEF Good, StateOK, Begun, Calls, Indirects, INodes, Addrs, Contents, INums
<1>11. INodesOK'
  <2>1. ASSUME NEW j \in INums PROVE Cur(j)' = Cur(j)
    BY <1>2, <1>7 DEF Cur, Begun
  <2>2. /\ freeinode' \in 1 .. geo'.NINODES /\ freeinode' # 1 /\ freeinode' > 2
        /\ pc' = "iappend" /\ Stage' = "copy"
    BY <1>2, <1>3, <1>7 DEF Good, INodesOK
  <2>3. INums' = INums /\ FreeINode' = FreeINode
    BY DEF INums, FreeINode
  <2>4. \A j \in INums :
          /\ j < freeinode' =>
               Cur(j)'.nlink = 1 /\ Cur(j)'.type = IF j = ROOTINO THEN "T_DIR" ELSE "T_FILE"
          /\ j >= freeinode' => ino'[j] = FreeINode
    BY <1>2, <2>1 DEF Good, INodesOK
  <2> QED
    BY <2>2, <2>3, <2>4 DEF INodesOK
<1>12. BlocksOK' /\ Mapped' /\ Filled'
  BY <1>2, <1>7, SteadyKeeps
<1>13. CallOK'
  <2>1. call'.off = c /\ call'.inum = i /\ call'.src = src
    BY <1>7, <1>8 DEF Begun
  <2>2. ASSUME NEW m \in 1 .. cc PROVE Belongs(i, c + m - 1, src[m])
    <3>1. c + m - 1 + 1 = c + m
      BY <1>5
    <3> QED
      BY <1>3, <1>6, <3>1 DEF Belongs
  <2>3. \A m \in 1 .. Len(call.src)' : Belongs(call.inum, call.off + m - 1, call.src[m])'
    BY <1>6, <2>1, <2>2 DEF Belongs, Entry, Unit
  <2>4. call'.ret = "copy" /\ inum' = i
    BY <1>1, <1>2, <1>7 DEF Begun, inum
  <2> QED
    BY <1>2, <1>3, <2>1, <2>3, <2>4 DEF CallOK
<1>14. RootOK'
  <2>1. Length(1) + Pending(1) = freeinode /\ Pending(1) = 0
    BY <1>2 DEF Good, RootOK, Expected, Stage, Pending
  <2>2. Length(1)' = Length(1) /\ Pending(1)' = 0 /\ Expected' = freeinode
    BY <1>2, <1>3, <1>7 DEF Steady, Expected
  <2> QED
    BY <1>7, <2>1, <2>2 DEF RootOK
<1>15. NamesOK'
  BY <1>2, <1>3, <1>7, NamesKept
<1>16. HostOK'
  <2>1. \A j \in INums : j >= freeinode => j # i
    BY <1>3 DEF INums
  <2>2. ASSUME NEW j \in INums, j # ROOTINO, j < freeinode
        PROVE  /\ Length(j)' + Pending(j)' = host'[j].copied
               /\ j < inum' \/ Stage' # "copy" => host'[j].copied = host'[j].size
    <3>1. Length(j)' = Length(j)
      BY <1>7 DEF Steady
    <3>2. inum' = i /\ inum = i /\ Stage = "copy"
      BY <1>1, <1>2 DEF inum, Stage
    <3>3. CASE j = i
      <4>1. ~(j < inum')
        BY <1>3, <3>2, <3>3
      <4> QED
        BY <1>7, <1>8, <1>9, <3>1, <3>3, <4>1
    <3>4. CASE j # i
      <4>1. Pending(j) = 0 /\ Pending(j)' = 0
        BY <1>2, <1>7, <3>4 DEF Pending
      <4>2. /\ Length(j) + Pending(j) = host[j].copied
            /\ j < inum \/ Stage # "copy" => host[j].copied = host[j].size
        BY <2>2 DEF Good, HostOK
      <4> QED
        BY <1>7, <1>9, <3>1, <3>2, <3>4, <4>1, <4>2
    <3> QED
      BY <3>3, <3>4
  <2> QED
    BY <1>2, <1>9, <2>1, <2>2 DEF Good, HostOK, INums
<1>17. DoneOK'
  BY <1>7 DEF DoneOK
<1> QED
  BY <1>10, <1>11, <1>12, <1>13, <1>14, <1>15, <1>16, <1>17 DEF Good

\* What steps outside of iappend have in common that change no inode.
LEMMA Idle ==
  ASSUME LayoutOK, Good, pc \notin {"iappend", "layout", "root"},
         pc' \in {"files", "balloc", "done"},
         geo' = geo, ino' \in [INums -> INodes], ind' = ind, data' = data,
         used_block' = used_block, freeinode' = freeinode, host' = host,
         \A j \in INums : Length(j)' = Length(j),
         \A j \in INums : ino'[j].addrs = ino[j].addrs /\ ino'[j].type = ino[j].type
                          /\ ino'[j].nlink = ino[j].nlink,
         \A j \in INums : j >= freeinode => ino'[j] = ino[j]
  PROVE  /\ StateOK' /\ INodesOK' /\ BlocksOK' /\ Mapped' /\ Filled' /\ CallOK' /\ NamesOK'
         /\ \A j \in INums : Pending(j)' = 0 /\ Pending(j) = 0
<1>1. \A j \in INums : Cur(j) = ino[j] /\ Cur(j)' = ino'[j]
  BY DEF Cur
<1>2. Steady
  BY <1>1 DEF Steady, At
<1>3. \A j \in INums : Pending(j)' = 0 /\ Pending(j) = 0
  BY DEF Pending
<1>4. StateOK'
  <2>1. Blocks' = Blocks
    BY DEF Blocks
  <2> QED
    BY <2>1 DEF Good, StateOK, Indirects, INodes, Addrs, Contents, INums
<1>5. INodesOK'
  BY <1>1 DEF Good, INodesOK, Stage, INums, FreeINode
<1>6. BlocksOK' /\ Mapped' /\ Filled'
  BY <1>2, SteadyKeeps
<1>7. NamesOK'
  BY <1>2, <1>3, NamesKept, Basics
<1>8. CallOK'
  BY DEF CallOK
<1> QED
  BY <1>3, <1>4, <1>5, <1>6, <1>7, <1>8

LEMMA CopyDoneKeeps ==
  ASSUME LayoutOK, Good, CopyDone
  PROVE  Good'
<1>1. /\ pc = "copy" /\ pc' = "files" /\ host[inum].copied = host[inum].size
      /\ geo' = geo /\ ino' = ino /\ ind' = ind /\ data' = data /\ used_block' = used_block
      /\ freeinode' = freeinode /\ host' = host
  BY DEF CopyDone, image
<1>2. ino \in [INums -> INodes] /\ \A j \in INums : Length(j)' = Length(j)
  BY <1>1 DEF Good, StateOK, Length
<1>3. /\ StateOK' /\ INodesOK' /\ BlocksOK' /\ Mapped' /\ Filled' /\ CallOK' /\ NamesOK'
      /\ \A j \in INums : Pending(j)' = 0 /\ Pending(j) = 0
  BY <1>1, <1>2, Idle
<1>4. RootOK'
  <2>1. Expected' = Expected
    BY <1>1 DEF Expected, Stage
  <2> QED
    BY <1>1, <1>2, <1>3, <2>1, Basics DEF Good, RootOK
<1>5. HostOK'
  <2>1. \A j \in INums : j < freeinode => j < inum \/ j = inum
    BY Basics DEF inum, INums
  <2> QED
    BY <1>1, <1>2, <1>3, <2>1 DEF Good, HostOK, INums
<1>6. DoneOK'
  BY <1>1 DEF DoneOK
<1> QED
  BY <1>3, <1>4, <1>5, <1>6 DEF Good

LEMMA FixRootKeeps ==
  ASSUME LayoutOK, Good, FixRoot
  PROVE  Good'
<1>1. /\ pc = "files" /\ pc' = "balloc" /\ ino' = [ino EXCEPT ![1].size = RoundUp(@)]
      /\ geo' = geo /\ ind' = ind /\ data' = data /\ used_block' = used_block
      /\ freeinode' = freeinode /\ host' = host
  BY DEF FixRoot
<1>2. 1 \in INums /\ freeinode \in Nat /\ freeinode > 1 /\ ino \in [INums -> INodes]
  BY <1>1, Basics DEF Good, StateOK, INodesOK
<1>3. Length(1) = freeinode /\ ino[1].size = freeinode
  <2>1. Length(1) + Pending(1) = freeinode /\ Pending(1) = 0 /\ Length(1) = ino[1].size
    BY <1>1 DEF Good, RootOK, Expected, Stage, Pending, Length
  <2> QED
    BY <1>2, <2>1, Basics
<1>4. PICK z : z = RoundUp(freeinode)
  OBVIOUS
<1>5. z \in Nat
  <2>1. freeinode \div BSIZE \in Nat
    BY <1>2, DivNat
  <2>2. PICK q : q = freeinode \div BSIZE
    OBVIOUS
  <2> QED
    BY <1>4, <2>1, <2>2 DEF RoundUp
<1>6. PICK x : x = [ino[1] EXCEPT !.size = z]
  OBVIOUS
<1>7. ino' = [ino EXCEPT ![1] = x]
  BY <1>1, <1>3, <1>4, <1>6
<1>8. /\ x \in INodes /\ x.addrs = ino[1].addrs /\ x.type = ino[1].type
      /\ x.nlink = ino[1].nlink /\ x.size = z
  BY <1>2, <1>5, <1>6 DEF INodes
<1>9. /\ ino' \in [INums -> INodes] /\ ino'[1] = x /\ \A j \in INums : j # 1 => ino'[j] = ino[j]
  BY <1>2, <1>7, <1>8
<1>10. \A j \in INums : Length(j)' = Length(j)
  <2>1. ASSUME NEW j \in INums PROVE Length(j)' = Length(j)
    <3>1. CASE j = 1
      BY <1>1, <1>3, <3>1 DEF Length
    <3>2. CASE j # 1
      BY <1>1, <1>9, <3>2 DEF Length
    <3> QED
      BY <3>1, <3>2
  <2> QED
    BY <2>1
<1>11. \A j \in INums : ino'[j].addrs = ino[j].addrs /\ ino'[j].type = ino[j].type
                        /\ ino'[j].nlink = ino[j].nlink
  BY <1>8, <1>9
<1>12. \A j \in INums : j >= freeinode => ino'[j] = ino[j]
  BY <1>2, <1>9
<1>13. /\ StateOK' /\ INodesOK' /\ BlocksOK' /\ Mapped' /\ Filled' /\ CallOK' /\ NamesOK'
       /\ \A j \in INums : Pending(j)' = 0 /\ Pending(j) = 0
  BY <1>1, <1>9, <1>10, <1>11, <1>12, Idle
<1>14. RootOK'
  <2>1. Expected' = freeinode /\ RoundUp(freeinode)' = z
    BY <1>1, <1>4 DEF Expected, Stage, RoundUp
  <2>2. Length(1)' + Pending(1)' = freeinode /\ ino'[1].size = z
    BY <1>2, <1>3, <1>8, <1>9, <1>10, <1>13
  <2> QED
    BY <1>1, <2>1, <2>2 DEF RootOK
<1>15. HostOK'
  BY <1>1, <1>10, <1>13 DEF Good, HostOK, INums, Stage, inum
<1>16. DoneOK'
  BY <1>1 DEF DoneOK
<1> QED
  BY <1>13, <1>14, <1>15, <1>16 DEF Good

LEMMA BallocKeeps ==
  ASSUME LayoutOK, Good, Balloc
  PROVE  Good'
<1>1. /\ pc = "balloc" /\ pc' = "done" /\ bitmap' = Marked(used_block)
      /\ geo' = geo /\ ino' = ino /\ ind' = ind /\ data' = data /\ used_block' = used_block
      /\ freeinode' = freeinode /\ host' = host
  BY DEF Balloc
<1>2. ino \in [INums -> INodes] /\ \A j \in INums : Length(j)' = Length(j)
  BY <1>1 DEF Good, StateOK, Length
<1>3. /\ StateOK' /\ INodesOK' /\ BlocksOK' /\ Mapped' /\ Filled' /\ CallOK' /\ NamesOK'
      /\ \A j \in INums : Pending(j)' = 0 /\ Pending(j) = 0
  BY <1>1, <1>2, Idle
<1>4. RootOK'
  <2>1. Expected' = Expected /\ RoundUp(freeinode)' = RoundUp(freeinode)
    BY <1>1 DEF Expected, Stage, RoundUp
  <2> QED
    BY <1>1, <1>2, <1>3, <2>1, Basics DEF Good, RootOK
<1>5. HostOK'
  BY <1>1, <1>2, <1>3 DEF Good, HostOK, INums, Stage, inum
<1>6. DoneOK'
  BY <1>1 DEF DoneOK, Marked
<1> QED
  BY <1>3, <1>4, <1>5, <1>6 DEF Good

----------------------------------------------------------------------------
(* The steps of iappend.                                                   *)

LEMMA AppendEndKeeps ==
  ASSUME LayoutOK, Good, AppendEnd
  PROVE  Good'
<1>1. PICK i, x : i = call.inum /\ x = [call.din EXCEPT !.size = call.off]
  OBVIOUS
<1>2. /\ pc = "iappend" /\ call.src = <<>> /\ pc' = call.ret /\ ino' = [ino EXCEPT ![i] = x]
      /\ geo' = geo /\ ind' = ind /\ data' = data /\ used_block' = used_block
      /\ freeinode' = freeinode /\ host' = host
  BY <1>1 DEF AppendEnd
<1>3. /\ i \in INums /\ call.din \in INodes /\ call.off \in Nat
      /\ call.ret \in {"dotdot", "files", "copy"} /\ ino \in [INums -> INodes]
  BY <1>1, <1>2 DEF Good, StateOK, Calls
<1>4. /\ x \in INodes /\ x.size = call.off /\ x.addrs = call.din.addrs
      /\ x.type = call.din.type /\ x.nlink = call.din.nlink
  BY <1>1, <1>3 DEF INodes
<1>5. ino' \in [INums -> INodes] /\ ino'[i] = x /\ \A j \in INums : j # i => ino'[j] = ino[j]
  BY <1>2, <1>3, <1>4
<1>6. ASSUME NEW j \in INums
      PROVE  /\ Cur(j)'.addrs = Cur(j).addrs /\ Cur(j)'.type = Cur(j).type
             /\ Cur(j)'.nlink = Cur(j).nlink
             /\ Length(j)' = Length(j) /\ Pending(j)' = 0 /\ Pending(j) = 0
  <2>1. Cur(j)' = ino'[j] /\ Length(j)' = ino'[j].size /\ Pending(j)' = 0
    BY <1>2, <1>3 DEF Cur, Length, Pending
  <2>2. Pending(j) = 0
    BY <1>2 DEF Pending
  <2>3. CASE j = i
    BY <1>1, <1>2, <1>4, <1>5, <2>1, <2>2, <2>3 DEF Cur, Length
  <2>4. CASE j # i
    BY <1>1, <1>2, <1>5, <2>1, <2>2, <2>4 DEF Cur, Length
  <2> QED
    BY <2>3, <2>4
<1>7. Stage' = Stage /\ Stage = call.ret /\ Expected' = Expected
  BY <1>2, <1>3 DEF Stage, Expected
<1>8. Steady
  BY <1>2, <1>6 DEF Steady, At
<1>9. BlocksOK' /\ Mapped' /\ Filled'
  BY <1>2, <1>3, <1>8, SteadyKeeps
<1>10. StateOK'
  <2>1. Blocks' = Blocks
    BY <1>2 DEF Blocks
  <2> QED
    BY <1>2, <1>3, <1>5, <2>1 DEF Good, StateOK, Indirects, INodes, Addrs, Contents, INums
<1>11. INodesOK'
  <2>1. i < freeinode /\ freeinode # 1 /\ freeinode \in 1 .. geo.NINODES
    BY <1>1, <1>2 DEF Good, CallOK, INodesOK
  <2>2. \A j \in INums :
          /\ j < freeinode =>
               Cur(j)'.nlink = 1 /\ Cur(j)'.type = IF j = ROOTINO THEN "T_DIR" ELSE "T_FILE"
    BY <1>6 DEF Good, INodesOK
  <2>3. \A j \in INums : j >= freeinode => ino'[j] = FreeINode
    <3>1. \A j \in INums : j >= freeinode => j # i
      BY <1>3, <2>1 DEF INums
    <3> QED
      BY <1>5, <3>1 DEF Good, INodesOK
  <2>4. INums' = INums /\ FreeINode' = FreeINode
    BY DEF INums, FreeINode
  <2>5. /\ Stage' \in {"dot", "dotdot"} => freeinode = 2
        /\ Stage' = "copy" => freeinode > 2
    BY <1>7 DEF Good, INodesOK
  <2> QED
    BY <1>2, <1>3, <2>1, <2>2, <2>3, <2>4, <2>5 DEF INodesOK
<1>12. CallOK' /\ DoneOK'
  BY <1>2, <1>3 DEF CallOK, DoneOK
<1>13. RootOK'
  BY <1>2, <1>3, <1>6, <1>7, Basics DEF Good, RootOK
<1>14. NamesOK'
  BY <1>2, <1>3, <1>6, <1>8, NamesKept, Basics
<1>15. HostOK'
  BY <1>2, <1>6, <1>7 DEF Good, HostOK, INums, inum
<1> QED
  BY <1>9, <1>10, <1>11, <1>12, <1>13, <1>14, <1>15 DEF Good

\* What a round does to the blocks: file i gets block x for its position f, from
\* the ones that were free unless it was there.
Grows(i, f, x) ==
  /\ used_block' \in Nat /\ used_block' >= used_block
  /\ used_block' = used_block \/ used_block' <= geo.FSSIZE
  /\ \A j \in INums \ {i}, p \in Positions0 : At(j, p)' = At(j, p)
  /\ \A p \in Positions0 :
       \/ At(i, p)' = At(i, p)
       \/ At(i, p) = 0 /\ At(i, p)' \in used_block .. used_block' - 1
  /\ \A p, q \in Positions0 :
       At(i, p)' >= used_block /\ At(i, p)' = At(i, q)' => p = q
  /\ \A b \in used_block .. used_block' - 1 : \E p \in Positions0 : At(i, p)' = b
  /\ At(i, f)' = x /\ x # 0
  /\ \A p \in 0 .. MAXFILE - 1 : p # f => At(i, p)' = At(i, p)
  /\ \A b \in Blocks : b >= used_block' => ind'[b] = ind[b]

\* The addresses of the file after the round.
LEMMA RoundFinds ==
  ASSUME LayoutOK, Good, AppendBlock
  PROVE  /\ fbn \in 0 .. MAXFILE - 1 /\ Found.x \in Blocks /\ call.inum \in INums
         /\ Alike(call.din, ind, used_block, Found)
         /\ \/ Kept(call.din, ind, used_block, fbn, Found)
            \/ OneNew(call.din, ind, used_block, fbn, Found)
            \/ TwoNew(call.din, ind, used_block, fbn, Found)
<1>1. PICK d, m, u, f, s : d = call.din /\ m = ind /\ u = used_block /\ f = fbn /\ s = Found
  OBVIOUS
<1>2. pc = "iappend" /\ fbn < MAXFILE /\ Found.x \in Blocks
  BY DEF AppendBlock
<1>3. call.inum \in INums /\ d \in INodes /\ call.off \in Nat
  BY <1>1, <1>2 DEF Good, StateOK, Calls
<1>4. f \in 0 .. MAXFILE - 1
  BY <1>1, <1>2, <1>3, DivNat DEF fbn
<1>5. m \in [Blocks -> Indirects]
  BY <1>1 DEF Good, StateOK
<1>6. u \in Nat \ {0} /\ \A b \in Blocks : b >= u => m[b] = NoEntries
  <2>1. used_block >= nmeta /\ used_block \in Nat /\ nmeta \in Nat \ {0}
    BY <1>2, Basics DEF Good, BlocksOK, Started
  <2> QED
    BY <1>1, <2>1 DEF Good, BlocksOK, Cleared
<1>7. 0 \in Blocks
  BY <1>2, Basics DEF Blocks
<1>8. d.addrs[NDIRECT] # 0 => d.addrs[NDIRECT] \in Blocks
  <2>1. At(call.inum, MAXFILE) = d.addrs[NDIRECT]
    BY <1>1, <1>2, PlaceIs DEF At, Cur
  <2>2. MAXFILE \in Positions0
    BY DEF Positions0
  <2>3. At(call.inum, MAXFILE) # 0 => At(call.inum, MAXFILE) \in InUse
    BY <1>3, <2>2 DEF Good, BlocksOK, Ranged
  <2> QED
    BY <2>1, <2>3, InImage
<1>9. s = BlockFor([din |-> d, ind |-> m, used |-> u, x |-> 0], f) /\ s.x \in Blocks
  BY <1>1, <1>2 DEF Found
<1>10. /\ Alike(d, m, u, s)
       /\ Kept(d, m, u, f, s) \/ OneNew(d, m, u, f, s) \/ TwoNew(d, m, u, f, s)
  BY <1>3, <1>4, <1>5, <1>6, <1>7, <1>8, <1>9, BlockForIs
<1> QED
  BY <1>1, <1>2, <1>3, <1>4, <1>10

\* The variables after the round.
LEMMA RoundIs ==
  ASSUME LayoutOK, Good, AppendBlock
  PROVE  /\ pc = "iappend" /\ pc' = "iappend" /\ geo' = geo /\ ino' = ino /\ host' = host
         /\ freeinode' = freeinode /\ ind' = Found.ind /\ used_block' = Found.used
         /\ call' \in [inum : {call.inum}, din : {Found.din}, ret : {call.ret},
                       off : {call.off + InThisBlock(Len(call.src), call.off)},
                       src : {SubSeq(call.src, InThisBlock(Len(call.src), call.off) + 1,
                                     Len(call.src))}]
<1>1. PICK n, c : n = InThisBlock(Len(call.src), call.off) /\ c = call
  OBVIOUS
<1>2. /\ pc = "iappend" /\ pc' = "iappend" /\ geo' = geo /\ ino' = ino /\ host' = host
      /\ freeinode' = freeinode /\ ind' = Found.ind /\ used_block' = Found.used
      /\ call' = [c EXCEPT !.din = Found.din, !.off = @ + n, !.src = SubSeq(@, n + 1, Len(@))]
  BY <1>1 DEF AppendBlock
<1>3. c \in Calls
  BY <1>1, <1>2 DEF Good, StateOK
<1>4. call' \in [inum : {c.inum}, din : {Found.din}, ret : {c.ret},
                 off : {c.off + n}, src : {SubSeq(c.src, n + 1, Len(c.src))}]
  BY <1>2, <1>3 DEF Calls
<1> QED
  BY <1>1, <1>2, <1>4

LEMMA RoundGrows ==
  ASSUME LayoutOK, Good, AppendBlock
  PROVE  Grows(call.inum, fbn, Found.x)
<1>1. PICK i, d, u, f, s : /\ i = call.inum /\ d = call.din /\ u = used_block
                           /\ f = fbn /\ s = Found
  OBVIOUS
<1>2. /\ pc = "iappend" /\ pc' = "iappend" /\ geo' = geo /\ ino' = ino
      /\ ind' = s.ind /\ used_block' = s.used
      /\ call'.inum = i /\ call'.din = s.din
  BY <1>1, RoundIs
<1>3. /\ f \in 0 .. MAXFILE - 1 /\ s.x \in Blocks /\ i \in INums
      /\ Alike(d, ind, u, s)
      /\ Kept(d, ind, u, f, s) \/ OneNew(d, ind, u, f, s) \/ TwoNew(d, ind, u, f, s)
  BY <1>1, RoundFinds
<1>4. \A p : At(i, p) = Place(d.addrs, ind, p) /\ At(i, p)' = Place(s.din.addrs, s.ind, p)
  BY <1>1, <1>2 DEF At, Cur
<1>5. f \in Positions0 /\ MAXFILE \in Positions0 /\ f # MAXFILE
      /\ 0 .. MAXFILE - 1 \subseteq Positions0
  BY <1>3 DEF Positions0
<1>6. u \in Nat /\ nmeta \in Nat \ {0} /\ nmeta <= u /\ geo.FSSIZE \in Nat
  BY <1>1, <1>2, Basics DEF Good, BlocksOK, Started
<1>7. \A j \in INums, p \in Positions0 : At(j, p) # 0 => At(j, p) \in Nat /\ At(j, p) < u
  BY <1>1 DEF Good, BlocksOK, Ranged, InUse
<1>8. s.x \in Nat /\ s.x < geo.FSSIZE
  BY <1>3, <1>6 DEF Blocks
<1> DEFINE
      Sizes0 == /\ s.used \in Nat /\ s.used >= u /\ (s.used = u \/ s.used <= geo.FSSIZE)
      News == \A p \in Positions0 :
                \/ At(i, p)' = At(i, p)
                \/ At(i, p) = 0 /\ At(i, p)' \in u .. s.used - 1
      Apart == \A p, q \in Positions0 : At(i, p)' >= u /\ At(i, p)' = At(i, q)' => p = q
      All == \A b \in u .. s.used - 1 : \E p \in Positions0 : At(i, p)' = b
      Here == At(i, f)' = s.x /\ s.x # 0
      Others == \A p \in 0 .. MAXFILE - 1 : p # f => At(i, p)' = At(i, p)
      Top == \/ s.din.addrs[NDIRECT] = 0 \/ s.din.addrs[NDIRECT] = At(i, MAXFILE)
             \/ (s.din.addrs[NDIRECT] = u /\ u < s.used)
<1>9. s.din.addrs[NDIRECT] = At(i, MAXFILE)'
  BY <1>4, PlaceIs
<1>10. Sizes0 /\ News /\ Apart /\ All /\ Here /\ Others /\ Top
  <2>1. CASE Kept(d, ind, u, f, s)
    <3>1. s.din = d /\ s.ind = ind /\ s.used = u /\ Place(d.addrs, ind, f) = s.x /\ s.x # 0
      BY <2>1 DEF Kept
    <3>2. \A p : At(i, p)' = At(i, p)
      BY <1>4, <3>1
    <3>3. Apart
      <4> SUFFICES ASSUME NEW p \in Positions0, NEW q \in Positions0,
                          At(i, p)' >= u, At(i, p)' = At(i, q)'
                   PROVE  p = q
        OBVIOUS
      <4>1. At(i, p) >= u /\ At(i, p) = At(i, q)
        BY <3>2
      <4>2. At(i, p) # 0
        BY <1>6, <4>1
      <4> QED
        BY <1>3, <1>6, <1>7, <4>1, <4>2
    <3>4. Sizes0 /\ News /\ Others
      BY <1>6, <3>1, <3>2
    <3>5. All
      BY <1>6, <3>1
    <3>6. At(i, f)' = At(i, f) /\ At(i, MAXFILE)' = At(i, MAXFILE)
      BY <3>2
    <3>7. Here /\ Top
      BY <1>4, <1>9, <3>1, <3>6
    <3> QED
      BY <3>3, <3>4, <3>5, <3>7
  <2>2. CASE OneNew(d, ind, u, f, s)
    <3>1. /\ At(i, f) = 0 /\ s.x = u /\ s.used = u + 1
          /\ \A p \in Positions0 : At(i, p)' = IF p = f THEN u ELSE At(i, p)
      BY <1>4, <2>2 DEF OneNew
    <3>2. Apart
      <4>1. ASSUME NEW p \in Positions0, At(i, p)' >= u PROVE p = f
        <5> SUFFICES ASSUME p # f PROVE FALSE
          OBVIOUS
        <5>1. At(i, p) >= u
          BY <3>1, <4>1
        <5>2. At(i, p) # 0
          BY <1>6, <5>1
        <5> QED
          BY <1>3, <1>6, <1>7, <5>1, <5>2
      <4> QED
        BY <4>1
    <3>3. Sizes0 /\ Here
      BY <1>5, <1>6, <1>8, <3>1
    <3>4. News /\ Others
      BY <1>5, <1>6, <3>1
    <3>5. All
      BY <1>5, <1>6, <3>1
    <3>6. Top
      <4>1. PICK z : z = MAXFILE
        OBVIOUS
      <4>2. z \in Positions0 /\ z # f
        BY <1>5, <4>1
      <4>3. At(i, z)' = At(i, z)
        BY <3>1, <4>2
      <4> QED
        BY <1>9, <4>1, <4>3
    <3> QED
      BY <3>2, <3>3, <3>4, <3>5, <3>6
  <2>3. CASE TwoNew(d, ind, u, f, s)
    <3>1. /\ At(i, f) = 0 /\ At(i, MAXFILE) = 0 /\ s.x = u + 1 /\ s.used = u + 2
          /\ \A p \in Positions0 :
               At(i, p)' = IF p = f THEN u + 1 ELSE IF p = MAXFILE THEN u ELSE At(i, p)
      BY <1>4, <2>3 DEF TwoNew
    <3>2. Apart
      <4>1. ASSUME NEW p \in Positions0, At(i, p)' >= u
            PROVE  (p = f /\ At(i, p)' = u + 1) \/ (p = MAXFILE /\ At(i, p)' = u)
        <5>0. (p = f => At(i, p)' = u + 1) /\ (p = MAXFILE => At(i, p)' = u)
          BY <1>5, <3>1
        <5> SUFFICES ASSUME p # f, p # MAXFILE PROVE FALSE
          BY <5>0
        <5>1. At(i, p) >= u
          BY <3>1, <4>1
        <5>2. At(i, p) # 0
          BY <1>6, <5>1
        <5> QED
          BY <1>3, <1>6, <1>7, <5>1, <5>2
      <4>2. u # u + 1
        BY <1>6
      <4> QED
        BY <4>1, <4>2
    <3>3. Sizes0 /\ Here
      BY <1>5, <1>6, <1>8, <3>1
    <3>4. News /\ Others
      <4>1. u \in u .. s.used - 1 /\ u + 1 \in u .. s.used - 1
        BY <1>6, <3>1
      <4>2. \A p \in 0 .. MAXFILE - 1 : p # MAXFILE
        OBVIOUS
      <4> QED
        BY <1>5, <3>1, <4>1, <4>2
    <3>5. All
      <4>1. \A b \in u .. s.used - 1 : b = u \/ b = u + 1
        BY <1>6, <3>1
      <4>2. At(i, f)' = u + 1 /\ At(i, MAXFILE)' = u
        BY <1>5, <3>1
      <4> QED
        BY <1>5, <4>1, <4>2
    <3>6. Top
      BY <1>5, <1>6, <1>9, <3>1
    <3> QED
      BY <3>2, <3>3, <3>4, <3>5, <3>6
  <2> QED
    BY <1>3, <2>1, <2>2, <2>3
<1>11. ASSUME NEW j \in INums \ {i}, NEW p \in Positions0
       PROVE  At(j, p)' = At(j, p)
  <2>1. PICK a : a = ino[j].addrs
    OBVIOUS
  <2>2. At(j, p) = Place(a, ind, p) /\ At(j, p)' = Place(a, s.ind, p) /\ At(j, MAXFILE) = a[NDIRECT]
    BY <1>1, <1>2, <2>1, PlaceIs DEF At, Cur
  <2>3. a[NDIRECT] # 0 => s.ind[a[NDIRECT]] = ind[a[NDIRECT]]
    <3> SUFFICES ASSUME a[NDIRECT] # 0 PROVE s.ind[a[NDIRECT]] = ind[a[NDIRECT]]
      OBVIOUS
    <3>1. At(j, MAXFILE) # 0 /\ At(j, MAXFILE) \in InUse
      BY <1>5, <2>2 DEF Good, BlocksOK, Ranged
    <3>2. a[NDIRECT] \in Blocks /\ a[NDIRECT] < u /\ a[NDIRECT] \in Nat
      BY <1>1, <2>2, <3>1, InImage DEF InUse
    <3>3. At(j, MAXFILE) # At(i, MAXFILE)
      BY <1>3, <1>5, <3>1 DEF Good, BlocksOK, OneOwner
    <3>4. a[NDIRECT] # s.din.addrs[NDIRECT]
      BY <1>6, <1>10, <2>2, <3>2, <3>3
    <3> QED
      BY <1>3, <3>2, <3>4 DEF Alike
  <2> QED
    BY <2>2, <2>3 DEF Place
<1>12. ASSUME NEW b \in Blocks, b >= s.used PROVE s.ind[b] = ind[b]
  <2>1. b \in Nat /\ s.used \in Nat /\ s.used >= u
    BY <1>6, <1>10 DEF Blocks
  <2>2. b # s.din.addrs[NDIRECT]
    <3> SUFFICES ASSUME b = s.din.addrs[NDIRECT] PROVE FALSE
      OBVIOUS
    <3>1. b # 0
      BY <1>1, <1>6, <1>12, <2>1
    <3>2. CASE b = At(i, MAXFILE)
      BY <1>3, <1>5, <1>6, <1>7, <1>12, <2>1, <3>1, <3>2
    <3>3. CASE b = u /\ u < s.used
      BY <1>6, <1>12, <2>1, <3>3
    <3> QED
      BY <1>10, <3>1, <3>2, <3>3
  <2> QED
    BY <1>3, <2>2 DEF Alike
<1> HIDE DEF Sizes0, News, Apart, All, Here, Others, Top
<1>13. Sizes0 /\ News /\ Apart /\ All /\ Here /\ Others
  BY <1>10
<1> USE DEF Sizes0, News, Apart, All, Here, Others
<1>14. Grows(i, f, s.x)
  BY <1>1, <1>2, <1>11, <1>12, <1>13 DEF Grows
<1> QED
  BY <1>1, <1>14

\* How much a round writes, and where.
LEMMA RoundSpan ==
  ASSUME NEW l \in Nat \ {0}, NEW off \in Nat, NEW n, n = InThisBlock(l, off),
         NEW f, f = off \div BSIZE, NEW at, at = off % BSIZE
  PROVE  /\ f \in Nat /\ at \in 0 .. BSIZE - 1 /\ n \in 1 .. l
         /\ f * BSIZE \in Nat /\ off = f * BSIZE + at
         /\ at + n <= BSIZE /\ off + n <= f * BSIZE + BSIZE
<1>1. f \in Nat /\ at \in 0 .. BSIZE - 1 /\ off = f * BSIZE + at
  BY DivMod
<1>2. PICK x : x = f * BSIZE
  OBVIOUS
<1>3. x \in Nat /\ (f + 1) * BSIZE = x + BSIZE
  BY <1>1, <1>2
<1>4. n = IF l < x + BSIZE - off THEN l ELSE x + BSIZE - off
  BY <1>3 DEF InThisBlock
<1> QED
  BY <1>1, <1>2, <1>3, <1>4

\* The bitmap's blocks stay in one place each.
LEMMA RoundBlocks ==
  ASSUME LayoutOK, Good, AppendBlock
  PROVE  Started' /\ Ranged' /\ OneOwner' /\ Owned'
<1>1. PICK i, f, x : i = call.inum /\ f = fbn /\ x = Found.x
  OBVIOUS
<1>2. Grows(i, f, x) /\ i \in INums
  BY <1>1, RoundGrows, RoundFinds
<1>3. geo' = geo /\ pc = "iappend" /\ pc' = "iappend"
  BY RoundIs
<1>4. INums' = INums /\ Positions0' = Positions0 /\ nmeta' = nmeta
  BY <1>3 DEF INums, Positions0, nmeta, ninodeblocks, nbitmap
<1>5. PICK u, v : u = used_block /\ v = used_block'
  OBVIOUS
<1>6. /\ u \in Nat /\ v \in Nat /\ u <= v /\ nmeta \in Nat \ {0} /\ nmeta <= u
      /\ geo.FSSIZE \in Nat /\ (u <= nmeta \/ u <= geo.FSSIZE) /\ (u = v \/ v <= geo.FSSIZE)
  BY <1>2, <1>3, <1>5, Basics DEF Grows, Good, BlocksOK, Started
<1>7. Started'
  BY <1>3, <1>4, <1>5, <1>6 DEF Started
<1>8. ASSUME NEW j \in INums, NEW p \in Positions0
      PROVE  \/ At(j, p)' = At(j, p)
             \/ (j = i /\ At(j, p) = 0 /\ At(j, p)' \in u .. v - 1)
  BY <1>2, <1>5 DEF Grows
<1>9. \A j \in INums, p \in Positions0 : At(j, p) # 0 => At(j, p) \in InUse
  BY DEF Good, BlocksOK, Ranged
<1>10. /\ \A b \in InUse : b \in Nat /\ nmeta <= b /\ b < u
       /\ \A b \in Nat : b \in InUse' <=> nmeta <= b /\ b < v
       /\ \A b \in InUse' : b \in Nat
  BY <1>4, <1>5 DEF InUse
<1>11. Ranged'
  <2>1. ASSUME NEW j \in INums, NEW p \in Positions0, At(j, p)' # 0
        PROVE  At(j, p)' \in InUse'
    <3>1. PICK b : b = At(j, p)'
      OBVIOUS
    <3>2. CASE b = At(j, p)
      <4>1. b \in InUse
        BY <1>9, <2>1, <3>1, <3>2
      <4> QED
        BY <1>6, <1>10, <3>1, <4>1
    <3>3. CASE b \in u .. v - 1
      BY <1>6, <1>10, <3>1, <3>3
    <3> QED
      BY <1>8, <3>1, <3>2, <3>3
  <2> QED
    BY <1>4, <2>1 DEF Ranged
<1>12. OneOwner'
  <2>1. ASSUME NEW j \in INums, NEW k \in INums, NEW p \in Positions0, NEW q \in Positions0,
               At(j, p)' # 0, At(j, p)' = At(k, q)'
        PROVE  j = k /\ p = q
    <3>1. PICK b : b = At(j, p)' /\ b = At(k, q)' /\ b # 0
      BY <2>1
    <3>2. CASE b \in InUse
      <4>1. b \notin u .. v - 1
        BY <1>6, <1>10, <3>2
      <4>2. At(j, p) = b /\ At(k, q) = b
        BY <1>8, <3>1, <4>1
      <4> QED
        BY <3>1, <4>2 DEF Good, BlocksOK, OneOwner
    <3>3. CASE b \notin InUse
      <4>1. At(j, p) # b /\ At(k, q) # b
        BY <1>9, <3>1, <3>3
      <4>2. j = i /\ k = i /\ b \in u .. v - 1
        BY <1>8, <3>1, <4>1
      <4>3. b >= u
        BY <1>6, <4>2
      <4>4. \A p1, q1 \in Positions0 : At(i, p1)' >= u /\ At(i, p1)' = At(i, q1)' => p1 = q1
        BY <1>2, <1>5 DEF Grows
      <4>5. At(i, p)' = b /\ At(i, q)' = b
        BY <3>1, <4>2
      <4>6. At(i, p)' >= u /\ At(i, p)' = At(i, q)'
        BY <4>3, <4>5
      <4> QED
        BY <4>2, <4>4, <4>6
    <3> QED
      BY <3>2, <3>3
  <2> QED
    BY <1>4, <2>1 DEF OneOwner
<1>13. Owned'
  <2>1. ASSUME NEW b \in InUse' PROVE \E j \in INums, p \in Positions0 : At(j, p)' = b
    <3>1. b \in Nat /\ nmeta <= b /\ b < v
      BY <1>10
    <3>2. CASE b < u
      <4>1. b \in InUse
        BY <1>5, <3>1, <3>2 DEF InUse
      <4>2. PICK j \in INums, p \in Positions0 : At(j, p) = b
        BY <4>1 DEF Good, BlocksOK, Owned
      <4>3. At(j, p)' = b
        BY <1>6, <1>8, <3>1, <4>2
      <4> QED
        BY <4>3
    <3>3. CASE ~(b < u)
      <4>1. b \in u .. v - 1
        BY <1>6, <3>1, <3>3
      <4> QED
        BY <1>2, <1>5, <4>1 DEF Grows
    <3> QED
      BY <3>2, <3>3
  <2> QED
    BY <1>4, <2>1 DEF Owned
<1> QED
  BY <1>7, <1>11, <1>12, <1>13

\* What the round writes into its block.
LEMMA RoundWrites ==
  ASSUME LayoutOK, Good, AppendBlock,
         NEW x, x = Found.x, NEW at, at = call.off % BSIZE,
         NEW n, n = InThisBlock(Len(call.src), call.off)
  PROVE  /\ data' \in [Blocks -> [0 .. BSIZE - 1 -> Contents]]
         /\ \A b \in Blocks : b # x => data'[b] = data[b]
         /\ \A r \in 0 .. BSIZE - 1 :
              data'[x][r] = IF r \in at .. at + n - 1 THEN call.src[r - at + 1] ELSE data[x][r]
<1>1. pc = "iappend" /\ call.src # <<>> /\ x \in Blocks
  BY DEF AppendBlock
<1>2. call.off \in Nat /\ call.src \in Seq(Contents)
  BY <1>1 DEF Good, StateOK, Calls
<1>3. data \in [Blocks -> [0 .. BSIZE - 1 -> Contents]]
  BY DEF Good, StateOK
<1>4. PICK g : g = [r \in 0 .. BSIZE - 1 |->
                      IF r \in at .. at + n - 1 THEN call.src[r - at + 1] ELSE data[x][r]]
  OBVIOUS
<1>5. data' = [data EXCEPT ![x] = g]
  BY <1>4 DEF AppendBlock
<1>6. Len(call.src) \in Nat \ {0}
  BY <1>1, <1>2
<1>7. at \in 0 .. BSIZE - 1 /\ n \in 1 .. Len(call.src)
  BY <1>2, <1>6, RoundSpan
<1>8. \A r \in 0 .. BSIZE - 1 : g[r] \in Contents
  <2>1. ASSUME NEW r \in 0 .. BSIZE - 1, r \in at .. at + n - 1 PROVE call.src[r - at + 1] \in Contents
    <3>1. r - at + 1 \in 1 .. Len(call.src)
      BY <1>6, <1>7, <2>1
    <3> QED
      BY <1>2, <3>1
  <2>2. \A r \in 0 .. BSIZE - 1 : data[x][r] \in Contents
    BY <1>1, <1>3
  <2> QED
    BY <1>4, <2>1, <2>2
<1>9. g \in [0 .. BSIZE - 1 -> Contents]
  BY <1>4, <1>8
<1>10. /\ data' \in [Blocks -> [0 .. BSIZE - 1 -> Contents]] /\ data'[x] = g
       /\ \A b \in Blocks : b # x => data'[b] = data[b]
  BY <1>1, <1>3, <1>5, <1>9
<1> QED
  BY <1>4, <1>10

\* A round appends the first n of src to file i, from place at of its block x on.
Round(i, f, x, at, n, src) ==
  /\ i \in INums /\ f \in 0 .. MAXFILE - 1 /\ f \in Positions0 /\ x \in Blocks
  /\ at \in 0 .. BSIZE - 1 /\ n \in 1 .. Len(src) /\ at + n <= BSIZE
  /\ src \in Seq(Contents) /\ src = call.src /\ i = call.inum /\ call.off = Length(i)
  /\ f * BSIZE \in Nat /\ Length(i) = f * BSIZE + at /\ Length(i)' = Length(i) + n
  /\ Pending(i) = Len(src) /\ Pending(i)' = Len(src) - n
  /\ \A j \in INums \ {i} : Length(j)' = Length(j) /\ Pending(j) = 0 /\ Pending(j)' = 0
  /\ call'.src \in Seq(Contents) /\ Len(call'.src) = Len(src) - n
  /\ \A m \in 1 .. Len(src) - n : call'.src[m] = src[n + m]
  /\ Grows(i, f, x)
  /\ \A b \in Blocks : b # x => data'[b] = data[b]
  /\ \A r \in 0 .. BSIZE - 1 :
       data'[x][r] = IF r \in at .. at + n - 1 THEN src[r - at + 1] ELSE data[x][r]

LEMMA RoundFacts ==
  ASSUME LayoutOK, Good, AppendBlock
  PROVE  \E i, f, x, at, n, src : Round(i, f, x, at, n, src)
<1>1. PICK i, f, x, at, n, src :
        /\ i = call.inum /\ f = fbn /\ x = Found.x /\ at = call.off % BSIZE
        /\ n = InThisBlock(Len(call.src), call.off) /\ src = call.src
  OBVIOUS
<1>2. /\ pc = "iappend" /\ pc' = "iappend" /\ call'.inum = i /\ call'.off = call.off + n
      /\ call'.src = SubSeq(src, n + 1, Len(src)) /\ ino' = ino /\ freeinode' = freeinode
  BY <1>1, RoundIs
<1>3. f \in 0 .. MAXFILE - 1 /\ x \in Blocks /\ i \in INums /\ Grows(i, f, x)
  BY <1>1, RoundFinds, RoundGrows
<1>4. f \in Positions0
  BY <1>3 DEF Positions0
<1>5. call.off \in Nat /\ src \in Seq(Contents)
  BY <1>1, <1>2 DEF Good, StateOK, Calls
<1>6. Len(src) \in Nat \ {0}
  <2>1. src # <<>>
    BY <1>1 DEF AppendBlock
  <2> QED
    BY <1>5, <2>1
<1>7. /\ at \in 0 .. BSIZE - 1 /\ n \in 1 .. Len(src) /\ at + n <= BSIZE
      /\ f * BSIZE \in Nat /\ call.off = f * BSIZE + at
  <2>1. PICK l, o : l = Len(src) /\ o = call.off
    OBVIOUS
  <2>2. l \in Nat \ {0} /\ o \in Nat /\ n = InThisBlock(l, o) /\ f = o \div BSIZE /\ at = o % BSIZE
    BY <1>1, <1>5, <1>6, <2>1 DEF fbn
  <2>3. at \in 0 .. BSIZE - 1 /\ n \in 1 .. l
    BY <2>2, RoundSpan
  <2>4. at + n <= BSIZE
    BY <2>2, RoundSpan
  <2>5. f \in Nat /\ o = f * BSIZE + at
    BY <2>2, DivMod
  <2>6. f * BSIZE \in Nat
    BY <2>5
  <2> QED
    BY <2>1, <2>3, <2>4, <2>5, <2>6
<1>8. /\ call'.src \in Seq(Contents) /\ Len(call'.src) = Len(src) - n
      /\ \A m \in 1 .. Len(src) - n : call'.src[m] = src[n + m]
  <2>1. n + 1 \in Int /\ Len(src) \in Int
    BY <1>6, <1>7
  <2>2. \A m \in n + 1 .. Len(src) : src[m] \in Contents
    BY <1>5, <1>6, <1>7
  <2>3. PICK t : t = SubSeq(src, n + 1, Len(src))
    OBVIOUS
  <2>4. /\ t \in Seq(Contents)
        /\ Len(t) = IF n + 1 <= Len(src) THEN Len(src) - (n + 1) + 1 ELSE 0
        /\ \A m \in 1 .. Len(src) - (n + 1) + 1 : t[m] = src[(n + 1) + m - 1]
    BY <2>1, <2>2, <2>3, SubSeqProperties
  <2>5. Len(src) - (n + 1) + 1 = Len(src) - n /\ \A m \in Int : (n + 1) + m - 1 = n + m
    BY <2>1, <1>7
  <2>6. ASSUME NEW m \in 1 .. Len(src) - n PROVE t[m] = src[n + m]
    <3>1. m \in 1 .. Len(src) - (n + 1) + 1 /\ (n + 1) + m - 1 = n + m
      BY <2>1, <2>5
    <3> QED
      BY <2>4, <3>1
  <2>7. Len(t) = Len(src) - n
    BY <1>6, <1>7, <2>4
  <2> QED
    BY <1>2, <2>3, <2>4, <2>6, <2>7
<1>9. /\ Length(i) = call.off /\ Length(i)' = call.off + n
      /\ Pending(i) = Len(src) /\ Pending(i)' = Len(src) - n
  BY <1>1, <1>2, <1>8 DEF Length, Pending
<1>10. \A j \in INums \ {i} : Length(j)' = Length(j) /\ Pending(j) = 0 /\ Pending(j)' = 0
  BY <1>1, <1>2 DEF Length, Pending
<1>11. /\ \A b \in Blocks : b # x => data'[b] = data[b]
       /\ \A r \in 0 .. BSIZE - 1 :
            data'[x][r] = IF r \in at .. at + n - 1 THEN src[r - at + 1] ELSE data[x][r]
  BY <1>1, RoundWrites
<1>12. Round(i, f, x, at, n, src)
  BY <1>1, <1>3, <1>4, <1>5, <1>7, <1>8, <1>9, <1>10, <1>11 DEF Round
<1> QED
  BY <1>12

\* What is in the files stays, but for the places written.
LEMMA RoundStays ==
  ASSUME LayoutOK, Good, AppendBlock, NEW i, NEW f, NEW x, NEW at, NEW n, NEW src,
         Round(i, f, x, at, n, src),
         NEW j \in INums, NEW p \in 0 .. MAXFILE - 1, NEW r \in 0 .. BSIZE - 1, At(j, p) # 0,
         ~(j = i /\ p = f /\ r \in at .. at + n - 1)
  PROVE  At(j, p)' = At(j, p) /\ data'[At(j, p)][r] = data[At(j, p)][r]
<1>1. p \in Positions0
  BY DEF Positions0
<1>2. At(j, p) \in Blocks
  BY <1>1, InImage DEF Good, BlocksOK, Ranged
<1>3. At(j, p)' = At(j, p)
  BY <1>1 DEF Round, Grows
<1>4. CASE j = i /\ p = f
  <2>1. At(j, p) = x
    BY <1>3, <1>4 DEF Round, Grows
  <2> QED
    BY <1>3, <1>4, <2>1 DEF Round
<1>5. CASE ~(j = i /\ p = f)
  <2>1. At(i, f)' = x /\ x # 0 /\ i \in INums /\ f \in Positions0
    BY DEF Round, Grows
  <2>2. INums' = INums /\ Positions0' = Positions0
    BY DEF INums, Positions0
  <2>3. OneOwner'
    BY RoundBlocks
  <2>4. At(j, p)' # x
    BY <1>1, <1>5, <2>1, <2>2, <2>3 DEF OneOwner
  <2> QED
    BY <1>2, <1>3, <2>4 DEF Round
<1> QED
  BY <1>4, <1>5

\* The blocks that are still free stay clear.
LEMMA RoundClears ==
  ASSUME LayoutOK, Good, AppendBlock, NEW i, NEW f, NEW x, NEW at, NEW n, NEW src,
         Round(i, f, x, at, n, src)
  PROVE  Cleared' /\ Placed'
<1>1. geo' = geo
  BY RoundIs
<1>2. Blocks' = Blocks /\ INums' = INums /\ Positions0' = Positions0
  BY <1>1 DEF Blocks, INums, Positions0
<1>3. At(i, f)' = x /\ x # 0 /\ i \in INums /\ f \in Positions0 /\ f \in 0 .. MAXFILE - 1
  BY DEF Round, Grows
<1>4. x \in Nat /\ x < used_block' /\ used_block' \in Nat /\ used_block \in Nat
      /\ used_block <= used_block'
  <2>1. x \in InUse'
    BY <1>2, <1>3, RoundBlocks DEF Ranged
  <2>2. x \in Nat /\ x < used_block'
    BY <2>1 DEF InUse
  <2> QED
    BY <2>2, Basics DEF Round, Grows
<1>5. geo.FSSIZE \in Nat
  BY Basics
<1>6. ASSUME NEW b \in Blocks, b >= used_block' PROVE ind'[b] = NoEntries /\ data'[b] = Zeroes
  <2>1. b # x /\ b >= used_block
    BY <1>4, <1>5, <1>6 DEF Blocks
  <2>2. ind'[b] = ind[b] /\ data'[b] = data[b]
    BY <1>6, <2>1 DEF Round, Grows
  <2> QED
    BY <2>1, <2>2 DEF Good, BlocksOK, Cleared
<1>7. ASSUME NEW b \in Blocks, data'[b] # Zeroes
      PROVE  b # 0 /\ \E j \in INums, p \in 0 .. MAXFILE - 1 : At(j, p)' = b
  <2>1. CASE b = x
    BY <1>3, <2>1
  <2>2. CASE b # x
    <3>1. data[b] # Zeroes
      BY <1>7, <2>2 DEF Round
    <3>2. PICK j \in INums, p \in 0 .. MAXFILE - 1 : b # 0 /\ At(j, p) = b
      BY <3>1 DEF Good, BlocksOK, Placed
    <3>3. At(j, p)' = b
      BY <1>2, <3>2 DEF Round, Grows, Positions0
    <3> QED
      BY <3>2, <3>3
  <2> QED
    BY <2>1, <2>2
<1>8. NoEntries' = NoEntries /\ Zeroes' = Zeroes
  BY DEF NoEntries, Zeroes, FreeSlot, Entry
<1> QED
  BY <1>2, <1>6, <1>7, <1>8 DEF Cleared, Placed

\* The file has the blocks its new length takes.
LEMMA RoundMaps ==
  ASSUME LayoutOK, Good, AppendBlock, NEW i, NEW f, NEW x, NEW at, NEW n, NEW src,
         Round(i, f, x, at, n, src)
  PROVE  Mapped'
<1>1. INums' = INums
  BY DEF INums
<1>2. PICK y, w : y = f * BSIZE /\ w = MAXFILE * BSIZE
  OBVIOUS
<1>3. /\ i \in INums /\ f \in Nat /\ f < MAXFILE /\ MAXFILE \in Nat /\ y \in Nat
      /\ at \in 0 .. BSIZE - 1 /\ n \in Nat \ {0} /\ at + n <= BSIZE
      /\ Length(i) = y + at /\ Length(i)' = y + at + n
  <2>1. src \in Seq(Contents) /\ n \in 1 .. Len(src)
    BY DEF Round
  <2>2. n \in Nat \ {0}
    BY <2>1
  <2> QED
    BY <1>2, <2>2 DEF Round
<1>4. w \in Nat /\ y + BSIZE <= w
  BY <1>2, <1>3, TimesMono
<1>5. ASSUME NEW j \in INums
      PROVE  /\ Length(j)' <= w
             /\ \A p \in 0 .. MAXFILE - 1 : At(j, p)' # 0 <=> p * BSIZE < Length(j)'
  <2>1. CASE j # i
    <3>1. Length(j)' = Length(j) /\ \A p \in 0 .. MAXFILE - 1 : At(j, p)' = At(j, p)
      BY <2>1 DEF Round, Grows, Positions0
    <3> QED
      BY <1>2, <3>1 DEF Good, Mapped
  <2>2. CASE j = i
    <3>1. Length(j)' <= w
      BY <1>3, <1>4, <2>2
    <3>2. ASSUME NEW p \in 0 .. MAXFILE - 1 PROVE At(i, p)' # 0 <=> p * BSIZE < Length(i)'
      <4>1. PICK z : z = p * BSIZE
        OBVIOUS
      <4>2. p \in Nat /\ z \in Nat
        BY <4>1
      <4>3. At(i, p) # 0 <=> z < Length(i)
        BY <1>3, <4>1 DEF Good, Mapped
      <4>4. CASE p = f
        <5>1. At(i, p)' # 0
          BY <4>4 DEF Round, Grows
        <5>2. z = y
          BY <1>2, <4>1, <4>4
        <5> QED
          BY <1>3, <4>1, <5>1, <5>2
      <4>5. CASE p < f
        <5>1. z + BSIZE <= y
          BY <1>2, <1>3, <4>1, <4>2, <4>5, TimesMono
        <5>2. At(i, p)' = At(i, p)
          BY <1>3, <4>2, <4>5 DEF Round, Grows
        <5> QED
          BY <1>3, <4>1, <4>2, <4>3, <5>1, <5>2
      <4>6. CASE f < p
        <5>1. y + BSIZE <= z
          BY <1>2, <1>3, <4>1, <4>2, <4>6, TimesMono
        <5>2. At(i, p)' = At(i, p)
          BY <1>3, <4>2, <4>6 DEF Round, Grows
        <5> QED
          BY <1>3, <4>1, <4>2, <4>3, <5>1, <5>2
      <4> QED
        BY <1>3, <4>2, <4>4, <4>5, <4>6
    <3> QED
      BY <2>2, <3>1, <3>2
  <2> QED
    BY <2>1, <2>2
<1> QED
  BY <1>1, <1>2, <1>5 DEF Mapped

\* ... with what belongs there.
LEMMA RoundFills ==
  ASSUME LayoutOK, Good, AppendBlock, NEW i, NEW f, NEW x, NEW at, NEW n, NEW src,
         Round(i, f, x, at, n, src)
  PROVE  Filled'
<1>1. INums' = INums
  BY DEF INums
<1>2. PICK y : y = f * BSIZE
  OBVIOUS
<1>3. /\ i \in INums /\ f \in Nat /\ f < MAXFILE /\ MAXFILE \in Nat /\ y \in Nat
      /\ f \in 0 .. MAXFILE - 1
      /\ at \in 0 .. BSIZE - 1 /\ n \in 1 .. Len(src) /\ Len(src) \in Nat /\ at + n <= BSIZE
      /\ Length(i) = y + at /\ Length(i)' = y + at + n
  <2>1. src \in Seq(Contents) /\ n \in 1 .. Len(src)
    BY DEF Round
  <2>2. Len(src) \in Nat
    BY <2>1
  <2> QED
    BY <1>2, <2>1, <2>2 DEF Round
<1>4. ASSUME NEW j \in INums, NEW p \in 0 .. MAXFILE - 1, NEW r \in 0 .. BSIZE - 1,
             At(j, p)' # 0
      PROVE  Holds(j, p * BSIZE + r, data[At(j, p)][r])'
  <2>1. PICK e, z : e = data'[At(j, p)'][r] /\ z = p * BSIZE
    OBVIOUS
  <2>2. z \in Nat /\ p \in Nat /\ p \in Positions0
    BY <2>1 DEF Positions0
  <2> SUFFICES IF z + r < Length(j)' THEN Belongs(j, z + r, e) ELSE e = FreeSlot
    BY <2>1 DEF Holds, Belongs, FreeSlot, Entry, Unit
  <2>3. ASSUME At(j, p) # 0, ~(j = i /\ p = f /\ r \in at .. at + n - 1)
        PROVE  IF z + r < Length(j) THEN Belongs(j, z + r, e) ELSE e = FreeSlot
    <3>1. e = data[At(j, p)][r]
      BY <2>1, <2>3, RoundStays
    <3>2. Holds(j, z + r, e)
      BY <2>1, <2>3, <3>1 DEF Good, Filled
    <3> QED
      BY <3>2 DEF Holds
  <2>4. Length(j) \in Nat
    BY Basics
  <2>5. CASE j # i
    <3>1. Length(j)' = Length(j) /\ At(j, p)' = At(j, p)
      BY <2>2, <2>5 DEF Round, Grows
    <3> QED
      BY <1>4, <2>3, <2>5, <3>1
  <2>6. CASE j = i /\ p # f
    <3>1. At(j, p)' = At(j, p)
      BY <2>2, <2>6 DEF Round, Grows
    <3>2. z < y + at
      BY <1>3, <1>4, <2>1, <2>6, <3>1 DEF Good, Mapped
    <3>3. p < f
      <4> SUFFICES ASSUME f < p PROVE FALSE
        BY <1>3, <2>2, <2>6
      <4>1. y + BSIZE <= z
        BY <1>2, <1>3, <2>1, <2>2, TimesMono
      <4> QED
        BY <1>3, <2>2, <3>2, <4>1
    <3>4. z + BSIZE <= y
      BY <1>2, <1>3, <2>1, <2>2, <3>3, TimesMono
    <3>5. z + r < Length(j) /\ z + r < Length(j)'
      BY <1>3, <2>2, <2>6, <3>4
    <3> QED
      BY <1>4, <2>3, <2>6, <3>1, <3>5
  <2>7. CASE j = i /\ p = f
    <3>1. z = y /\ At(i, f)' = x
      BY <1>2, <2>1, <2>7 DEF Round, Grows
    <3>2. CASE r \in at .. at + n - 1
      <4>1. PICK m : m = r - at + 1
        OBVIOUS
      <4>2. m \in 1 .. Len(src) /\ (y + at) + m - 1 = y + r
        BY <1>3, <3>2, <4>1
      <4>3. e = src[m]
        BY <2>1, <2>7, <3>1, <3>2, <4>1 DEF Round
      <4>4. /\ pc = "iappend" /\ src = call.src /\ i = call.inum /\ call.off = y + at
        BY <1>3, RoundIs DEF Round
      <4>5. Belongs(i, (y + at) + m - 1, src[m])
        BY <4>2, <4>4 DEF Good, CallOK
      <4>6. Belongs(i, y + r, e)
        BY <4>2, <4>3, <4>5
      <4>7. y + r < Length(j)'
        BY <1>3, <2>7, <3>2
      <4> QED
        BY <2>7, <3>1, <4>6, <4>7
    <3>3. CASE r < at
      <4>1. f * BSIZE < Length(i)
        BY <1>2, <1>3, <3>3
      <4>2. At(i, f) # 0
        BY <1>3, <4>1 DEF Good, Mapped
      <4>3. r \notin at .. at + n - 1
        BY <1>3, <3>3
      <4>4. z + r < Length(j) /\ z + r < Length(j)'
        BY <1>3, <2>7, <3>1, <3>3
      <4> QED
        BY <2>3, <2>7, <4>2, <4>3, <4>4
    <3>4. CASE r >= at + n
      <4>1. r \notin at .. at + n - 1
        BY <1>3, <3>4
      <4>2. ~(z + r < Length(j)) /\ ~(z + r < Length(j)')
        BY <1>3, <2>7, <3>1, <3>4
      <4>3. CASE At(i, f) # 0
        BY <2>3, <2>7, <4>1, <4>2, <4>3
      <4>4. CASE At(i, f) = 0
        <5>1. x >= used_block /\ x \in Blocks
          <6>1. x \in used_block .. used_block' - 1 /\ used_block \in Nat /\ used_block' \in Nat
            BY <3>1, <4>4, Basics DEF Round, Grows
          <6> QED
            BY <6>1 DEF Round
        <5>2. data[x] = Zeroes
          BY <5>1 DEF Good, BlocksOK, Cleared
        <5>3. e = data[x][r]
          BY <2>1, <2>7, <3>1, <4>1 DEF Round
        <5>4. e = FreeSlot
          BY <5>2, <5>3 DEF Zeroes
        <5> QED
          BY <4>2, <5>4
      <4> QED
        BY <4>3, <4>4
    <3>5. r < at \/ r \in at .. at + n - 1 \/ r >= at + n
      BY <1>3
    <3> QED
      BY <3>2, <3>3, <3>4, <3>5
  <2> QED
    BY <2>5, <2>6, <2>7
<1> QED
  BY <1>1, <1>4 DEF Filled

\* An entry of the root is appended under the name that was new.
LEMMA RoundNames ==
  ASSUME LayoutOK, Good, AppendBlock, NEW i, NEW f, NEW x, NEW at, NEW n, NEW src,
         Round(i, f, x, at, n, src)
  PROVE  NamesOK'
<1>1. PICK l : l = Length(ROOTINO)
  OBVIOUS
<1>2. l \in Nat /\ ROOTINO \in INums
  BY <1>1, Basics
<1>3. ASSUME NEW k \in 2 .. l - 1 PROVE Slot(k)' = Slot(k)
  <2>1. k \in Nat /\ k < Length(ROOTINO)
    BY <1>1, <1>2
  <2>2. PICK q, r : q = k \div BSIZE /\ r = k % BSIZE
    OBVIOUS
  <2>3. /\ q \in 0 .. MAXFILE - 1 /\ r \in 0 .. BSIZE - 1 /\ q * BSIZE + r = k
        /\ At(ROOTINO, q) # 0
    BY <1>2, <2>1, <2>2, InFile
  <2>4. ~(ROOTINO = i /\ q = f /\ r \in at .. at + n - 1)
    <3> SUFFICES ASSUME ROOTINO = i, q = f, r \in at .. at + n - 1 PROVE FALSE
      OBVIOUS
    <3>1. PICK y : y = f * BSIZE
      OBVIOUS
    <3>2. l = y + at /\ y \in Nat /\ at \in Nat
      BY <1>1, <3>1 DEF Round
    <3>3. k = y + r /\ r >= at
      BY <2>3, <3>1, <3>2 DEF Round
    <3> QED
      BY <1>1, <2>1, <2>3, <3>2, <3>3
  <2>5. At(ROOTINO, q)' = At(ROOTINO, q) /\ data'[At(ROOTINO, q)][r] = data[At(ROOTINO, q)][r]
    BY <1>2, <2>3, <2>4, RoundStays
  <2> QED
    BY <2>2, <2>5 DEF Slot
<1>4. \A j, k \in 2 .. l - 1 : Slot(j).name = Slot(k).name => j = k
  BY <1>1 DEF Good, NamesOK
<1>5. CASE i # ROOTINO
  <2>1. Length(ROOTINO)' = l /\ Pending(ROOTINO)' = 0
    BY <1>1, <1>2, <1>5 DEF Round
  <2> QED
    BY <1>3, <1>4, <2>1 DEF NamesOK
<1>6. CASE i = ROOTINO
  <2>1. src \in Seq(Contents) /\ n \in 1 .. Len(src) /\ Pending(ROOTINO) = Len(src) /\ src = call.src
    BY <1>6 DEF Round
  <2>2. Len(src) = 1 /\ \A k \in 2 .. l - 1 : Slot(k).name # src[1].name
    <3>1. Pending(ROOTINO) # 0 /\ Pending(ROOTINO) = Len(src)
      BY <2>1
    <3>2. Pending(ROOTINO) = 1 /\ \A k \in 2 .. Length(ROOTINO) - 1 : Slot(k).name # call.src[1].name
      BY <3>1 DEF Good, NamesOK
    <3> QED
      BY <1>1, <2>1, <3>1, <3>2
  <2>3. n = 1
    BY <2>1, <2>2
  <2>4. Length(ROOTINO)' = l + 1 /\ Pending(ROOTINO)' = 0
    BY <1>1, <1>6, <2>2, <2>3 DEF Round
  <2>5. Slot(l)' = src[1]
    <3>1. f \in Nat /\ at \in 0 .. BSIZE - 1 /\ l = f * BSIZE + at
      BY <1>1, <1>6 DEF Round
    <3>2. l \div BSIZE = f /\ l % BSIZE = at
      BY <3>1, DivModOf
    <3>3. At(ROOTINO, f)' = x
      BY <1>6 DEF Round, Grows
    <3>4. data'[x][at] = src[1]
      <4>1. at \in at .. at + n - 1 /\ at - at + 1 = 1
        BY <2>3, <3>1
      <4>2. data'[x][at] = src[at - at + 1]
        BY <3>1, <4>1 DEF Round
      <4> QED
        BY <4>1, <4>2
    <3> QED
      BY <3>2, <3>3, <3>4 DEF Slot
  <2>6. ASSUME NEW j \in 2 .. l, NEW k \in 2 .. l, Slot(j)'.name = Slot(k)'.name PROVE j = k
    <3>1. CASE j # l /\ k # l
      <4>1. j \in 2 .. l - 1 /\ k \in 2 .. l - 1
        BY <1>2, <3>1
      <4> QED
        BY <1>3, <1>4, <2>6, <4>1
    <3>2. CASE j = l /\ k # l
      <4>1. k \in 2 .. l - 1
        BY <1>2, <3>2
      <4> QED
        BY <1>3, <2>2, <2>5, <2>6, <3>2, <4>1
    <3>3. CASE j # l /\ k = l
      <4>1. j \in 2 .. l - 1
        BY <1>2, <3>3
      <4> QED
        BY <1>3, <2>2, <2>5, <2>6, <3>3, <4>1
    <3> QED
      BY <3>1, <3>2, <3>3
  <2>7. 2 .. Length(ROOTINO)' - 1 = 2 .. l
    BY <1>2, <2>4
  <2>8. \A j, k \in 2 .. Length(ROOTINO)' - 1 : Slot(j)'.name = Slot(k)'.name => j = k
    BY <2>6, <2>7
  <2> QED
    BY <2>4, <2>8 DEF NamesOK
<1> QED
  BY <1>5, <1>6

LEMMA AppendBlockKeeps ==
  ASSUME LayoutOK, Good, AppendBlock
  PROVE  Good'
<1>1. PICK i, f, x, at, n, src : Round(i, f, x, at, n, src)
  BY RoundFacts
<1>2. /\ pc = "iappend" /\ pc' = "iappend" /\ geo' = geo /\ ino' = ino /\ host' = host
      /\ freeinode' = freeinode /\ i = call.inum
      /\ call'.inum = i /\ call'.din = Found.din /\ call'.ret = call.ret
  BY <1>1, RoundIs DEF Round
<1>3. BlocksOK' /\ Mapped' /\ Filled' /\ NamesOK'
  BY <1>1, RoundBlocks, RoundClears, RoundMaps, RoundFills, RoundNames DEF BlocksOK
<1>4. /\ Found.din \in INodes /\ Found.ind \in [Blocks -> Indirects] /\ Found.used \in Nat
      /\ Found.din.type = call.din.type /\ Found.din.nlink = call.din.nlink
  BY RoundFinds DEF Alike
<1>5. Blocks' = Blocks /\ INums' = INums /\ INodes' = INodes /\ Contents' = Contents
  BY <1>2 DEF Blocks, INums, INodes, Contents, Addrs
<1>6. call.ret \in {"dotdot", "files", "copy"} /\ i \in INums
  BY <1>2 DEF Good, StateOK, Calls
<1>7. call' \in Calls
  <2>1. PICK o, t : o = call'.off /\ t = call'.src
    OBVIOUS
  <2>2. o \in Nat
    <3>1. Length(i)' = o
      BY <1>2, <2>1 DEF Length
    <3>2. Length(i) \in Nat /\ src \in Seq(Contents) /\ n \in 1 .. Len(src)
          /\ Length(i)' = Length(i) + n
      BY <1>1, <1>6, Basics DEF Round
    <3> QED
      BY <3>1, <3>2
  <2>3. t \in Seq(Contents)
    BY <1>1, <2>1 DEF Round
  <2>4. call' = [inum |-> i, din |-> Found.din, off |-> o, src |-> t, ret |-> call.ret]
    BY <1>2, <2>1, RoundIs
  <2> QED
    BY <1>4, <1>6, <2>2, <2>3, <2>4 DEF Calls
<1>8. StateOK'
  <2>1. data' \in [Blocks -> [0 .. BSIZE - 1 -> Contents]]
    BY RoundWrites
  <2>2. ind' \in [Blocks -> Indirects] /\ used_block' \in Nat
    BY <1>4, RoundIs
  <2>3. Indirects' = Indirects /\ Calls' = Calls
    BY DEF Indirects, Calls, INums, INodes, Contents, Addrs
  <2>4. /\ ino' \in [INums -> INodes] /\ host' \in [INums -> [size : Nat, copied : Nat]]
    BY <1>2 DEF Good, StateOK
  <2> QED
    BY <1>2, <1>5, <1>7, <2>1, <2>2, <2>3, <2>4 DEF StateOK
<1>9. Stage' = Stage /\ Expected' = Expected /\ inum' = inum
  BY <1>2 DEF Stage, Expected, inum
<1>10. INodesOK'
  <2>1. ASSUME NEW j \in INums PROVE Cur(j)'.nlink = Cur(j).nlink /\ Cur(j)'.type = Cur(j).type
    BY <1>2, <1>4 DEF Cur
  <2>2. FreeINode' = FreeINode
    BY DEF FreeINode
  <2> QED
    BY <1>2, <1>5, <1>9, <2>1, <2>2 DEF Good, INodesOK
<1>11. /\ i \in INums /\ src \in Seq(Contents) /\ n \in 1 .. Len(src) /\ src = call.src
       /\ Len(call'.src) = Len(src) - n /\ Length(i) \in Nat
       /\ call.off = Length(i) /\ Length(i)' = Length(i) + n
       /\ Pending(i) = Len(src) /\ Pending(i)' = Len(src) - n
  BY <1>1, Basics DEF Round
<1>12. CallOK'
  <2>1. call'.off = Length(i) + n
    BY <1>2, <1>11 DEF Length
  <2>2. ASSUME NEW m \in 1 .. Len(call'.src)
        PROVE  Belongs(i, call'.off + m - 1, call'.src[m])
    <3>1. n + m \in 1 .. Len(src) /\ call'.off + m - 1 = call.off + (n + m) - 1
      BY <1>11, <2>1
    <3>2. call'.src[m] = src[n + m]
      BY <1>1, <1>11 DEF Round
    <3>3. Belongs(i, call.off + (n + m) - 1, src[n + m])
      BY <1>2, <1>11, <3>1 DEF Good, CallOK
    <3> QED
      BY <3>1, <3>2, <3>3
  <2>3. /\ i < freeinode
        /\ i # ROOTINO => i = inum /\ call.ret = "copy"
    BY <1>2 DEF Good, CallOK
  <2> QED
    BY <1>2, <1>9, <2>2, <2>3 DEF CallOK, Belongs, Entry, Unit
<1>13. \A j \in INums : Length(j)' + Pending(j)' = Length(j) + Pending(j)
  <2>1. \A j \in INums \ {i} : Length(j)' + Pending(j)' = Length(j) + Pending(j)
    BY <1>1 DEF Round
  <2>2. Length(i)' + Pending(i)' = Length(i) + Pending(i)
    BY <1>11
  <2> QED
    BY <2>1, <2>2
<1>14. RootOK'
  <2>1. ROOTINO \in INums
    BY Basics
  <2> QED
    BY <1>2, <1>9, <1>13, <2>1 DEF Good, RootOK
<1>15. HostOK'
  BY <1>2, <1>5, <1>9, <1>13 DEF Good, HostOK
<1>16. DoneOK'
  BY <1>2 DEF DoneOK
<1> QED
  BY <1>3, <1>8, <1>10, <1>12, <1>14, <1>15, <1>16 DEF Good

----------------------------------------------------------------------------
(* The invariant.                                                          *)

LEMMA InitGood ==
  ASSUME Init
  PROVE  LayoutOK /\ Good
<1>1. LayoutOK
  BY DEF Init, LayoutOK
<1>2. /\ pc = "layout" /\ freeinode = 1 /\ used_block = 0
      /\ ino = [i \in INums |-> FreeINode] /\ ind = [b \in Blocks |-> NoEntries]
      /\ data = [b \in Blocks |-> Zeroes]
      /\ host = [i \in INums |-> [size |-> 0, copied |-> 0]]
  BY DEF Init
<1>3. nmeta \in Nat /\ nmeta > 0 /\ geo.FSSIZE \in Nat /\ geo.NINODES \in 2 .. MaxINodes
  BY <1>1, Meta
<1>4. ASSUME NEW i \in INums
      PROVE  /\ Cur(i) = FreeINode /\ Length(i) = 0 /\ Pending(i) = 0
             /\ \A p \in Positions0 : At(i, p) = 0
  <2>1. Cur(i) = FreeINode /\ Length(i) = FreeINode.size /\ Pending(i) = 0
    BY <1>2 DEF Cur, Length, Pending
  <2>2. FreeINode.size = 0
    BY DEF FreeINode
  <2>3. \A p \in Positions0 : At(i, p) = 0
    BY <2>1, NoBlocks DEF At
  <2> QED
    BY <2>1, <2>2, <2>3
<1>5. FreeINode \in INodes
  BY DEF FreeINode, INodes, Addrs
<1>6. NoEntries \in Indirects /\ Zeroes \in [0 .. BSIZE - 1 -> Contents]
  BY DEF NoEntries, Indirects, Zeroes, Contents, FreeSlot, Entry
<1>7. StateOK
  BY <1>2, <1>5, <1>6 DEF StateOK
<1>8. INodesOK
  BY <1>2, <1>3 DEF INodesOK, Stage, INums
<1>9. BlocksOK
  <2>1. Started
    BY <1>2, <1>3 DEF Started
  <2>2. Ranged /\ OneOwner
    BY <1>4 DEF Ranged, OneOwner
  <2>3. Owned
    BY <1>2, <1>3 DEF Owned, InUse
  <2>4. Cleared /\ Placed
    BY <1>2 DEF Cleared, Placed
  <2> QED
    BY <2>1, <2>2, <2>3, <2>4 DEF BlocksOK
<1>10. Mapped
  <2>1. \A p \in 0 .. MAXFILE - 1 : p \in Positions0 /\ p * BSIZE \in Nat
    BY DEF Positions0
  <2>2. MAXFILE * BSIZE \in Nat
    OBVIOUS
  <2> QED
    BY <1>4, <2>1, <2>2 DEF Mapped
<1>11. Filled
  <2>1. \A p \in 0 .. MAXFILE - 1 : p \in Positions0
    BY DEF Positions0
  <2> QED
    BY <1>4, <2>1 DEF Filled
<1>12. ROOTINO \in INums
  BY <1>3 DEF INums
<1>13. CallOK /\ HostOK /\ DoneOK
  BY <1>2 DEF CallOK, HostOK, DoneOK, INums
<1>14. RootOK /\ NamesOK
  BY <1>2, <1>4, <1>12 DEF RootOK, NamesOK, Expected, Stage
<1> QED
  BY <1>1, <1>7, <1>8, <1>9, <1>10, <1>11, <1>13, <1>14 DEF Good

\* A step that changes nothing.
LEMMA StutterKeeps ==
  ASSUME Good, UNCHANGED vars
  PROVE  Good'
<1>1. /\ geo' = geo /\ pc' = pc /\ sector1' = sector1 /\ ino' = ino /\ ind' = ind /\ data' = data
      /\ bitmap' = bitmap /\ freeinode' = freeinode /\ used_block' = used_block
      /\ call' = call /\ host' = host
  BY DEF vars
<1>2. StateOK' <=> StateOK
  BY <1>1 DEF StateOK, Calls, INodes, Addrs, Indirects, Contents, Blocks, INums
<1>3. INodesOK' <=> INodesOK
  BY <1>1 DEF INodesOK, Stage, Cur, FreeINode, INums
<1>4. BlocksOK' <=> BlocksOK
  BY <1>1 DEF BlocksOK, Started, Ranged, OneOwner, Owned, Cleared, Placed, InUse, At, Cur, Place,
     Blocks, INums, Positions0, NoEntries, Zeroes, FreeSlot, Entry, nmeta, ninodeblocks, nbitmap
<1>5. (Mapped' <=> Mapped) /\ (Filled' <=> Filled)
  BY <1>1 DEF Mapped, Filled, Holds, Belongs, Length, At, Cur, Place, INums, FreeSlot, Entry, Unit
<1>6. (CallOK' <=> CallOK) /\ (DoneOK' <=> DoneOK)
  BY <1>1 DEF CallOK, DoneOK, Belongs, Entry, Unit, inum, Marked
<1>7. (RootOK' <=> RootOK) /\ (NamesOK' <=> NamesOK) /\ (HostOK' <=> HostOK)
  BY <1>1 DEF RootOK, NamesOK, HostOK, Length, Pending, Expected, Stage, Slot, At, Cur, Place,
     RoundUp, INums, inum
<1> QED
  BY <1>2, <1>3, <1>4, <1>5, <1>6, <1>7 DEF Good

\* Every step of mkfs keeps the invariant.
LEMMA StepKeeps ==
  ASSUME IInv, [Next]_vars
  PROVE  IInv'
<1>1. LayoutOK /\ LayoutOK'
  BY LayoutInv DEF IInv
<1> SUFFICES ASSUME pc' # "failed" PROVE Good'
  BY <1>1 DEF IInv
<1>2. pc # "failed" => Good
  BY DEF IInv
<1>3. CASE UNCHANGED vars
  <2>1. pc' = pc
    BY <1>3 DEF vars
  <2> QED
    BY <1>2, <1>3, <2>1, StutterKeeps
<1>4. CASE Next
  <2>1. CASE Layout
    BY <1>1, <1>2, <2>1, LayoutKeeps DEF Layout
  <2>2. CASE IallocRoot
    BY <1>1, <1>2, <2>2, IallocRootKeeps DEF IallocRoot
  <2>3. CASE AppendDot("dot", ".", "dotdot")
    BY <1>1, <1>2, <2>3, AppendDotKeeps DEF AppendDot
  <2>4. CASE AppendDot("dotdot", "..", "files")
    BY <1>1, <1>2, <2>4, AppendDotKeeps DEF AppendDot
  <2>5. CASE \E n \in FileNames, size \in Sizes : AddFile(n, size)
    <3>1. PICK n \in FileNames, size \in Sizes : AddFile(n, size)
      BY <2>5
    <3>2. Good
      BY <1>2, <3>1 DEF AddFile
    <3> QED
      BY <1>1, <3>1, <3>2, AddFileKeeps
  <2>6. CASE \E cc \in 1 .. BSIZE : CopyChunk(cc)
    <3>1. PICK cc \in 1 .. BSIZE : CopyChunk(cc)
      BY <2>6
    <3>2. Good
      BY <1>2, <3>1 DEF CopyChunk
    <3> QED
      BY <1>1, <3>1, <3>2, CopyChunkKeeps
  <2>7. CASE CopyDone
    BY <1>1, <1>2, <2>7, CopyDoneKeeps DEF CopyDone
  <2>8. CASE AppendBlock
    BY <1>1, <1>2, <2>8, AppendBlockKeeps DEF AppendBlock
  <2>9. CASE AppendFails
    BY <2>9 DEF AppendFails
  <2>10. CASE AppendEnd
    BY <1>1, <1>2, <2>10, AppendEndKeeps DEF AppendEnd
  <2>11. CASE FixRoot
    BY <1>1, <1>2, <2>11, FixRootKeeps DEF FixRoot
  <2>12. CASE Balloc
    BY <1>1, <1>2, <2>12, BallocKeeps DEF Balloc
  <2>13. CASE BallocFails
    BY <2>13 DEF BallocFails
  <2> QED
    BY <1>4, <2>1, <2>2, <2>3, <2>4, <2>5, <2>6, <2>7, <2>8, <2>9, <2>10, <2>11, <2>12, <2>13 DEF Next
<1> QED
  BY <1>3, <1>4

\* Whatever main does, and wherever iappend is: inodes are given in order; every
\* block from the first one after the metadata to the last one taken is at one
\* position of one file, and files have the blocks and the content of their
\* length; the root has an entry for each inode under a name of its own.
THEOREM Invariance == Spec => []IInv
<1>1. Init => IInv
  BY InitGood DEF IInv
<1>2. IInv /\ [Next]_vars => IInv'
  BY StepKeeps
<1> QED
  BY <1>1, <1>2, PTL DEF Spec

----------------------------------------------------------------------------
(* The finished image.                                                     *)

\* The daemon finds the blocks where mkfs put them.
LEMMA DoneIs ==
  ASSUME LayoutOK, Good, pc = "done"
  PROVE  /\ \A i \in INums, p \in Positions0 : Phys(i, p) = At(i, p)
         /\ \A i \in INums : Pending(i) = 0 /\ Cur(i) = ino[i]
         /\ \A i \in INums : i # ROOTINO => Length(i) = ino[i].size
         /\ Length(ROOTINO) = freeinode /\ ino[ROOTINO].size = RoundUp(freeinode)
         /\ freeinode \in 2 .. geo.NINODES
<1>1. ASSUME NEW i \in INums, NEW p \in Positions0 PROVE Phys(i, p) = At(i, p)
  <2>1. PICK a : a = ino[i].addrs
    OBVIOUS
  <2>2. At(i, p) = Place(a, ind, p)
    BY <2>1 DEF At, Cur
  <2>3. Phys(i, p) = CASE p < NDIRECT -> a[p]
                       [] p = MAXFILE -> a[NDIRECT]
                       [] OTHER -> IF a[NDIRECT] = 0 THEN 0 ELSE ind[a[NDIRECT]][p - NDIRECT]
    BY <2>1 DEF Phys
  <2>4. p \in Nat
    BY DEF Positions0
  <2>5. CASE p < NDIRECT
    BY <2>2, <2>3, <2>4, <2>5 DEF Place
  <2>6. CASE p = MAXFILE
    BY <2>2, <2>3, <2>4, <2>6 DEF Place
  <2>7. CASE ~(p < NDIRECT) /\ p # MAXFILE
    BY <2>2, <2>3, <2>4, <2>7 DEF Place
  <2> QED
    BY <2>5, <2>6, <2>7
<1>2. \A i \in INums : Pending(i) = 0 /\ Cur(i) = ino[i]
  BY DEF Pending, Cur
<1>3. \A i \in INums : i # ROOTINO => Length(i) = ino[i].size
  BY DEF Length
<1>4. Length(ROOTINO) = freeinode /\ ino[ROOTINO].size = RoundUp(freeinode)
  BY DEF Length, Good, RootOK
<1>5. freeinode \in 2 .. geo.NINODES
  <2>1. freeinode \in 1 .. geo.NINODES /\ freeinode # 1
    BY DEF Good, INodesOK
  <2>2. geo.NINODES \in Nat
    BY Meta
  <2> QED
    BY <2>1, <2>2
<1> QED
  BY <1>1, <1>2, <1>3, <1>4, <1>5

\* Every file of the image reads as the file it was copied from, in whatever
\* portions it was read, and has exactly the blocks its size takes.
THEOREM FilesReadBackHolds == Spec => []FilesReadBack
<1>1. IInv => FilesReadBack
  <2> SUFFICES ASSUME LayoutOK, Good, pc = "done", NEW i \in INums, ino[i].type = "T_FILE"
               PROVE  /\ ino[i].size = host[i].size
                      /\ \A k \in 0 .. ino[i].size - 1 : ReadUnit(i, k) = Unit(i, k + 1)
                      /\ \A p \in 0 .. MAXFILE - 1 : Phys(i, p) # 0 <=> p * BSIZE < ino[i].size
    BY DEF IInv, FilesReadBack
  <2>1. i \in Nat /\ freeinode \in Nat
    BY Basics DEF INums
  <2>2. i < freeinode
    <3>1. FreeINode.type # "T_FILE"
      BY DEF FreeINode
    <3>2. i >= freeinode => ino[i] = FreeINode
      BY DEF Good, INodesOK
    <3> QED
      BY <2>1, <3>1, <3>2
  <2>3. i # ROOTINO
    <3>1. Cur(i) = ino[i]
      BY DoneIs
    <3> QED
      BY <2>2, <3>1 DEF Good, INodesOK
  <2>4. Length(i) = ino[i].size /\ Pending(i) = 0 /\ Length(i) \in Nat
    BY <2>3, DoneIs, Basics
  <2>5. ino[i].size = host[i].size
    <3>1. Length(i) + Pending(i) = host[i].copied /\ host[i].copied = host[i].size
      BY <2>2, <2>3 DEF Good, HostOK, Stage
    <3> QED
      BY <2>4, <3>1
  <2>6. ASSUME NEW k \in 0 .. ino[i].size - 1 PROVE ReadUnit(i, k) = Unit(i, k + 1)
    <3>1. k \in Nat /\ k < Length(i)
      BY <2>4
    <3>2. PICK q, r : q = k \div BSIZE /\ r = k % BSIZE
      OBVIOUS
    <3>3. q \in Positions0 /\ At(i, q) # 0
      BY <3>1, <3>2, InFile
    <3>4. Phys(i, q) = At(i, q)
      BY <3>3, DoneIs
    <3>5. Belongs(i, k, data[At(i, q)][r])
      BY <3>1, <3>2, HasContent
    <3>6. data[At(i, q)][r] = Unit(i, k + 1)
      BY <2>3, <3>5 DEF Belongs
    <3> QED
      BY <3>2, <3>3, <3>4, <3>6 DEF ReadUnit
  <2>7. ASSUME NEW p \in 0 .. MAXFILE - 1 PROVE Phys(i, p) # 0 <=> p * BSIZE < ino[i].size
    <3>1. p \in Positions0
      BY DEF Positions0
    <3>2. Phys(i, p) = At(i, p)
      BY <3>1, DoneIs
    <3> QED
      BY <2>4, <3>2 DEF Good, Mapped
  <2> QED
    BY <2>5, <2>6, <2>7
<1> QED
  BY <1>1, Invariance, PTL

\* To count by numbering.
LEMMA Numbered ==
  ASSUME NEW S, NEW T, NEW g \in [S -> T], \A x, y \in S : g[x] = g[y] => x = y,
         \A z \in T : \E x \in S : g[x] = z
  PROVE  ExistsBijection(S, T)
<1>1. g \in Injection(S, T)
  BY DEF Injection, IsInjective
<1>2. g \in Surjection(S, T)
  BY DEF Surjection
<1> QED
  BY <1>1, <1>2 DEF ExistsBijection, Bijection

\* The blocks of files are the ones after the metadata, and in the image.
LEMMA BlocksCount ==
  ASSUME LayoutOK, Good, pc = "done"
  PROVE  /\ Referenced = InUse /\ InUse = nmeta .. used_block - 1
         /\ IsFiniteSet(Referenced) /\ Cardinality(Referenced) = used_block - nmeta
         /\ Cardinality(Positions) = Cardinality(Referenced)
         /\ nmeta < used_block /\ used_block <= geo.FSSIZE
<1>1. /\ nmeta \in Nat /\ used_block \in Nat /\ geo.FSSIZE \in Nat
      /\ used_block <= nmeta \/ used_block <= geo.FSSIZE
  BY Basics DEF Good, BlocksOK, Started
<1>2. \A i \in INums, p \in Positions0 : Phys(i, p) = At(i, p)
  BY DoneIs
<1>3. Referenced = InUse
  <2>1. ASSUME NEW b \in Referenced PROVE b \in InUse
    <3>1. PICK q \in INums \X Positions0 : Phys(q[1], q[2]) = b /\ b # 0
      BY DEF Referenced, Positions, Positions0
    <3>2. q[1] \in INums /\ q[2] \in Positions0
      BY <3>1
    <3> QED
      BY <1>2, <3>1, <3>2 DEF Good, BlocksOK, Ranged
  <2>2. ASSUME NEW b \in InUse PROVE b \in Referenced
    <3>1. PICK i \in INums, p \in Positions0 : At(i, p) = b
      BY DEF Good, BlocksOK, Owned
    <3>2. b # 0 /\ Phys(i, p) = b
      BY <1>2, <3>1, InImage
    <3>3. PICK q : q = <<i, p>>
      OBVIOUS
    <3>4. q \in INums \X Positions0 /\ q[1] = i /\ q[2] = p
      BY <3>3
    <3>5. q \in Positions /\ Phys(q[1], q[2]) = b
      BY <3>2, <3>4 DEF Positions, Positions0
    <3> QED
      BY <3>5 DEF Referenced
  <2> QED
    BY <2>1, <2>2
<1>4. InUse = nmeta .. used_block - 1
  BY <1>1 DEF InUse
<1>5. nmeta < used_block
  <2>1. freeinode \in Nat /\ 0 < freeinode /\ ROOTINO \in INums
    BY Basics
  <2>2. 0 < Length(ROOTINO) /\ 0 * BSIZE = 0 /\ 0 \in 0 .. MAXFILE - 1 /\ 0 \in Positions0
    BY <2>1, DoneIs DEF Positions0
  <2>3. At(ROOTINO, 0) # 0
    BY <2>1, <2>2 DEF Good, Mapped
  <2>4. At(ROOTINO, 0) \in InUse
    BY <2>1, <2>2, <2>3 DEF Good, BlocksOK, Ranged
  <2> QED
    BY <1>1, <1>4, <2>4
<1>6. used_block <= geo.FSSIZE
  BY <1>1, <1>5
<1>7. IsFiniteSet(Referenced) /\ Cardinality(Referenced) = used_block - nmeta
  <2>1. PICK a, b : a = nmeta /\ b = used_block - 1
    OBVIOUS
  <2>2. a \in Int /\ b \in Int /\ ~(a > b) /\ b - a + 1 = used_block - nmeta
    BY <1>1, <1>5, <2>1
  <2>3. IsFiniteSet(a .. b) /\ Cardinality(a .. b) = b - a + 1
    BY <2>2, FS_Interval
  <2> QED
    BY <1>3, <1>4, <2>1, <2>2, <2>3
<1>8. Cardinality(Positions) = Cardinality(Referenced)
  <2>1. PICK g : g = [q \in Positions |-> Phys(q[1], q[2])]
    OBVIOUS
  <2>2. g \in [Positions -> Referenced]
    BY <2>1 DEF Referenced
  <2>3. ASSUME NEW y \in Positions, NEW z \in Positions, g[y] = g[z] PROVE y = z
    <3>1. /\ y \in INums \X Positions0 /\ z \in INums \X Positions0
          /\ Phys(y[1], y[2]) # 0 /\ Phys(y[1], y[2]) = Phys(z[1], z[2])
      BY <2>1, <2>3 DEF Positions, Positions0
    <3>2. PICK i \in INums, p \in Positions0 : y = <<i, p>>
      BY <3>1
    <3>3. PICK j \in INums, q \in Positions0 : z = <<j, q>>
      BY <3>1
    <3>4. At(i, p) # 0 /\ At(i, p) = At(j, q)
      BY <1>2, <3>1, <3>2, <3>3
    <3>5. i = j /\ p = q
      BY <3>4 DEF Good, BlocksOK, OneOwner
    <3> QED
      BY <3>2, <3>3, <3>5
  <2>4. \A b \in Referenced : \E q \in Positions : g[q] = b
    BY <2>1 DEF Referenced
  <2>5. ExistsBijection(Positions, Referenced)
    BY <2>2, <2>3, <2>4, Numbered
  <2>6. ExistsBijection(Referenced, Positions)
    BY <2>5, Fun_ExistsBijSymmetric
  <2> QED
    BY <1>7, <2>6, FS_Bijection
<1> QED
  BY <1>3, <1>4, <1>5, <1>6, <1>7, <1>8

\* The image mkfs finishes has no block twice and none past its end, its bitmap
\* marks exactly what is taken, and op_statfs counts what is left.
THEOREM ImageExactHolds == Spec => []ImageExact
<1>1. IInv => ImageExact
  <2> SUFFICES ASSUME LayoutOK, Good, pc = "done"
               PROVE  /\ Cardinality(Referenced) = Cardinality(Positions)
                      /\ Referenced \subseteq Blocks
                      /\ bitmap = (0 .. nmeta - 1) \cup Referenced
                      /\ f_bfree = SuperBlockInit.nblocks - Cardinality(Referenced)
                      /\ f_ffree = SuperBlockInit.ninodes - (freeinode - 1)
    BY DEF IInv, ImageExact
  <2>1. PICK u, m, z, fi, ni : /\ u = used_block /\ m = nmeta /\ z = geo.FSSIZE
                               /\ fi = freeinode /\ ni = geo.NINODES
    OBVIOUS
  <2>2. /\ u \in Nat /\ m \in Nat /\ z \in Nat /\ m < u /\ u <= z
        /\ Referenced = m .. u - 1 /\ Cardinality(Referenced) = u - m
        /\ Cardinality(Positions) = Cardinality(Referenced)
    BY <2>1, Basics, BlocksCount
  <2>3. Referenced \subseteq Blocks
    BY <2>1, <2>2 DEF Blocks
  <2>4. bitmap = 0 .. u - 1
    BY <2>1 DEF Good, DoneOK, Marked
  <2>5. bitmap = (0 .. nmeta - 1) \cup Referenced
    BY <2>1, <2>2, <2>4
  <2>6. sector1 = Superblock
    BY DEF LayoutOK
  <2>7. /\ SuperBlockInit.size = z /\ SuperBlockInit.nblocks = z - m
        /\ SuperBlockInit.ninodes = ni
    BY <2>1, <2>6 DEF SuperBlockInit, Superblock
  <2>8. f_bfree = SuperBlockInit.nblocks - Cardinality(Referenced)
    <3>1. {b \in 0 .. SuperBlockInit.size - 1 : b \in bitmap} = 0 .. u - 1
      BY <2>2, <2>4, <2>7
    <3>2. Cardinality(0 .. u - 1) = u
      BY <2>2, FS_Interval
    <3>3. block_cnt = u
      BY <3>1, <3>2 DEF block_cnt
    <3> QED
      BY <2>1, <2>2, <2>7, <3>3 DEF f_bfree
  <2>9. f_ffree = SuperBlockInit.ninodes - (freeinode - 1)
    <3>1. fi \in 2 .. ni /\ ni \in Nat /\ ni <= MaxINodes
      BY <2>1, DoneIs, Meta
    <3>2. ASSUME NEW i \in 1 .. ni - 1 PROVE ino[i].type # "Invalid" <=> i < fi
      <4>1. i \in INums /\ Cur(i) = ino[i]
        BY <3>1, DoneIs DEF INums
      <4>2. i < fi => ino[i].type \in {"T_DIR", "T_FILE"}
        BY <2>1, <4>1 DEF Good, INodesOK
      <4>3. i >= fi => ino[i].type = "Invalid"
        BY <2>1, <4>1 DEF Good, INodesOK, FreeINode
      <4> QED
        BY <3>1, <4>2, <4>3
    <3>3. {i \in 1 .. SuperBlockInit.ninodes - 1 : ino[i].type # "Invalid"} = 1 .. fi - 1
      BY <2>7, <3>1, <3>2
    <3>4. Cardinality(1 .. fi - 1) = fi - 1
      BY <3>1, FS_Interval
    <3>5. inode_cnt = fi - 1
      BY <3>3, <3>4 DEF inode_cnt
    <3> QED
      BY <2>1, <2>7, <3>5 DEF f_ffree
  <2> QED
    BY <2>2, <2>3, <2>5, <2>8, <2>9
<1> QED
  BY <1>1, Invariance, PTL

\* A unit of a file is not an entry.
LEMMA UnitIsNoEntry ==
  ASSUME NEW i, NEW k, NEW j, NEW n
  PROVE  Unit(i, k) # Entry(j, n)
<1>1. DOMAIN Unit(i, k) = {"of", "unit"}
  BY DEF Unit
<1>2. DOMAIN Entry(j, n) = {"inum", "name"}
  BY DEF Entry
<1> QED
  BY <1>1, <1>2

\* The names in the root are the ones of its slots from the third on.
LEMMA InRootIs ==
  ASSUME LayoutOK, Good, pc = "done", NEW n \in FileNames
  PROVE  InRoot(n) <=> \E k \in 2 .. freeinode - 1 : Slot(k).name = n
<1>1. ROOTINO \in INums /\ Length(ROOTINO) = freeinode /\ freeinode \in Nat /\ freeinode <= MaxINodes
  BY Basics, DoneIs
<1>2. ASSUME InRoot(n) PROVE \E k \in 2 .. freeinode - 1 : Slot(k).name = n
  <2>1. PICK b \in Blocks, r \in 0 .. BSIZE - 1, i \in INums : data[b][r] = Entry(i, n)
    BY <1>2 DEF InRoot
  <2>2. Entry(i, n) # FreeSlot /\ Entry(i, n).name = n
    BY DEF Entry, FreeSlot, INums
  <2>3. data[b] # Zeroes
    BY <2>1, <2>2 DEF Zeroes
  <2>4. PICK j \in INums, p \in 0 .. MAXFILE - 1 : b # 0 /\ At(j, p) = b
    BY <2>3 DEF Good, BlocksOK, Placed
  <2>5. PICK k : k = p * BSIZE + r
    OBVIOUS
  <2>6. p \in Nat /\ k \in Nat /\ k \div BSIZE = p /\ k % BSIZE = r
    BY <2>5, DivModOf
  <2>7. Holds(j, k, Entry(i, n))
    BY <2>1, <2>4, <2>5 DEF Good, Filled
  <2>8. k < Length(j) /\ Belongs(j, k, Entry(i, n))
    BY <2>2, <2>7 DEF Holds
  <2>9. j = ROOTINO
    BY <2>8, UnitIsNoEntry DEF Belongs
  <2>10. k # 0 /\ k # 1
    <3>1. n # "." /\ n # ".."
      BY MkfsAssumption
    <3>2. Entry(i, n) # Entry(ROOTINO, ".") /\ Entry(i, n) # Entry(ROOTINO, "..")
      BY <3>1 DEF Entry
    <3> QED
      BY <2>8, <2>9, <3>2 DEF Belongs
  <2>11. k \in 2 .. freeinode - 1
    BY <1>1, <2>6, <2>8, <2>9, <2>10
  <2>12. Slot(k) = Entry(i, n)
    BY <2>1, <2>4, <2>6, <2>9 DEF Slot
  <2> QED
    BY <2>2, <2>11, <2>12
<1>3. ASSUME NEW k \in 2 .. freeinode - 1, Slot(k).name = n PROVE InRoot(n)
  <2>1. Slot(k) = Entry(k, n)
    BY <1>1, <1>3, SlotIs
  <2>2. k \in Nat /\ k < Length(ROOTINO) /\ k \in INums
    BY <1>1 DEF INums
  <2>3. At(ROOTINO, k \div BSIZE) \in Blocks /\ k % BSIZE \in 0 .. BSIZE - 1
    BY <1>1, <2>2, InFile
  <2> QED
    BY <2>1, <2>2, <2>3 DEF InRoot, Slot
<1> QED
  BY <1>2, <1>3

\* The root has an entry for every inode below freeinode, its own ".", and "..".
LEMMA EntriesCount ==
  ASSUME LayoutOK, Good, pc = "done"
  PROVE  Cardinality({n \in FileNames : InRoot(n)}) + 2 = freeinode
<1>1. PICK S, T : S = 2 .. freeinode - 1 /\ T = {n \in FileNames : InRoot(n)}
  OBVIOUS
<1>2. Length(ROOTINO) = freeinode /\ freeinode \in Nat /\ freeinode >= 2
  BY Meta, DoneIs
<1>3. PICK g : g = [k \in S |-> Slot(k).name]
  OBVIOUS
<1>4. ASSUME NEW k \in S PROVE g[k] \in T
  <2>1. Slot(k).name \in FileNames
    BY <1>1, <1>2, SlotIs
  <2>2. InRoot(Slot(k).name)
    BY <1>1, <2>1, InRootIs
  <2> QED
    BY <1>1, <1>3, <2>1, <2>2
<1>5. g \in [S -> T]
  BY <1>3, <1>4
<1>6. \A j, k \in S : g[j] = g[k] => j = k
  BY <1>1, <1>2, <1>3 DEF Good, NamesOK
<1>7. \A n \in T : \E k \in S : g[k] = n
  BY <1>1, <1>3, InRootIs
<1>8. ExistsBijection(S, T)
  BY <1>5, <1>6, <1>7, Numbered
<1>9. IsFiniteSet(S) /\ Cardinality(S) = freeinode - 2
  <2>1. PICK b : b = freeinode - 1
    OBVIOUS
  <2>2. IsFiniteSet(2 .. b) /\ Cardinality(2 .. b) = IF 2 > b THEN 0 ELSE b - 2 + 1
    BY <1>2, <2>1, FS_Interval
  <2> QED
    BY <1>1, <1>2, <2>1, <2>2
<1>10. Cardinality(T) = freeinode - 2
  BY <1>8, <1>9, FS_Bijection
<1> QED
  BY <1>1, <1>2, <1>10

\* Where the root ends and where its size, rounded up, ends.
LEMMA RoundUpHole ==
  ASSUME NEW l \in Nat, NEW p \in Nat, p * BSIZE < RoundUp(l), ~(p * BSIZE < l)
  PROVE  l % BSIZE = 0 /\ p = l \div BSIZE
<1>1. PICK q, r : q = l \div BSIZE /\ r = l % BSIZE
  OBVIOUS
<1>2. q \in Nat /\ r \in 0 .. BSIZE - 1 /\ l = q * BSIZE + r
  BY <1>1, DivMod
<1>3. PICK x, y, z : x = p * BSIZE /\ y = q * BSIZE /\ z = (q + 1) * BSIZE
  OBVIOUS
<1>4. x \in Nat /\ y \in Nat /\ z = y + BSIZE
  BY <1>2, <1>3
<1>5. x < z /\ ~(x < l) /\ l = y + r
  BY <1>1, <1>2, <1>3 DEF RoundUp
<1>6. p < q => x + BSIZE <= y
  BY <1>2, <1>3, TimesMono
<1>7. q < p => y + BSIZE <= x
  BY <1>2, <1>3, TimesMono
<1>8. p = q
  BY <1>2, <1>4, <1>5, <1>6, <1>7
<1>9. x = y
  BY <1>3, <1>8
<1>10. r = 0
  BY <1>2, <1>4, <1>5, <1>9
<1> QED
  BY <1>1, <1>8, <1>10

\* The root's blocks reach its size, but for the one block that the rounding adds
\* when its entries fill them.
THEOREM RootHoleOnlyWhenFullHolds == Spec => []RootHoleOnlyWhenFull
<1>1. IInv => RootHoleOnlyWhenFull
  <2> SUFFICES ASSUME LayoutOK, Good, pc = "done", NEW p \in 0 .. MAXFILE - 1,
                      p * BSIZE < ino[ROOTINO].size, Phys(ROOTINO, p) = 0
               PROVE  freeinode % BSIZE = 0 /\ p = freeinode \div BSIZE
    BY EntriesCount DEF IInv, RootHoleOnlyWhenFull
  <2>1. ROOTINO \in INums /\ p \in Positions0 /\ p \in Nat /\ freeinode \in Nat
    BY Basics DEF Positions0
  <2>2. /\ At(ROOTINO, p) = 0 /\ Length(ROOTINO) = freeinode
        /\ ino[ROOTINO].size = RoundUp(freeinode)
    BY <2>1, DoneIs
  <2>3. ~(p * BSIZE < freeinode)
    BY <2>1, <2>2 DEF Good, Mapped
  <2> QED
    BY <2>1, <2>2, <2>3, RoundUpHole
<1> QED
  BY <1>1, Invariance, PTL

\* Rounding up goes past the end.
LEMMA RoundUpPast ==
  ASSUME NEW l \in Nat
  PROVE  RoundUp(l) \in Nat /\ RoundUp(l) > l
<1>1. PICK q, r : q = l \div BSIZE /\ r = l % BSIZE
  OBVIOUS
<1>2. q \in Nat /\ r \in 0 .. BSIZE - 1 /\ l = q * BSIZE + r
  BY <1>1, DivMod
<1>3. PICK y, z : y = q * BSIZE /\ z = (q + 1) * BSIZE
  OBVIOUS
<1>4. y \in Nat /\ z = y + BSIZE /\ l = y + r
  BY <1>2, <1>3
<1>5. RoundUp(l) = z
  BY <1>1, <1>3 DEF RoundUp
<1> QED
  BY <1>2, <1>4, <1>5

\* What is below that is in the last block of the root or the one after it.
LEMMA RoundUpBlock ==
  ASSUME NEW l \in Nat, l < MAXFILE * BSIZE, NEW k \in Nat, k < RoundUp(l)
  PROVE  k \div BSIZE \in 0 .. MAXFILE - 1
<1>1. PICK q, r, p, t, w : /\ q = l \div BSIZE /\ r = l % BSIZE /\ w = MAXFILE
                           /\ p = k \div BSIZE /\ t = k % BSIZE
  OBVIOUS
<1>2. /\ q \in Nat /\ r \in 0 .. BSIZE - 1 /\ l = q * BSIZE + r /\ w \in Nat
      /\ p \in Nat /\ t \in 0 .. BSIZE - 1 /\ k = p * BSIZE + t
  BY <1>1, DivMod
<1>3. PICK x, y, z, v : x = p * BSIZE /\ y = q * BSIZE /\ z = (q + 1) * BSIZE /\ v = w * BSIZE
  OBVIOUS
<1>4. x \in Nat /\ y \in Nat /\ z = y + BSIZE /\ v \in Nat /\ l = y + r /\ k = x + t
  BY <1>2, <1>3
<1>5. k < z /\ l < v
  BY <1>1, <1>3 DEF RoundUp
<1>6. q < w
  <2>1. w < q => v + BSIZE <= y
    BY <1>2, <1>3, TimesMono
  <2>2. w = q => v = y
    BY <1>3
  <2> QED
    BY <1>2, <1>4, <1>5, <2>1, <2>2
<1>7. p <= q
  <2>1. q < p => y + BSIZE <= x
    BY <1>2, <1>3, TimesMono
  <2> QED
    BY <1>2, <1>4, <1>5, <2>1
<1> QED
  BY <1>1, <1>2, <1>6, <1>7

\* Slot k + 1 of the finished root: ".", "..", the entries of the inodes in
\* order, and free slots.
RootSlot(k, e) ==
  IF k < freeinode THEN Belongs(ROOTINO, k, e) /\ e = Slot(k) ELSE e = FreeSlot

LEMMA RootSlotIs ==
  ASSUME LayoutOK, Good, pc = "done", MaxINodes < MAXFILE * BSIZE,
         NEW k \in Nat, k < ino[ROOTINO].size
  PROVE  RootSlot(k, ReadUnit(ROOTINO, k))
<1>1. /\ ROOTINO \in INums /\ Length(ROOTINO) = freeinode /\ freeinode \in Nat
      /\ freeinode <= MaxINodes /\ ino[ROOTINO].size = RoundUp(freeinode)
  BY Basics, DoneIs
<1>2. PICK p, r : p = k \div BSIZE /\ r = k % BSIZE
  OBVIOUS
<1>3. p \in 0 .. MAXFILE - 1
  <2>1. PICK v : v = MAXFILE * BSIZE
    OBVIOUS
  <2>2. v \in Nat
    BY <2>1
  <2>3. freeinode < MAXFILE * BSIZE
    BY <1>1, <2>1, <2>2
  <2> QED
    BY <1>1, <1>2, <2>3, RoundUpBlock
<1>4. r \in 0 .. BSIZE - 1 /\ k = p * BSIZE + r /\ p \in Positions0
  <2>1. p \in Positions0
    BY <1>3 DEF Positions0
  <2>2. r \in 0 .. BSIZE - 1
    BY <1>2, DivMod
  <2>3. k = p * BSIZE + r
    BY <1>2, DivMod
  <2> QED
    BY <2>1, <2>2, <2>3
<1>5. Phys(ROOTINO, p) = At(ROOTINO, p)
  BY <1>1, <1>4, DoneIs
<1>6. ReadUnit(ROOTINO, k) = IF At(ROOTINO, p) = 0 THEN FreeSlot ELSE data[At(ROOTINO, p)][r]
  BY <1>2, <1>5 DEF ReadUnit
<1>7. CASE k < freeinode
  <2>1. At(ROOTINO, p) # 0
    BY <1>1, <1>2, <1>7, InFile
  <2>2. Belongs(ROOTINO, k, data[At(ROOTINO, p)][r])
    BY <1>1, <1>2, <1>7, HasContent
  <2>3. Slot(k) = data[At(ROOTINO, p)][r]
    BY <1>2 DEF Slot
  <2> QED
    BY <1>6, <1>7, <2>1, <2>2, <2>3 DEF RootSlot
<1>8. CASE ~(k < freeinode)
  <2>1. At(ROOTINO, p) # 0 => Holds(ROOTINO, k, data[At(ROOTINO, p)][r])
    BY <1>1, <1>3, <1>4 DEF Good, Filled
  <2>2. At(ROOTINO, p) # 0 => data[At(ROOTINO, p)][r] = FreeSlot
    BY <1>1, <1>8, <2>1 DEF Holds
  <2> QED
    BY <1>6, <1>8, <2>2 DEF RootSlot
<1> QED
  BY <1>7, <1>8

\* The root as Names has it: s of its slots.
Ents == [i \in INums |->
          IF i # ROOTINO THEN <<>> ELSE [k \in 1 .. ino[i].size |-> ReadUnit(i, k - 1)]]
EntsAre(s) ==
  /\ s \in Nat /\ s > freeinode /\ freeinode \in Nat /\ freeinode >= 2 /\ freeinode <= MaxINodes
  /\ \A d \in INums : DOMAIN Ents[d] = IF d = ROOTINO THEN 1 .. s ELSE {}
  /\ Ents[ROOTINO] = [k \in 1 .. s |-> ReadUnit(ROOTINO, k - 1)]
  /\ Ents[ROOTINO][1] = Entry(ROOTINO, ".") /\ Ents[ROOTINO][2] = Entry(ROOTINO, "..")
  /\ \A k \in 3 .. freeinode :
       /\ Ents[ROOTINO][k].inum = k - 1 /\ Ents[ROOTINO][k].name = Slot(k - 1).name
       /\ Slot(k - 1).name \in FileNames
  /\ \A k \in freeinode + 1 .. s : Ents[ROOTINO][k].inum = 0
  /\ \A j, k \in 3 .. freeinode : Slot(j - 1).name = Slot(k - 1).name => j = k

LEMMA EntsHolds ==
  ASSUME LayoutOK, Good, pc = "done", MaxINodes < MAXFILE * BSIZE
  PROVE  EntsAre(ino[ROOTINO].size)
<1>1. PICK s : s = ino[ROOTINO].size
  OBVIOUS
<1>2. /\ ROOTINO \in INums /\ Length(ROOTINO) = freeinode /\ freeinode \in Nat
      /\ freeinode <= MaxINodes /\ s = RoundUp(freeinode) /\ freeinode >= 2
  BY <1>1, Basics, DoneIs, Meta
<1>3. s \in Nat /\ s > freeinode
  BY <1>2, RoundUpPast
<1>4. Ents[ROOTINO] = [k \in 1 .. s |-> ReadUnit(ROOTINO, k - 1)]
  BY <1>1, <1>2 DEF Ents
<1>5. \A d \in INums : DOMAIN Ents[d] = IF d = ROOTINO THEN 1 .. s ELSE {}
  <2>1. ASSUME NEW d \in INums, d # ROOTINO PROVE DOMAIN Ents[d] = {}
    <3>1. Ents[d] = <<>>
      BY <2>1 DEF Ents
    <3> QED
      BY <3>1
  <2> QED
    BY <1>4, <2>1
<1>6. ASSUME NEW k \in 1 .. s PROVE RootSlot(k - 1, Ents[ROOTINO][k])
  <2>1. k - 1 \in Nat /\ k - 1 < ino[ROOTINO].size
    BY <1>1, <1>3
  <2>2. Ents[ROOTINO][k] = ReadUnit(ROOTINO, k - 1)
    BY <1>4
  <2> QED
    BY <2>1, <2>2, RootSlotIs
<1>7. Ents[ROOTINO][1] = Entry(ROOTINO, ".") /\ Ents[ROOTINO][2] = Entry(ROOTINO, "..")
  <2>1. RootSlot(0, Ents[ROOTINO][1]) /\ RootSlot(1, Ents[ROOTINO][2])
    <3>1. 1 \in 1 .. s /\ 2 \in 1 .. s /\ 1 - 1 = 0 /\ 2 - 1 = 1
      BY <1>2, <1>3
    <3>2. RootSlot(1 - 1, Ents[ROOTINO][1]) /\ RootSlot(2 - 1, Ents[ROOTINO][2])
      BY <1>6, <3>1
    <3> QED
      BY <3>1, <3>2
  <2> QED
    BY <1>2, <2>1 DEF RootSlot, Belongs
<1>8. ASSUME NEW k \in 3 .. freeinode
      PROVE  /\ Ents[ROOTINO][k].inum = k - 1 /\ Ents[ROOTINO][k].name = Slot(k - 1).name
             /\ Slot(k - 1).name \in FileNames
  <2>1. PICK m : m = k - 1
    OBVIOUS
  <2>2. m \in 2 .. Length(ROOTINO) - 1 /\ m < freeinode /\ k \in 1 .. s
    BY <1>2, <1>3, <2>1
  <2>3. Ents[ROOTINO][k] = Slot(m)
    BY <1>6, <2>1, <2>2 DEF RootSlot
  <2>4. PICK n \in FileNames : Slot(m) = Entry(m, n) /\ Slot(m).name = n
    BY <2>2, SlotIs
  <2>5. Slot(m).inum = m
    BY <2>4 DEF Entry
  <2> QED
    BY <2>1, <2>3, <2>4, <2>5
<1>9. ASSUME NEW k \in freeinode + 1 .. s PROVE Ents[ROOTINO][k].inum = 0
  <2>1. ~(k - 1 < freeinode) /\ k \in 1 .. s
    BY <1>2, <1>3
  <2>2. Ents[ROOTINO][k] = FreeSlot
    BY <1>6, <2>1 DEF RootSlot
  <2> QED
    BY <2>2 DEF FreeSlot, Entry
<1>10. ASSUME NEW j \in 3 .. freeinode, NEW k \in 3 .. freeinode,
              Slot(j - 1).name = Slot(k - 1).name
       PROVE  j = k
  <2>1. j - 1 \in 2 .. Length(ROOTINO) - 1 /\ k - 1 \in 2 .. Length(ROOTINO) - 1
    BY <1>2
  <2>2. j - 1 = k - 1
    BY <1>10, <2>1 DEF Good, NamesOK
  <2> QED
    BY <1>2, <2>2
<1>11. EntsAre(s)
  BY <1>2, <1>3, <1>4, <1>5, <1>7, <1>8, <1>9, <1>10 DEF EntsAre
<1> QED
  BY <1>1, <1>11

\* Only the root is a directory: the names lead to files.
LEMMA OneDirectory ==
  ASSUME LayoutOK, Good, pc = "done", NEW s, EntsAre(s)
  PROVE  N!Directories = {ROOTINO}
<1>1. \A n : N!Slots(ROOTINO, n) =
              {k \in DOMAIN Ents[ROOTINO] : Ents[ROOTINO][k].inum # 0 /\ Ents[ROOTINO][k].name = n}
  BY DEF N!Slots, Ents
<1>2. ROOTINO \in INums
  BY Basics
<1>3. ASSUME NEW n \in FileNames PROVE N!Lookup(ROOTINO, n) \in {0} \cup 2 .. freeinode - 1
  <2>1. PICK S : S = N!Slots(ROOTINO, n)
    OBVIOUS
  <2>2. n # "." /\ n # ".."
    BY MkfsAssumption
  <2>3. ASSUME NEW k \in S
        PROVE  k \in 3 .. freeinode /\ Slot(k - 1).name = n /\ Ents[ROOTINO][k].inum = k - 1
    <3>1. k \in 1 .. s /\ Ents[ROOTINO][k].inum # 0 /\ Ents[ROOTINO][k].name = n
      <4>1. DOMAIN Ents[ROOTINO] = 1 .. s
        BY <1>2 DEF EntsAre
      <4>2. k \in {m \in DOMAIN Ents[ROOTINO] :
                    Ents[ROOTINO][m].inum # 0 /\ Ents[ROOTINO][m].name = n}
        BY <1>1, <2>1, <2>3
      <4> QED
        BY <4>1, <4>2
    <3>2. k # 1 /\ k # 2
      BY <2>2, <3>1 DEF EntsAre, Entry
    <3>3. k \in 3 .. freeinode
      <4>1. s \in Nat /\ freeinode \in Nat /\ k \notin freeinode + 1 .. s
        BY <3>1 DEF EntsAre
      <4> QED
        BY <3>1, <3>2, <4>1
    <3> QED
      BY <3>1, <3>3 DEF EntsAre
  <2>4. CASE S = {}
    BY <2>1, <2>4 DEF N!Lookup
  <2>5. CASE S # {}
    <3>1. PICK k : k \in S
      BY <2>5
    <3>2. \A y \in S : y = k
      BY <2>3, <3>1 DEF EntsAre
    <3>3. k \in Nat
      BY <2>3, <3>1
    <3>4. k \in S /\ \A y \in S : k =< y
      BY <3>1, <3>2, <3>3
    <3>5. N!Min(S) \in S
      BY <3>4 DEF N!Min
    <3>6. N!Lookup(ROOTINO, n) = Ents[ROOTINO][N!Min(S)].inum
      BY <2>1, <2>5 DEF N!Lookup, Ents
    <3>7. freeinode \in Nat
      BY DEF EntsAre
    <3> QED
      BY <2>3, <3>5, <3>6, <3>7
  <2> QED
    BY <2>4, <2>5
<1>4. ASSUME NEW i \in 2 .. freeinode - 1 PROVE ~N!IsDir(i)
  <2>1. i \in INums /\ i # ROOTINO /\ i < freeinode
    BY DEF EntsAre, INums
  <2>2. Cur(i) = ino[i]
    BY <2>1, DoneIs
  <2>3. ino[i].type = "T_FILE"
    BY <2>1, <2>2 DEF Good, INodesOK
  <2> QED
    BY <2>1, <2>3 DEF N!IsDir
<1>5. ~N!IsDir(0)
  BY DEF N!IsDir
<1>6. N!ROOT = ROOTINO
  BY DEF N!ROOT
<1>7. N!Directories = {ROOTINO} \cup {i \in {N!Lookup(ROOTINO, n) : n \in FileNames} : N!IsDir(i)}
  BY <1>6 DEF N!Directories
<1> QED
  BY <1>3, <1>4, <1>5, <1>7

\* Its inodes.
Links == [i \in INums |-> [type |-> ino[i].type, nlink |-> ino[i].nlink]]

LEMMA LinksAre ==
  ASSUME NEW i \in INums
  PROVE  Links[i].type = ino[i].type /\ Links[i].nlink = ino[i].nlink
BY DEF Links

\* The links of inode i: an entry of the root, except for the root itself.
LEMMA EntriesAre ==
  ASSUME LayoutOK, Good, pc = "done", NEW s, EntsAre(s), NEW i \in INums
  PROVE  N!Entries(i) = IF 1 < i /\ i < freeinode THEN {<<ROOTINO, i + 1>>} ELSE {}
<1>1. N!Entries(i) =
        (UNION {{<<d, k>> : k \in {k \in DOMAIN Ents[d] : Ents[d][k].inum = i /\ k # 1}} : d \in INums})
          \ {<<ROOTINO, 2>>}
  BY DEF N!Entries, Ents, N!INums, N!ROOT, INums
<1>2. ROOTINO \in INums /\ i \in Nat /\ i >= 1 /\ freeinode \in Nat /\ s \in Nat /\ s > freeinode
      /\ freeinode >= 2
  BY Basics DEF INums, EntsAre
<1>3. ASSUME NEW y \in N!Entries(i)
      PROVE  y = <<ROOTINO, i + 1>> /\ 1 < i /\ i < freeinode
  <2>1. PICK d, k : /\ d \in INums /\ k \in DOMAIN Ents[d]
                    /\ y = <<d, k>> /\ Ents[d][k].inum = i /\ k # 1 /\ y # <<ROOTINO, 2>>
    BY <1>1
  <2>2. d = ROOTINO /\ k \in 1 .. s
    BY <2>1 DEF EntsAre
  <2>3. k # 2
    BY <2>1, <2>2
  <2>4. k \notin freeinode + 1 .. s
    <3> SUFFICES ASSUME k \in freeinode + 1 .. s PROVE FALSE
      OBVIOUS
    <3>1. Ents[ROOTINO][k].inum = 0
      BY DEF EntsAre
    <3>2. Ents[ROOTINO][k].inum = i
      BY <2>1, <2>2
    <3> QED
      BY <1>2, <3>1, <3>2
  <2>5. k \in 3 .. freeinode
    BY <1>2, <2>1, <2>2, <2>3, <2>4
  <2>6. i = k - 1
    BY <2>1, <2>2, <2>5 DEF EntsAre
  <2> QED
    BY <1>2, <2>1, <2>2, <2>5, <2>6
<1>4. ASSUME 1 < i, i < freeinode PROVE <<ROOTINO, i + 1>> \in N!Entries(i)
  <2>1. PICK k : k = i + 1
    OBVIOUS
  <2>2. k \in 3 .. freeinode /\ k \in 1 .. s /\ k - 1 = i /\ k # 1 /\ k # 2
    BY <1>2, <1>4, <2>1
  <2>3. k \in DOMAIN Ents[ROOTINO] /\ Ents[ROOTINO][k].inum = i
    BY <1>2, <2>2 DEF EntsAre
  <2>4. <<ROOTINO, k>> # <<ROOTINO, 2>>
    BY <2>2
  <2> QED
    BY <1>1, <1>2, <2>1, <2>2, <2>3, <2>4
<1> QED
  BY <1>3, <1>4

\* What mkfs makes is what Names starts from: link counts, names and directories
\* are right.  The root, whose size is rounded up, must not outgrow what a file can
\* map: with 200 inodes it has four blocks of 268.
THEOREM NamesStartSoundHolds ==
  ASSUME MaxINodes < MAXFILE * BSIZE
  PROVE  Spec => []NamesStartSound
<1>1. IInv => NamesStartSound
  <2> SUFFICES ASSUME LayoutOK, Good, pc = "done"
               PROVE  N!LinkCountExact /\ N!NoDanglingName /\ N!DirectoriesSound /\ N!LostOnlyInCrash
    BY DEF IInv, NamesStartSound
  <2>1. PICK s : EntsAre(s)
    BY EntsHolds
  <2>2. N!Directories = {ROOTINO}
    BY <2>1, OneDirectory
  <2>3. N!INums = INums /\ N!ROOT = ROOTINO
    BY DEF N!INums, N!ROOT, INums
  <2>4. ROOTINO \in INums /\ freeinode \in Nat /\ freeinode >= 2 /\ freeinode <= MaxINodes
    BY <2>1, Basics DEF EntsAre
  <2>5. ASSUME NEW i \in INums
        PROVE  /\ i \in Nat /\ i >= 1
               /\ i < freeinode => ino[i].nlink = 1 /\ ino[i].type # "Invalid"
               /\ i >= freeinode => ino[i].nlink = 0 /\ ino[i].type = "Invalid"
    <3>1. Cur(i) = ino[i]
      BY DoneIs
    <3> QED
      BY <3>1 DEF Good, INodesOK, FreeINode, INums
  <2>6. N!LinkCountExact
    <3>1. ASSUME NEW i \in INums
          PROVE  ino[i].nlink = Cardinality(N!Entries(i)) + (IF i = ROOTINO THEN 1 ELSE 0)
      <4>1. N!Entries(i) = IF 1 < i /\ i < freeinode THEN {<<ROOTINO, i + 1>>} ELSE {}
        BY <2>1, EntriesAre
      <4>2. Cardinality({<<ROOTINO, i + 1>>}) = 1 /\ Cardinality({}) = 0
        BY FS_Singleton, FS_EmptySet
      <4> QED
        BY <2>4, <2>5, <4>1, <4>2
    <3>2. N!LinkCountExact <=>
            \A i \in N!INums :
              Links[i].nlink = N!Cardinality(N!Entries(i)) + (IF i = N!ROOT THEN 1 ELSE 0)
      BY DEF N!LinkCountExact, Links
    <3>3. \A i \in INums : N!Cardinality(N!Entries(i)) = Cardinality(N!Entries(i))
      BY DEF N!Cardinality, Cardinality
    <3> QED
      BY <2>3, <3>1, <3>2, <3>3, LinksAre
  <2>7. N!LostOnlyInCrash
    <3>1. N!LostOnlyInCrash <=>
            \A i \in N!INums \ {} :
              Links[i].type # "Invalid" => Links[i].nlink > 0 \/ [j \in INums |-> 0][i] > 0
      BY DEF N!LostOnlyInCrash, Links
    <3>2. ASSUME NEW i \in INums, Links[i].type # "Invalid" PROVE Links[i].nlink > 0
      <4>1. i < freeinode
        BY <2>4, <2>5, <3>2, LinksAre
      <4> QED
        BY <2>5, <4>1, LinksAre
    <3> QED
      BY <2>3, <3>1, <3>2
  <2>8. ASSUME NEW k \in 1 .. s, Ents[ROOTINO][k].inum # 0
        PROVE  /\ k \in 1 .. freeinode /\ Ents[ROOTINO][k].inum \in INums
               /\ Ents[ROOTINO][k].inum < freeinode
    <3>1. s \in Nat /\ k \notin freeinode + 1 .. s
      BY <2>1, <2>8 DEF EntsAre
    <3>2. k = 1 \/ k = 2 \/ k \in 3 .. freeinode
      BY <2>4, <3>1
    <3>3. CASE k = 1 \/ k = 2
      BY <2>1, <2>4, <3>3 DEF EntsAre, Entry
    <3>4. CASE k \in 3 .. freeinode
      <4>1. Ents[ROOTINO][k].inum = k - 1
        BY <2>1, <3>4 DEF EntsAre
      <4>2. k \in 1 .. freeinode /\ k - 1 \in INums /\ k - 1 < freeinode
        BY <2>4, <3>4 DEF INums
      <4> QED
        BY <4>1, <4>2
    <3> QED
      BY <3>2, <3>3, <3>4
  <2>9. DOMAIN Ents[ROOTINO] = 1 .. s
    BY <2>1, <2>4 DEF EntsAre
  <2>10. N!NoDanglingName
    <3>1. ASSUME NEW k \in 1 .. s, Ents[ROOTINO][k].inum # 0
          PROVE  ino[Ents[ROOTINO][k].inum].type # "Invalid"
      BY <2>5, <2>8, <3>1
    <3>2. ASSUME NEW k \in 1 .. s, Ents[ROOTINO][k].inum # 0
          PROVE  Links[Ents[ROOTINO][k].inum].type # "Invalid"
      BY <2>8, <3>1, <3>2, LinksAre
    <3>3. N!NoDanglingName <=>
            \A d \in N!Directories : \A k \in DOMAIN Ents[d] :
              Ents[d][k].inum # 0 => Links[Ents[d][k].inum].type # "Invalid"
      BY DEF N!NoDanglingName, Ents, Links
    <3> QED
      BY <2>2, <2>9, <3>2, <3>3
  <2>11. N!DirectoriesSound
    <3>1. SubSeq(Ents[ROOTINO], 1, 2) = N!Dots(ROOTINO, ROOTINO)
      <4>1. PICK g, a, b, S, t, v : /\ g = Ents[ROOTINO] /\ a = g[1] /\ b = g[2] /\ S = {a, b}
                                    /\ t = SubSeq(g, 1, 2) /\ v = <<a, b>>
        OBVIOUS
      <4>2. \A m \in 1 .. 2 : g[m] \in S
        BY <4>1
      <4>3. t \in Seq(S) /\ Len(t) = 2 /\ \A m \in 1 .. 2 : t[m] = g[m]
        BY <4>1, <4>2, SubSeqProperties
      <4>4. v \in Seq(S) /\ Len(v) = 2 /\ v[1] = a /\ v[2] = b
        BY <4>1
      <4>5. \A m \in 1 .. Len(t) : t[m] = v[m]
        BY <4>1, <4>3, <4>4
      <4>6. t = v
        BY <4>3, <4>4, <4>5, SeqEqual
      <4>7. a = Entry(ROOTINO, ".") /\ b = Entry(ROOTINO, "..")
        BY <2>1, <4>1 DEF EntsAre
      <4>8. N!Dots(ROOTINO, ROOTINO) = <<Entry(ROOTINO, "."), Entry(ROOTINO, "..")>>
        BY DEF N!Dots, N!Dot, N!DotDot, Entry
      <4> QED
        BY <4>1, <4>6, <4>7, <4>8
    <3>2. ASSUME NEW j \in 1 .. s, NEW k \in 1 .. s,
                 Ents[ROOTINO][j].inum # 0, Ents[ROOTINO][k].inum # 0,
                 Ents[ROOTINO][j].name = Ents[ROOTINO][k].name
          PROVE  j = k
      <4>1. j \in 1 .. freeinode /\ k \in 1 .. freeinode
        BY <2>8, <3>2
      <4>2. /\ Ents[ROOTINO][1].name = "." /\ Ents[ROOTINO][2].name = ".."
            /\ \A m \in 3 .. freeinode : /\ Ents[ROOTINO][m].name = Slot(m - 1).name
                                         /\ Slot(m - 1).name \notin {".", ".."}
        <5>1. Ents[ROOTINO][1].name = "." /\ Ents[ROOTINO][2].name = ".."
          BY <2>1 DEF EntsAre, Entry
        <5>2. \A m \in 3 .. freeinode :
                Ents[ROOTINO][m].name = Slot(m - 1).name /\ Slot(m - 1).name \in FileNames
          BY <2>1 DEF EntsAre
        <5> QED
          BY <5>1, <5>2, MkfsAssumption
      <4>3. CASE j \in 3 .. freeinode /\ k \in 3 .. freeinode
        <5>1. Slot(j - 1).name = Slot(k - 1).name
          BY <3>2, <4>2, <4>3
        <5> QED
          BY <2>1, <4>3, <5>1 DEF EntsAre
      <4>4. CASE j \notin 3 .. freeinode \/ k \notin 3 .. freeinode
        BY <2>4, <3>2, <4>1, <4>2, <4>4
      <4> QED
        BY <4>3, <4>4
    <3> QED
      <4>1. N!DirectoriesSound <=>
              \A d \in N!Directories :
                /\ SubSeq(Ents[d], 1, 2) = N!Dots(d, N!ROOT)
                /\ \A j, k \in DOMAIN Ents[d] :
                     Ents[d][j].inum # 0 /\ Ents[d][k].inum # 0 /\ Ents[d][j].name = Ents[d][k].name
                       => j = k
        BY DEF N!DirectoriesSound, Ents
      <4> QED
        BY <2>2, <2>3, <2>9, <3>1, <3>2, <4>1
  <2> QED
    BY <2>6, <2>7, <2>10, <2>11
<1> QED
  BY <1>1, Invariance, PTL

============================================================================
