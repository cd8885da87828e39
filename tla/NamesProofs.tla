---------------------------- MODULE NamesProofs ----------------------------
(***************************************************************************)
(* Proofs about Names, for every number of inodes, slots and open files    *)
(* and every set of names.                                                 *)
(***************************************************************************)
EXTENDS Names, FiniteSetTheorems, NaturalsInduction, WellFoundedInduction, SequenceTheorems, TLAPS

USE NamesAssumption DEF ROOT, INums

----------------------------------------------------------------------------
(* The inductive invariant.                                                *)

\* TypeOK, with the domains of the functions and the names in the slots.
Slot == {FreeSlot} \cup [inum : INums, name : FileNames \cup {Dot, DotDot}]

StateOK ==
  /\ ino \in [INums -> [type : {"Invalid", "T_DIR", "T_FILE"}, nlink : Nat]]
  /\ ents \in [INums -> Seq(Slot)]
  /\ ref \in [INums -> Nat]
  /\ mem \in [INums -> Nat \cup {None}]
  /\ orphans \subseteq INums

\* A directory has its two first slots, its names are different, and it is never
\* without a link; nothing else has slots.
DirsOK ==
  /\ ino[ROOT].type = "T_DIR"
  /\ \A d \in INums : ino[d].type # "T_DIR" => ents[d] = <<>>
  /\ \A d \in INums : ino[d].type = "T_DIR" =>
       /\ ino[d].nlink > 0
       /\ Len(ents[d]) >= 2
       /\ ents[d][1] = [inum |-> d, name |-> Dot]
       /\ ents[d][2] = [inum |-> ROOT, name |-> DotDot]
       /\ \A j, k \in DOMAIN ents[d] :
            ents[d][j].inum # 0 /\ ents[d][k].inum # 0 /\ ents[d][j].name = ents[d][k].name
              => j = k

\* A slot in use names an inode in use.
SlotsOK ==
  \A d \in INums : \A k \in DOMAIN ents[d] :
    ents[d][k].inum # 0 => ino[ents[d][k].inum].type # "Invalid"

\* A free inode has no links, and nobody has it open.
FreeOK == \A i \in INums : ino[i].type = "Invalid" => ino[i].nlink = 0 /\ ref[i] = 0

\* The link count in memory is the one on disk.
MemOK == \A i \in INums : mem[i] # None => ref[i] > 0 /\ mem[i] = ino[i].nlink

\* There are finitely many entries, and nlink counts them.
CountOK ==
  \A i \in INums :
    /\ IsFiniteSet(Entries(i))
    /\ ino[i].nlink = Cardinality(Entries(i)) + (IF i = ROOT THEN 1 ELSE 0)

IInv ==
  /\ StateOK
  /\ DirsOK
  /\ SlotsOK
  /\ FreeOK
  /\ MemOK
  /\ CountOK
  /\ LostOnlyInCrash

----------------------------------------------------------------------------
(* Slots and inodes.                                                       *)

\* The least of some numbers is one of them, and the least.
LEMMA MinIs ==
  ASSUME NEW S \in SUBSET Nat, S # {}
  PROVE  Min(S) \in S /\ \A y \in S : Min(S) <= y
<1> DEFINE Less == {ss \in Nat \X Nat : ss[1] < ss[2]}
<1>1. IsWellFoundedOn(Less, Nat)
  BY NatLessThanWellFounded DEF OpToRel
<1>2. PICK x \in S : \A y \in S : ~(<<y, x>> \in Less)
  BY <1>1, WFMin
<1>3. ASSUME NEW y \in S PROVE x <= y
  <2>1. x \in Nat /\ y \in Nat
    OBVIOUS
  <2>2. <<y, x>> \in Nat \X Nat /\ <<y, x>>[1] = y /\ <<y, x>>[2] = x
    BY <2>1
  <2>3. ~(y < x)
    BY <1>2, <2>2
  <2> QED
    BY <2>1, <2>3
<1> QED
  BY <1>3 DEF Min

\* inode_alloc gives a free inode.
LEMMA AllocIs ==
  ASSUME Alloc # 0
  PROVE  Alloc \in INums /\ ino[Alloc] = FreeINode
<1> DEFINE free == {i \in INums : ino[i] = FreeINode}
<1>1. free # {} /\ Alloc = Min(free)
  BY DEF Alloc
<1>2. free \in SUBSET Nat
  OBVIOUS
<1>3. Min(free) \in free
  BY <1>1, <1>2, MinIs
<1> QED
  BY <1>1, <1>3

\* dirlookup finds the inode of a slot with the name, and nothing only if no
\* slot has it.
LEMMA LookupIs ==
  ASSUME StateOK, NEW d \in INums, NEW n
  PROVE  /\ Lookup(d, n) = 0 => Slots(d, n) = {}
         /\ Lookup(d, n) # 0 =>
              /\ Lookup(d, n) \in INums
              /\ Min(Slots(d, n)) \in Slots(d, n)
              /\ ents[d][Min(Slots(d, n))].inum = Lookup(d, n)
<1>1. ents[d] \in Seq(Slot)
  BY DEF StateOK
<1>2. Slots(d, n) \in SUBSET Nat
  BY <1>1 DEF Slots
<1>3. CASE Slots(d, n) = {}
  BY <1>3 DEF Lookup
<1>4. CASE Slots(d, n) # {}
  <2>1. PICK k : k = Min(Slots(d, n))
    OBVIOUS
  <2>2. k \in Slots(d, n)
    BY <1>2, <1>4, <2>1, MinIs
  <2>3. k \in DOMAIN ents[d] /\ ents[d][k].inum # 0
    BY <2>2 DEF Slots
  <2>4. ents[d][k] \in Slot
    BY <1>1, <2>3
  <2>5. ents[d][k].inum \in INums
    BY <2>3, <2>4 DEF Slot, FreeSlot
  <2> QED
    BY <1>4, <2>1, <2>2, <2>3, <2>5 DEF Lookup
<1> QED
  BY <1>3, <1>4

\* A path leads to directories only.
LEMMA DirectoriesAre ==
  ASSUME StateOK, DirsOK, NEW d \in Directories
  PROVE  d \in INums /\ ino[d].type = "T_DIR"
<1>1. ROOT \in INums
  OBVIOUS
<1>2. CASE d = ROOT
  BY <1>1, <1>2 DEF DirsOK
<1>3. CASE d # ROOT
  <2>1. PICK n \in FileNames : d = Lookup(ROOT, n) /\ IsDir(d)
    BY <1>3 DEF Directories
  <2> QED
    BY <1>1, <2>1, LookupIs DEF IsDir
<1> QED
  BY <1>2, <1>3

\* The slots t are the slots s with e in slot p, which was free or is the next.
Linked(s, t, p, e) ==
  /\ p \in DOMAIN s => s[p].inum = 0
  /\ t \in Seq(Slot)
  /\ Len(s) <= Len(t)
  /\ DOMAIN t = DOMAIN s \cup {p}
  /\ t[p] = e
  /\ \A k \in DOMAIN s : k # p => t[k] = s[k]

\* dirlink changes one slot.
LEMMA LinkAt ==
  ASSUME NEW s \in Seq(Slot), NEW e \in Slot, NEW free, free = {k \in DOMAIN s : s[k].inum = 0}
  PROVE  \E p \in Nat \ {0} : Linked(s, Link(s, free, e), p, e)
<1>1. CASE free = {}
  <2>1. Link(s, free, e) = Append(s, e)
    BY <1>1 DEF Link
  <2>2. /\ Append(s, e) \in Seq(Slot)
        /\ Len(Append(s, e)) = Len(s) + 1
        /\ \A i \in 1 .. Len(s) : Append(s, e)[i] = s[i]
        /\ Append(s, e)[Len(s) + 1] = e
    BY AppendProperties
  <2>3. Len(s) \in Nat /\ DOMAIN s = 1 .. Len(s) /\ DOMAIN Append(s, e) = 1 .. Len(s) + 1
    BY <2>2
  <2>4. Len(s) + 1 \in Nat \ {0} /\ Len(s) + 1 \notin DOMAIN s
        /\ 1 .. Len(s) + 1 = (1 .. Len(s)) \cup {Len(s) + 1}
        /\ Len(s) <= Len(s) + 1
    BY <2>3
  <2>5. PICK p, t : p = Len(s) + 1 /\ t = Append(s, e)
    OBVIOUS
  <2>6. /\ p \in Nat \ {0} /\ p \notin DOMAIN s
        /\ t \in Seq(Slot) /\ Len(s) <= Len(t) /\ DOMAIN t = DOMAIN s \cup {p} /\ t[p] = e
        /\ \A k \in DOMAIN s : t[k] = s[k]
    BY <2>2, <2>3, <2>4, <2>5
  <2>7. Linked(s, t, p, e)
    BY <2>6 DEF Linked
  <2> QED
    BY <2>1, <2>5, <2>6, <2>7
<1>2. CASE free # {}
  <2>1. PICK p : p = Min(free)
    OBVIOUS
  <2>2. p \in free
    BY <1>2, <2>1, MinIs
  <2>3. Link(s, free, e) = [s EXCEPT ![p] = e]
    BY <1>2, <2>1 DEF Link
  <2>4. p \in DOMAIN s /\ s[p].inum = 0 /\ p \in Nat \ {0}
    BY <2>2
  <2>5. PICK t : t = [s EXCEPT ![p] = e]
    OBVIOUS
  <2>6. t \in Seq(Slot) /\ Len(t) = Len(s)
    BY <2>4, <2>5
  <2>7. DOMAIN t = DOMAIN s /\ t[p] = e /\ \A k \in DOMAIN s : k # p => t[k] = s[k]
    BY <2>4, <2>5
  <2>8. Linked(s, t, p, e)
    BY <2>4, <2>6, <2>7 DEF Linked
  <2> QED
    BY <2>3, <2>4, <2>5, <2>8
<1> QED
  BY <1>1, <1>2

\* The entries of an inode, slot by slot.
LEMMA EntriesOf ==
  ASSUME NEW e, NEW i, NEW S,
         S = (UNION {{<<d, k>> : k \in {k \in DOMAIN e[d] : e[d][k].inum = i /\ k # 1}}
                       : d \in INums})
               \ {<<ROOT, 2>>}
  PROVE  /\ \A d, k : <<d, k>> \in S <=>
              /\ d \in INums /\ k \in DOMAIN e[d] /\ e[d][k].inum = i
              /\ k # 1 /\ <<d, k>> # <<ROOT, 2>>
         /\ \A x \in S : \E d, k : x = <<d, k>>
<1> DEFINE At(d) == {<<d, k>> : k \in {k \in DOMAIN e[d] : e[d][k].inum = i /\ k # 1}}
<1>1. ASSUME NEW x
      PROVE  x \in S <=> (\E d \in INums : x \in At(d)) /\ x # <<ROOT, 2>>
  OBVIOUS
<1>2. ASSUME NEW x, NEW d
      PROVE  x \in At(d) <=>
               \E k \in DOMAIN e[d] : e[d][k].inum = i /\ k # 1 /\ x = <<d, k>>
  OBVIOUS
<1> HIDE DEF At
<1> QED
  BY <1>1, <1>2

\* The same before a step.
LEMMA EntriesAre ==
  ASSUME NEW i
  PROVE  /\ \A d, k : <<d, k>> \in Entries(i) <=>
              /\ d \in INums /\ k \in DOMAIN ents[d] /\ ents[d][k].inum = i
              /\ k # 1 /\ <<d, k>> # <<ROOT, 2>>
         /\ \A x \in Entries(i) : \E d, k : x = <<d, k>>
<1>1. PICK e, S : e = ents /\ S = Entries(i)
  OBVIOUS
<1>2. S = (UNION {{<<d, k>> : k \in {k \in DOMAIN e[d] : e[d][k].inum = i /\ k # 1}} : d \in INums})
               \ {<<ROOT, 2>>}
  BY <1>1 DEF Entries
<1> QED
  BY <1>1, <1>2, EntriesOf

\* And after it.
LEMMA EntriesAfter ==
  ASSUME NEW i
  PROVE  /\ \A d, k : <<d, k>> \in Entries(i)' <=>
              /\ d \in INums /\ k \in DOMAIN ents'[d] /\ ents'[d][k].inum = i
              /\ k # 1 /\ <<d, k>> # <<ROOT, 2>>
         /\ \A x \in Entries(i)' : \E d, k : x = <<d, k>>
<1>1. PICK e, S : e = ents' /\ S = Entries(i)'
  OBVIOUS
<1>2. S = (UNION {{<<d, k>> : k \in {k \in DOMAIN e[d] : e[d][k].inum = i /\ k # 1}} : d \in INums})
               \ {<<ROOT, 2>>}
  BY <1>1 DEF Entries
<1> QED
  BY <1>1, <1>2, EntriesOf

----------------------------------------------------------------------------
(* The invariant holds of what mkfs makes, and every call keeps it.        *)

\* The image has two entries, which count for nobody.
LEMMA InitInv ==
  ASSUME Init
  PROVE  IInv
<1> DEFINE rest == [k \in 1 .. RootSlots - 2 |-> FreeSlot]
<1> USE DEF Dot, DotDot
<1>1. Dots(ROOT, ROOT) \in Seq(Slot) /\ Len(Dots(ROOT, ROOT)) = 2
  BY DEF Dots, Slot
<1>2. rest \in Seq(Slot) /\ Len(rest) = RootSlots - 2
  BY DEF Slot
<1>3. PICK r : r = Dots(ROOT, ROOT) \o rest
  OBVIOUS
<1>4. /\ r \in Seq(Slot)
      /\ Len(r) = RootSlots
      /\ r[1] = [inum |-> ROOT, name |-> Dot]
      /\ r[2] = [inum |-> ROOT, name |-> DotDot]
      /\ \A k \in 3 .. RootSlots : r[k] = FreeSlot
  <2> HIDE DEF rest
  <2>1. PICK a, z : a = Dots(ROOT, ROOT) /\ z = rest
    OBVIOUS
  <2>2. a \in Seq(Slot) /\ z \in Seq(Slot) /\ Len(a) = 2 /\ Len(z) = RootSlots - 2
    BY <1>1, <1>2, <2>1
  <2>3. /\ a \o z \in Seq(Slot) /\ Len(a \o z) = Len(a) + Len(z)
        /\ \A i \in 1 .. Len(a) + Len(z) :
             (a \o z)[i] = IF i <= Len(a) THEN a[i] ELSE z[i - Len(a)]
    BY <2>2, ConcatProperties
  <2>4. r = a \o z
    BY <1>3, <2>1
  <2>5. /\ r \in Seq(Slot) /\ Len(r) = RootSlots
        /\ \A i \in 1 .. RootSlots : r[i] = IF i <= 2 THEN a[i] ELSE z[i - 2]
    BY <2>2, <2>3, <2>4
  <2>6. r[1] = a[1] /\ r[2] = a[2] /\ \A k \in 3 .. RootSlots : r[k] = z[k - 2]
    BY <2>5
  <2>7. \A k \in 3 .. RootSlots : rest[k - 2] = FreeSlot
    BY DEF rest
  <2>8. a[1] = [inum |-> ROOT, name |-> Dot] /\ a[2] = [inum |-> ROOT, name |-> DotDot]
    BY <2>1 DEF Dots
  <2> QED
    BY <2>1, <2>5, <2>6, <2>7, <2>8
<1>5. ents = [i \in INums |-> IF i = ROOT THEN r ELSE <<>>]
  BY <1>3 DEF Init
<1> HIDE DEF rest
<1>6. ents[ROOT] = r /\ DOMAIN ents[ROOT] = 1 .. RootSlots
  BY <1>4, <1>5
<1>7. StateOK
  <2>1. <<>> \in Seq(Slot)
    OBVIOUS
  <2>2. ents \in [INums -> Seq(Slot)]
    BY <1>4, <1>5, <2>1
  <2>3. ino \in [INums -> [type : {"Invalid", "T_DIR", "T_FILE"}, nlink : Nat]]
    BY DEF Init, FreeINode
  <2> QED
    BY <2>2, <2>3 DEF Init, StateOK
<1>8. \A d \in INums : \A k \in DOMAIN ents[d] :
        ents[d][k].inum # 0 => d = ROOT /\ k \in {1, 2} /\ ents[d][k].inum = ROOT
  BY <1>4, <1>5 DEF FreeSlot
<1>9. ino[ROOT] = [type |-> "T_DIR", nlink |-> 1]
      /\ \A i \in INums : i # ROOT => ino[i] = FreeINode
  BY DEF Init
<1>10. DirsOK
  <2>1. \A j, k \in DOMAIN ents[ROOT] :
          /\ ents[ROOT][j].inum # 0 /\ ents[ROOT][k].inum # 0
          /\ ents[ROOT][j].name = ents[ROOT][k].name
          => j = k
    BY <1>4, <1>6, <1>8
  <2>2. \A i \in INums : i # ROOT => ents[i] = <<>>
    BY <1>5
  <2> QED
    BY <1>4, <1>6, <1>9, <2>1, <2>2 DEF DirsOK, FreeINode
<1>11. SlotsOK
  BY <1>8, <1>9 DEF SlotsOK
<1>12. FreeOK /\ MemOK /\ LostOnlyInCrash
  BY <1>9 DEF Init, FreeOK, MemOK, LostOnlyInCrash, FreeINode
<1>13. CountOK
  <2>1. \A i \in INums : Entries(i) = {}
    <3> SUFFICES ASSUME NEW i \in INums, NEW x \in Entries(i)
                 PROVE  FALSE
      OBVIOUS
    <3>1. PICK d, k : x = <<d, k>>
      BY EntriesAre
    <3>2. d \in INums /\ k \in DOMAIN ents[d] /\ ents[d][k].inum = i
          /\ k # 1 /\ ~(d = ROOT /\ k = 2)
      BY <3>1, EntriesAre
    <3> QED
      BY <1>8, <3>2
  <2> QED
    BY <1>9, <2>1, FS_EmptySet DEF CountOK, FreeINode
<1> QED
  BY <1>7, <1>10, <1>11, <1>12, <1>13 DEF IInv

\* The parts of the types that most steps need.
LEMMA Typed ==
  ASSUME StateOK, NEW i \in INums
  PROVE  ino[i].nlink \in Nat /\ ref[i] \in Nat /\ mem[i] \in Nat \cup {None}
BY DEF StateOK

\* What a call must keep that leaves inodes and slots as they are.
LEMMA DiskKept ==
  ASSUME IInv, UNCHANGED <<ino, ents>>, StateOK', FreeOK', MemOK', LostOnlyInCrash'
  PROVE  IInv'
<1>1. DirsOK'
  BY DEF IInv, DirsOK
<1>2. SlotsOK'
  BY DEF IInv, SlotsOK
<1>3. CountOK'
  <2>1. \A i : Entries(i)' = Entries(i)
    BY DEF Entries
  <2> QED
    BY <2>1 DEF IInv, CountOK
<1> QED
  BY <1>1, <1>2, <1>3 DEF IInv

\* A call that only looks reads the link counts of inodes that are open.
LEMMA LookOnly ==
  ASSUME IInv, UNCHANGED <<ino, ents, ref, orphans>>,
         mem' \in [INums -> Nat \cup {None}],
         \A i \in INums : mem'[i] = mem[i] \/ (ref[i] > 0 /\ mem'[i] = ino[i].nlink)
  PROVE  IInv'
<1>1. StateOK'
  BY DEF IInv, StateOK
<1>2. FreeOK' /\ LostOnlyInCrash'
  BY DEF IInv, FreeOK, LostOnlyInCrash
<1>3. MemOK'
  BY DEF IInv, MemOK
<1> QED
  BY <1>1, <1>2, <1>3, DiskKept

\* The walk along a path.
LEMMA WalkedIs ==
  ASSUME StateOK, NEW d
  PROVE  /\ Walked(mem, d) \in [INums -> Nat \cup {None}]
         /\ \A i \in INums : Walked(mem, d)[i] = mem[i]
                             \/ (ref[i] > 0 /\ Walked(mem, d)[i] = ino[i].nlink)
<1>1. ASSUME NEW i \in INums
      PROVE  /\ Walked(mem, d)[i] \in Nat \cup {None}
             /\ Walked(mem, d)[i] = mem[i] \/ (ref[i] > 0 /\ Walked(mem, d)[i] = ino[i].nlink)
  <2>1. Walked(mem, d)[i] = IF i \in {ROOT, d} /\ ref[i] > 0 THEN ino[i].nlink ELSE mem[i]
    BY DEF Walked
  <2> QED
    BY <2>1, Typed
<1> QED
  BY <1>1 DEF Walked

\* The link count a locked inode has.
LEMMA NlinkIs ==
  ASSUME IInv, NEW i \in INums
  PROVE  Nlink(i) = ino[i].nlink
BY DEF Nlink, IInv, MemOK

\* A failed create leaves nothing but the walk.
LEMMA CreateFailsInv ==
  ASSUME IInv, NEW d, NEW n, CreateFails(d, n)
  PROVE  IInv'
BY WalkedIs, LookOnly DEF CreateFails, IInv

\* op_getattr of inode x, with w in memory after the walk.
LEMMA GetattrOfInv ==
  ASSUME IInv, NEW x, NEW w \in [INums -> Nat \cup {None}],
         \A i \in INums : w[i] = mem[i] \/ (ref[i] > 0 /\ w[i] = ino[i].nlink),
         GetattrOf(x, w)
  PROVE  IInv'
<1>1. UNCHANGED <<ino, ents, ref, orphans>> /\ mem' = Seen(w, {x})
  BY DEF GetattrOf
<1>2. StateOK
  BY DEF IInv
<1>3. /\ mem' \in [INums -> Nat \cup {None}]
      /\ \A i \in INums : mem'[i] = mem[i] \/ (ref[i] > 0 /\ mem'[i] = ino[i].nlink)
  BY <1>1, <1>2, NlinkIs DEF Seen, StateOK
<1> QED
  BY <1>1, <1>3, LookOnly

\* op_getattr, by a name,
LEMMA GetattrInv ==
  ASSUME IInv, NEW d \in INums, NEW n, Getattr(d, n)
  PROVE  IInv'
<1>1. PICK x, w : x = Lookup(d, n) /\ w = Walked(mem, d)
  OBVIOUS
<1>2. GetattrOf(x, w)
  BY <1>1 DEF Getattr
<1>3. /\ w \in [INums -> Nat \cup {None}]
      /\ \A i \in INums : w[i] = mem[i] \/ (ref[i] > 0 /\ w[i] = ino[i].nlink)
  BY <1>1, WalkedIs DEF IInv
<1> QED
  BY <1>2, <1>3, GetattrOfInv

\* and of the root.
LEMMA GetattrRootInv ==
  ASSUME IInv, GetattrRoot
  PROVE  IInv'
<1>1. mem \in [INums -> Nat \cup {None}]
  BY DEF IInv, StateOK
<1> QED
  BY <1>1, GetattrOfInv DEF GetattrRoot

\* op_readdir.
LEMMA ReaddirInv ==
  ASSUME IInv, NEW d, Readdir(d)
  PROVE  IInv'
<1>1. UNCHANGED <<ino, ents, ref, orphans>> /\ mem' = Seen(mem, Listed(d))
  BY DEF Readdir
<1>2. StateOK
  BY DEF IInv
<1>3. /\ mem' \in [INums -> Nat \cup {None}]
      /\ \A i \in INums : mem'[i] = mem[i] \/ (ref[i] > 0 /\ mem'[i] = ino[i].nlink)
  <2>1. ASSUME NEW i \in INums
        PROVE  /\ mem'[i] \in Nat \cup {None}
               /\ mem'[i] = mem[i] \/ (ref[i] > 0 /\ mem'[i] = ino[i].nlink)
    <3>1. mem'[i] = IF i \in Listed(d) /\ ref[i] > 0 THEN Nlink(i) ELSE mem[i]
      BY <1>1 DEF Seen
    <3> QED
      BY <1>2, <3>1, Typed, NlinkIs
  <2> QED
    BY <1>1, <2>1 DEF Seen
<1> QED
  BY <1>1, <1>3, LookOnly

\* do_open of an inode that exists, with w in memory after the walk.
LEMMA DoOpenInv ==
  ASSUME IInv, NEW i \in INums, NEW w \in [INums -> Nat \cup {None}],
         \A j \in INums : w[j] = mem[j] \/ (ref[j] > 0 /\ w[j] = ino[j].nlink),
         DoOpen(i, w)
  PROVE  IInv'
<1> USE DEF IInv
<1>1. /\ i # 0 /\ ino[i].type # "Invalid"
      /\ ref' = [ref EXCEPT ![i] = @ + 1]
      /\ mem' = [w EXCEPT ![i] = Nlink(i)]
      /\ UNCHANGED <<ino, ents, orphans>>
  BY DEF DoOpen
<1>2. i \in INums
  OBVIOUS
<1>3. Nlink(i) = ino[i].nlink
  BY <1>2, NlinkIs
<1>4. /\ w \in [INums -> Nat \cup {None}]
      /\ \A j \in INums : w[j] = mem[j] \/ (ref[j] > 0 /\ w[j] = ino[j].nlink)
  OBVIOUS
<1>5. mem' = [w EXCEPT ![i] = ino[i].nlink]
  BY <1>1, <1>3
<1>6. StateOK'
  <2>1. ino[i].nlink \in Nat
    BY <1>2, Typed
  <2>2. ref' \in [INums -> Nat]
    <3>1. ref \in [INums -> Nat]
      BY DEF StateOK
    <3> QED
      BY <1>1, <1>2, <3>1
  <2>3. mem' \in [INums -> Nat \cup {None}]
    BY <1>4, <1>5, <2>1
  <2> QED
    BY <1>1, <2>2, <2>3 DEF StateOK
<1>7. \A j \in INums : ref[j] \in Nat /\ ref'[j] = IF j = i THEN ref[j] + 1 ELSE ref[j]
  BY <1>1, <1>2 DEF StateOK
<1>8. FreeOK' /\ LostOnlyInCrash'
  BY <1>1, <1>2, <1>7 DEF FreeOK, LostOnlyInCrash
<1>9. \A j \in INums : mem'[j] = IF j = i THEN ino[i].nlink ELSE w[j]
  BY <1>4, <1>5
<1>10. MemOK'
  <2> SUFFICES ASSUME NEW j \in INums, mem'[j] # None
               PROVE  ref'[j] > 0 /\ mem'[j] = ino[j].nlink
    BY <1>1 DEF MemOK
  <2>1. mem[j] # None => ref[j] > 0 /\ mem[j] = ino[j].nlink
    BY DEF MemOK
  <2>2. CASE j = i
    BY <1>7, <1>9, <2>2
  <2>3. CASE j # i
    BY <1>4, <1>7, <1>9, <2>1, <2>3
  <2> QED
    BY <2>2, <2>3
<1> QED
  BY <1>1, <1>6, <1>8, <1>10, DiskKept

\* op_open, by a name,
LEMMA OpenInv ==
  ASSUME IInv, NEW d \in INums, NEW n, Open(d, n)
  PROVE  IInv'
<1>1. PICK i, w : i = Lookup(d, n) /\ w = Walked(mem, d)
  OBVIOUS
<1>2. DoOpen(i, w)
  BY <1>1 DEF Open
<1>3. i \in INums
  BY <1>1, <1>2, LookupIs DEF DoOpen, IInv
<1>4. /\ w \in [INums -> Nat \cup {None}]
      /\ \A j \in INums : w[j] = mem[j] \/ (ref[j] > 0 /\ w[j] = ino[j].nlink)
  BY <1>1, WalkedIs DEF IInv
<1> QED
  BY <1>2, <1>3, <1>4, DoOpenInv

\* and of the root.
LEMMA OpenRootInv ==
  ASSUME IInv, OpenRoot
  PROVE  IInv'
<1>1. ROOT \in INums /\ mem \in [INums -> Nat \cup {None}]
  BY DEF IInv, StateOK
<1> QED
  BY <1>1, DoOpenInv DEF OpenRoot

\* The daemon dies: what is open without a name is lost, and is known to be.
LEMMA CrashInv ==
  ASSUME IInv, Crash
  PROVE  IInv'
<1> USE DEF IInv, Crash
<1>1. StateOK'
  BY DEF StateOK
<1>2. FreeOK' /\ MemOK'
  BY DEF FreeOK, MemOK
<1>3. LostOnlyInCrash'
  BY DEF LostOnlyInCrash, StateOK
<1> QED
  BY <1>1, <1>2, <1>3, DiskKept

\* Slots are in directories; the entries of a file are all the slots with its
\* number, and those of a free inode are none.
LEMMA SlotIs ==
  ASSUME StateOK, DirsOK, NEW d \in INums, NEW k \in DOMAIN ents[d]
  PROVE  /\ ino[d].type = "T_DIR"
         /\ k \in Nat
         /\ ents[d][k] \in Slot
         /\ k = 1 => ents[d][k].inum = d
         /\ k = 2 => ents[d][k].inum = ROOT
<1>1. ents[d] \in Seq(Slot)
  BY DEF StateOK
<1>2. ents[d][k] \in Slot /\ ents[d] # <<>> /\ k \in Nat
  BY <1>1
<1>3. ino[d].type = "T_DIR"
  BY <1>2 DEF DirsOK
<1>4. ents[d][1] = [inum |-> d, name |-> Dot] /\ ents[d][2] = [inum |-> ROOT, name |-> DotDot]
  BY <1>3 DEF DirsOK
<1> QED
  BY <1>2, <1>3, <1>4

\* Unless it is a directory's, an inode's number is in its entries only.
LEMMA FileEntry ==
  ASSUME StateOK, DirsOK, NEW i \in INums, ino[i].type # "T_DIR",
         NEW d \in INums, NEW k \in DOMAIN ents[d], ents[d][k].inum = i
  PROVE  <<d, k>> \in Entries(i)
<1>1. k # 1
  BY SlotIs
<1>2. ~(d = ROOT /\ k = 2)
  BY SlotIs DEF DirsOK
<1> QED
  BY <1>1, <1>2, EntriesAre

\* An inode without links has no entries.
LEMMA NoLinksNoEntries ==
  ASSUME IInv, NEW i \in INums, ino[i].nlink = 0
  PROVE  Entries(i) = {} /\ i # ROOT /\ ino[i].type # "T_DIR"
<1>1. i # ROOT /\ ino[i].type # "T_DIR"
  <2>1. ino[i].type = "T_DIR" => ino[i].nlink > 0
    BY DEF IInv, DirsOK
  <2>2. ino[ROOT].type = "T_DIR"
    BY DEF IInv, DirsOK
  <2> QED
    BY <2>1, <2>2
<1>2. /\ IsFiniteSet(Entries(i))
      /\ ino[i].nlink = Cardinality(Entries(i)) + (IF i = ROOT THEN 1 ELSE 0)
  BY DEF IInv, CountOK
<1>3. Cardinality(Entries(i)) \in Nat
  BY <1>2, FS_CardinalityType
<1>4. Cardinality(Entries(i)) = 0
  BY <1>1, <1>2, <1>3
<1> QED
  BY <1>1, <1>2, <1>4, FS_EmptySet

\* An inode without links can be freed.
LEMMA Freed ==
  ASSUME IInv, NEW i \in INums, ino[i].nlink = 0,
         ino' = [ino EXCEPT ![i] = FreeINode], ents' = ents
  PROVE  DirsOK' /\ SlotsOK' /\ CountOK'
<1> USE DEF IInv
<1>1. /\ ino'[i].type = "Invalid" /\ ino'[i].nlink = 0
      /\ \A j \in INums : j # i => ino'[j] = ino[j]
  BY DEF StateOK, FreeINode
<1>2. Entries(i) = {} /\ i # ROOT /\ ino[i].type # "T_DIR"
  BY NoLinksNoEntries
<1>3. DirsOK'
  BY <1>1, <1>2 DEF DirsOK
<1>4. SlotsOK'
  <2> SUFFICES ASSUME NEW d \in INums, NEW k \in DOMAIN ents[d], ents[d][k].inum # 0
               PROVE  ino'[ents[d][k].inum].type # "Invalid"
    BY DEF SlotsOK
  <2>1. ents[d][k].inum # i
    BY <1>2, FileEntry
  <2>2. ents[d][k].inum \in INums
    BY SlotIs DEF Slot, FreeSlot
  <2> QED
    BY <1>1, <2>1, <2>2 DEF SlotsOK
<1>5. CountOK'
  <2>1. \A j : Entries(j)' = Entries(j)
    BY DEF Entries
  <2>2. \A j \in INums : ino'[j].nlink = ino[j].nlink
    BY <1>1
  <2> QED
    BY <2>1, <2>2 DEF CountOK
<1> QED
  BY <1>3, <1>4, <1>5

\* op_release: the last reference to an inode without links frees it.
LEMMA ReleaseInv ==
  ASSUME IInv, NEW i \in INums, Release(i)
  PROVE  IInv'
<1> USE DEF IInv
<1>1. /\ ref[i] > 0 /\ mem[i] # None
      /\ ref' = [ref EXCEPT ![i] = @ - 1]
      /\ ino' = IF mem[i] = 0 THEN UpdateAndPut(i, 0, ref[i] - 1) ELSE ino
      /\ mem' = [mem EXCEPT ![i] = IF ref[i] = 1 THEN None ELSE @]
      /\ UNCHANGED <<ents, orphans>>
  BY DEF Release
<1>2. mem[i] = ino[i].nlink
  BY <1>1 DEF MemOK
<1>3. \A j \in INums : ref[j] \in Nat /\ ref'[j] = IF j = i THEN ref[j] - 1 ELSE ref[j]
  BY <1>1 DEF StateOK
<1>4. \A j \in INums : mem'[j] = IF j = i /\ ref[i] = 1 THEN None ELSE mem[j]
  BY <1>1 DEF StateOK
<1>5. ref' \in [INums -> Nat]
  <2>1. ref \in [INums -> Nat]
    BY DEF StateOK
  <2>2. ref[i] - 1 \in Nat
    BY <1>1, <2>1
  <2> QED
    BY <1>1, <2>1, <2>2
<1>6. mem' \in [INums -> Nat \cup {None}]
  <2>1. mem \in [INums -> Nat \cup {None}]
    BY DEF StateOK
  <2> QED
    BY <1>1, <2>1
<1>7. CASE mem[i] = 0 /\ ref[i] = 1
  <2>1. ino' = [ino EXCEPT ![i] = FreeINode]
    BY <1>1, <1>7 DEF UpdateAndPut
  <2>2. ino[i].nlink = 0
    BY <1>2, <1>7
  <2>3. DirsOK' /\ SlotsOK' /\ CountOK'
    BY <1>1, <2>1, <2>2, Freed
  <2>4. StateOK'
    <3>1. ino' \in [INums -> [type : {"Invalid", "T_DIR", "T_FILE"}, nlink : Nat]]
      BY <2>1 DEF StateOK, FreeINode
    <3> QED
      BY <1>1, <1>5, <1>6, <3>1 DEF StateOK
  <2>5. /\ ino'[i].type = "Invalid" /\ ino'[i].nlink = 0
        /\ \A j \in INums : j # i => ino'[j] = ino[j]
    BY <2>1 DEF StateOK, FreeINode
  <2>6. FreeOK'
    BY <1>3, <1>7, <2>5 DEF FreeOK
  <2>7. MemOK'
    BY <1>3, <1>4, <1>7, <2>5 DEF MemOK
  <2>8. LostOnlyInCrash'
    BY <1>1, <1>3, <2>5 DEF LostOnlyInCrash
  <2> QED
    BY <2>3, <2>4, <2>6, <2>7, <2>8
<1>8. CASE ~(mem[i] = 0 /\ ref[i] = 1)
  <2>1. ino' = ino
    <3>1. CASE mem[i] # 0
      BY <1>1, <3>1
    <3>2. CASE mem[i] = 0
      <4>1. ino' = [ino EXCEPT ![i] = [ino[i] EXCEPT !.nlink = 0]]
        <5>1. ref[i] - 1 # 0
          BY <1>3, <1>8, <3>2
        <5> QED
          BY <1>1, <3>2, <5>1 DEF UpdateAndPut
      <4>2. ino[i].nlink = 0
        BY <1>2, <3>2
      <4>3. [ino[i] EXCEPT !.nlink = 0] = ino[i]
        BY <4>2 DEF StateOK
      <4> QED
        BY <4>1, <4>3 DEF StateOK
    <3> QED
      BY <3>1, <3>2
  <2>2. StateOK'
    BY <1>1, <1>5, <1>6, <2>1 DEF StateOK
  <2>3. FreeOK'
    BY <1>1, <1>3, <2>1 DEF FreeOK
  <2>4. MemOK'
    <3> SUFFICES ASSUME NEW j \in INums, mem'[j] # None
                 PROVE  ref'[j] > 0 /\ mem'[j] = ino[j].nlink
      BY <2>1 DEF MemOK
    <3>1. mem[j] # None => ref[j] > 0 /\ mem[j] = ino[j].nlink
      BY DEF MemOK
    <3> QED
      BY <1>3, <1>4, <3>1
  <2>5. LostOnlyInCrash'
    <3> SUFFICES ASSUME NEW j \in INums \ orphans, ino[j].type # "Invalid"
                 PROVE  ino[j].nlink > 0 \/ ref'[j] > 0
      BY <1>1, <2>1 DEF LostOnlyInCrash
    <3>1. ino[j].nlink > 0 \/ ref[j] > 0
      BY DEF LostOnlyInCrash
    <3>2. ino[j].nlink \in Nat
      BY Typed
    <3> QED
      BY <1>2, <1>3, <1>8, <3>1, <3>2
  <2> QED
    BY <1>1, <2>1, <2>2, <2>3, <2>4, <2>5, DiskKept
<1> QED
  BY <1>7, <1>8

\* do_unlink: the entry and the link go together.
LEMMA UnlinkInv ==
  ASSUME IInv, NEW d \in INums, NEW n, Unlink(d, n)
  PROVE  IInv'
<1> USE DEF IInv
<1>1. PICK i, k, c, w :
        i = Lookup(d, n) /\ k = Min(Slots(d, n)) /\ c = ino[i].nlink - 1 /\ w = Walked(mem, d)
  OBVIOUS
<1>2. /\ d \in Directories /\ i # 0 /\ ino[i].type = "T_FILE" /\ Nlink(i) >= 1
      /\ ents' = [ents EXCEPT ![d] = [ents[d] EXCEPT ![k] = FreeSlot]]
      /\ ino' = UpdateAndPut(i, Nlink(i) - 1, ref[i])
      /\ mem' = [w EXCEPT ![i] = IF ref[i] > 0 THEN Nlink(i) - 1 ELSE None]
      /\ ref' = ref /\ orphans' = orphans
  BY <1>1 DEF Unlink, Clear
<1>3. i \in INums /\ k \in DOMAIN ents[d] /\ ents[d][k].inum = i
  BY <1>1, <1>2, LookupIs DEF Slots
<1>4. Nlink(i) = ino[i].nlink
  BY <1>3, NlinkIs
<1>5. c \in Nat /\ c + 1 = ino[i].nlink
  <2>1. ino[i].nlink \in Nat
    BY <1>3, Typed
  <2> QED
    BY <1>1, <1>2, <1>4, <2>1
<1>6. /\ ino' = [ino EXCEPT ![i] = IF c = 0 /\ ref[i] = 0 THEN FreeINode
                                   ELSE [ino[i] EXCEPT !.nlink = c]]
      /\ mem' = [w EXCEPT ![i] = IF ref[i] > 0 THEN c ELSE None]
  BY <1>1, <1>2, <1>4 DEF UpdateAndPut
<1>7. /\ \A j \in INums : j # i => ino'[j] = ino[j]
      /\ ino'[i].nlink = c
      /\ ino'[i].type = IF c = 0 /\ ref[i] = 0 THEN "Invalid" ELSE "T_FILE"
      /\ ino' \in [INums -> [type : {"Invalid", "T_DIR", "T_FILE"}, nlink : Nat]]
  <2>1. ino \in [INums -> [type : {"Invalid", "T_DIR", "T_FILE"}, nlink : Nat]]
    BY DEF StateOK
  <2>2. CASE c = 0 /\ ref[i] = 0
    BY <1>3, <1>6, <2>1, <2>2 DEF FreeINode
  <2>3. CASE ~(c = 0 /\ ref[i] = 0)
    <3>1. PICK rec : rec = [ino[i] EXCEPT !.nlink = c]
      OBVIOUS
    <3>2. /\ rec.nlink = c /\ rec.type = "T_FILE"
          /\ rec \in [type : {"Invalid", "T_DIR", "T_FILE"}, nlink : Nat]
      BY <1>2, <1>3, <1>5, <2>1, <3>1
    <3>3. ino' = [ino EXCEPT ![i] = rec]
      BY <1>6, <2>3, <3>1
    <3> QED
      BY <1>3, <2>1, <2>3, <3>2, <3>3
  <2> QED
    BY <2>2, <2>3
<1>8. /\ w \in [INums -> Nat \cup {None}]
      /\ \A j \in INums : w[j] = mem[j] \/ (ref[j] > 0 /\ w[j] = ino[j].nlink)
  BY <1>1, WalkedIs
<1>9. ents' \in [INums -> Seq(Slot)]
  <2>1. ents \in [INums -> Seq(Slot)] /\ FreeSlot \in Slot
    BY DEF StateOK, Slot
  <2>2. [ents[d] EXCEPT ![k] = FreeSlot] \in Seq(Slot)
    BY <1>3, <2>1
  <2> QED
    BY <1>2, <2>1, <2>2
<1>10. \A x \in INums :
         /\ x # d => ents'[x] = ents[x]
         /\ DOMAIN ents'[x] = DOMAIN ents[x]
         /\ Len(ents'[x]) = Len(ents[x])
         /\ \A y \in DOMAIN ents[x] :
              ents'[x][y] = IF x = d /\ y = k THEN FreeSlot ELSE ents[x][y]
  <2>1. ents \in [INums -> Seq(Slot)]
    BY DEF StateOK
  <2>2. ents'[d] = [ents[d] EXCEPT ![k] = FreeSlot] /\ \A x \in INums : x # d => ents'[x] = ents[x]
    BY <1>2, <2>1
  <2>3. /\ DOMAIN ents'[d] = DOMAIN ents[d]
        /\ \A y \in DOMAIN ents[d] : ents'[d][y] = IF y = k THEN FreeSlot ELSE ents[d][y]
    BY <2>1, <2>2
  <2>4. Len(ents'[d]) = Len(ents[d])
    BY <1>3, <2>1, <2>2
  <2> QED
    BY <2>2, <2>3, <2>4
<1>11. StateOK'
  <2>1. mem' \in [INums -> Nat \cup {None}]
    BY <1>5, <1>6, <1>8
  <2> QED
    BY <1>2, <1>7, <1>9, <2>1 DEF StateOK
<1>12. ino[d].type = "T_DIR" /\ i # d /\ k # 1 /\ k # 2 /\ <<d, k>> \in Entries(i)
  <2>1. ino[d].type = "T_DIR" /\ ino[ROOT].type = "T_DIR"
    BY <1>2, DirectoriesAre DEF DirsOK
  <2>2. k # 1 /\ k # 2
    BY <1>2, <1>3, <2>1, SlotIs
  <2> QED
    BY <1>2, <1>3, <2>1, <2>2, FileEntry
<1>13. \A j \in INums : Entries(j)' = IF j = i THEN Entries(i) \ {<<d, k>>} ELSE Entries(j)
  <2>1. ASSUME NEW j \in INums, NEW x, NEW y
        PROVE  <<x, y>> \in Entries(j)' <=> <<x, y>> \in Entries(j) /\ ~(x = d /\ y = k)
    <3>1. <<x, y>> \in Entries(j) <=>
            /\ x \in INums /\ y \in DOMAIN ents[x] /\ ents[x][y].inum = j
            /\ y # 1 /\ <<x, y>> # <<ROOT, 2>>
      BY EntriesAre
    <3>2. <<x, y>> \in Entries(j)' <=>
            /\ x \in INums /\ y \in DOMAIN ents'[x] /\ ents'[x][y].inum = j
            /\ y # 1 /\ <<x, y>> # <<ROOT, 2>>
      BY EntriesAfter
    <3> QED
      BY <1>10, <3>1, <3>2 DEF FreeSlot
  <2>2. \A j \in INums : /\ \A z \in Entries(j) : \E x, y : z = <<x, y>>
                         /\ \A z \in Entries(j)' : \E x, y : z = <<x, y>>
    BY EntriesAre, EntriesAfter
  <2>3. \A j \in INums : j # i => <<d, k>> \notin Entries(j)
    BY <1>3, EntriesAre
  <2>4. \A j \in INums : Entries(j)' = Entries(j) \ {<<d, k>>}
    BY <2>1, <2>2
  <2> QED
    BY <2>3, <2>4
<1>14. CountOK'
  <2>1. ASSUME NEW j \in INums
        PROVE  /\ IsFiniteSet(Entries(j)')
               /\ ino'[j].nlink = Cardinality(Entries(j)') + (IF j = ROOT THEN 1 ELSE 0)
    <3>1. /\ IsFiniteSet(Entries(j))
          /\ ino[j].nlink = Cardinality(Entries(j)) + (IF j = ROOT THEN 1 ELSE 0)
      BY DEF CountOK
    <3>2. CASE j # i
      BY <1>7, <1>13, <3>1, <3>2
    <3>3. CASE j = i
      <4>1. /\ IsFiniteSet(Entries(i) \ {<<d, k>>})
            /\ Cardinality(Entries(i) \ {<<d, k>>}) = Cardinality(Entries(i)) - 1
        BY <1>12, <3>1, <3>3, FS_RemoveElement
      <4>2. Cardinality(Entries(i)) \in Nat
        BY <3>1, <3>3, FS_CardinalityType
      <4>3. Entries(i)' = Entries(i) \ {<<d, k>>}
        BY <1>3, <1>13
      <4>4. i # ROOT
        BY <1>2 DEF DirsOK
      <4> QED
        BY <1>5, <1>7, <3>1, <3>3, <4>1, <4>2, <4>3, <4>4
    <3> QED
      BY <3>2, <3>3
  <2> QED
    BY <2>1 DEF CountOK
<1>15. DirsOK'
  <2>1. ino'[ROOT].type = "T_DIR"
    BY <1>2, <1>7 DEF DirsOK
  <2>2. ASSUME NEW x \in INums, ino'[x].type # "T_DIR"
        PROVE  ents'[x] = <<>>
    <3>1. ino[x].type # "T_DIR"
      BY <1>2, <1>7, <2>2
    <3> QED
      BY <1>10, <1>12, <3>1 DEF DirsOK
  <2>3. ASSUME NEW x \in INums, ino'[x].type = "T_DIR"
        PROVE  /\ ino'[x].nlink > 0
               /\ Len(ents'[x]) >= 2
               /\ ents'[x][1] = [inum |-> x, name |-> Dot]
               /\ ents'[x][2] = [inum |-> ROOT, name |-> DotDot]
               /\ \A y, z \in DOMAIN ents'[x] :
                    /\ ents'[x][y].inum # 0 /\ ents'[x][z].inum # 0
                    /\ ents'[x][y].name = ents'[x][z].name
                    => y = z
    <3>1. x # i /\ ino[x].type = "T_DIR" /\ ino'[x] = ino[x]
      BY <1>7, <2>3
    <3>2. /\ ino[x].nlink > 0
          /\ Len(ents[x]) >= 2
          /\ ents[x][1] = [inum |-> x, name |-> Dot]
          /\ ents[x][2] = [inum |-> ROOT, name |-> DotDot]
          /\ \A y, z \in DOMAIN ents[x] :
               ents[x][y].inum # 0 /\ ents[x][z].inum # 0 /\ ents[x][y].name = ents[x][z].name
                 => y = z
      BY <3>1 DEF DirsOK
    <3>3. 1 \in DOMAIN ents[x] /\ 2 \in DOMAIN ents[x]
      <4>1. ents[x] \in Seq(Slot)
        BY DEF StateOK
      <4> QED
        BY <3>2, <4>1
    <3>4. ents'[x][1] = ents[x][1] /\ ents'[x][2] = ents[x][2]
      BY <1>10, <1>12, <3>3
    <3>5. \A y \in DOMAIN ents'[x] :
            ents'[x][y].inum # 0 => y \in DOMAIN ents[x] /\ ents'[x][y] = ents[x][y]
      BY <1>10 DEF FreeSlot
    <3> QED
      BY <1>10, <3>1, <3>2, <3>4, <3>5
  <2> QED
    BY <2>1, <2>2, <2>3 DEF DirsOK
<1>16. SlotsOK'
  <2> SUFFICES ASSUME NEW x \in INums, NEW y \in DOMAIN ents'[x], ents'[x][y].inum # 0
               PROVE  ino'[ents'[x][y].inum].type # "Invalid"
    BY DEF SlotsOK
  <2>1. y \in DOMAIN ents[x] /\ ~(x = d /\ y = k) /\ ents'[x][y] = ents[x][y]
    BY <1>10 DEF FreeSlot
  <2>2. PICK j : j = ents[x][y].inum
    OBVIOUS
  <2>3. j \in INums /\ ino[j].type # "Invalid"
    <3>1. ents[x][y] \in Slot
      BY <2>1, SlotIs
    <3> QED
      BY <2>1, <2>2, <3>1 DEF Slot, FreeSlot, SlotsOK
  <2>4. CASE j # i
    BY <1>7, <2>1, <2>2, <2>3, <2>4
  <2>5. CASE j = i
    <3>1. <<x, y>> \in Entries(i)
      BY <1>2, <1>3, <2>1, <2>2, <2>5, FileEntry
    <3>2. Entries(i)' # {}
      BY <1>3, <1>13, <2>1, <3>1
    <3>3. IsFiniteSet(Entries(i)') /\ c = Cardinality(Entries(i)') + (IF i = ROOT THEN 1 ELSE 0)
      BY <1>3, <1>7, <1>14 DEF CountOK
    <3>4. Cardinality(Entries(i)') \in Nat /\ Cardinality(Entries(i)') # 0
      BY <3>2, <3>3, FS_CardinalityType, FS_EmptySet
    <3>5. c # 0
      BY <3>3, <3>4
    <3> QED
      BY <1>7, <2>1, <2>2, <2>5, <3>5
  <2> QED
    BY <2>4, <2>5
<1>17. FreeOK'
  BY <1>2, <1>3, <1>5, <1>7 DEF FreeOK
<1>18. LostOnlyInCrash'
  <2> SUFFICES ASSUME NEW j \in INums \ orphans, ino'[j].type # "Invalid"
               PROVE  ino'[j].nlink > 0 \/ ref[j] > 0
    BY <1>2 DEF LostOnlyInCrash
  <2>1. ref[j] \in Nat
    BY Typed
  <2>2. CASE j = i
    BY <1>5, <1>7, <2>1, <2>2
  <2>3. CASE j # i
    BY <1>7, <2>3 DEF LostOnlyInCrash
  <2> QED
    BY <2>2, <2>3
<1>19. MemOK'
  <2> SUFFICES ASSUME NEW j \in INums, mem'[j] # None
               PROVE  ref[j] > 0 /\ mem'[j] = ino'[j].nlink
    BY <1>2 DEF MemOK
  <2>1. mem[j] # None => ref[j] > 0 /\ mem[j] = ino[j].nlink
    BY DEF MemOK
  <2>2. mem'[j] = IF j = i THEN (IF ref[i] > 0 THEN c ELSE None) ELSE w[j]
    BY <1>6, <1>8
  <2> QED
    BY <1>7, <1>8, <2>1, <2>2
<1> QED
  BY <1>11, <1>14, <1>15, <1>16, <1>17, <1>18, <1>19

\* dirlink in a directory: the new entry is in none of the first two slots.
LEMMA LinkedAt ==
  ASSUME StateOK, DirsOK, NEW d \in INums, ino[d].type = "T_DIR", NEW e \in Slot
  PROVE  \E p \in Nat \ {0, 1, 2} : Linked(ents[d], Link(ents[d], FreeSlots(d), e), p, e)
<1>1. PICK s, free, t : s = ents[d] /\ free = FreeSlots(d) /\ t = Link(s, free, e)
  OBVIOUS
<1>2. s \in Seq(Slot) /\ free = {k \in DOMAIN s : s[k].inum = 0}
  BY <1>1 DEF StateOK, FreeSlots
<1>3. PICK p \in Nat \ {0} : Linked(s, t, p, e)
  BY <1>1, <1>2, LinkAt
<1>4. Len(s) >= 2 /\ s[1] = [inum |-> d, name |-> Dot] /\ s[2] = [inum |-> ROOT, name |-> DotDot]
  BY <1>1 DEF DirsOK
<1>5. 1 \in DOMAIN s /\ 2 \in DOMAIN s
  BY <1>2, <1>4
<1>6. p # 1 /\ p # 2
  BY <1>3, <1>4, <1>5 DEF Linked
<1>7. Linked(ents[d], Link(ents[d], FreeSlots(d), e), p, e)
  BY <1>1, <1>3
<1> QED
  BY <1>3, <1>6, <1>7

\* op_create: the inode and its entry appear together.
LEMMA CreateInv ==
  ASSUME IInv, NEW d \in INums, NEW n \in FileNames, Create(d, n)
  PROVE  IInv'
<1> USE DEF IInv
<1>1. PICK i, e, t, w :
        /\ i = Alloc /\ e = [inum |-> i, name |-> n]
        /\ t = Link(ents[d], FreeSlots(d), e) /\ w = Walked(mem, d)
  OBVIOUS
<1>2. /\ d \in Directories /\ Lookup(d, n) = 0 /\ i # 0
      /\ ino' = [ino EXCEPT ![i] = [type |-> "T_FILE", nlink |-> 1]]
      /\ ents' = [ents EXCEPT ![d] = t]
      /\ ref' = [ref EXCEPT ![i] = 1]
      /\ mem' = [w EXCEPT ![i] = 1]
      /\ orphans' = orphans
  BY <1>1 DEF Create
<1>3. i \in INums /\ ino[i] = FreeINode
  BY <1>1, <1>2, AllocIs
<1>4. ino[d].type = "T_DIR" /\ i # d
  BY <1>2, <1>3, DirectoriesAre DEF FreeINode
<1>5. e \in Slot /\ e.inum = i /\ e.name = n
  BY <1>1, <1>3 DEF Slot
<1>6. PICK p \in Nat \ {0, 1, 2} : Linked(ents[d], t, p, e)
  BY <1>1, <1>4, <1>5, LinkedAt
<1>7. ents'[d] = t /\ \A x \in INums : x # d => ents'[x] = ents[x]
  BY <1>2 DEF StateOK
<1>8. /\ \A j \in INums : j # i => ino'[j] = ino[j]
      /\ ino'[i].nlink = 1 /\ ino'[i].type = "T_FILE"
      /\ ino' \in [INums -> [type : {"Invalid", "T_DIR", "T_FILE"}, nlink : Nat]]
  BY <1>2, <1>3 DEF StateOK
<1>9. /\ w \in [INums -> Nat \cup {None}]
      /\ \A j \in INums : w[j] = mem[j] \/ (ref[j] > 0 /\ w[j] = ino[j].nlink)
  BY <1>1, WalkedIs
<1>10. /\ \A j \in INums : ref'[j] = IF j = i THEN 1 ELSE ref[j]
       /\ \A j \in INums : mem'[j] = IF j = i THEN 1 ELSE w[j]
       /\ ref' \in [INums -> Nat] /\ mem' \in [INums -> Nat \cup {None}]
  <2>1. ref \in [INums -> Nat]
    BY DEF StateOK
  <2> QED
    BY <1>2, <1>3, <1>9, <2>1
<1>11. StateOK'
  <2>1. ents' \in [INums -> Seq(Slot)]
    BY <1>2, <1>6 DEF StateOK, Linked
  <2> QED
    BY <1>2, <1>8, <1>10, <2>1 DEF StateOK
<1>12. \A x \in INums : \A y : y \in DOMAIN ents'[x] =>
         \/ x = d /\ y = p /\ ents'[x][y] = e
         \/ ~(x = d /\ y = p) /\ y \in DOMAIN ents[x] /\ ents'[x][y] = ents[x][y]
  BY <1>6, <1>7 DEF Linked
<1>13. \A x \in INums : \A y : y \in DOMAIN ents[x] =>
         /\ y \in DOMAIN ents'[x]
         /\ IF x = d /\ y = p THEN ents[x][y].inum = 0 ELSE ents'[x][y] = ents[x][y]
  BY <1>6, <1>7 DEF Linked
<1>14. p \in DOMAIN ents'[d] /\ ents'[d][p] = e
  BY <1>6, <1>7 DEF Linked
<1>15. \A j \in INums : Entries(j)' = IF j = i THEN Entries(j) \cup {<<d, p>>} ELSE Entries(j)
  <2>1. ASSUME NEW j \in INums, NEW x, NEW y
        PROVE  <<x, y>> \in Entries(j)' <=>
                 <<x, y>> \in Entries(j) \/ (j = i /\ x = d /\ y = p)
    <3>1. <<x, y>> \in Entries(j) <=>
            /\ x \in INums /\ y \in DOMAIN ents[x] /\ ents[x][y].inum = j
            /\ y # 1 /\ <<x, y>> # <<ROOT, 2>>
      BY EntriesAre
    <3>2. <<x, y>> \in Entries(j)' <=>
            /\ x \in INums /\ y \in DOMAIN ents'[x] /\ ents'[x][y].inum = j
            /\ y # 1 /\ <<x, y>> # <<ROOT, 2>>
      BY EntriesAfter
    <3> QED
      BY <1>5, <1>12, <1>13, <1>14, <3>1, <3>2
  <2>2. \A j \in INums : /\ \A z \in Entries(j) : \E x, y : z = <<x, y>>
                         /\ \A z \in Entries(j)' : \E x, y : z = <<x, y>>
    BY EntriesAre, EntriesAfter
  <2> QED
    BY <2>1, <2>2
<1>16. CountOK'
  <2>1. ASSUME NEW j \in INums
        PROVE  /\ IsFiniteSet(Entries(j)')
               /\ ino'[j].nlink = Cardinality(Entries(j)') + (IF j = ROOT THEN 1 ELSE 0)
    <3>1. /\ IsFiniteSet(Entries(j))
          /\ ino[j].nlink = Cardinality(Entries(j)) + (IF j = ROOT THEN 1 ELSE 0)
      BY DEF CountOK
    <3>2. CASE j # i
      BY <1>8, <1>15, <3>1, <3>2
    <3>3. CASE j = i
      <4>1. Entries(i) = {} /\ i # ROOT
        BY <1>3, NoLinksNoEntries DEF FreeINode
      <4>2. Entries(j)' = {<<d, p>>}
        BY <1>3, <1>15, <3>3, <4>1
      <4>3. IsFiniteSet({<<d, p>>}) /\ Cardinality({<<d, p>>}) = 1
        BY FS_Singleton
      <4> QED
        BY <1>8, <3>3, <4>1, <4>2, <4>3
    <3> QED
      BY <3>2, <3>3
  <2> QED
    BY <2>1 DEF CountOK
<1>17. DirsOK'
  <2>1. ino'[ROOT].type = "T_DIR"
    BY <1>3, <1>8 DEF DirsOK, FreeINode
  <2>2. ASSUME NEW x \in INums, ino'[x].type # "T_DIR"
        PROVE  ents'[x] = <<>>
    <3>1. ino[x].type # "T_DIR"
      BY <1>3, <1>8, <2>2 DEF FreeINode
    <3> QED
      BY <1>4, <1>7, <3>1 DEF DirsOK
  <2>3. ASSUME NEW x \in INums, ino'[x].type = "T_DIR"
        PROVE  /\ ino'[x].nlink > 0
               /\ Len(ents'[x]) >= 2
               /\ ents'[x][1] = [inum |-> x, name |-> Dot]
               /\ ents'[x][2] = [inum |-> ROOT, name |-> DotDot]
               /\ \A y, z \in DOMAIN ents'[x] :
                    /\ ents'[x][y].inum # 0 /\ ents'[x][z].inum # 0
                    /\ ents'[x][y].name = ents'[x][z].name
                    => y = z
    <3>1. x # i /\ ino[x].type = "T_DIR" /\ ino'[x] = ino[x]
      BY <1>8, <2>3
    <3>2. /\ ino[x].nlink > 0
          /\ Len(ents[x]) >= 2
          /\ ents[x][1] = [inum |-> x, name |-> Dot]
          /\ ents[x][2] = [inum |-> ROOT, name |-> DotDot]
          /\ \A y, z \in DOMAIN ents[x] :
               ents[x][y].inum # 0 /\ ents[x][z].inum # 0 /\ ents[x][y].name = ents[x][z].name
                 => y = z
      BY <3>1 DEF DirsOK
    <3>3. 1 \in DOMAIN ents[x] /\ 2 \in DOMAIN ents[x] /\ Len(ents[x]) \in Nat
      <4>1. ents[x] \in Seq(Slot)
        BY DEF StateOK
      <4> QED
        BY <3>2, <4>1
    <3>4. ents'[x][1] = ents[x][1] /\ ents'[x][2] = ents[x][2]
      BY <1>6, <1>13, <3>3
    <3>5. Len(ents'[x]) >= 2
      <4>1. Len(t) \in Nat
        BY <1>6 DEF Linked
      <4> QED
        BY <1>6, <1>7, <3>2, <3>3, <4>1 DEF Linked
    <3>6. \A y \in DOMAIN ents[d] : ~(ents[d][y].inum # 0 /\ ents[d][y].name = n)
      BY <1>2, LookupIs DEF Slots
    <3>7. ASSUME NEW y \in DOMAIN ents'[x], NEW z \in DOMAIN ents'[x],
                 ents'[x][y].inum # 0, ents'[x][z].inum # 0,
                 ents'[x][y].name = ents'[x][z].name
          PROVE  y = z
      <4>1. CASE x = d /\ y = p /\ z # p
        BY <1>5, <1>12, <3>6, <3>7, <4>1
      <4>2. CASE x = d /\ y # p /\ z = p
        BY <1>5, <1>12, <3>6, <3>7, <4>2
      <4>3. CASE ~(x = d /\ y = p) /\ ~(x = d /\ z = p)
        BY <1>12, <3>2, <3>7, <4>3
      <4> QED
        BY <4>1, <4>2, <4>3
    <3> QED
      BY <3>1, <3>2, <3>4, <3>5, <3>7
  <2> QED
    BY <2>1, <2>2, <2>3 DEF DirsOK
<1>18. SlotsOK'
  <2> SUFFICES ASSUME NEW x \in INums, NEW y \in DOMAIN ents'[x], ents'[x][y].inum # 0
               PROVE  ino'[ents'[x][y].inum].type # "Invalid"
    BY DEF SlotsOK
  <2>1. CASE x = d /\ y = p
    BY <1>5, <1>8, <1>14, <2>1
  <2>2. CASE ~(x = d /\ y = p)
    <3>1. PICK j : j = ents[x][y].inum
      OBVIOUS
    <3>2. y \in DOMAIN ents[x] /\ ents'[x][y] = ents[x][y]
      BY <1>12, <2>2
    <3>3. j \in INums /\ ino[j].type # "Invalid"
      <4>1. ents[x][y] \in Slot
        BY <3>2, SlotIs
      <4> QED
        BY <3>1, <3>2, <4>1 DEF Slot, FreeSlot, SlotsOK
    <3> QED
      BY <1>8, <3>1, <3>2, <3>3
  <2> QED
    BY <2>1, <2>2
<1>19. FreeOK'
  BY <1>8, <1>10 DEF FreeOK
<1>20. LostOnlyInCrash'
  BY <1>2, <1>8, <1>10 DEF LostOnlyInCrash
<1>21. MemOK'
  <2> SUFFICES ASSUME NEW j \in INums, mem'[j] # None
               PROVE  ref'[j] > 0 /\ mem'[j] = ino'[j].nlink
    BY DEF MemOK
  <2>1. mem[j] # None => ref[j] > 0 /\ mem[j] = ino[j].nlink
    BY DEF MemOK
  <2> QED
    BY <1>8, <1>9, <1>10, <2>1
<1> QED
  BY <1>11, <1>16, <1>17, <1>18, <1>19, <1>20, <1>21

\* op_mkdir: the directory, its entry and its link to the parent appear together.
LEMMA MkdirInv ==
  ASSUME IInv, NEW n \in FileNames, Mkdir(n)
  PROVE  IInv'
<1> USE DEF IInv
<1>1. PICK i, e, t, c, dots :
        /\ i = Alloc /\ e = [inum |-> i, name |-> n]
        /\ t = Link(ents[ROOT], FreeSlots(ROOT), e)
        /\ c = ino[ROOT].nlink + 1 /\ dots = Dots(i, ROOT)
  OBVIOUS
<1>2. Lookup(ROOT, n) = 0 /\ i # 0
  BY <1>1 DEF Mkdir
<1>3. i \in INums /\ ino[i] = FreeINode
  BY <1>1, <1>2, AllocIs
<1>4. ROOT \in INums /\ ino[ROOT].type = "T_DIR" /\ i # ROOT
  BY <1>3 DEF DirsOK, FreeINode
<1>5. c \in Nat /\ c > 0 /\ ino[ROOT].nlink \in Nat
  <2>1. ino[ROOT].nlink \in Nat
    BY <1>4, Typed
  <2> QED
    BY <1>1, <2>1
<1>6. /\ ino' \in [INums -> [type : {"Invalid", "T_DIR", "T_FILE"}, nlink : Nat]]
      /\ ino'[i].type = "T_DIR" /\ ino'[i].nlink = 1
      /\ ino'[ROOT].type = "T_DIR" /\ ino'[ROOT].nlink = c
      /\ \A j \in INums : j # i /\ j # ROOT => ino'[j] = ino[j]
  <2>1. ino \in [INums -> [type : {"Invalid", "T_DIR", "T_FILE"}, nlink : Nat]]
    BY DEF StateOK
  <2>2. PICK rec, top : /\ rec = [type |-> "T_DIR", nlink |-> 1]
                        /\ top = [ino[ROOT] EXCEPT !.nlink = c]
    OBVIOUS
  <2>3. ino' = [ino EXCEPT ![i] = rec, ![ROOT].nlink = c]
    BY <1>1, <2>2 DEF Mkdir, CountsSubdir
  <2>4. /\ top \in [type : {"Invalid", "T_DIR", "T_FILE"}, nlink : Nat]
        /\ top.type = "T_DIR" /\ top.nlink = c
    BY <1>4, <1>5, <2>1, <2>2
  <2>5. /\ ino' \in [INums -> [type : {"Invalid", "T_DIR", "T_FILE"}, nlink : Nat]]
        /\ ino'[ROOT] = top /\ ino'[i] = rec
        /\ \A j \in INums : j # ROOT /\ j # i => ino'[j] = ino[j]
    <3>1. rec \in [type : {"Invalid", "T_DIR", "T_FILE"}, nlink : Nat]
      BY <2>2
    <3>2. /\ DOMAIN ino' = INums /\ ino'[i] = rec /\ ino'[ROOT] = [ino[ROOT] EXCEPT !.nlink = c]
          /\ \A j \in INums : j # ROOT /\ j # i => ino'[j] = ino[j]
          /\ ino' = [j \in INums |-> ino'[j]]
      BY <1>3, <1>4, <2>1, <2>3
    <3>3. \A j \in INums : ino'[j] \in [type : {"Invalid", "T_DIR", "T_FILE"}, nlink : Nat]
      <4>1. PICK R : R = [type : {"Invalid", "T_DIR", "T_FILE"}, nlink : Nat]
        OBVIOUS
      <4>2. rec \in R /\ top \in R /\ \A j \in INums : ino[j] \in R
        BY <2>1, <2>4, <3>1, <4>1
      <4>3. \A j \in INums : ino'[j] \in R
        BY <2>2, <3>2, <4>2
      <4> QED
        BY <4>1, <4>3
    <3> QED
      BY <2>2, <3>2, <3>3
  <2> QED
    BY <2>2, <2>4, <2>5
<1>7. /\ ents' = [ents EXCEPT ![i] = dots, ![ROOT] = t]
      /\ ref' = ref /\ orphans' = orphans
      /\ mem' = [mem EXCEPT ![ROOT] = IF ref[ROOT] > 0 THEN c ELSE @]
  <2>1. mem' = [mem EXCEPT ![ROOT] = IF ref[ROOT] > 0 THEN ino'[ROOT].nlink ELSE @]
    BY DEF Mkdir
  <2> QED
    BY <1>1, <1>6, <2>1 DEF Mkdir
<1>8. /\ dots \in Seq(Slot) /\ Len(dots) = 2 /\ DOMAIN dots = {1, 2}
      /\ dots[1] = [inum |-> i, name |-> Dot] /\ dots[2] = [inum |-> ROOT, name |-> DotDot]
      /\ dots[1].name # dots[2].name
  <2>1. [inum |-> i, name |-> Dot] \in Slot /\ [inum |-> ROOT, name |-> DotDot] \in Slot
    BY <1>3, <1>4 DEF Slot
  <2> QED
    BY <1>1, <2>1 DEF Dots, Dot, DotDot
<1>9. e \in Slot /\ e.inum = i /\ e.name = n
  BY <1>1, <1>3 DEF Slot
<1>10. PICK p \in Nat \ {0, 1, 2} : Linked(ents[ROOT], t, p, e)
  BY <1>1, <1>4, <1>9, LinkedAt
<1>11. /\ ents' \in [INums -> Seq(Slot)]
       /\ ents'[ROOT] = t /\ ents'[i] = dots
       /\ \A x \in INums : x # ROOT /\ x # i => ents'[x] = ents[x]
  <2>1. ents \in [INums -> Seq(Slot)] /\ t \in Seq(Slot)
    BY <1>10 DEF StateOK, Linked
  <2> QED
    BY <1>3, <1>4, <1>7, <1>8, <2>1
<1>12. ents[i] = <<>>
  BY <1>3 DEF DirsOK, FreeINode
<1>13. \A x \in INums : \A y : y \in DOMAIN ents'[x] =>
         \/ x = ROOT /\ y = p /\ ents'[x][y] = e
         \/ x = i /\ y = 1 /\ ents'[x][y] = [inum |-> i, name |-> Dot]
         \/ x = i /\ y = 2 /\ ents'[x][y] = [inum |-> ROOT, name |-> DotDot]
         \/ ~(x = ROOT /\ y = p) /\ x # i /\ y \in DOMAIN ents[x] /\ ents'[x][y] = ents[x][y]
  <2>1. \A y \in DOMAIN t :
          \/ y = p /\ t[y] = e
          \/ y # p /\ y \in DOMAIN ents[ROOT] /\ t[y] = ents[ROOT][y]
    BY <1>10 DEF Linked
  <2> QED
    BY <1>4, <1>8, <1>11, <2>1
<1>14. \A x \in INums : \A y : y \in DOMAIN ents[x] =>
         /\ x # i
         /\ y \in DOMAIN ents'[x]
         /\ IF x = ROOT /\ y = p THEN ents[x][y].inum = 0 ELSE ents'[x][y] = ents[x][y]
  <2>1. \A y \in DOMAIN ents[ROOT] :
          y \in DOMAIN t /\ IF y = p THEN ents[ROOT][y].inum = 0 ELSE t[y] = ents[ROOT][y]
    BY <1>10 DEF Linked
  <2> QED
    <3>1. DOMAIN ents[i] = {}
      BY <1>12
    <3> QED
      BY <1>4, <1>11, <2>1, <3>1
<1>15. /\ p \in DOMAIN ents'[ROOT] /\ ents'[ROOT][p] = e
       /\ 1 \in DOMAIN ents'[i] /\ ents'[i][1] = [inum |-> i, name |-> Dot]
       /\ 2 \in DOMAIN ents'[i] /\ ents'[i][2] = [inum |-> ROOT, name |-> DotDot]
  BY <1>8, <1>10, <1>11 DEF Linked
<1>16. StateOK'
  <2>1. mem' \in [INums -> Nat \cup {None}]
    <3>1. mem \in [INums -> Nat \cup {None}]
      BY DEF StateOK
    <3> QED
      BY <1>4, <1>5, <1>7, <3>1
  <2> QED
    BY <1>6, <1>7, <1>11, <2>1 DEF StateOK
<1>17. \A j \in INums : Entries(j)' = IF j = i THEN Entries(j) \cup {<<ROOT, p>>}
                                      ELSE IF j = ROOT THEN Entries(j) \cup {<<i, 2>>}
                                      ELSE Entries(j)
  <2>1. ASSUME NEW j \in INums, NEW x, NEW y
        PROVE  <<x, y>> \in Entries(j)' <=>
                 \/ <<x, y>> \in Entries(j)
                 \/ j = i /\ x = ROOT /\ y = p
                 \/ j = ROOT /\ x = i /\ y = 2
    <3>1. <<x, y>> \in Entries(j) <=>
            /\ x \in INums /\ y \in DOMAIN ents[x] /\ ents[x][y].inum = j
            /\ y # 1 /\ <<x, y>> # <<ROOT, 2>>
      BY EntriesAre
    <3>2. <<x, y>> \in Entries(j)' <=>
            /\ x \in INums /\ y \in DOMAIN ents'[x] /\ ents'[x][y].inum = j
            /\ y # 1 /\ <<x, y>> # <<ROOT, 2>>
      BY EntriesAfter
    <3>3. ASSUME <<x, y>> \in Entries(j)'
          PROVE  \/ <<x, y>> \in Entries(j)
                 \/ j = i /\ x = ROOT /\ y = p
                 \/ j = ROOT /\ x = i /\ y = 2
      BY <1>9, <1>13, <3>1, <3>2, <3>3
    <3>4. ASSUME <<x, y>> \in Entries(j)
          PROVE  <<x, y>> \in Entries(j)'
      BY <1>14, <3>1, <3>2, <3>4
    <3>5. ASSUME j = i, x = ROOT, y = p
          PROVE  <<x, y>> \in Entries(j)'
      BY <1>4, <1>9, <1>15, <3>2, <3>5
    <3>6. ASSUME j = ROOT, x = i, y = 2
          PROVE  <<x, y>> \in Entries(j)'
      BY <1>3, <1>4, <1>15, <3>2, <3>6
    <3> QED
      BY <3>3, <3>4, <3>5, <3>6
  <2>2. \A j \in INums : /\ \A z \in Entries(j) : \E x, y : z = <<x, y>>
                         /\ \A z \in Entries(j)' : \E x, y : z = <<x, y>>
    BY EntriesAre, EntriesAfter
  <2>3. ASSUME NEW j \in INums, j = i
        PROVE  Entries(j)' = Entries(j) \cup {<<ROOT, p>>}
    BY <1>4, <2>1, <2>2, <2>3
  <2>4. ASSUME NEW j \in INums, j = ROOT
        PROVE  Entries(j)' = Entries(j) \cup {<<i, 2>>}
    BY <1>4, <2>1, <2>2, <2>4
  <2>5. ASSUME NEW j \in INums, j # i, j # ROOT
        PROVE  Entries(j)' = Entries(j)
    BY <2>1, <2>2, <2>5
  <2> QED
    BY <1>4, <2>3, <2>4, <2>5
<1>18. CountOK'
  <2>1. ASSUME NEW j \in INums
        PROVE  /\ IsFiniteSet(Entries(j)')
               /\ ino'[j].nlink = Cardinality(Entries(j)') + (IF j = ROOT THEN 1 ELSE 0)
    <3>1. /\ IsFiniteSet(Entries(j))
          /\ ino[j].nlink = Cardinality(Entries(j)) + (IF j = ROOT THEN 1 ELSE 0)
      BY DEF CountOK
    <3>2. CASE j # i /\ j # ROOT
      BY <1>6, <1>17, <3>1, <3>2
    <3>3. CASE j = i
      <4>1. Entries(i) = {}
        BY <1>3, NoLinksNoEntries DEF FreeINode
      <4>2. Entries(j)' = {<<ROOT, p>>}
        BY <1>3, <1>17, <3>3, <4>1
      <4>3. IsFiniteSet({<<ROOT, p>>}) /\ Cardinality({<<ROOT, p>>}) = 1
        BY FS_Singleton
      <4> QED
        BY <1>4, <1>6, <3>3, <4>2, <4>3
    <3>4. CASE j = ROOT
      <4>1. Entries(j)' = Entries(j) \cup {<<i, 2>>}
        BY <1>4, <1>17, <3>4
      <4>2. <<i, 2>> \notin Entries(j)
        BY <1>12, EntriesAre
      <4>3. /\ IsFiniteSet(Entries(j) \cup {<<i, 2>>})
            /\ Cardinality(Entries(j) \cup {<<i, 2>>}) = Cardinality(Entries(j)) + 1
        BY <3>1, <4>2, FS_AddElement
      <4>4. Cardinality(Entries(j)) \in Nat
        BY <3>1, FS_CardinalityType
      <4> QED
        BY <1>1, <1>6, <3>1, <3>4, <4>1, <4>3, <4>4
    <3> QED
      BY <3>2, <3>3, <3>4
  <2> QED
    BY <2>1 DEF CountOK
<1>19. DirsOK'
  <2>1. ASSUME NEW x \in INums, ino'[x].type # "T_DIR"
        PROVE  ents'[x] = <<>>
    BY <1>6, <1>11, <2>1 DEF DirsOK
  <2>2. ASSUME NEW x \in INums, ino'[x].type = "T_DIR"
        PROVE  /\ ino'[x].nlink > 0
               /\ Len(ents'[x]) >= 2
               /\ ents'[x][1] = [inum |-> x, name |-> Dot]
               /\ ents'[x][2] = [inum |-> ROOT, name |-> DotDot]
               /\ \A y, z \in DOMAIN ents'[x] :
                    /\ ents'[x][y].inum # 0 /\ ents'[x][z].inum # 0
                    /\ ents'[x][y].name = ents'[x][z].name
                    => y = z
    <3>1. CASE x = i
      <4>1. ino'[i].nlink > 0 /\ Len(ents'[i]) >= 2
        <5>1. ino'[i].nlink = 1 /\ Len(ents'[i]) = 2
          BY <1>6, <1>8, <1>11
        <5> QED
          BY <5>1
      <4>2. \A y, z \in {1, 2} : dots[y].name = dots[z].name => y = z
        BY <1>8
      <4> QED
        BY <1>8, <1>11, <3>1, <4>1, <4>2
    <3>2. CASE x # i
      <4>1. ino[x].type = "T_DIR" /\ ino'[x].nlink > 0
        <5>1. ino[x].type = "T_DIR"
          BY <1>4, <1>6, <2>2, <3>2
        <5>2. ino[x].nlink > 0
          BY <5>1 DEF DirsOK
        <5> QED
          BY <1>5, <1>6, <3>2, <5>1, <5>2
      <4>2. /\ Len(ents[x]) >= 2
            /\ ents[x][1] = [inum |-> x, name |-> Dot]
            /\ ents[x][2] = [inum |-> ROOT, name |-> DotDot]
            /\ \A y, z \in DOMAIN ents[x] :
                 ents[x][y].inum # 0 /\ ents[x][z].inum # 0 /\ ents[x][y].name = ents[x][z].name
                   => y = z
        BY <4>1 DEF DirsOK
      <4>3. 1 \in DOMAIN ents[x] /\ 2 \in DOMAIN ents[x] /\ Len(ents[x]) \in Nat
        <5>1. ents[x] \in Seq(Slot)
          BY DEF StateOK
        <5> QED
          BY <4>2, <5>1
      <4>4. ents'[x][1] = ents[x][1] /\ ents'[x][2] = ents[x][2]
        BY <1>10, <1>14, <4>3
      <4>5. Len(ents'[x]) >= 2
        <5>1. Len(t) \in Nat
          BY <1>10 DEF Linked
        <5>2. x = ROOT => Len(ents[ROOT]) <= Len(t)
          BY <1>10 DEF Linked
        <5> QED
          BY <1>11, <3>2, <4>2, <4>3, <5>1, <5>2
      <4>6. \A y \in DOMAIN ents[ROOT] : ~(ents[ROOT][y].inum # 0 /\ ents[ROOT][y].name = n)
        BY <1>2, <1>4, LookupIs DEF Slots
      <4>7. ASSUME NEW y \in DOMAIN ents'[x], NEW z \in DOMAIN ents'[x],
                   ents'[x][y].inum # 0, ents'[x][z].inum # 0,
                   ents'[x][y].name = ents'[x][z].name
            PROVE  y = z
        <5>1. CASE x = ROOT /\ y = p /\ z # p
          BY <1>9, <1>13, <3>2, <4>6, <4>7, <5>1
        <5>2. CASE x = ROOT /\ y # p /\ z = p
          BY <1>9, <1>13, <3>2, <4>6, <4>7, <5>2
        <5>3. CASE ~(x = ROOT /\ y = p) /\ ~(x = ROOT /\ z = p)
          BY <1>13, <3>2, <4>2, <4>7, <5>3
        <5> QED
          BY <5>1, <5>2, <5>3
      <4> QED
        BY <4>1, <4>2, <4>4, <4>5, <4>7
    <3> QED
      BY <3>1, <3>2
  <2> QED
    BY <1>6, <2>1, <2>2 DEF DirsOK
<1>20. SlotsOK'
  <2> SUFFICES ASSUME NEW x \in INums, NEW y \in DOMAIN ents'[x], ents'[x][y].inum # 0
               PROVE  ino'[ents'[x][y].inum].type # "Invalid"
    BY DEF SlotsOK
  <2>1. CASE ents'[x][y].inum \in {i, ROOT}
    BY <1>6, <2>1
  <2>2. CASE ents'[x][y].inum \notin {i, ROOT}
    <3>1. PICK j : j = ents[x][y].inum
      OBVIOUS
    <3>2. y \in DOMAIN ents[x] /\ ents'[x][y] = ents[x][y]
      BY <1>9, <1>13, <2>2
    <3>3. j \in INums /\ ino[j].type # "Invalid"
      <4>1. ents[x][y] \in Slot
        BY <3>2, SlotIs
      <4> QED
        BY <3>1, <3>2, <4>1 DEF Slot, FreeSlot, SlotsOK
    <3> QED
      BY <1>6, <2>2, <3>1, <3>2, <3>3
  <2> QED
    BY <2>1, <2>2
<1>21. FreeOK'
  BY <1>6, <1>7 DEF FreeOK
<1>22. LostOnlyInCrash'
  BY <1>5, <1>6, <1>7 DEF LostOnlyInCrash
<1>23. MemOK'
  <2> SUFFICES ASSUME NEW j \in INums, mem'[j] # None
               PROVE  ref[j] > 0 /\ mem'[j] = ino'[j].nlink
    BY <1>7 DEF MemOK
  <2>1. mem[j] # None => ref[j] > 0 /\ mem[j] = ino[j].nlink
    BY DEF MemOK
  <2>2. mem'[j] = IF j = ROOT /\ ref[ROOT] > 0 THEN c ELSE mem[j]
    BY <1>4, <1>7 DEF StateOK
  <2>3. j # i
    <3>1. ref[i] = 0
      BY <1>3 DEF FreeOK, FreeINode
    <3> QED
      BY <1>4, <2>1, <2>2, <3>1
  <2> QED
    BY <1>6, <2>1, <2>2, <2>3
<1> QED
  BY <1>16, <1>18, <1>19, <1>20, <1>21, <1>22, <1>23

----------------------------------------------------------------------------
(* The theorems.                                                           *)

\* IInv holds in every state, for every number of inodes, slots and open files.
THEOREM Invariance == Spec => []IInv
<1>1. IInv /\ [Next]_vars => IInv'
  <2> SUFFICES ASSUME IInv, [Next]_vars
               PROVE  IInv'
    OBVIOUS
  <2>1. ASSUME NEW d \in INums, NEW n \in FileNames, Create(d, n) PROVE IInv'
    BY <2>1, CreateInv
  <2>2. ASSUME NEW d \in INums, NEW n \in FileNames, CreateFails(d, n) PROVE IInv'
    BY <2>2, CreateFailsInv
  <2>3. ASSUME NEW n \in FileNames, Mkdir(n) PROVE IInv'
    BY <2>3, MkdirInv
  <2>4. ASSUME NEW n \in FileNames, MkdirFails(n) PROVE IInv'
    BY <2>4, CrashInv DEF MkdirFails
  <2>5. ASSUME NEW d \in INums, NEW n \in FileNames, Open(d, n) PROVE IInv'
    BY <2>5, OpenInv
  <2>6. ASSUME NEW d \in INums, NEW n \in FileNames, Getattr(d, n) PROVE IInv'
    BY <2>6, GetattrInv
  <2>7. ASSUME NEW d \in INums, Readdir(d) PROVE IInv'
    BY <2>7, ReaddirInv
  <2>8. ASSUME NEW d \in INums, NEW n \in FileNames, Unlink(d, n) PROVE IInv'
    BY <2>8, UnlinkInv
  <2>9. ASSUME NEW i \in INums, Release(i) PROVE IInv'
    BY <2>9, ReleaseInv
  <2>10. CASE UNCHANGED vars
    <3>1. /\ StateOK' /\ FreeOK' /\ MemOK' /\ LostOnlyInCrash'
      BY <2>10 DEF IInv, vars, StateOK, FreeOK, MemOK, LostOnlyInCrash
    <3> QED
      BY <2>10, <3>1, DiskKept DEF vars
  <2> QED
    BY <2>1, <2>2, <2>3, <2>4, <2>5, <2>6, <2>7, <2>8, <2>9, <2>10,
       OpenRootInv, GetattrRootInv, CrashInv DEF Next
<1> QED
  BY <1>1, InitInv, PTL DEF Spec

\* Inodes, slots, references and link counts keep their types.
THEOREM Types == Spec => []TypeOK
<1>1. IInv => TypeOK
  <2> SUFFICES ASSUME IInv PROVE TypeOK
    OBVIOUS
  <2>1. ASSUME NEW d \in INums, NEW k \in DOMAIN ents[d]
        PROVE  ents[d][k] = FreeSlot \/ ents[d][k].inum \in INums
    <3>1. ents[d][k] \in Slot
      BY SlotIs DEF IInv
    <3> QED
      BY <3>1 DEF Slot
  <2>2. \A i \in INums : mem[i] = None \/ mem[i] \in Nat
    BY Typed DEF IInv
  <2> QED
    BY <2>1, <2>2 DEF IInv, StateOK, TypeOK
<1> QED
  BY <1>1, Invariance, PTL

\* In any order of creations, removals, opens, closes and restarts, the link
\* count do_unlink and op_release act on is the number of entries there are.
THEOREM LinksCounted == Spec => []LinkCountExact
<1>1. IInv => LinkCountExact
  BY DEF IInv, CountOK, LinkCountExact
<1> QED
  BY <1>1, Invariance, PTL

\* No path leads to an inode that inode_alloc may give to another file.
THEOREM NamesLeadSomewhere == Spec => []NoDanglingName
<1>1. IInv => NoDanglingName
  <2> SUFFICES ASSUME IInv, NEW d \in Directories, NEW k \in DOMAIN ents[d], ents[d][k].inum # 0
               PROVE  ino[ents[d][k].inum].type # "Invalid"
    BY DEF NoDanglingName
  <2>1. d \in INums
    BY DirectoriesAre DEF IInv
  <2> QED
    BY <2>1 DEF IInv, SlotsOK
<1> QED
  BY <1>1, Invariance, PTL

\* dirlink and do_unlink keep a directory's first two slots and its names apart.
THEOREM DirectoriesStaySound == Spec => []DirectoriesSound
<1>1. IInv => DirectoriesSound
  <2> SUFFICES ASSUME IInv, NEW d \in Directories
               PROVE  /\ SubSeq(ents[d], 1, 2) = Dots(d, ROOT)
                      /\ \A j, k \in DOMAIN ents[d] :
                           /\ ents[d][j].inum # 0 /\ ents[d][k].inum # 0
                           /\ ents[d][j].name = ents[d][k].name
                           => j = k
    BY DEF DirectoriesSound
  <2>1. d \in INums /\ ino[d].type = "T_DIR"
    BY DirectoriesAre DEF IInv
  <2>2. /\ Len(ents[d]) >= 2
        /\ ents[d][1] = [inum |-> d, name |-> Dot]
        /\ ents[d][2] = [inum |-> ROOT, name |-> DotDot]
        /\ \A j, k \in DOMAIN ents[d] :
             ents[d][j].inum # 0 /\ ents[d][k].inum # 0 /\ ents[d][j].name = ents[d][k].name
               => j = k
    BY <2>1 DEF IInv, DirsOK
  <2>3. SubSeq(ents[d], 1, 2) = Dots(d, ROOT)
    <3>1. ents[d] \in Seq(Slot)
      BY <2>1 DEF IInv, StateOK
    <3>2. PICK s, t : s = SubSeq(ents[d], 1, 2) /\ t = Dots(d, ROOT)
      OBVIOUS
    <3>3. s \in Seq(Slot) /\ Len(s) = 2 /\ s[1] = ents[d][1] /\ s[2] = ents[d][2]
      <4>1. \A i \in 1 .. 2 : ents[d][i] \in Slot
        BY <2>2, <3>1
      <4>2. s \in Seq(Slot) /\ Len(s) = 2 /\ \A i \in 1 .. 2 : s[i] = ents[d][i]
        BY <3>2, <4>1, SubSeqProperties
      <4> QED
        BY <4>2
    <3>4. t \in Seq(Slot) /\ Len(t) = 2 /\ t[1] = ents[d][1] /\ t[2] = ents[d][2]
      <4>1. ents[d][1] \in Slot /\ ents[d][2] \in Slot
        BY <2>2, <3>1
      <4> QED
        BY <2>2, <3>2, <4>1 DEF Dots
    <3>5. \A i \in 1 .. Len(s) : s[i] = t[i]
      BY <3>3, <3>4
    <3> QED
      BY <3>2, <3>3, <3>4, <3>5, SeqEqual
  <2> QED
    BY <2>2, <2>3
<1> QED
  BY <1>1, Invariance, PTL

\* An inode that neither a name nor a handle leads to is free, or was open
\* without a name when the daemon died: do_unlink and op_release lose none.
THEOREM LosesOnlyInCrash == Spec => []LostOnlyInCrash
<1>1. IInv => LostOnlyInCrash
  BY DEF IInv
<1> QED
  BY <1>1, Invariance, PTL

----------------------------------------------------------------------------
(* The calls implement NameSpace.                                          *)

\* The name space as the slots give it.
Tree == [k \in INums \X FileNames |-> Lookup(k[1], k[2])]

\* Slots in which no name occurs twice, and the node v a name leads to in them.
NoNameTwice(s) ==
  \A j, k \in DOMAIN s : s[j].inum # 0 /\ s[k].inum # 0 /\ s[j].name = s[k].name => j = k

LeadsTo(s, n, v) ==
  /\ \A k \in DOMAIN s : s[k].inum # 0 /\ s[k].name = n => v = s[k].inum
  /\ v # 0 => \E k \in DOMAIN s : s[k].inum = v /\ s[k].name = n

\* In slots without a name twice, dirlookup finds the slot with the name.
LEMMA LookupOf ==
  ASSUME NEW s \in Seq(Slot), NoNameTwice(s), NEW n,
         NEW S, S = {k \in DOMAIN s : s[k].inum # 0 /\ s[k].name = n}
  PROVE  LeadsTo(s, n, IF S = {} THEN 0 ELSE s[Min(S)].inum)
<1>1. CASE S = {}
  BY <1>1 DEF LeadsTo
<1>2. CASE S # {}
  <2>1. S \in SUBSET Nat
    OBVIOUS
  <2>2. PICK m : m = Min(S)
    OBVIOUS
  <2>3. m \in S
    BY <1>2, <2>1, <2>2, MinIs
  <2>4. m \in DOMAIN s /\ s[m].inum # 0 /\ s[m].name = n
    BY <2>3
  <2>5. LeadsTo(s, n, s[m].inum)
    BY <2>4 DEF LeadsTo, NoNameTwice
  <2> QED
    BY <1>2, <2>2, <2>5
<1> QED
  BY <1>1, <1>2

\* The same of a directory, before a step,
LEMMA LookupAt ==
  ASSUME IInv, NEW d \in INums, NEW n
  PROVE  LeadsTo(ents[d], n, Lookup(d, n))
<1>1. ents[d] \in Seq(Slot)
  BY DEF IInv, StateOK
<1>2. NoNameTwice(ents[d])
  <2>1. CASE ino[d].type = "T_DIR"
    BY <2>1 DEF IInv, DirsOK, NoNameTwice
  <2>2. CASE ino[d].type # "T_DIR"
    <3>1. DOMAIN ents[d] = {}
      BY <2>2 DEF IInv, DirsOK
    <3> QED
      BY <3>1 DEF NoNameTwice
  <2> QED
    BY <2>1, <2>2
<1>3. PICK s, S : s = ents[d] /\ S = Slots(d, n)
  OBVIOUS
<1>4. S = {k \in DOMAIN s : s[k].inum # 0 /\ s[k].name = n}
  BY <1>3 DEF Slots
<1>5. LeadsTo(s, n, IF S = {} THEN 0 ELSE s[Min(S)].inum)
  BY <1>1, <1>2, <1>3, <1>4, LookupOf
<1> QED
  BY <1>3, <1>5 DEF Lookup

\* and after it.
LEMMA LookupAfter ==
  ASSUME IInv', NEW d \in INums, NEW n
  PROVE  LeadsTo(ents'[d], n, Lookup(d, n)')
<1>1. ents'[d] \in Seq(Slot)
  BY DEF IInv, StateOK
<1>2. NoNameTwice(ents'[d])
  <2>1. CASE ino'[d].type = "T_DIR"
    BY <2>1 DEF IInv, DirsOK, NoNameTwice
  <2>2. CASE ino'[d].type # "T_DIR"
    <3>1. DOMAIN ents'[d] = {}
      BY <2>2 DEF IInv, DirsOK
    <3> QED
      BY <3>1 DEF NoNameTwice
  <2> QED
    BY <2>1, <2>2
<1>3. PICK s, S : s = ents'[d] /\ S = Slots(d, n)'
  OBVIOUS
<1>4. S = {k \in DOMAIN s : s[k].inum # 0 /\ s[k].name = n}
  BY <1>3 DEF Slots
<1>5. LeadsTo(s, n, IF S = {} THEN 0 ELSE s[Min(S)].inum)
  BY <1>1, <1>2, <1>3, <1>4, LookupOf
<1> QED
  BY <1>3, <1>5 DEF Lookup

\* A name whose slots a step leaves alone leads where it led.
LEMMA LookupKept ==
  ASSUME IInv, IInv', NEW d \in INums, NEW n,
         \A k : k \in DOMAIN ents[d] /\ ents[d][k].inum # 0 /\ ents[d][k].name = n
                  => k \in DOMAIN ents'[d] /\ ents'[d][k] = ents[d][k],
         \A k : k \in DOMAIN ents'[d] /\ ents'[d][k].inum # 0 /\ ents'[d][k].name = n
                  => k \in DOMAIN ents[d] /\ ents'[d][k] = ents[d][k]
  PROVE  Lookup(d, n)' = Lookup(d, n)
<1>1. CASE Lookup(d, n) # 0
  <2>1. PICK k \in DOMAIN ents[d] : ents[d][k].inum = Lookup(d, n) /\ ents[d][k].name = n
    BY <1>1, LookupAt DEF LeadsTo
  <2>2. k \in DOMAIN ents'[d] /\ ents'[d][k] = ents[d][k]
    BY <1>1, <2>1
  <2> QED
    BY <1>1, <2>1, <2>2, LookupAfter DEF LeadsTo
<1>2. CASE Lookup(d, n) = 0
  <2> SUFFICES ASSUME Lookup(d, n)' # 0 PROVE FALSE
    BY <1>2
  <2>1. PICK k \in DOMAIN ents'[d] : ents'[d][k].inum = Lookup(d, n)' /\ ents'[d][k].name = n
    BY LookupAfter DEF LeadsTo
  <2>2. k \in DOMAIN ents[d] /\ ents'[d][k] = ents[d][k]
    BY <2>1
  <2> QED
    BY <1>2, <2>1, <2>2, LookupAt DEF LeadsTo
<1> QED
  BY <1>1, <1>2

\* A new inode is nobody's: no name and no handle leads to it.
LEMMA NewIsUnused ==
  ASSUME IInv, NEW i \in INums, ino[i] = FreeINode
  PROVE  i # ROOT /\ ref[i] = 0 /\ \A k \in INums \X FileNames : Tree[k] # i
<1>1. ref[i] = 0 /\ i # ROOT
  BY DEF IInv, FreeOK, DirsOK, FreeINode
<1>2. ASSUME NEW d \in INums, NEW n \in FileNames, Lookup(d, n) = i
      PROVE  FALSE
  <2>1. PICK k \in DOMAIN ents[d] : ents[d][k].inum = i
    <3>1. i # 0
      OBVIOUS
    <3> QED
      BY <1>2, <3>1, LookupAt DEF LeadsTo
  <2> QED
    BY <2>1 DEF IInv, SlotsOK, FreeINode
<1> QED
  BY <1>1, <1>2 DEF Tree

\* A directory a path leads to is the root or has a name.
LEMMA DirectoryInUse ==
  ASSUME NEW d \in Directories
  PROVE  d = ROOT \/ \E k \in INums \X FileNames : Tree[k] = d
<1>1. CASE d # ROOT
  <2>1. PICK n \in FileNames : d = Lookup(ROOT, n)
    BY <1>1 DEF Directories
  <2>2. <<ROOT, n>> \in INums \X FileNames /\ Tree[<<ROOT, n>>] = d
    BY <2>1 DEF Tree
  <2> QED
    BY <2>2
<1> QED
  BY <1>1

\* One name changes, the others do not.
LEMMA TreeChanged ==
  ASSUME NEW d \in INums, NEW n \in FileNames, NEW v, Lookup(d, n)' = v,
         \A x \in INums, m \in FileNames :
           ~(x = d /\ m = n) => Lookup(x, m)' = Lookup(x, m)
  PROVE  Tree' = [Tree EXCEPT ![<<d, n>>] = v]
<1>1. \A k \in INums \X FileNames : Lookup(k[1], k[2])' = IF k = <<d, n>> THEN v ELSE Tree[k]
  BY DEF Tree
<1> QED
  BY <1>1 DEF Tree

\* An entry e in slot p of directory d: only the name of e leads elsewhere.
LEMMA LinkedLeads ==
  ASSUME IInv, IInv', NEW d \in INums, NEW p, NEW e, e.inum # 0,
         Linked(ents[d], ents'[d], p, e)
  PROVE  /\ Lookup(d, e.name)' = e.inum
         /\ \A m : m # e.name => Lookup(d, m)' = Lookup(d, m)
<1>1. p \in DOMAIN ents'[d] /\ ents'[d][p] = e
  BY DEF Linked
<1>2. Lookup(d, e.name)' = e.inum
  BY <1>1, LookupAfter DEF LeadsTo
<1>3. ASSUME NEW m, m # e.name
      PROVE  Lookup(d, m)' = Lookup(d, m)
  <2>1. \A k : k \in DOMAIN ents[d] /\ ents[d][k].inum # 0
                 => k \in DOMAIN ents'[d] /\ ents'[d][k] = ents[d][k]
    BY DEF Linked
  <2>2. \A k : k \in DOMAIN ents'[d] /\ k # p => k \in DOMAIN ents[d] /\ ents'[d][k] = ents[d][k]
    BY DEF Linked
  <2>3. \A k : k \in DOMAIN ents'[d] /\ ents'[d][k].inum # 0 /\ ents'[d][k].name = m
                 => k \in DOMAIN ents[d] /\ ents'[d][k] = ents[d][k]
    BY <1>1, <1>3, <2>2
  <2> QED
    BY <2>1, <2>3, LookupKept
<1> QED
  BY <1>2, <1>3

\* op_create binds the name.
LEMMA CreateStep ==
  ASSUME IInv, IInv', NEW d \in INums, NEW n \in FileNames, Create(d, n)
  PROVE  NS!Changed(<<d, n>>) /\ \E i \in INums : NS!Bind(<<d, n>>, i)
<1>1. PICK i, e : i = Alloc /\ e = [inum |-> i, name |-> n]
  OBVIOUS
<1>2. /\ d \in Directories /\ Lookup(d, n) = 0 /\ i # 0
      /\ ents' = [ents EXCEPT ![d] = Link(ents[d], FreeSlots(d), e)]
      /\ ref' = [ref EXCEPT ![i] = 1]
  BY <1>1 DEF Create
<1>3. i \in INums /\ ino[i] = FreeINode
  BY <1>1, <1>2, AllocIs
<1>4. e \in Slot /\ e.inum = i /\ e.name = n /\ e.inum # 0
  BY <1>1, <1>2, <1>3 DEF Slot
<1>5. ino[d].type = "T_DIR"
  BY <1>2, DirectoriesAre DEF IInv
<1>6. \E p \in Nat \ {0, 1, 2} : Linked(ents[d], Link(ents[d], FreeSlots(d), e), p, e)
  BY <1>4, <1>5, LinkedAt DEF IInv
<1>7. ents'[d] = Link(ents[d], FreeSlots(d), e) /\ \A x \in INums : x # d => ents'[x] = ents[x]
  BY <1>2 DEF IInv, StateOK
<1>8. Lookup(d, n)' = i /\ \A m : m # n => Lookup(d, m)' = Lookup(d, m)
  <2>1. PICK p : Linked(ents[d], ents'[d], p, e)
    BY <1>6, <1>7
  <2> QED
    BY <1>4, <2>1, LinkedLeads
<1>9. \A x \in INums : \A m : x # d => Lookup(x, m)' = Lookup(x, m)
  BY <1>7, LookupKept
<1>10. Tree' = [Tree EXCEPT ![<<d, n>>] = i]
  BY <1>8, <1>9, TreeChanged
<1>11. <<d, n>> \in INums \X FileNames /\ Tree[<<d, n>>] = 0 /\ <<d, n>>[1] = d
  BY <1>2 DEF Tree
<1>12. i # ROOT /\ ref[i] = 0 /\ \A k \in INums \X FileNames : Tree[k] # i
  BY <1>3, NewIsUnused
<1>13. d = ROOT \/ \E k \in INums \X FileNames : Tree[k] = d
  BY <1>2, DirectoryInUse
<1>14. NS!Bind(<<d, n>>, i)
  BY <1>2, <1>10, <1>11, <1>12, <1>13 DEF NS!Bind, NS!InUse, NS!Named, NS!Keys, Tree
<1>15. NS!Changed(<<d, n>>)
  BY <1>2, <1>8 DEF NS!Changed
<1> QED
  BY <1>3, <1>14, <1>15

\* op_mkdir too, and its node is not open.
LEMMA MkdirStep ==
  ASSUME IInv, IInv', NEW n \in FileNames, Mkdir(n)
  PROVE  NS!Changed(<<ROOT, n>>) /\ \E i \in INums : NS!Bind(<<ROOT, n>>, i)
<1>1. PICK i, e, dots : i = Alloc /\ e = [inum |-> i, name |-> n] /\ dots = Dots(i, ROOT)
  OBVIOUS
<1>2. /\ Lookup(ROOT, n) = 0 /\ i # 0
      /\ ents' = [ents EXCEPT ![i] = dots, ![ROOT] = Link(ents[ROOT], FreeSlots(ROOT), e)]
      /\ ref' = ref
  BY <1>1 DEF Mkdir
<1>3. i \in INums /\ ino[i] = FreeINode
  BY <1>1, <1>2, AllocIs
<1>4. i # ROOT /\ ref[i] = 0 /\ \A k \in INums \X FileNames : Tree[k] # i
  BY <1>3, NewIsUnused
<1>5. e \in Slot /\ e.inum = i /\ e.name = n /\ e.inum # 0
  BY <1>1, <1>2, <1>3 DEF Slot
<1>6. ROOT \in INums /\ ino[ROOT].type = "T_DIR"
  BY DEF IInv, DirsOK
<1>7. \E p \in Nat \ {0, 1, 2} : Linked(ents[ROOT], Link(ents[ROOT], FreeSlots(ROOT), e), p, e)
  BY <1>5, <1>6, LinkedAt DEF IInv
<1>8. /\ ents'[ROOT] = Link(ents[ROOT], FreeSlots(ROOT), e) /\ ents'[i] = dots
      /\ \A x \in INums : x # ROOT /\ x # i => ents'[x] = ents[x]
  BY <1>2, <1>3, <1>4, <1>6 DEF IInv, StateOK
<1>9. Lookup(ROOT, n)' = i /\ \A m : m # n => Lookup(ROOT, m)' = Lookup(ROOT, m)
  <2>1. PICK p : Linked(ents[ROOT], ents'[ROOT], p, e)
    BY <1>7, <1>8
  <2> QED
    BY <1>5, <1>6, <2>1, LinkedLeads
<1>10. \A x \in INums : \A m : x # ROOT /\ x # i => Lookup(x, m)' = Lookup(x, m)
  BY <1>8, LookupKept
<1>11. \A m \in FileNames : Lookup(i, m)' = Lookup(i, m)
  <2> TAKE m \in FileNames
  <2>1. DOMAIN ents[i] = {}
    BY <1>3 DEF IInv, DirsOK, FreeINode
  <2>2. \A k \in DOMAIN ents'[i] : ents'[i][k].name # m
    <3>1. DOMAIN dots = {1, 2} /\ dots[1].name = Dot /\ dots[2].name = DotDot
      BY <1>1 DEF Dots
    <3> QED
      BY <1>8, <3>1
  <2> QED
    BY <1>3, <2>1, <2>2, LookupKept
<1>12. Tree' = [Tree EXCEPT ![<<ROOT, n>>] = i]
  BY <1>6, <1>9, <1>10, <1>11, TreeChanged
<1>13. <<ROOT, n>> \in INums \X FileNames /\ Tree[<<ROOT, n>>] = 0 /\ <<ROOT, n>>[1] = ROOT
  BY <1>2, <1>6 DEF Tree
<1>14. NS!Bind(<<ROOT, n>>, i)
  BY <1>2, <1>4, <1>12, <1>13 DEF NS!Bind, NS!InUse, NS!Named, NS!Keys, Tree
<1>15. NS!Changed(<<ROOT, n>>)
  BY <1>2, <1>6, <1>9 DEF NS!Changed
<1> QED
  BY <1>3, <1>14, <1>15

\* do_unlink removes the name, and no other.
LEMMA UnlinkStep ==
  ASSUME IInv, IInv', NEW d \in INums, NEW n \in FileNames, Unlink(d, n)
  PROVE  NS!Changed(<<d, n>>) /\ NS!Unbind(<<d, n>>)
<1>1. PICK k : k = Min(Slots(d, n))
  OBVIOUS
<1>2. /\ Lookup(d, n) # 0
      /\ ents' = [ents EXCEPT ![d] = [ents[d] EXCEPT ![k] = FreeSlot]]
      /\ ref' = ref
  BY <1>1 DEF Unlink, Clear
<1>3. k \in DOMAIN ents[d] /\ ents[d][k].inum # 0 /\ ents[d][k].name = n
  BY <1>1, <1>2, LookupIs DEF IInv, Slots
<1>4. ents'[d] = [ents[d] EXCEPT ![k] = FreeSlot] /\ \A x \in INums : x # d => ents'[x] = ents[x]
  BY <1>2 DEF IInv, StateOK
<1>5. /\ DOMAIN ents'[d] = DOMAIN ents[d]
      /\ \A j \in DOMAIN ents[d] : ents'[d][j] = IF j = k THEN FreeSlot ELSE ents[d][j]
  BY <1>4 DEF IInv, StateOK
<1>6. Lookup(d, n)' = 0
  <2> SUFFICES ASSUME Lookup(d, n)' # 0 PROVE FALSE
    OBVIOUS
  <2>1. PICK j \in DOMAIN ents'[d] : ents'[d][j].inum # 0 /\ ents'[d][j].name = n
    BY LookupAfter DEF LeadsTo
  <2>2. j # k /\ ents[d][j].inum # 0 /\ ents[d][j].name = n /\ j \in DOMAIN ents[d]
    BY <1>5, <2>1 DEF FreeSlot
  <2>3. ino[d].type = "T_DIR"
    BY <1>3, SlotIs DEF IInv
  <2> QED
    BY <1>3, <2>2, <2>3 DEF IInv, DirsOK
<1>7. \A m : m # n => Lookup(d, m)' = Lookup(d, m)
  <2> SUFFICES ASSUME NEW m, m # n PROVE Lookup(d, m)' = Lookup(d, m)
    OBVIOUS
  <2>1. \A j : j \in DOMAIN ents[d] /\ ents[d][j].inum # 0 /\ ents[d][j].name = m
                 => j \in DOMAIN ents'[d] /\ ents'[d][j] = ents[d][j]
    BY <1>3, <1>5
  <2>2. \A j : j \in DOMAIN ents'[d] /\ ents'[d][j].inum # 0 /\ ents'[d][j].name = m
                 => j \in DOMAIN ents[d] /\ ents'[d][j] = ents[d][j]
    BY <1>5 DEF FreeSlot
  <2> QED
    BY <2>1, <2>2, LookupKept
<1>8. \A x \in INums : \A m : x # d => Lookup(x, m)' = Lookup(x, m)
  BY <1>4, LookupKept
<1>9. Tree' = [Tree EXCEPT ![<<d, n>>] = 0]
  BY <1>6, <1>7, <1>8, TreeChanged
<1>10. Tree[<<d, n>>] # 0
  BY <1>2 DEF Tree
<1>11. NS!Changed(<<d, n>>)
  BY <1>2, <1>6 DEF NS!Changed
<1> QED
  BY <1>2, <1>9, <1>10, <1>11 DEF NS!Unbind, Tree

\* As long as no slot changes, the name space does not.
LEMMA TreeKept ==
  ASSUME ents' = ents
  PROVE  Tree' = Tree
BY DEF Tree, Lookup, Slots

\* Every call is a step of the name space, or changes nothing of it.
LEMMA NextStep ==
  ASSUME IInv, IInv', [Next]_vars
  PROVE  [NS!Next]_(NS!nsVars)
<1> USE DEF NS!Next, NS!Keys
<1>1. ASSUME NEW d \in INums, NEW n \in FileNames, Create(d, n) PROVE NS!Next
  BY <1>1, CreateStep
<1>2. ASSUME NEW n \in FileNames, Mkdir(n) PROVE NS!Next
  <2>1. PICK i \in INums : NS!Changed(<<ROOT, n>>) /\ NS!Bind(<<ROOT, n>>, i)
    BY <1>2, MkdirStep
  <2>2. <<ROOT, n>> \in INums \X FileNames
    OBVIOUS
  <2> QED
    BY <2>1, <2>2
<1>3. ASSUME NEW d \in INums, NEW n \in FileNames, Unlink(d, n) PROVE NS!Next
  BY <1>3, UnlinkStep
<1>4. ASSUME NEW d \in INums, NEW n \in FileNames, Open(d, n) PROVE NS!Next
  <2>1. PICK i : i = Lookup(d, n)
    OBVIOUS
  <2>2. i # 0 /\ ref' = [ref EXCEPT ![i] = @ + 1] /\ ents' = ents
    BY <1>4, <2>1 DEF Open, DoOpen
  <2>3. i \in INums
    BY <2>1, <2>2, LookupIs DEF IInv
  <2>4. Tree' = Tree
    BY <2>2, TreeKept
  <2>5. <<d, n>> \in INums \X FileNames /\ Tree[<<d, n>>] = i
    BY <2>1 DEF Tree
  <2>6. NS!OpenNode(i)
    BY <2>2, <2>4, <2>5 DEF NS!OpenNode, NS!Named, Tree
  <2> QED
    BY <2>3, <2>6
<1>5. ASSUME OpenRoot PROVE NS!Next
  <2>1. ref' = [ref EXCEPT ![ROOT] = @ + 1] /\ ents' = ents /\ ROOT \in INums
    BY <1>5 DEF OpenRoot, DoOpen
  <2>2. NS!OpenNode(ROOT)
    BY <2>1, TreeKept DEF NS!OpenNode, Tree
  <2> QED
    BY <2>1, <2>2
<1>6. ASSUME NEW i \in INums, Release(i) PROVE NS!Next
  <2>1. ref[i] > 0 /\ ref' = [ref EXCEPT ![i] = @ - 1] /\ ents' = ents
    BY <1>6 DEF Release
  <2>2. NS!CloseNode(i)
    BY <2>1, TreeKept DEF NS!CloseNode, Tree
  <2> QED
    BY <2>2
<1>7. ASSUME Crash PROVE NS!Next
  <2>1. NS!Restart
    BY <1>7, TreeKept DEF Crash, NS!Restart, Tree
  <2> QED
    BY <2>1
<1>8. ASSUME ents' = ents, ref' = ref PROVE UNCHANGED NS!nsVars
  BY <1>8, TreeKept DEF NS!nsVars, Tree
<1> QED
  BY <1>1, <1>2, <1>3, <1>4, <1>5, <1>6, <1>7, <1>8
     DEF Next, vars, CreateFails, MkdirFails, Getattr, GetattrRoot, GetattrOf, Readdir

\* The image mkfs makes has no names but those of the dots.
LEMMA InitStep ==
  ASSUME Init
  PROVE  NS!Init
<1>1. IInv
  BY InitInv
<1>2. ASSUME NEW d \in INums, NEW n \in FileNames PROVE Lookup(d, n) = 0
  <2> SUFFICES ASSUME Lookup(d, n) # 0 PROVE FALSE
    OBVIOUS
  <2>1. PICK k \in DOMAIN ents[d] : ents[d][k].inum = Lookup(d, n) /\ ents[d][k].name = n
    BY <1>1, LookupAt DEF LeadsTo
  <2>2. \A i \in INums : i # ROOT => ino[i].type = "Invalid"
    BY DEF Init, FreeINode
  <2>3. ino[ROOT].nlink = 1 /\ ROOT \in INums
    BY DEF Init
  <2>4. d = ROOT
    BY <1>1, <2>1, <2>2, SlotIs DEF IInv
  <2>5. ents[d][k].inum = ROOT
    <3>1. Lookup(d, n) \in INums
      BY <1>1, LookupIs DEF IInv
    <3> QED
      BY <1>1, <2>1, <2>2, <3>1 DEF IInv, SlotsOK
  <2>6. Entries(ROOT) = {}
    <3>1. IsFiniteSet(Entries(ROOT)) /\ ino[ROOT].nlink = Cardinality(Entries(ROOT)) + 1
      BY <1>1, <2>3 DEF IInv, CountOK
    <3>2. Cardinality(Entries(ROOT)) \in Nat
      BY <3>1, FS_CardinalityType
    <3>3. Cardinality(Entries(ROOT)) = 0
      BY <2>3, <3>1, <3>2
    <3> QED
      BY <3>1, <3>3, FS_EmptySet
  <2>7. k = 1 \/ k = 2
    BY <2>1, <2>3, <2>4, <2>5, <2>6, EntriesAre
  <2>8. ents[ROOT][1].name = Dot /\ ents[ROOT][2].name = DotDot
    <3>1. /\ ents[ROOT][1] = [inum |-> ROOT, name |-> Dot]
          /\ ents[ROOT][2] = [inum |-> ROOT, name |-> DotDot]
      BY <1>1, <2>3 DEF IInv, DirsOK
    <3> QED
      BY <3>1
  <2> QED
    BY <2>1, <2>4, <2>7, <2>8
<1> QED
  BY <1>2 DEF Init, NS!Init, NS!Keys

\* The directories implement NameSpace, for every number of inodes and every set
\* of names: a call changes its own name and no other, and a new name never leads
\* to a node that a name or a handle leads to.
THEOREM ImplementsNameSpace == Spec => NameSpaceKept
BY InitStep, NextStep, Invariance, PTL DEF Spec, NameSpaceKept, NS!Spec

============================================================================
