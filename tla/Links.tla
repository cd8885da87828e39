------------------------------- MODULE Links -------------------------------
(***************************************************************************)
(* op_link and op_rename next to the calls of Names (src/src/op_link.cxx,  *)
(* op_rename.cxx).  They are apart because they do not keep what Names     *)
(* promises.                                                               *)
(*                                                                         *)
(* Only files are moved between directories, which keeps paths short.      *)
(***************************************************************************)
EXTENDS Names

CONSTANT MaxLeak   \* references to a directory that rename has lost, at most

VARIABLE leaked    \* references to an inode that nobody will ever put

linkVars == <<vars, leaked>>

LinkInit == Init /\ leaked = [i \in INums |-> 0]

\* do_link: nlink goes up in memory only, then the name is written.  (It unlocks
\* the inode twice; the second unlock, of a mutex it does not own, is undefined
\* behaviour and left out.)
DoLink(d, n, d2, n2) ==
  LET i == Lookup(d, n) IN
  /\ {d, d2} \subseteq Directories
  /\ i # 0 /\ ino[i].type = "T_FILE"
  /\ Lookup(d2, n2) = 0
  /\ ents' = [ents EXCEPT ![d2] = Link(@, FreeSlots(d2), [inum |-> i, name |-> n2])]
  /\ mem' = [Walked(Walked(mem, d), d2) EXCEPT ![i] = IF ref[i] > 0 THEN Nlink(i) + 1 ELSE None]
  /\ UNCHANGED <<ino, ref, orphans, leaked>>

\* No block for the name: nlink goes down again and is written.
DoLinkFails(d, n, d2, n2) ==
  LET i == Lookup(d, n) IN
  /\ {d, d2} \subseteq Directories
  /\ i # 0 /\ ino[i].type = "T_FILE"
  /\ Lookup(d2, n2) = 0 /\ FreeSlots(d2) = {}
  /\ ino' = [ino EXCEPT ![i].nlink = Nlink(i)]
  /\ mem' = Walked(Walked(mem, d), d2)
  /\ UNCHANGED <<ents, ref, orphans, leaked>>

\* rename looks at the type of a directory that it has not locked: unless the
\* inode is in the cache and valid, that is zero.
Valid(d) == ref[d] > 0 /\ mem[d] # None

\* The early return, which does not put the inode.
ReturnWithout(d) ==
  /\ ~Valid(d)
  /\ leaked[d] < MaxLeak
  /\ ref' = [ref EXCEPT ![d] = @ + 1]
  /\ leaked' = [leaked EXCEPT ![d] = @ + 1]
  /\ mem' = IF d = ROOT THEN mem ELSE Walked(mem, ROOT)
  /\ UNCHANGED <<ino, ents, orphans>>

\* same_parent: the name in the slot is replaced.
SameParent(d, n, n2) ==
  LET k == Min(Slots(d, n)) IN
  /\ d \in Directories
  /\ n # n2 /\ Slots(d, n) # {}
  /\ Valid(d)
  /\ ents' = [ents EXCEPT ![d][k].name = n2]
  /\ mem' = Walked(mem, ROOT)
  /\ UNCHANGED <<ino, ref, orphans, leaked>>

\* different_parent: dirlink into the one directory; in the other the slot gets
\* a copy of the last one.
DifferentParent(d, n, d2, n2) ==
  LET i == Lookup(d, n)
      k == Min(Slots(d, n))
  IN
  /\ {d, d2} \subseteq Directories /\ d # d2
  /\ i # 0 /\ ino[i].type = "T_FILE"
  /\ Valid(d) /\ Valid(d2)
  /\ Lookup(d2, n2) = 0
  /\ ents' = [ents EXCEPT ![d2] = Link(@, FreeSlots(d2), [inum |-> i, name |-> n2]),
                          ![d][k] = Last(ents[d])]
  /\ mem' = Walked(mem, ROOT)
  /\ UNCHANGED <<ino, ref, orphans, leaked>>

RenameNotDir(d, d2) ==
  /\ {d, d2} \subseteq Directories
  /\ \/ ReturnWithout(d)
     \/ d # d2 /\ Valid(d) /\ ReturnWithout(d2)

Die == Crash /\ leaked' = [i \in INums |-> 0]

\* lock() asserts that the inode has a type.
LookupAborts(d, n) ==
  /\ d \in Directories
  /\ Lookup(d, n) # 0 /\ ino[Lookup(d, n)].type = "Invalid"
  /\ Die

NamesCall ==
  \/ \E d \in INums, n \in FileNames :
       Create(d, n) \/ CreateFails(d, n) \/ Open(d, n) \/ Unlink(d, n) \/ Getattr(d, n)
  \/ \E n \in FileNames : Mkdir(n)
  \/ OpenRoot \/ GetattrRoot
  \/ \E d \in INums : Readdir(d)
  \/ \E i \in INums : ref[i] > leaked[i] /\ Release(i)

LinkNext ==
  \/ NamesCall /\ UNCHANGED leaked
  \/ \E d, d2 \in INums, n, n2 \in FileNames :
       DoLink(d, n, d2, n2) \/ DoLinkFails(d, n, d2, n2) \/ DifferentParent(d, n, d2, n2)
  \/ \E d \in INums, n, n2 \in FileNames : SameParent(d, n, n2)
  \/ \E d, d2 \in INums : RenameNotDir(d, d2)
  \/ \E d \in INums, n \in FileNames : LookupAborts(d, n)
  \/ Die

LinkSpec == LinkInit /\ [][LinkNext]_linkVars

============================================================================
