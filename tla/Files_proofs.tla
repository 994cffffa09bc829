---------------------------- MODULE Files_proofs ----------------------------
(***************************************************************************)
(* Proofs about the file server: the theorems are at the end.              *)
(*                                                                         *)
(* The argument.  A fid's chain is a path of the tree (IsPath), so a file  *)
(* that comes and goes is either its top or just below its top; a listed   *)
(* bar lives, in the directory it is listed for, and is listed once.  With *)
(* those, a chain that ixp_srv_verifyfile accepts fits the objects as they *)
(* are now, and a chain to a file that never goes is always accepted: so   *)
(* no clunk of a table, or of a reader of events, is without its effect.   *)
(***************************************************************************)
EXTENDS Files, SequenceTheorems, WellFoundedInduction, TLAPS

StaticTypes == {"bars", "clients", "tags", "event", "debug", "rctl", "keys", "rules", "colrules",
                "cctl", "label", "ctags", "props", "tctl", "index"}
Types == StaticTypes \cup {"root", "bar", "clientdir", "tagdir"}

\* The root's is no name that is walked to.
FileSet == [type : Types, name : STRING \cup {"/"}, ref : Addrs \cup {Nil}]
ObjSet == [dir : BarDirs \cup SelDirs, name : Range(Names) \cup ObjNames]
FidSet == [chain : Seq(FileSet), mode : {"no", "r", "w", "rw"}, pending : BOOLEAN]

ObjTypes ==
  /\ obj \in [Addrs -> ObjSet \cup {Nil}]
  /\ bars \in [BarDirs -> Seq(Addrs)]
  /\ sel \in [SelDirs -> Addrs \cup {Nil}]

EventTypes == reading \in SUBSET Fids /\ unread \in [Fids -> Nat] /\ debugfile \in BOOLEAN

TableTypes == text \in [Tables -> Texts] /\ applied \in [Tables -> Texts]

TypeOK ==
  ObjTypes /\ fid \in [Fids -> FidSet] /\ EventTypes /\ TableTypes /\ strayed \in BOOLEAN

(* c may be an entry of the directory p.                                   *)
Entry(p, c) ==
  \/ p.type = "bars" /\ c.type = "bar"
  \/ p.type = "clients" /\ c.type = "clientdir"
  \/ p.type = "tags" /\ c.type = "tagdir"
  \/ /\ p.type \in DOMAIN Static /\ c.name \in DOMAIN Static[p.type]
     /\ c.type = Static[p.type][c.name] /\ c.ref = p.ref

IsPath(chain) ==
  /\ chain # <<>> /\ chain[Len(chain)] = Root
  /\ \A i \in 1 .. Len(chain) - 1 : Entry(chain[i + 1], chain[i])

BarsInv ==
  \A d \in BarDirs :
    /\ \A i \in DOMAIN bars[d] : obj[bars[d][i]] # Nil /\ obj[bars[d][i]].dir = d
    /\ \A i, j \in DOMAIN bars[d] : bars[d][i] = bars[d][j] => i = j

SelInv == \A d \in SelDirs : sel[d] # Nil => obj[sel[d]] # Nil /\ obj[sel[d]].dir = d

FidInv ==
  \A f \in Fids :
    /\ ~InUse(f) => fid[f] = NoFid
    /\ InUse(f) => IsPath(fid[f].chain)
    /\ fid[f].pending => Type(f) \in {"event", "debug"}

IInv == TypeOK /\ BarsInv /\ SelInv /\ FidInv /\ NeverStrays /\ AppliedWhenClosed /\ ReadersServed
-----------------------------------------------------------------------------
(* The tree.                                                               *)

LEMMA StaticDirs == DOMAIN Static = {"root", "clientdir", "tagdir"}
BY DEF Static

(* What dirtab says of its entries: no entry comes and goes, and the files *)
(* that are not of an object are entries of the root.                      *)
LEMMA StaticEntries ==
  ASSUME NEW t \in DOMAIN Static, NEW n \in DOMAIN Static[t]
  PROVE  /\ Static[t][n] \in StaticTypes
         /\ Static[t][n] \in {"bars", "clients", "tags", "event", "debug", "keys", "rules", "colrules"}
              => t = "root"
         /\ Static[t][n] = "bars" => n \in BarDirs
<1>1. CASE t = "root"
  <2>1. Static[t] = [lbar |-> "bars", rbar |-> "bars", client |-> "clients", tag |-> "tags",
             event |-> "event", debug |-> "debug", ctl |-> "rctl",
             keys |-> "keys", rules |-> "rules", colrules |-> "colrules"]
    BY <1>1 DEF Static
  <2>2. n \in {"lbar", "rbar", "client", "tag", "event", "debug", "ctl", "keys", "rules", "colrules"}
    BY <2>1
  <2>3. CASE n \in {"lbar", "rbar"}
    BY <1>1, <2>1, <2>3 DEF BarDirs, StaticTypes
  <2>4. CASE n \in {"client", "tag", "event", "debug"}
    BY <1>1, <2>1, <2>4 DEF StaticTypes
  <2>5. CASE n \in {"ctl", "keys", "rules", "colrules"}
    BY <1>1, <2>1, <2>5 DEF StaticTypes
  <2> QED BY <2>2, <2>3, <2>4, <2>5
<1>2. CASE t = "clientdir"
  <2>1. Static[t] = [ctl |-> "cctl", label |-> "label", tags |-> "ctags", props |-> "props"]
    BY <1>2 DEF Static
  <2>2. n \in {"ctl", "label", "tags", "props"}
    BY <2>1
  <2>3. Static[t][n] \in {"cctl", "label", "ctags", "props"}
    BY <2>1, <2>2
  <2> QED BY <2>3 DEF StaticTypes
<1>3. CASE t = "tagdir"
  <2>1. Static[t] = [ctl |-> "tctl", index |-> "index"]
    BY <1>3 DEF Static
  <2>3. Static[t][n] \in {"tctl", "index"}
    BY <2>1
  <2> QED BY <2>3 DEF StaticTypes
<1> QED BY <1>1, <1>2, <1>3, StaticDirs

(* A file is under at most one that comes and goes, and then has its       *)
(* object; the file below a volatile one says which kind it is.            *)
LEMMA PathEntry ==
  ASSUME NEW p \in FileSet, NEW c \in FileSet, Entry(p, c)
  PROVE  /\ c.type # "root"
         /\ c.type = "bar" <=> p.type = "bars"
         /\ c.type = "clientdir" <=> p.type = "clients"
         /\ c.type = "tagdir" <=> p.type = "tags"
         /\ p.type \in {"bars", "clients", "tags", "root", "clientdir", "tagdir"}
         /\ p.type \in DOMAIN Static => c.ref = p.ref
         /\ c.type \in {"bars", "clients", "tags", "event", "debug", "keys", "rules", "colrules"}
              => p.type = "root"
         /\ c.type = "bars" => c.name \in BarDirs
<1>1. CASE p.type \in DOMAIN Static
  <2>1. c.name \in DOMAIN Static[p.type] /\ c.type = Static[p.type][c.name] /\ c.ref = p.ref
    BY <1>1, StaticDirs DEF Entry
  <2> QED BY <1>1, <2>1, StaticEntries, StaticDirs DEF StaticTypes
<1>2. CASE p.type \notin DOMAIN Static
  BY <1>2, StaticDirs DEF Entry
<1> QED BY <1>1, <1>2

LEMMA PathTop ==
  ASSUME NEW chain \in Seq(FileSet), IsPath(chain),
         NEW i \in 1 .. Len(chain), Volatile(chain[i])
  PROVE  /\ i \in 1 .. Len(chain) - 1
         /\ Entry(chain[i + 1], chain[i])
         /\ chain[1].ref = chain[i].ref
         /\ i \in {1, 2}
<1>1. i # Len(chain)
  BY DEF IsPath, Volatile, Root, File
<1>2. i \in 1 .. Len(chain) - 1 /\ Entry(chain[i + 1], chain[i])
  BY <1>1 DEF IsPath
<1>3. ASSUME i > 1
      PROVE  /\ chain[i - 1].ref = chain[i].ref
             /\ chain[i - 1].type \notin {"bars", "clients", "tags", "root", "clientdir", "tagdir"}
  <2>1. i - 1 \in 1 .. Len(chain) - 1 /\ Entry(chain[i], chain[i - 1])
    <3>1. i - 1 \in 1 .. Len(chain) - 1 /\ (i - 1) + 1 = i
      BY <1>2, <1>3
    <3> QED BY <3>1 DEF IsPath
  <2>2. chain[i] \in FileSet /\ chain[i - 1] \in FileSet
    BY <2>1, <1>2
  <2>3. chain[i].type \in {"clientdir", "tagdir"}
    BY <2>1, <2>2, PathEntry DEF Volatile
  <2> QED BY <2>1, <2>2, <2>3, PathEntry, StaticDirs
<1>4. ASSUME i > 2 PROVE FALSE
  <2>1. i - 2 \in 1 .. Len(chain) - 1 /\ Entry(chain[i - 1], chain[i - 2])
    <3>1. i - 2 \in 1 .. Len(chain) - 1 /\ (i - 2) + 1 = i - 1
      BY <1>2, <1>4
    <3> QED BY <3>1 DEF IsPath
  <2>2. chain[i - 1] \in FileSet /\ chain[i - 2] \in FileSet
    BY <2>1, <1>2
  <2> QED BY <2>1, <2>2, <1>3, <1>4, PathEntry
<1> QED BY <1>2, <1>3, <1>4

(* The directory at the top of a path, if it is one of bars, is lbar or    *)
(* rbar, and the second one then is the root.                              *)
LEMMA PathBars ==
  ASSUME NEW chain \in Seq(FileSet), IsPath(chain), NEW i \in 1 .. Len(chain)
  PROVE  /\ chain[i] \in FileSet
         /\ chain[i].type = "bars" => chain[i].name \in BarDirs
<1>1. CASE i = Len(chain)
  BY <1>1 DEF IsPath, Root, File
<1>2. CASE i # Len(chain)
  <2>1. i \in 1 .. Len(chain) - 1 /\ i + 1 \in 1 .. Len(chain) /\ Entry(chain[i + 1], chain[i])
    BY <1>2 DEF IsPath
  <2> QED BY <2>1, PathEntry
<1> QED BY <1>1, <1>2
-----------------------------------------------------------------------------
(* Looking a name up.                                                      *)

LEMMA NatMin ==
  ASSUME NEW S, S \subseteq Nat, S # {}
  PROVE  \E m \in S : \A k \in S : m <= k
<1> DEFINE R == OpToRel(<, Nat)
<1>1. PICK m \in S : \A k \in S : <<k, m>> \notin R
  <2>1. IsWellFoundedOn(R, Nat)
    BY NatLessThanWellFounded
  <2> HIDE DEF R
  <2> QED BY <2>1, WFMin
<1>2. \A k \in S : ~(k < m)
  BY <1>1 DEF OpToRel
<1> QED BY <1>2

(* bar_find returns a bar of the list, with that name.                     *)
LEMMA BarFound ==
  ASSUME NEW d \in BarDirs, NEW name, TypeOK, BarFind(d, name) # Nil
  PROVE  \E i \in DOMAIN bars[d] : BarFind(d, name) = bars[d][i] /\ obj[bars[d][i]].name = name
<1> DEFINE at == {i \in DOMAIN bars[d] : obj[bars[d][i]].name = name}
<1>1. at # {}
  BY DEF BarFind
<1>2. at \subseteq Nat
  <2>1. bars[d] \in Seq(Addrs)
    BY DEF TypeOK, ObjTypes
  <2> QED BY <2>1
<1>3. \E i \in at : \A j \in at : i <= j
  BY <1>1, <1>2, NatMin
<1> DEFINE k == CHOOSE i \in at : \A j \in at : i <= j
<1>4. k \in at
  BY <1>3
<1>5. BarFind(d, name) = bars[d][k]
  BY <1>1 DEF BarFind
<1> QED BY <1>4, <1>5

(* lookup_file: what is found is an entry of the directory, and of the     *)
(* object that has the name now.                                           *)
LEMMA Found ==
  ASSUME TypeOK, NEW p \in FileSet, p.type = "bars" => p.name \in BarDirs,
         NEW name \in STRING \cup {"/"}, Lookup(p, name) # NoFile
  PROVE  /\ Lookup(p, name) \in FileSet /\ Entry(p, Lookup(p, name))
         /\ p.type = "bars" =>
              \E i \in DOMAIN bars[p.name] : /\ bars[p.name][i] = Lookup(p, name).ref
                                             /\ obj[bars[p.name][i]].name = name
         /\ p.type \in {"clients", "tags"} =>
              IF name = "sel" THEN /\ Lookup(p, name).ref = sel[DirOf(p.type)]
                                   /\ sel[DirOf(p.type)] # Nil
              ELSE /\ Lookup(p, name).ref \in Addrs
                   /\ obj[Lookup(p, name).ref] # Nil
                   /\ obj[Lookup(p, name).ref].dir = DirOf(p.type)
                   /\ obj[Lookup(p, name).ref].name = name
<1>1. CASE p.type = "bars"
  <2> DEFINE b == BarFind(p.name, name)
  <2>1. b # Nil /\ Lookup(p, name) = File("bar", name, b)
    BY <1>1 DEF Lookup
  <2>2. PICK i \in DOMAIN bars[p.name] : b = bars[p.name][i] /\ obj[bars[p.name][i]].name = name
    BY <1>1, <2>1, BarFound
  <2>3. b \in Addrs
    <3>1. bars[p.name] \in Seq(Addrs)
      BY <1>1 DEF TypeOK, ObjTypes
    <3> QED BY <3>1, <2>2
  <2> HIDE DEF b
  <2>4. Lookup(p, name) \in FileSet /\ Lookup(p, name).type = "bar" /\ Lookup(p, name).ref = b
    BY <2>1, <2>3 DEF File, FileSet, Types
  <2> QED BY <1>1, <2>2, <2>4 DEF Entry
<1>2. CASE p.type \in {"clients", "tags"}
  <2> DEFINE d == DirOf(p.type)
             type == IF p.type = "clients" THEN "clientdir" ELSE "tagdir"
  <2>1. d \in SelDirs /\ p.type # "bars"
    BY <1>2 DEF DirOf, SelDirs
  <2>2. Lookup(p, name) = LookupObject(p, name)
    BY <1>2, <2>1 DEF Lookup
  <2>3. ASSUME NEW a \in Addrs
        PROVE  /\ File(type, name, a) \in FileSet
               /\ Entry(p, File(type, name, a))
               /\ File(type, name, a).ref = a
    <3>1. type \in Types /\ (p.type = "clients" => type = "clientdir")
          /\ (p.type = "tags" => type = "tagdir")
      BY <1>2 DEF Types
    <3> HIDE DEF type
    <3>2. File(type, name, a) \in FileSet /\ File(type, name, a).ref = a
          /\ File(type, name, a).type = type
      BY <3>1 DEF File, FileSet
    <3> QED BY <3>1, <3>2, <1>2 DEF Entry
  <2>4. CASE name = "sel"
    <3>1. sel[d] # Nil /\ Lookup(p, name) = File(type, name, sel[d])
      BY <2>2, <2>4 DEF LookupObject
    <3>2. sel[d] \in Addrs
      BY <2>1, <3>1 DEF TypeOK, ObjTypes
    <3> HIDE DEF d, type
    <3>3. /\ Lookup(p, name) \in FileSet /\ Entry(p, Lookup(p, name))
          /\ Lookup(p, name).ref = sel[d]
      BY <3>1, <3>2, <2>3
    <3> QED BY <3>1, <3>3, <2>1, <2>4 DEF d
  <2>5. CASE name # "sel"
    <3> DEFINE a == CHOOSE x \in Named(d, name) : TRUE
    <3>1. Named(d, name) # {} /\ Lookup(p, name) = File(type, name, a)
      BY <2>2, <2>5 DEF LookupObject
    <3>2. a \in Named(d, name)
      BY <3>1
    <3>3. a \in Addrs /\ obj[a] # Nil /\ obj[a].dir = d /\ obj[a].name = name
      BY <3>2 DEF Named
    <3> HIDE DEF a, d, type
    <3>4. /\ Lookup(p, name) \in FileSet /\ Entry(p, Lookup(p, name))
          /\ Lookup(p, name).ref = a
      BY <3>1, <3>3, <2>3
    <3> QED BY <3>3, <3>4, <2>1, <2>5 DEF d
  <2> QED BY <2>4, <2>5
<1>3. CASE p.type \notin {"bars", "clients", "tags"}
  <2>1. /\ p.type \in DOMAIN Static /\ name \in DOMAIN Static[p.type]
        /\ Lookup(p, name) = File(Static[p.type][name], name, p.ref)
    BY <1>3 DEF Lookup
  <2>2. Static[p.type][name] \in Types
    BY <2>1, StaticEntries DEF Types
  <2>3. /\ Lookup(p, name) \in FileSet
        /\ Lookup(p, name).type = Static[p.type][name]
        /\ Lookup(p, name).name = name /\ Lookup(p, name).ref = p.ref
    <3> DEFINE t == Static[p.type][name]
    <3>1. t \in Types /\ Lookup(p, name) = File(t, name, p.ref)
      BY <2>1, <2>2
    <3>2. p.ref \in Addrs \cup {Nil}
      BY DEF FileSet
    <3> HIDE DEF t
    <3>3. /\ Lookup(p, name) \in FileSet /\ Lookup(p, name).type = t
          /\ Lookup(p, name).name = name /\ Lookup(p, name).ref = p.ref
      BY <3>1, <3>2 DEF File, FileSet
    <3> QED BY <3>3 DEF t
  <2> QED BY <1>3, <2>1, <2>3 DEF Entry
<1> QED BY <1>1, <1>2, <1>3
-----------------------------------------------------------------------------
(* What ixp_srv_verifyfile is for.                                         *)

(* An accepted chain leads to the object that its path names now.          *)
LEMMA VerifyFits ==
  ASSUME TypeOK, BarsInv, SelInv, NEW chain \in Seq(FileSet), IsPath(chain), Verify(chain)
  PROVE  Fits(chain)
<1> SUFFICES ASSUME NEW i \in 1 .. Len(chain), Volatile(chain[i])
             PROVE  LET a == chain[i].ref
                        d == IF chain[i].type = "bar" THEN chain[i + 1].name
                             ELSE DirOf(chain[i + 1].type)
                    IN  /\ obj[a] # Nil /\ obj[a].dir = d
                        /\ IF chain[i].name = "sel" /\ d \in SelDirs THEN sel[d] = a
                           ELSE obj[a].name = chain[i].name
                        /\ chain[1].ref = a
  BY DEF Fits
<1> DEFINE p == chain[i + 1]
           c == chain[i]
           file == Lookup(p, c.name)
<1>1. i \in 1 .. Len(chain) - 1 /\ i + 1 \in 1 .. Len(chain) /\ Entry(p, c) /\ chain[1].ref = c.ref
  BY PathTop
<1>2. p \in FileSet /\ c \in FileSet /\ (p.type = "bars" => p.name \in BarDirs)
  BY <1>1, PathBars
<1>3. file # NoFile /\ (Volatile(file) => file.ref = c.ref)
  BY <1>1 DEF Verify
<1>4. c.name \in STRING \cup {"/"}
  BY <1>2 DEF FileSet
<1> HIDE DEF p, c
<1>5. file \in FileSet /\ Entry(p, file)
  BY <1>2, <1>3, <1>4, Found
<1>6. Volatile(c)
  BY DEF c
<1>7. CASE p.type = "bars"
  <2>1. c.type = "bar" /\ file.type = "bar"
    BY <1>1, <1>2, <1>5, <1>7, PathEntry
  <2>2. file.ref = c.ref
    BY <2>1, <1>3 DEF Volatile
  <2>3. \E j \in DOMAIN bars[p.name] : bars[p.name][j] = file.ref /\ obj[bars[p.name][j]].name = c.name
    BY <1>2, <1>3, <1>4, <1>7, Found
  <2>4. obj[c.ref] # Nil /\ obj[c.ref].dir = p.name /\ obj[c.ref].name = c.name
    BY <2>2, <2>3, <1>2, <1>7 DEF BarsInv
  <2>5. p.name \notin SelDirs
    BY <1>2, <1>7 DEF BarDirs, SelDirs
  <2> QED BY <2>1, <2>4, <2>5, <1>1 DEF p, c
<1>8. CASE p.type \in {"clients", "tags"}
  <2>1. c.type # "bar" /\ file.type \in {"clientdir", "tagdir"}
    BY <1>1, <1>2, <1>5, <1>8, PathEntry
  <2>2. file.ref = c.ref
    BY <2>1, <1>3 DEF Volatile
  <2> DEFINE d == DirOf(p.type)
  <2>3. d \in SelDirs
    BY <1>8 DEF DirOf, SelDirs
  <2>4. IF c.name = "sel" THEN c.ref = sel[d] /\ sel[d] # Nil
        ELSE obj[c.ref] # Nil /\ obj[c.ref].dir = d /\ obj[c.ref].name = c.name
    BY <2>2, <1>2, <1>3, <1>4, <1>8, Found
  <2>5. /\ obj[c.ref] # Nil /\ obj[c.ref].dir = d
        /\ IF c.name = "sel" /\ d \in SelDirs THEN sel[d] = c.ref ELSE obj[c.ref].name = c.name
    BY <2>3, <2>4 DEF SelInv
  <2> HIDE DEF d
  <2> QED BY <2>1, <2>5, <1>1 DEF p, c, d
<1> QED BY <1>1, <1>2, <1>6, <1>7, <1>8, PathEntry DEF Volatile

(* A chain to a file of the root that is of no object is always accepted.  *)
LEMMA StaticVerify ==
  ASSUME NEW chain \in Seq(FileSet), IsPath(chain),
         chain[1].type \in {"event", "debug", "keys", "rules", "colrules"}
  PROVE  Verify(chain)
<1>1. Len(chain) >= 2
  <2>1. Len(chain) # 1
    BY DEF IsPath, Root, File
  <2>2. chain # <<>> /\ Len(chain) \in Nat
    BY DEF IsPath
  <2>3. Len(chain) # 0
    BY <2>2, EmptySeq
  <2> DEFINE n == Len(chain)
  <2>4. n \in Nat /\ n # 0 /\ n # 1
    BY <2>1, <2>2, <2>3
  <2> HIDE DEF n
  <2>5. n >= 2
    BY <2>4
  <2> QED BY <2>5 DEF n
<1>2. Entry(chain[2], chain[1]) /\ chain[1] \in FileSet /\ chain[2] \in FileSet
  BY <1>1 DEF IsPath
<1>3. chain[2].type = "root"
  BY <1>2, PathEntry
<1>4. Len(chain) = 2
  <2>1. ASSUME Len(chain) > 2 PROVE FALSE
    <3>1. 2 \in 1 .. Len(chain) - 1
      BY <2>1
    <3>2. Entry(chain[2 + 1], chain[2]) /\ chain[3] \in FileSet
      BY <3>1 DEF IsPath
    <3>3. Entry(chain[3], chain[2])
      BY <3>2
    <3> QED BY <3>2, <3>3, <1>2, <1>3, PathEntry
  <2> DEFINE n == Len(chain)
  <2>2. n \in Nat /\ n >= 2 /\ ~(n > 2)
    BY <2>1, <1>1
  <2> HIDE DEF n
  <2>3. n = 2
    BY <2>2
  <2> QED BY <2>3 DEF n
<1>5. chain[2] = Root
  BY <1>4 DEF IsPath
<1>6. /\ chain[1].name \in DOMAIN Static["root"] /\ chain[1].type = Static["root"][chain[1].name]
      /\ "root" \in DOMAIN Static
  BY <1>2, <1>3, StaticDirs DEF Entry
<1>7. Lookup(Root, chain[1].name) = File(chain[1].type, chain[1].name, Nil)
  <2>1. Root.type = "root" /\ Root.ref = Nil
    BY DEF Root, File
  <2> QED BY <2>1, <1>6 DEF Lookup
<1>8. Lookup(Root, chain[1].name) # NoFile /\ ~Volatile(Lookup(Root, chain[1].name))
  <2> DEFINE type == chain[1].type
             file == Lookup(Root, chain[1].name)
  <2>1. type \in {"event", "debug", "keys", "rules", "colrules"} /\ file.type = type
    BY <1>7 DEF File
  <2>2. NoFile.type = "no"
    BY DEF NoFile, File
  <2> HIDE DEF type, file
  <2>3. file # NoFile /\ ~Volatile(file)
    BY <2>1, <2>2 DEF Volatile
  <2> QED BY <2>3 DEF file
<1> QED BY <1>4, <1>5, <1>8 DEF Verify
-----------------------------------------------------------------------------
(* Walking.                                                                *)

GoodChain(chain) == chain \in Seq(FileSet) /\ (chain # <<>> => IsPath(chain))

(* A file is put on top of a path.                                         *)
LEMMA PathUp ==
  ASSUME NEW chain \in Seq(FileSet), IsPath(chain), NEW file \in FileSet, Entry(chain[1], file)
  PROVE  LET new == <<file>> \o chain
         IN  new \in Seq(FileSet) /\ new # <<>> /\ new[1] = file /\ IsPath(new)
<1> DEFINE new == <<file>> \o chain
<1>0. chain # <<>> /\ Len(chain) \in Nat /\ 1 \in 1 .. Len(chain)
  BY EmptySeq DEF IsPath
<1>1. /\ new \in Seq(FileSet) /\ Len(new) = Len(chain) + 1
      /\ new[1] = file /\ \A i \in 1 .. Len(chain) : new[i + 1] = chain[i]
  OBVIOUS
<1> HIDE DEF new
<1>2. new[Len(new)] = Root
  BY <1>0, <1>1 DEF IsPath
<1>3. ASSUME NEW i \in 1 .. Len(new) - 1
      PROVE  Entry(new[i + 1], new[i])
  <2>1. CASE i = 1
    BY <2>1, <1>0, <1>1
  <2>2. CASE i > 1
    <3>1. i - 1 \in 1 .. Len(chain) - 1 /\ i \in 1 .. Len(chain) /\ (i - 1) + 1 = i
      BY <2>2, <1>0, <1>1
    <3>2. Entry(chain[i], chain[i - 1])
      BY <3>1 DEF IsPath
    <3>3. new[i + 1] = chain[i] /\ new[i] = chain[i - 1]
      BY <3>1, <1>1
    <3> QED BY <3>2, <3>3
  <2> QED BY <2>1, <2>2
<1>4. new # <<>>
  BY <1>0, <1>1
<1>5. IsPath(new)
  BY <1>2, <1>3, <1>4 DEF IsPath
<1> QED BY <1>1, <1>4, <1>5 DEF new

LEMMA StepPath ==
  ASSUME TypeOK, NEW chain, GoodChain(chain), NEW name \in STRING
  PROVE  GoodChain(Step(chain, name))
<1>1. CASE chain = <<>>
  BY <1>1 DEF Step, GoodChain
<1>2. CASE chain # <<>> /\ name = ".." /\ Len(chain) = 1
  BY <1>2 DEF Step
<1>3. CASE chain # <<>> /\ name = ".." /\ Len(chain) # 1
  <2>1. Step(chain, name) = Tail(chain)
    BY <1>3 DEF Step
  <2>2. chain \in Seq(FileSet) /\ IsPath(chain) /\ Len(chain) > 1
    BY <1>3 DEF GoodChain
  <2>3. /\ Tail(chain) \in Seq(FileSet) /\ Len(Tail(chain)) = Len(chain) - 1
        /\ \A i \in 1 .. Len(chain) - 1 : Tail(chain)[i] = chain[i + 1]
    BY <2>2
  <2>4. Tail(chain)[Len(Tail(chain))] = Root
    BY <2>2, <2>3 DEF IsPath
  <2>5. ASSUME NEW i \in 1 .. Len(Tail(chain)) - 1
        PROVE  Entry(Tail(chain)[i + 1], Tail(chain)[i])
    <3>1. i + 1 \in 1 .. Len(chain) - 1 /\ i \in 1 .. Len(chain) - 1
      BY <2>2, <2>3
    <3>2. Entry(chain[(i + 1) + 1], chain[i + 1])
      BY <3>1, <2>2 DEF IsPath
    <3>3. Tail(chain)[i + 1] = chain[(i + 1) + 1] /\ Tail(chain)[i] = chain[i + 1]
      BY <3>1, <2>3
    <3> QED BY <3>2, <3>3
  <2>6. Tail(chain) # <<>>
    <3>1. Len(Tail(chain)) > 0
      BY <2>2, <2>3
    <3> QED BY <3>1, EmptySeq
  <2> DEFINE t == Tail(chain)
  <2>7. t \in Seq(FileSet) /\ t # <<>> /\ t[Len(t)] = Root
        /\ \A i \in 1 .. Len(t) - 1 : Entry(t[i + 1], t[i])
    BY <2>3, <2>4, <2>5, <2>6
  <2> HIDE DEF t
  <2>8. GoodChain(t)
    BY <2>7 DEF GoodChain, IsPath
  <2> QED BY <2>1, <2>8 DEF t
<1>4. CASE chain # <<>> /\ name # ".."
  <2> DEFINE file == Lookup(chain[1], name)
             new == <<file>> \o chain
  <2>1. chain \in Seq(FileSet) /\ IsPath(chain) /\ 1 \in 1 .. Len(chain)
    BY <1>4 DEF GoodChain
  <2>2. CASE file = NoFile
    BY <1>4, <2>2 DEF Step, GoodChain
  <2>3. CASE file # NoFile
    <3>1. Step(chain, name) = new
      BY <1>4, <2>3 DEF Step
    <3>2. chain[1] \in FileSet /\ (chain[1].type = "bars" => chain[1].name \in BarDirs)
      BY <2>1, PathBars
    <3>3. file \in FileSet /\ Entry(chain[1], file)
      BY <3>2, <2>3, Found
    <3> HIDE DEF file
    <3> QED BY <2>1, <3>1, <3>3, PathUp DEF GoodChain
  <2> QED BY <2>2, <2>3
<1> QED BY <1>1, <1>2, <1>3, <1>4

(* The function that Walked applies exists: the least number of names for  *)
(* which there is none would be one more than a number for which there is. *)
LEMMA WalkExists ==
  ASSUME NEW chain, NEW path, NEW n \in Nat
  PROVE  \E at : at = [i \in 0 .. n |-> IF i = 0 THEN chain ELSE Step(at[i - 1], path[i])]
<1> DEFINE Is(m, at) == at = [i \in 0 .. m |-> IF i = 0 THEN chain ELSE Step(at[i - 1], path[i])]
           bad == {m \in Nat : ~ \E at : Is(m, at)}
<1>1. ASSUME bad # {} PROVE FALSE
  <2>1. PICK m \in bad : \A k \in bad : m <= k
    <3>1. bad \subseteq Nat
      OBVIOUS
    <3> HIDE DEF bad
    <3> QED BY <1>1, <3>1, NatMin
  <2>2. m \in Nat /\ ~ \E at : Is(m, at)
    OBVIOUS
  <2>3. m # 0
    <3> DEFINE g == [i \in 0 .. 0 |-> chain]
    <3>1. Is(0, g)
      OBVIOUS
    <3> QED BY <3>1, <2>2
  <2>4. m - 1 \in Nat /\ m - 1 \notin bad
    <3>1. m - 1 \in Nat /\ ~(m <= m - 1)
      BY <2>2, <2>3
    <3> HIDE DEF bad
    <3> QED BY <2>1, <3>1
  <2>5. PICK at : Is(m - 1, at)
    BY <2>4
  <2> DEFINE new == [i \in 0 .. m |-> IF i = m THEN Step(at[m - 1], path[m]) ELSE at[i]]
  <2>6. \A i \in 0 .. m : new[i] = IF i = 0 THEN chain ELSE Step(new[i - 1], path[i])
    <3> TAKE i \in 0 .. m
    <3>1. CASE i = m
      <4>1. new[i] = Step(at[m - 1], path[m]) /\ new[i - 1] = at[m - 1]
        BY <2>2, <2>3, <3>1
      <4> HIDE DEF new
      <4> QED BY <4>1, <2>3, <3>1
    <3>2. CASE i = 0
      <4>1. new[i] = at[0] /\ 0 \in 0 .. m - 1
        BY <2>2, <2>3, <2>4, <3>2
      <4> HIDE DEF new
      <4>2. at[0] = chain
        BY <2>5, <4>1
      <4> QED BY <4>1, <4>2, <3>2
    <3>3. CASE i # 0 /\ i # m
      <4>1. new[i] = at[i] /\ new[i - 1] = at[i - 1] /\ i \in 0 .. m - 1
        BY <2>2, <3>3
      <4> HIDE DEF new
      <4>2. at[i] = Step(at[i - 1], path[i])
        BY <2>5, <4>1, <3>3
      <4> QED BY <4>1, <4>2, <3>3
    <3> QED BY <3>1, <3>2, <3>3
  <2>7. new = [i \in 0 .. m |-> new[i]]
    OBVIOUS
  <2> HIDE DEF new
  <2>8. Is(m, new)
    BY <2>6, <2>7
  <2> QED BY <2>2, <2>8
<1>2. n \notin bad
  BY <1>1
<1> QED BY <1>2

(* A walk ends at a path of the tree, or nowhere.                          *)
LEMMA WalkedPath ==
  ASSUME TypeOK, NEW chain, GoodChain(chain), NEW path \in Seq(STRING)
  PROVE  GoodChain(Walked(chain, path))
<1> DEFINE n == Len(path)
           Is(at) == at = [i \in 0 .. n |-> IF i = 0 THEN chain ELSE Step(at[i - 1], path[i])]
           at == CHOOSE at : Is(at)
<1>1. n \in Nat
  OBVIOUS
<1>2. \A i \in 1 .. n : path[i] \in STRING
  OBVIOUS
<1>3. Is(at)
  BY <1>1, WalkExists
<1>4. Walked(chain, path) = at[n]
  BY DEF Walked
<1> HIDE DEF n, at
<1> DEFINE bad == {i \in 0 .. n : ~GoodChain(at[i])}
<1>5. ASSUME bad # {} PROVE FALSE
  <2>1. PICK m \in bad : \A k \in bad : m <= k
    <3>1. bad \subseteq Nat
      BY <1>1
    <3> HIDE DEF bad
    <3> QED BY <1>5, <3>1, NatMin
  <2>2. m \in 0 .. n /\ ~GoodChain(at[m])
    OBVIOUS
  <2>3. CASE m = 0
    <3>1. at[m] = chain
      BY <1>3, <2>2, <2>3
    <3> QED BY <2>2, <3>1
  <2>4. CASE m # 0
    <3>1. m - 1 \in 0 .. n /\ m \in 1 .. n /\ ~(m <= m - 1)
      BY <1>1, <2>2, <2>4
    <3>2. GoodChain(at[m - 1])
      BY <2>1, <3>1
    <3>3. at[m] = Step(at[m - 1], path[m])
      BY <1>3, <2>2, <2>4
    <3>4. path[m] \in STRING
      BY <1>2, <3>1
    <3> QED BY <2>2, <3>2, <3>3, <3>4, StepPath
  <2> QED BY <2>3, <2>4
<1>6. n \notin bad /\ n \in 0 .. n
  BY <1>1, <1>5
<1> QED BY <1>4, <1>6
-----------------------------------------------------------------------------
(* The objects.                                                            *)

LEMMA NilIsNoObject == Nil \notin Addrs /\ Nil \notin ObjSet
BY FilesAssumption DEF ObjSet

LEMMA DirsApart == BarDirs \cap SelDirs = {}
BY DEF BarDirs, SelDirs

(* s with the element at i gone.                                           *)
LEMMA Removed ==
  ASSUME NEW S, NEW s \in Seq(S), NEW i \in 1 .. Len(s)
  PROVE  /\ RemoveAt(s, i) \in Seq(S)
         /\ Len(RemoveAt(s, i)) = Len(s) - 1
         /\ \A j \in 1 .. Len(s) - 1 : RemoveAt(s, i)[j] = s[IF j < i THEN j ELSE j + 1]
<1> DEFINE l == SubSeq(s, 1, i - 1)
           r == SubSeq(s, i + 1, Len(s))
<1>0. Len(s) \in Nat /\ i \in Nat
  OBVIOUS
<1>1. l \in Seq(S) /\ Len(l) = i - 1 /\ \A j \in 1 .. i - 1 : l[j] = s[j]
  BY <1>0
<1>2. r \in Seq(S) /\ Len(r) = Len(s) - i /\ \A j \in 1 .. Len(s) - i : r[j] = s[i + j]
  BY <1>0
<1>3. RemoveAt(s, i) = l \o r
  BY DEF RemoveAt
<1> HIDE DEF l, r
<1>4. l \o r \in Seq(S) /\ Len(l \o r) = Len(s) - 1
  <2>1. l \o r \in Seq(S) /\ Len(l \o r) = Len(l) + Len(r)
    BY <1>1, <1>2, ConcatProperties
  <2>2. (i - 1) + (Len(s) - i) = Len(s) - 1
    BY <1>0
  <2> QED BY <2>1, <2>2, <1>1, <1>2
<1>5. ASSUME NEW j \in 1 .. Len(s) - 1
      PROVE  (l \o r)[j] = s[IF j < i THEN j ELSE j + 1]
  <2>1. CASE j < i
    <3>1. (l \o r)[j] = l[j]
      BY <1>0, <1>1, <1>2, <2>1
    <3> QED BY <3>1, <1>0, <1>1, <2>1
  <2>2. CASE ~(j < i)
    <3>1. (l \o r)[j] = r[j - (i - 1)] /\ j - (i - 1) \in 1 .. Len(s) - i
      BY <1>0, <1>1, <1>2, <2>2
    <3>2. i + (j - (i - 1)) = j + 1
      BY <1>0
    <3>3. r[j - (i - 1)] = s[j + 1]
      BY <3>1, <3>2, <1>2
    <3> QED BY <3>1, <3>3, <2>2
  <2> QED BY <2>1, <2>2
<1> QED BY <1>3, <1>4, <1>5

(* s with e inserted at i.                                                 *)
LEMMA Inserted ==
  ASSUME NEW S, NEW s \in Seq(S), NEW i \in 1 .. Len(s) + 1, NEW e \in S
  PROVE  /\ InsertAt(s, i, e) \in Seq(S)
         /\ Len(InsertAt(s, i, e)) = Len(s) + 1
         /\ InsertAt(s, i, e)[i] = e
         /\ \A j \in 1 .. Len(s) + 1 :
              j # i => InsertAt(s, i, e)[j] = s[IF j < i THEN j ELSE j - 1]
<1> DEFINE l == SubSeq(s, 1, i - 1)
           r == SubSeq(s, i, Len(s))
           m == l \o <<e>>
<1>0. Len(s) \in Nat /\ i \in Nat
  OBVIOUS
<1>1. l \in Seq(S) /\ Len(l) = i - 1 /\ \A j \in 1 .. i - 1 : l[j] = s[j]
  BY <1>0
<1>2. r \in Seq(S) /\ Len(r) = Len(s) + 1 - i /\ \A j \in 1 .. Len(s) + 1 - i : r[j] = s[i - 1 + j]
  BY <1>0
<1>3. InsertAt(s, i, e) = m \o r
  BY DEF InsertAt
<1> HIDE DEF l, r
<1>4. m \in Seq(S) /\ Len(m) = i /\ m[i] = e /\ \A j \in 1 .. i - 1 : m[j] = s[j]
  BY <1>0, <1>1
<1> HIDE DEF m
<1>5. m \o r \in Seq(S) /\ Len(m \o r) = Len(s) + 1
  BY <1>0, <1>2, <1>4
<1>6. (m \o r)[i] = e
  BY <1>0, <1>2, <1>4
<1>7. ASSUME NEW j \in 1 .. Len(s) + 1, j # i
      PROVE  (m \o r)[j] = s[IF j < i THEN j ELSE j - 1]
  <2>1. CASE j < i
    <3>1. (m \o r)[j] = m[j]
      BY <1>0, <1>2, <1>4, <2>1
    <3> QED BY <3>1, <1>0, <1>4, <2>1
  <2>2. CASE ~(j < i)
    <3>1. (m \o r)[j] = r[j - i] /\ j - i \in 1 .. Len(s) + 1 - i
      BY <1>0, <1>2, <1>4, <1>7, <2>2
    <3>2. i - 1 + (j - i) = j - 1
      BY <1>0
    <3>3. r[j - i] = s[j - 1]
      BY <3>1, <3>2, <1>2
    <3> QED BY <3>1, <3>3, <2>2
  <2> QED BY <2>1, <2>2
<1> QED BY <1>3, <1>5, <1>6, <1>7

LEMMA ReactionOK ==
  ASSUME ObjTypes, BarsInv, SelInv, Reaction
  PROVE  ObjTypes' /\ BarsInv' /\ SelInv'
<1>1. ASSUME NEW a \in Addrs, NEW d \in SelDirs, NEW n \in ObjNames, Appear(a, d, n)
      PROVE  ObjTypes' /\ BarsInv' /\ SelInv'
  <2> DEFINE new == [dir |-> d, name |-> n]
  <2>1. new \in ObjSet /\ new # Nil
    BY NilIsNoObject DEF ObjSet
  <2> HIDE DEF new
  <2>2. /\ obj[a] = Nil /\ obj' = [obj EXCEPT ![a] = new]
        /\ bars' = bars /\ sel' = sel
    BY <1>1 DEF Appear, new
  <2>3. ObjTypes'
    BY <2>1, <2>2 DEF ObjTypes
  <2>4. \A b \in Addrs : obj[b] # Nil => obj'[b] = obj[b]
    BY <2>2 DEF ObjTypes
  <2>5. BarsInv'
    <3> SUFFICES ASSUME NEW e \in BarDirs, NEW i \in DOMAIN bars[e]
                 PROVE  obj'[bars[e][i]] # Nil /\ obj'[bars[e][i]].dir = e
      BY <2>2 DEF BarsInv
    <3>1. bars[e][i] \in Addrs
      BY DEF ObjTypes
    <3> QED BY <3>1, <2>4 DEF BarsInv
  <2>6. SelInv'
    BY <2>2, <2>4 DEF SelInv, ObjTypes
  <2> QED BY <2>3, <2>5, <2>6
<1>2. ASSUME NEW a \in Addrs, Vanish(a)
      PROVE  ObjTypes' /\ BarsInv' /\ SelInv'
  <2>1. /\ obj[a] # Nil /\ obj[a].dir \in SelDirs
        /\ obj' = [obj EXCEPT ![a] = Nil]
        /\ sel' = [d \in SelDirs |-> IF sel[d] = a THEN Nil ELSE sel[d]]
        /\ bars' = bars
    BY <1>2 DEF Vanish
  <2>2. ObjTypes'
    BY <2>1 DEF ObjTypes
  <2>3. \A b \in Addrs : b # a => obj'[b] = obj[b]
    BY <2>1 DEF ObjTypes
  <2>4. BarsInv'
    <3> SUFFICES ASSUME NEW e \in BarDirs, NEW i \in DOMAIN bars[e]
                 PROVE  obj'[bars[e][i]] # Nil /\ obj'[bars[e][i]].dir = e
      BY <2>1 DEF BarsInv
    <3>1. bars[e][i] \in Addrs
      BY DEF ObjTypes
    <3>2. obj[bars[e][i]] # Nil /\ obj[bars[e][i]].dir = e
      BY DEF BarsInv
    <3>3. bars[e][i] # a
      BY <3>2, <2>1, DirsApart
    <3> QED BY <3>1, <3>2, <3>3, <2>3
  <2>5. SelInv'
    BY <2>1, <2>3 DEF SelInv, ObjTypes
  <2> QED BY <2>2, <2>4, <2>5
<1>3. ASSUME NEW a \in Addrs, Select(a)
      PROVE  ObjTypes' /\ BarsInv' /\ SelInv'
  <2>1. /\ obj[a] # Nil /\ obj[a].dir \in SelDirs
        /\ sel' = [sel EXCEPT ![obj[a].dir] = a]
        /\ obj' = obj /\ bars' = bars
    BY <1>3 DEF Select
  <2>2. ObjTypes' /\ SelInv'
    BY <2>1 DEF ObjTypes, SelInv
  <2> QED BY <2>1, <2>2 DEF BarsInv
<1> QED BY <1>1, <1>2, <1>3 DEF Reaction

LEMMA BarCreateOK ==
  ASSUME ObjTypes, BarsInv, SelInv, NEW d \in BarDirs, NEW name \in Range(Names),
         BarCreate(d, name)
  PROVE  ObjTypes' /\ BarsInv' /\ SelInv'
<1>1. CASE BarFind(d, name) # Nil
  <2>1. obj' = obj /\ bars' = bars /\ sel' = sel
    BY <1>1 DEF BarCreate, objects
  <2> QED BY <2>1 DEF ObjTypes, BarsInv, SelInv
<1>2. CASE BarFind(d, name) = Nil
  <2> DEFINE new == [dir |-> d, name |-> Cut[name]]
             s == bars[d]
             after == {i \in DOMAIN bars[d] : Rank(obj[bars[d][i]].name) >= Rank(name)}
             place == CHOOSE i \in after \cup {Len(bars[d]) + 1} : \A j \in after : i <= j
  <2>1. PICK a \in Addrs : /\ obj[a] = Nil
                           /\ obj' = [obj EXCEPT ![a] = new]
                           /\ bars' = [bars EXCEPT ![d] = InsertAt(s, place, a)]
                           /\ sel' = sel
    BY <1>2 DEF BarCreate, InsertBar
  <2>2. new \in ObjSet /\ new # Nil /\ new.dir = d
    <3>1. Cut[name] \in Range(Names)
      BY FilesAssumption
    <3>2. new \in ObjSet
      BY <3>1 DEF ObjSet
    <3> QED BY <3>2, NilIsNoObject
  <2>3. s \in Seq(Addrs)
    BY DEF ObjTypes
  <2>4. place \in 1 .. Len(s) + 1
    <3> DEFINE all == after \cup {Len(s) + 1}
    <3>1. all \subseteq 1 .. Len(s) + 1 /\ all # {}
      BY <2>3
    <3>2. PICK m \in all : \A k \in all : m <= k
      <4>1. all \subseteq Nat
        BY <3>1, <2>3
      <4> HIDE DEF all
      <4> QED BY <3>1, <4>1, NatMin
    <3>3. \E i \in after \cup {Len(bars[d]) + 1} : \A j \in after : i <= j
      BY <3>2
    <3>4. place \in all
      BY <3>3
    <3> QED BY <3>1, <3>4
  <2> HIDE DEF new, after, place
  <2> DEFINE t == InsertAt(s, place, a)
  <2>5. /\ t \in Seq(Addrs) /\ Len(t) = Len(s) + 1 /\ t[place] = a
        /\ \A j \in 1 .. Len(s) + 1 : j # place => t[j] = s[IF j < place THEN j ELSE j - 1]
    <3>1. a \in Addrs
      BY <2>1
    <3> HIDE DEF s
    <3> QED BY <3>1, <2>3, <2>4, Inserted
  <2> HIDE DEF t
  <2>6. ObjTypes'
    BY <2>1, <2>2, <2>5 DEF ObjTypes, t
  <2>7. \A b \in Addrs : obj[b] # Nil => obj'[b] = obj[b] /\ b # a
    BY <2>1 DEF ObjTypes
  <2>8. SelInv'
    BY <2>1, <2>7 DEF SelInv, ObjTypes
  <2>9. obj'[a] # Nil /\ obj'[a].dir = d
    BY <2>1, <2>2 DEF ObjTypes
  <2>10. \A i \in DOMAIN s : s[i] \in Addrs /\ obj'[s[i]] # Nil /\ obj'[s[i]].dir = d /\ s[i] # a
    BY <2>3, <2>7 DEF BarsInv
  <2>11. ASSUME NEW i \in DOMAIN t, i # place
         PROVE  (IF i < place THEN i ELSE i - 1) \in DOMAIN s
    <3>1. DOMAIN t = 1 .. Len(s) + 1 /\ DOMAIN s = 1 .. Len(s) /\ Len(s) \in Nat
      BY <2>3, <2>5
    <3>2. CASE i < place
      BY <3>1, <3>2, <2>4
    <3>3. CASE i > place
      BY <3>1, <3>3, <2>4
    <3> QED BY <3>1, <3>2, <3>3, <2>4, <2>11
  <2>12. \A i \in DOMAIN t : obj'[t[i]] # Nil /\ obj'[t[i]].dir = d
    <3> TAKE i \in DOMAIN t
    <3>1. CASE i = place
      BY <3>1, <2>5, <2>9
    <3>2. CASE i # place
      <4>1. i \in 1 .. Len(s) + 1
        BY <2>5
      <4> QED BY <4>1, <3>2, <2>5, <2>10, <2>11
    <3> QED BY <3>1, <3>2
  <2>13. ASSUME NEW i \in DOMAIN t, NEW j \in DOMAIN t, t[i] = t[j]
         PROVE  i = j
    <3>0. DOMAIN t = 1 .. Len(s) + 1
      BY <2>5
    <3>1. CASE i = place \/ j = place
      BY <3>0, <3>1, <2>5, <2>10, <2>11, <2>13
    <3>2. CASE i # place /\ j # place
      <4> DEFINE k == IF i < place THEN i ELSE i - 1
                 l == IF j < place THEN j ELSE j - 1
      <4>1. k \in DOMAIN s /\ l \in DOMAIN s
        BY <3>2, <2>11
      <4>2. t[i] = s[k] /\ t[j] = s[l]
        BY <3>0, <3>2, <2>5
      <4>3. k = l
        BY <4>1, <4>2, <2>13 DEF BarsInv
      <4> QED BY <4>3, <3>0, <3>2, <2>3, <2>4
    <3> QED BY <3>1, <3>2
  <2>14. BarsInv'
    <3> SUFFICES ASSUME NEW e \in BarDirs
                 PROVE  /\ \A i \in DOMAIN bars'[e] : obj'[bars'[e][i]] # Nil /\ obj'[bars'[e][i]].dir = e
                        /\ \A i, j \in DOMAIN bars'[e] : bars'[e][i] = bars'[e][j] => i = j
      BY DEF BarsInv
    <3>1. CASE e = d
      <4>1. bars'[e] = t
        BY <3>1, <2>1 DEF ObjTypes, t
      <4> QED BY <4>1, <3>1, <2>12, <2>13
    <3>2. CASE e # d
      <4>1. bars'[e] = bars[e]
        BY <3>2, <2>1 DEF ObjTypes
      <4>2. \A i \in DOMAIN bars[e] : bars[e][i] \in Addrs
        BY DEF ObjTypes
      <4> QED BY <4>1, <4>2, <2>7 DEF BarsInv
    <3> QED BY <3>1, <3>2
  <2> QED BY <2>6, <2>8, <2>14
<1> QED BY <1>1, <1>2

LEMMA BarDestroyOK ==
  ASSUME ObjTypes, BarsInv, SelInv, NEW d \in BarDirs, NEW a, NEW k \in DOMAIN bars[d],
         bars[d][k] = a, BarDestroy(d, a)
  PROVE  ObjTypes' /\ BarsInv' /\ SelInv'
<1> DEFINE s == bars[d]
           i == CHOOSE i \in DOMAIN bars[d] : bars[d][i] = a
           t == RemoveAt(s, i)
<1>1. /\ bars' = [bars EXCEPT ![d] = t]
      /\ obj' = [obj EXCEPT ![a] = Nil]
      /\ sel' = sel
  BY DEF BarDestroy, ObjTypes
<1>2. s \in Seq(Addrs)
  BY DEF ObjTypes
<1>3. i \in 1 .. Len(s) /\ s[i] = a
  <2>1. i \in DOMAIN s /\ s[i] = a
    OBVIOUS
  <2> QED BY <2>1, <1>2
<1> HIDE DEF i
<1>4. /\ t \in Seq(Addrs) /\ Len(t) = Len(s) - 1
      /\ \A j \in 1 .. Len(s) - 1 : t[j] = s[IF j < i THEN j ELSE j + 1]
  BY <1>2, <1>3, Removed
<1>5. a \in Addrs /\ obj[a] # Nil /\ obj[a].dir = d
  BY <1>2, <1>3 DEF BarsInv
<1> HIDE DEF t
<1>6. ObjTypes'
  BY <1>1, <1>4 DEF ObjTypes
<1>7. \A b \in Addrs : b # a => obj'[b] = obj[b]
  BY <1>1 DEF ObjTypes
<1>8. SelInv'
  BY <1>1, <1>5, <1>7, DirsApart DEF SelInv, ObjTypes
<1>9. ASSUME NEW e \in BarDirs
      PROVE  /\ \A j \in DOMAIN bars'[e] : obj'[bars'[e][j]] # Nil /\ obj'[bars'[e][j]].dir = e
             /\ \A j, l \in DOMAIN bars'[e] : bars'[e][j] = bars'[e][l] => j = l
  <2>1. CASE e = d
    <3>1. bars'[e] = t /\ DOMAIN t = 1 .. Len(s) - 1 /\ DOMAIN s = 1 .. Len(s) /\ Len(s) \in Nat
      BY <2>1, <1>1, <1>2, <1>4 DEF ObjTypes
    <3>2. ASSUME NEW j \in DOMAIN t
          PROVE  LET m == IF j < i THEN j ELSE j + 1 IN m \in DOMAIN s /\ m # i /\ t[j] = s[m]
      BY <3>1, <1>3, <1>4
    <3>3. \A m \in DOMAIN s : m # i => s[m] \in Addrs /\ s[m] # a /\ obj[s[m]] # Nil /\ obj[s[m]].dir = d
      BY <1>2, <1>3, <3>1 DEF BarsInv
    <3>4. ASSUME NEW j \in DOMAIN t, NEW l \in DOMAIN t, t[j] = t[l]
          PROVE  j = l
      <4> DEFINE m == IF j < i THEN j ELSE j + 1
                 n == IF l < i THEN l ELSE l + 1
      <4>1. m \in DOMAIN s /\ n \in DOMAIN s /\ s[m] = s[n]
        BY <3>2, <3>4
      <4>2. m = n
        BY <4>1 DEF BarsInv
      <4> QED BY <4>2, <3>1, <1>3
    <3>5. \A j \in DOMAIN t : obj'[t[j]] # Nil /\ obj'[t[j]].dir = d
      BY <3>2, <3>3, <1>7
    <3> QED BY <2>1, <3>1, <3>4, <3>5
  <2>2. CASE e # d
    <3>1. bars'[e] = bars[e]
      BY <2>2, <1>1 DEF ObjTypes
    <3>2. \A j \in DOMAIN bars[e] : bars[e][j] \in Addrs /\ obj[bars[e][j]].dir = e
      BY DEF ObjTypes, BarsInv
    <3>3. \A j \in DOMAIN bars[e] : bars[e][j] # a
      BY <3>2, <2>2, <1>5
    <3> QED BY <3>1, <3>2, <3>3, <1>7 DEF BarsInv
  <2> QED BY <2>1, <2>2
<1> QED BY <1>6, <1>8, <1>9 DEF BarsInv
-----------------------------------------------------------------------------
(* The fids.                                                               *)

FidGood(x) ==
  /\ x \in FidSet
  /\ x.chain = <<>> => x = NoFid
  /\ x.chain # <<>> => IsPath(x.chain)
  /\ x.pending => x.chain[1].type \in {"event", "debug"}

FidsOK == fid \in [Fids -> FidSet] /\ FidInv

LEMMA FidsGood ==
  ASSUME FidsOK, NEW f \in Fids
  PROVE  FidGood(fid[f]) /\ GoodChain(fid[f].chain)
<1>1. fid[f] \in FidSet /\ fid[f].chain \in Seq(FileSet)
  BY DEF FidsOK, FidSet
<1> QED BY <1>1 DEF FidsOK, FidInv, FidGood, GoodChain, InUse, Type

(* One fid is changed.                                                     *)
LEMMA OneFid ==
  ASSUME FidsOK, NEW f \in Fids, NEW x, FidGood(x), fid' = [fid EXCEPT ![f] = x]
  PROVE  /\ FidsOK'
         /\ fid'[f] = x /\ \A g \in Fids \ {f} : fid'[g] = fid[g]
<1>1. /\ fid' \in [Fids -> FidSet]
      /\ fid'[f] = x /\ \A g \in Fids \ {f} : fid'[g] = fid[g]
  BY DEF FidsOK, FidGood
<1>2. FidInv'
  BY <1>1 DEF FidsOK, FidInv, FidGood, InUse, Type
<1> QED BY <1>1, <1>2 DEF FidsOK

LEMMA NoFidGood == FidGood(NoFid)
<1>1. <<>> \in Seq(FileSet)
  BY EmptySeq
<1> QED BY <1>1 DEF FidGood, NoFid, FidSet

(* No fid that a table is written with is lost.                            *)
LEMMA KeepsTables ==
  ASSUME AppliedWhenClosed, UNCHANGED tables,
         \A f \in Fids : Opened(f) /\ Type(f) \in Tables => fid'[f] = fid[f]
  PROVE  AppliedWhenClosed'
BY DEF AppliedWhenClosed, Opened, Type, tables

(* No fid that hears of events, or is going to, is changed.                *)
LEMMA KeepsReaders ==
  ASSUME ReadersServed, UNCHANGED events,
         \A f \in Fids : fid[f].pending \/ fid'[f].pending => fid'[f] = fid[f],
         EventTypes
  PROVE  EventTypes' /\ ReadersServed'
<1>1. reading' = reading /\ unread' = unread /\ debugfile' = debugfile
  BY DEF events
<1>2. \A f \in reading : Opened(f)' /\ fid'[f].pending /\ unread'[f] = 0
  BY <1>1 DEF ReadersServed, Opened, EventTypes
<1>3. \A f \in Fids : ~fid'[f].pending => unread'[f] = 0
  BY <1>1 DEF ReadersServed
<1>4. Pending("debug")' = Pending("debug")
  BY DEF Pending, InUse, Type
<1> QED BY <1>1, <1>2, <1>3, <1>4 DEF ReadersServed, EventTypes

(* Events are handed out.                                                  *)
LEMMA PendingWriteOK ==
  ASSUME EventTypes, ReadersServed, NEW type, PendingWrite(type),
         fid' = fid, debugfile' = debugfile
  PROVE  EventTypes' /\ ReadersServed'
<1> DEFINE P == Pending(type)
           Q == P \ reading
<1>1. /\ reading' = reading \ P
      /\ unread' = [f \in Fids |-> IF f \in Q THEN unread[f] + 1 ELSE unread[f]]
  BY DEF PendingWrite
<1>2. \A f \in P : fid[f].pending
  BY DEF Pending
<1> HIDE DEF P
<1>3. EventTypes'
  BY <1>1 DEF EventTypes
<1>4. \A f \in reading' : f \in reading /\ unread'[f] = unread[f]
  BY <1>1 DEF EventTypes
<1>5. \A f \in Fids : ~fid[f].pending => unread'[f] = unread[f]
  BY <1>1, <1>2
<1>6. Pending("debug")' = Pending("debug")
  BY DEF Pending, InUse, Type
<1> QED BY <1>3, <1>4, <1>5, <1>6 DEF ReadersServed, Opened

(* A request that is verified follows its chain to the right object.       *)
LEMMA FollowsWell ==
  ASSUME IInv, NEW f \in Fids, InUse(f), Verify(fid[f].chain)
  PROVE  Fits(fid[f].chain)
<1>1. FidGood(fid[f]) /\ GoodChain(fid[f].chain)
  BY FidsGood DEF IInv, TypeOK, FidsOK
<1> QED BY <1>1, VerifyFits DEF IInv, GoodChain, InUse

(* A request that changes neither a fid nor the tables.                    *)
LEMMA SameFids ==
  ASSUME FidsOK, AppliedWhenClosed, TableTypes, fid' = fid, UNCHANGED tables
  PROVE  FidsOK' /\ AppliedWhenClosed' /\ TableTypes'
BY DEF FidsOK, FidInv, InUse, Type, AppliedWhenClosed, Opened, tables, TableTypes

LEMMA SameObjects ==
  ASSUME ObjTypes, BarsInv, SelInv, UNCHANGED objects
  PROVE  ObjTypes' /\ BarsInv' /\ SelInv'
BY DEF ObjTypes, BarsInv, SelInv, objects

LEMMA Parts ==
  IInv <=> /\ ObjTypes /\ BarsInv /\ SelInv
           /\ FidsOK
           /\ EventTypes /\ ReadersServed
           /\ TableTypes /\ AppliedWhenClosed
           /\ strayed = FALSE
BY DEF IInv, TypeOK, FidsOK, NeverStrays
-----------------------------------------------------------------------------
(* The steps.                                                              *)

LEMMA Together ==
  ASSUME ObjTypes', BarsInv', SelInv', FidsOK', EventTypes', ReadersServed', TableTypes',
         AppliedWhenClosed', strayed' = FALSE
  PROVE  IInv'
<1>1. strayed' \in BOOLEAN /\ NeverStrays'
  BY DEF NeverStrays
<1> QED BY <1>1 DEF IInv, TypeOK, FidsOK

LEMMA InitOK == Init => IInv
<1> SUFFICES ASSUME Init PROVE IInv
  OBVIOUS
<1>0. <<>> \in Seq(Addrs)
  BY EmptySeq
<1>1. ObjTypes
  BY <1>0 DEF Init, ObjTypes
<1>2. BarsInv /\ SelInv
  BY DEF Init, BarsInv, SelInv
<1>3. \A f \in Fids : fid[f] = NoFid /\ FidGood(fid[f])
  BY NoFidGood DEF Init
<1>4. FidsOK
  <2>1. fid \in [Fids -> FidSet]
    BY NoFidGood DEF Init, FidGood
  <2> QED BY <2>1, <1>3 DEF FidsOK, FidInv, FidGood, InUse, Type
<1>5. EventTypes /\ TableTypes
  <2>1. (CHOOSE x \in Texts : TRUE) \in Texts
    BY FilesAssumption
  <2> QED BY <2>1 DEF Init, EventTypes, TableTypes
<1>6. ReadersServed
  BY <1>3 DEF Init, ReadersServed, NoFid, Pending
<1>7. AppliedWhenClosed
  BY DEF Init, AppliedWhenClosed
<1> QED BY <1>1, <1>2, <1>4, <1>5, <1>6, <1>7, Parts DEF Init

LEMMA AttachOK ==
  ASSUME IInv, NEW f \in Fids, Attach(f)
  PROVE  IInv'
<1> DEFINE new == [fid[f] EXCEPT !.chain = <<Root>>]
<1>1. /\ ~InUse(f) /\ fid' = [fid EXCEPT ![f] = new]
      /\ UNCHANGED <<objects, events, tables, strayed>>
  BY Parts DEF Attach, FidsOK
<1>2. fid[f] = NoFid
  BY <1>1, Parts DEF FidsOK, FidInv
<1>3. /\ new.chain = <<Root>> /\ new.mode = "no" /\ ~new.pending
      /\ <<Root>> \in Seq(FileSet) => new \in FidSet
  BY <1>2, NoFidGood DEF NoFid, FidGood, FidSet
<1>4. FidGood(new)
  <2>1. Root \in FileSet
    BY DEF Root, File, FileSet, Types
  <2>2. <<Root>> \in Seq(FileSet) /\ Len(<<Root>>) = 1 /\ <<Root>>[1] = Root /\ <<Root>> # <<>>
    BY <2>1
  <2>3. IsPath(<<Root>>)
    BY <2>2 DEF IsPath
  <2>4. new \in FidSet
    BY <1>3, <2>2
  <2> HIDE DEF new
  <2> QED BY <1>3, <2>2, <2>3, <2>4 DEF FidGood
<1> HIDE DEF new
<1>5. FidsOK' /\ fid'[f] = new /\ \A g \in Fids \ {f} : fid'[g] = fid[g]
  BY <1>1, <1>4, OneFid, Parts
<1>6. ~Opened(f) /\ ~fid[f].pending /\ ~fid'[f].pending
  BY <1>2, <1>3, <1>5 DEF Opened, NoFid
<1>7. AppliedWhenClosed' /\ TableTypes'
  BY <1>1, <1>5, <1>6, KeepsTables, Parts DEF TableTypes, tables
<1>8. EventTypes' /\ ReadersServed'
  BY <1>1, <1>5, <1>6, KeepsReaders, Parts
<1>9. strayed' = strayed
  BY <1>1
<1> QED BY <1>1, <1>5, <1>7, <1>8, <1>9, SameObjects, Parts, Together

LEMMA WalkOK ==
  ASSUME IInv, NEW f \in Fids, NEW g \in Fids, NEW path \in Paths, Walk(f, g, path)
  PROVE  IInv'
<1> DEFINE chain == Walked(fid[f].chain, path)
           new == [fid[g] EXCEPT !.chain = chain]
<1>1. /\ ~InUse(g) /\ fid' = [fid EXCEPT ![g] = new]
      /\ UNCHANGED <<objects, events, tables, strayed>>
  BY Parts DEF Walk, FidsOK
<1>2. fid[g] = NoFid
  BY <1>1, Parts DEF FidsOK, FidInv
<1>3. GoodChain(chain)
  <2>1. GoodChain(fid[f].chain) /\ path \in Seq(STRING)
    BY Parts, FidsGood, FilesAssumption
  <2> QED BY <2>1, WalkedPath DEF IInv
<1> HIDE DEF chain
<1>4. /\ new.chain = chain /\ new.mode = "no" /\ ~new.pending
      /\ chain \in Seq(FileSet) => new \in FidSet
      /\ chain = <<>> => new = NoFid
  <2>1. [NoFid EXCEPT !.chain = <<>>] = NoFid
    BY DEF NoFid
  <2> QED BY <2>1, <1>2, NoFidGood DEF NoFid, FidGood, FidSet
<1>5. FidGood(new)
  <2>1. new \in FidSet
    BY <1>3, <1>4 DEF GoodChain
  <2> HIDE DEF new
  <2> QED BY <2>1, <1>3, <1>4 DEF FidGood, GoodChain
<1> HIDE DEF new
<1>6. FidsOK' /\ fid'[g] = new /\ \A h \in Fids \ {g} : fid'[h] = fid[h]
  BY <1>1, <1>5, OneFid, Parts
<1>7. ~Opened(g) /\ ~fid[g].pending /\ ~fid'[g].pending
  BY <1>2, <1>4, <1>6 DEF Opened, NoFid
<1>8. AppliedWhenClosed' /\ TableTypes'
  BY <1>1, <1>6, <1>7, KeepsTables, Parts DEF TableTypes, tables
<1>9. EventTypes' /\ ReadersServed'
  BY <1>1, <1>6, <1>7, KeepsReaders, Parts
<1>10. strayed' = strayed
  BY <1>1
<1> QED BY <1>1, <1>6, <1>8, <1>9, <1>10, SameObjects, Parts, Together

LEMMA OpenOK ==
  ASSUME IInv, NEW f \in Fids, NEW mode \in {"r", "w", "rw"}, Open(f, mode)
  PROVE  IInv'
<1> DEFINE hears == fid[f].pending \/ Type(f) \in {"event", "debug"}
           is == IF mode \in Modes(Type(f)) THEN mode ELSE "no"
           new == [fid[f] EXCEPT !.pending = hears, !.mode = is]
<1>1. /\ InUse(f) /\ ~Opened(f)
      /\ fid' = [fid EXCEPT ![f] = new]
      /\ debugfile' = (debugfile \/ Type(f) = "debug")
      /\ UNCHANGED <<objects, reading, unread, tables, strayed>>
  BY Parts DEF Open, OpenAs, FidsOK
<1>2. FidGood(fid[f])
  BY Parts, FidsGood
<1>3. /\ new \in FidSet /\ new.chain = fid[f].chain /\ new.pending = hears
      /\ fid[f].chain # <<>>
  <2>1. hears \in BOOLEAN /\ is \in {"no", "r", "w", "rw"}
    BY <1>2 DEF FidGood, FidSet
  <2> HIDE DEF hears, is
  <2> QED BY <1>1, <1>2, <2>1 DEF FidGood, FidSet, InUse
<1>4. FidGood(new)
  <2> HIDE DEF new
  <2>1. hears => fid[f].chain[1].type \in {"event", "debug"}
    BY <1>2 DEF FidGood, Type
  <2> HIDE DEF hears
  <2> QED BY <1>2, <1>3, <2>1 DEF FidGood
<1> HIDE DEF new
<1>5. FidsOK' /\ fid'[f] = new /\ \A h \in Fids \ {f} : fid'[h] = fid[h]
  BY <1>1, <1>4, OneFid, Parts
<1>6. AppliedWhenClosed' /\ TableTypes'
  BY <1>1, <1>5, KeepsTables, Parts DEF TableTypes, tables
<1>7. reading' = reading /\ unread' = unread
  BY <1>1
<1>8. f \notin reading
  BY <1>1, Parts DEF ReadersServed
<1>9. \A g \in reading : Opened(g)' /\ fid'[g].pending /\ unread'[g] = 0
  BY <1>5, <1>7, <1>8, Parts DEF ReadersServed, Opened, EventTypes
<1>10. \A g \in Fids : ~fid'[g].pending => unread'[g] = 0
  <2>1. fid[f].pending => fid'[f].pending
    BY <1>3, <1>5
  <2> QED BY <2>1, <1>5, <1>7, Parts DEF ReadersServed
<1>11. debugfile' <=> Pending("debug")' # {}
  <2>1. CASE Type(f) = "debug"
    <3>1. InUse(f)' /\ fid'[f].pending /\ Type(f)' = "debug"
      BY <2>1, <1>1, <1>3, <1>5 DEF InUse, Type
    <3>2. f \in Pending("debug")'
      BY <3>1 DEF Pending
    <3> QED BY <3>2, <2>1, <1>1
  <2>2. CASE Type(f) # "debug"
    <3>1. Type(f)' = Type(f)
      BY <1>3, <1>5 DEF Type
    <3>2. Pending("debug")' = Pending("debug")
      BY <3>1, <2>2, <1>5 DEF Pending, InUse, Type
    <3> QED BY <3>2, <2>2, <1>1, Parts DEF ReadersServed
  <2> QED BY <2>1, <2>2
<1>12. EventTypes' /\ ReadersServed'
  <2>1. debugfile' \in BOOLEAN
    BY <1>1, Parts DEF EventTypes
  <2>2. EventTypes'
    BY <1>7, <2>1, Parts DEF EventTypes
  <2> QED BY <2>2, <1>7, <1>9, <1>10, <1>11 DEF ReadersServed
<1>13. strayed' = strayed
  BY <1>1
<1> QED BY <1>1, <1>5, <1>6, <1>12, <1>13, SameObjects, Parts, Together

LEMMA CreateOK ==
  ASSUME IInv, NEW f \in Fids, NEW name \in Range(Names), NEW mode \in {"w", "rw"},
         Create(f, name, mode)
  PROVE  IInv'
<1>1. PICK d \in BarDirs :
        /\ d = fid[f].chain[1].name
        /\ BarCreate(d, name)
        /\ fid' = IF BarFind(d, name)' = Nil THEN fid
                  ELSE [fid EXCEPT ![f].chain = <<File("bar", name, BarFind(d, name)')>> \o @,
                                   ![f].mode = mode]
  BY DEF Create
<1>2. InUse(f) /\ ~Opened(f) /\ Type(f) = "bars" /\ UNCHANGED <<events, tables, strayed>>
  BY DEF Create
<1>3. ObjTypes' /\ BarsInv' /\ SelInv'
  BY <1>1, BarCreateOK, Parts
<1>4. strayed' = strayed
  BY <1>2
<1>5. CASE fid' = fid
  <2>1. FidsOK' /\ AppliedWhenClosed' /\ TableTypes'
    BY <1>2, <1>5, SameFids, Parts DEF tables
  <2>2. EventTypes' /\ ReadersServed'
    BY <1>2, <1>5, KeepsReaders, Parts
  <2> QED BY <1>3, <1>4, <2>1, <2>2, Parts, Together
<1>6. CASE fid' # fid
  <2> DEFINE b == BarFind(d, name)'
             file == File("bar", name, b)
             chain == <<file>> \o fid[f].chain
             new == [fid[f] EXCEPT !.chain = chain, !.mode = mode]
  <2>1. b # Nil /\ fid' = [fid EXCEPT ![f] = new]
    BY <1>1, <1>6, Parts DEF FidsOK
  <2>2. b \in Addrs
    <3> SUFFICES BarFind(d, name)' \in Addrs
      OBVIOUS
    <3> DEFINE at == {i \in DOMAIN bars'[d] : obj'[bars'[d][i]].name = name}
               k == CHOOSE i \in at : \A j \in at : i <= j
    <3>1. at # {} /\ b = bars'[d][k]
      BY <2>1 DEF BarFind
    <3>2. bars'[d] \in Seq(Addrs)
      BY <1>3 DEF ObjTypes
    <3>3. at \subseteq Nat
      BY <3>2
    <3>4. \E i \in at : \A j \in at : i <= j
      BY <3>1, <3>3, NatMin
    <3>5. k \in DOMAIN bars'[d]
      BY <3>4
    <3> HIDE DEF k, b
    <3> QED BY <3>1, <3>2, <3>5 DEF b
  <2> HIDE DEF b
  <2>3. file \in FileSet /\ file.type = "bar"
    <3>1. name \in STRING
      BY FilesAssumption DEF Range
    <3> QED BY <3>1, <2>2 DEF File, FileSet, Types
  <2> HIDE DEF file
  <2>4. FidGood(fid[f]) /\ fid[f].chain \in Seq(FileSet) /\ IsPath(fid[f].chain)
    BY <1>2, FidsGood, Parts DEF GoodChain, InUse
  <2>5. fid[f].chain[1].type = "bars"
    BY <1>2 DEF Type
  <2>6. Entry(fid[f].chain[1], file)
    BY <2>3, <2>5 DEF Entry
  <2>7. chain \in Seq(FileSet) /\ chain # <<>> /\ chain[1] = file /\ IsPath(chain)
    BY <2>3, <2>4, <2>6, PathUp
  <2> HIDE DEF chain
  <2>8. ~fid[f].pending
    BY <2>4, <2>5 DEF FidGood
  <2>9. FidGood(new) /\ ~new.pending
    <3>1. new \in FidSet /\ new.chain = chain /\ new.pending = fid[f].pending
      BY <2>4, <2>7 DEF FidGood, FidSet
    <3> HIDE DEF new
    <3> QED BY <3>1, <2>7, <2>8 DEF FidGood
  <2> HIDE DEF new
  <2>10. FidsOK' /\ fid'[f] = new /\ \A h \in Fids \ {f} : fid'[h] = fid[h]
    BY <2>1, <2>9, OneFid, Parts
  <2>11. AppliedWhenClosed' /\ TableTypes'
    BY <1>2, <2>10, KeepsTables, Parts DEF TableTypes, tables
  <2>12. EventTypes' /\ ReadersServed'
    BY <1>2, <2>8, <2>9, <2>10, KeepsReaders, Parts
  <2> QED BY <1>3, <1>4, <2>10, <2>11, <2>12, Parts, Together
<1> QED BY <1>5, <1>6

(* The last file of a fid of keys, rules, colrules, event or debug cannot  *)
(* have gone.                                                              *)
LEMMA StillThere ==
  ASSUME IInv, NEW f \in Fids, InUse(f),
         Type(f) \in {"event", "debug", "keys", "rules", "colrules"}
  PROVE  Verify(fid[f].chain)
<1>1. GoodChain(fid[f].chain)
  BY Parts, FidsGood
<1> QED BY <1>1, StaticVerify DEF GoodChain, InUse, Type

LEMMA Remove9POK ==
  ASSUME IInv, NEW f \in Fids, Remove9P(f)
  PROVE  IInv'
<1>1. /\ InUse(f) /\ ~Opened(f) /\ ~fid[f].pending
      /\ fid' = [fid EXCEPT ![f] = NoFid]
      /\ UNCHANGED <<events, tables>>
  BY DEF Remove9P
<1>2. FidsOK' /\ fid'[f] = NoFid /\ \A h \in Fids \ {f} : fid'[h] = fid[h]
  BY <1>1, OneFid, NoFidGood, Parts
<1>3. ~fid'[f].pending
  BY <1>2 DEF NoFid
<1>4. AppliedWhenClosed' /\ TableTypes'
  BY <1>1, <1>2, KeepsTables, Parts DEF TableTypes, tables
<1>5. EventTypes' /\ ReadersServed'
  BY <1>1, <1>2, <1>3, KeepsReaders, Parts
<1>6. ObjTypes' /\ BarsInv' /\ SelInv' /\ strayed' = FALSE
  <2>1. CASE Verify(fid[f].chain) /\ Type(f) = "bar"
    <3> DEFINE chain == fid[f].chain
               d == chain[2].name
               a == chain[1].ref
    <3>1. strayed' = (strayed \/ ~Fits(fid[f].chain)) /\ BarDestroy(d, a)
      BY <2>1 DEF Remove9P, Follows
    <3>2. Fits(fid[f].chain)
      BY <2>1, <1>1, FollowsWell
    <3>3. chain \in Seq(FileSet) /\ IsPath(chain)
      BY <1>1, FidsGood, Parts DEF GoodChain, InUse
    <3> HIDE DEF chain
    <3>4. 1 \in 1 .. Len(chain) /\ chain[1].type = "bar"
      <4>1. Len(chain) \in Nat \ {0}
        BY <3>3, EmptySeq DEF IsPath
      <4> QED BY <4>1, <2>1 DEF Type, chain
    <3>5. Volatile(chain[1])
      BY <3>4 DEF Volatile
    <3>6. 1 \in 1 .. Len(chain) - 1 /\ 2 \in 1 .. Len(chain) /\ Entry(chain[2], chain[1])
      <4>1. 1 \in 1 .. Len(chain) - 1 /\ Entry(chain[1 + 1], chain[1])
        BY <3>3, <3>4, <3>5, PathTop
      <4> QED BY <4>1
    <3>7. chain[1] \in FileSet /\ chain[2] \in FileSet
      BY <3>3, <3>4, <3>6
    <3>8. chain[2].type = "bars"
      BY <3>4, <3>6, <3>7, PathEntry
    <3>9. d \in BarDirs
      BY <3>3, <3>6, <3>8, PathBars
    <3> DEFINE file == Lookup(chain[2], chain[1].name)
    <3>10. file # NoFile /\ (Volatile(file) => file.ref = a)
      <4>1. Lookup(chain[1 + 1], chain[1].name) # NoFile
            /\ (Volatile(Lookup(chain[1 + 1], chain[1].name)) =>
                  Lookup(chain[1 + 1], chain[1].name).ref = a)
        BY <2>1, <3>6 DEF Verify, chain
      <4>2. 1 + 1 = 2
        OBVIOUS
      <4> QED BY <4>1, <4>2
    <3>11. chain[1].name \in STRING \cup {"/"}
      BY <3>7 DEF FileSet
    <3>12. /\ file \in FileSet /\ Entry(chain[2], file)
           /\ \E i \in DOMAIN bars[d] : bars[d][i] = file.ref
      BY <3>7, <3>8, <3>9, <3>10, <3>11, Found DEF IInv
    <3>13. file.type = "bar"
      BY <3>7, <3>8, <3>12, PathEntry
    <3>14. file.ref = a
      BY <3>10, <3>13 DEF Volatile
    <3>15. PICK k \in DOMAIN bars[d] : bars[d][k] = a
      BY <3>12, <3>14
    <3> HIDE DEF d, a
    <3>16. ObjTypes' /\ BarsInv' /\ SelInv'
      BY <3>1, <3>9, <3>15, BarDestroyOK, Parts
    <3> QED BY <3>1, <3>2, <3>16, Parts
  <2>2. CASE ~(Verify(fid[f].chain) /\ Type(f) = "bar")
    <3>1. /\ UNCHANGED objects
          /\ IF Verify(fid[f].chain) /\ Type(f) = "clientdir" THEN Follows(f) ELSE UNCHANGED strayed
      BY <2>2 DEF Remove9P
    <3>2. strayed' = FALSE
      BY <3>1, <1>1, FollowsWell, Parts DEF Follows
    <3> QED BY <3>1, <3>2, SameObjects, Parts
  <2> QED BY <2>1, <2>2
<1> QED BY <1>2, <1>4, <1>5, <1>6, Together

LEMMA ClunkOK ==
  ASSUME IInv, NEW f \in Fids, Clunk(f)
  PROVE  IInv'
<1>1. /\ InUse(f) /\ fid' = [fid EXCEPT ![f] = NoFid]
      /\ UNCHANGED <<objects, text, strayed>>
  BY DEF Clunk
<1>2. FidsOK' /\ fid'[f] = NoFid /\ \A h \in Fids \ {f} : fid'[h] = fid[h]
  BY <1>1, OneFid, NoFidGood, Parts
<1>3. /\ ~fid'[f].pending /\ ~InUse(f)' /\ ~Opened(f)'
      /\ fid[f].pending \in BOOLEAN
      /\ fid[f].pending => Type(f) \in {"event", "debug"}
  BY <1>2, Parts, FidsGood DEF NoFid, InUse, Opened, FidGood, FidSet, Type
<1>4. ObjTypes' /\ BarsInv' /\ SelInv' /\ strayed' = FALSE
  BY <1>1, SameObjects, Parts
<1>5. CASE fid[f].pending
  <2>1. Verify(fid[f].chain)
    BY <1>1, <1>3, <1>5, StillThere
  <2>2. /\ applied' = applied
        /\ reading' = reading \ {f}
        /\ unread' = [unread EXCEPT ![f] = 0]
        /\ debugfile' = (debugfile /\ ~(Type(f) = "debug" /\ Pending("debug") = {f}))
    BY <1>5, <2>1 DEF Clunk, PendingClunk
  <2>3. Type(f) \notin Tables
    BY <1>3, <1>5 DEF Tables
  <2>4. AppliedWhenClosed' /\ TableTypes'
    BY <1>1, <1>2, <2>2, <2>3, KeepsTables, Parts DEF TableTypes, tables
  <2>5. EventTypes'
    BY <2>2, Parts DEF EventTypes
  <2>6. Pending("debug")' = Pending("debug") \ {f}
    BY <1>2, <1>3 DEF Pending, InUse, Type
  <2>7. f \in Pending("debug") <=> Type(f) = "debug"
    BY <1>1, <1>5 DEF Pending
  <2>8. debugfile' <=> Pending("debug")' # {}
    <3>1. debugfile <=> Pending("debug") # {}
      BY Parts DEF ReadersServed
    <3>2. debugfile' <=> debugfile /\ ~(Type(f) = "debug" /\ Pending("debug") = {f})
      BY <2>2
    <3> QED BY <3>1, <3>2, <2>6, <2>7
  <2>9. \A g \in reading' : Opened(g)' /\ fid'[g].pending /\ unread'[g] = 0
    BY <1>2, <2>2, Parts DEF ReadersServed, EventTypes, Opened
  <2>10. \A g \in Fids : ~fid'[g].pending => unread'[g] = 0
    BY <1>2, <2>2, Parts DEF ReadersServed, EventTypes
  <2>11. ReadersServed'
    BY <2>8, <2>9, <2>10 DEF ReadersServed
  <2> QED BY <1>2, <1>4, <2>4, <2>5, <2>11, Together
<1>6. CASE ~fid[f].pending
  <2>1. UNCHANGED events
    BY <1>6 DEF Clunk
  <2>2. EventTypes' /\ ReadersServed'
    BY <1>2, <1>3, <1>6, <2>1, KeepsReaders, Parts
  <2>3. AppliedWhenClosed' /\ TableTypes'
    <3>1. CASE Type(f) \in Tables
      <4>1. Verify(fid[f].chain)
        BY <1>1, <3>1, StillThere DEF Tables
      <4>2. applied' = [applied EXCEPT ![Type(f)] = text[Type(f)]] /\ text' = text
        BY <1>1, <1>6, <3>1, <4>1 DEF Clunk, Parses
      <4>3. TableTypes'
        BY <3>1, <4>2, Parts DEF TableTypes
      <4>4. ASSUME NEW t \in Tables, text'[t] # applied'[t]
            PROVE  \E g \in Fids : Opened(g)' /\ Type(g)' = t
        <5>1. t # Type(f) /\ text[t] # applied[t]
          BY <4>2, <4>4, Parts DEF TableTypes
        <5>2. PICK g \in Fids : Opened(g) /\ Type(g) = t
          BY <5>1, Parts DEF AppliedWhenClosed
        <5>3. fid'[g] = fid[g]
          BY <5>1, <5>2, <1>2
        <5> QED BY <5>2, <5>3 DEF Opened, Type
      <4> QED BY <4>3, <4>4 DEF AppliedWhenClosed
    <3>2. CASE Type(f) \notin Tables
      <4>1. applied' = applied
        BY <1>6, <3>2 DEF Clunk, Parses
      <4> QED BY <4>1, <3>2, <1>1, <1>2, KeepsTables, Parts DEF TableTypes, tables
    <3> QED BY <3>1, <3>2
  <2> QED BY <1>2, <1>4, <2>2, <2>3, Together
<1> QED BY <1>3, <1>5, <1>6

LEMMA ReadPendingOK ==
  ASSUME IInv, NEW f \in Fids, ReadPending(f)
  PROVE  IInv'
<1>1. /\ fid[f].mode \in {"r", "rw"} /\ fid[f].pending /\ f \notin reading
      /\ IF unread[f] > 0
           THEN unread' = [unread EXCEPT ![f] = @ - 1] /\ UNCHANGED reading
           ELSE reading' = reading \cup {f} /\ UNCHANGED unread
      /\ UNCHANGED <<objects, fid, debugfile, tables, strayed>>
  BY DEF ReadPending
<1>2. unread[f] \in Nat
  BY Parts DEF EventTypes
<1>3. Pending("debug")' = Pending("debug")
  BY <1>1 DEF Pending, InUse, Type
<1>4. EventTypes' /\ ReadersServed'
  <2>1. CASE unread[f] > 0
    <3>1. unread' = [unread EXCEPT ![f] = unread[f] - 1] /\ reading' = reading
      BY <2>1, <1>1
    <3>2. unread[f] - 1 \in Nat
      BY <2>1, <1>2
    <3>3. EventTypes'
      BY <3>1, <3>2, <1>1, Parts DEF EventTypes
    <3>4. \A g \in Fids : g # f => unread'[g] = unread[g]
      BY <3>1, Parts DEF EventTypes
    <3> QED BY <3>1, <3>3, <3>4, <1>1, <1>3, Parts DEF ReadersServed, EventTypes, Opened
  <2>2. CASE ~(unread[f] > 0)
    <3>1. reading' = reading \cup {f} /\ unread' = unread
      BY <2>2, <1>1
    <3>2. unread[f] = 0
      BY <2>2, <1>2
    <3>3. EventTypes'
      BY <3>1, <1>1, Parts DEF EventTypes
    <3>4. Opened(f)
      BY <1>1 DEF Opened
    <3> QED BY <3>1, <3>2, <3>3, <3>4, <1>1, <1>3, Parts DEF ReadersServed, Opened
  <2> QED BY <2>1, <2>2
<1> QED BY <1>1, <1>4, SameFids, SameObjects, Parts, Together

LEMMA FlushOK ==
  ASSUME IInv, NEW f \in Fids, Flush(f)
  PROVE  IInv'
<1>1. /\ reading' = reading \ {f}
      /\ UNCHANGED <<objects, fid, unread, debugfile, tables, strayed>>
  BY DEF Flush
<1>2. Pending("debug")' = Pending("debug")
  BY <1>1 DEF Pending, InUse, Type
<1>3. EventTypes' /\ ReadersServed'
  BY <1>1, <1>2, Parts DEF EventTypes, ReadersServed, Opened
<1> QED BY <1>1, <1>3, SameFids, SameObjects, Parts, Together

(* fs_write of a table.                                                    *)
LEMMA WriteTableOK ==
  ASSUME IInv, NEW f \in Fids, WriteTable(f)
  PROVE  IInv'
<1>1. PICK x \in Texts : text' = [text EXCEPT ![Type(f)] = x]
  BY DEF WriteTable
<1>2. /\ fid[f].mode \in {"w", "rw"} /\ Type(f) \in Tables
      /\ UNCHANGED <<objects, fid, events, applied, strayed>>
  BY DEF WriteTable, Writable
<1>3. TableTypes'
  BY <1>1, <1>2, Parts DEF TableTypes
<1>4. ASSUME NEW t \in Tables, text'[t] # applied'[t]
      PROVE  \E g \in Fids : Opened(g)' /\ Type(g)' = t
  <2>1. CASE t = Type(f)
    BY <2>1, <1>2 DEF Opened, Type
  <2>2. CASE t # Type(f)
    <3>1. text[t] # applied[t]
      BY <2>2, <1>1, <1>2, <1>4, Parts DEF TableTypes
    <3>2. PICK g \in Fids : Opened(g) /\ Type(g) = t
      BY <3>1, Parts DEF AppliedWhenClosed
    <3> QED BY <3>2, <1>2 DEF Opened, Type
  <2> QED BY <2>1, <2>2
<1>5. AppliedWhenClosed'
  BY <1>4 DEF AppliedWhenClosed
<1>6. FidsOK'
  BY <1>2, Parts DEF FidsOK, FidInv, InUse, Type
<1>7. EventTypes' /\ ReadersServed'
  BY <1>2, KeepsReaders, Parts
<1>8. ObjTypes' /\ BarsInv' /\ SelInv' /\ strayed' = FALSE
  BY <1>2, SameObjects, Parts
<1> QED BY <1>3, <1>5, <1>6, <1>7, <1>8, Together

(* A step that hands events out, or follows a chain, or lets clients and   *)
(* views come and go, and does nothing else.                               *)
LEMMA OutsideOK ==
  ASSUME IInv, fid' = fid, UNCHANGED tables, debugfile' = debugfile, strayed' = FALSE,
         Reaction \/ UNCHANGED objects,
         PendingWrite("event") \/ PendingWrite("debug") \/ UNCHANGED events
  PROVE  IInv'
<1>1. ObjTypes' /\ BarsInv' /\ SelInv'
  BY ReactionOK, SameObjects, Parts
<1>2. FidsOK' /\ AppliedWhenClosed' /\ TableTypes'
  BY SameFids, Parts
<1>3. EventTypes' /\ ReadersServed'
  BY PendingWriteOK, KeepsReaders, Parts
<1> QED BY <1>1, <1>2, <1>3, Together

LEMMA NextOK ==
  ASSUME IInv, Next
  PROVE  IInv'
<1>1. CASE Event \/ Debug \/ Elsewhere
  <2>1. /\ fid' = fid /\ UNCHANGED tables /\ debugfile' = debugfile /\ strayed' = FALSE
        /\ Reaction \/ UNCHANGED objects
        /\ PendingWrite("event") \/ PendingWrite("debug") \/ UNCHANGED events
    BY <1>1, Parts DEF Event, Debug, Elsewhere, events
  <2> QED BY <2>1, OutsideOK
<1>2. ASSUME NEW f \in Fids,
             ReadObject(f) \/ WriteEvent(f) \/ WriteTags(f) \/ WriteCtl(f) \/ WriteObject(f)
      PROVE  IInv'
  <2>1. InUse(f) /\ Verify(fid[f].chain)
    BY <1>2 DEF ReadObject, WriteEvent, WriteTags, WriteCtl, WriteObject, Writable
  <2>2. Follows(f) => strayed' = FALSE
    BY <2>1, FollowsWell, Parts DEF Follows
  <2>3. /\ fid' = fid /\ UNCHANGED tables /\ debugfile' = debugfile /\ strayed' = FALSE
        /\ Reaction \/ UNCHANGED objects
        /\ PendingWrite("event") \/ PendingWrite("debug") \/ UNCHANGED events
    BY <1>2, <2>2, Parts DEF ReadObject, WriteEvent, WriteTags, WriteCtl, WriteObject, events
  <2> QED BY <2>3, OutsideOK
<1> QED BY <1>1, <1>2, AttachOK, ClunkOK, FlushOK, Remove9POK, WalkOK, OpenOK, CreateOK,
           ReadPendingOK, WriteTableOK DEF Next

LEMMA StutterOK ==
  ASSUME IInv, UNCHANGED vars
  PROVE  IInv'
<1>1. fid' = fid /\ UNCHANGED tables /\ UNCHANGED events /\ strayed' = strayed /\ UNCHANGED objects
  BY DEF vars
<1>2. debugfile' = debugfile
  BY <1>1 DEF events
<1> QED BY <1>1, <1>2, OutsideOK, Parts
-----------------------------------------------------------------------------
(* The theorems.                                                           *)

(* The inductive invariant: types, paths, the lists of bars, and what the  *)
(* runs check.                                                             *)
THEOREM Invariance == Spec => []IInv
<1>1. Init => IInv
  BY InitOK
<1>2. IInv /\ [Next]_vars => IInv'
  BY NextOK, StutterOK
<1> QED BY <1>1, <1>2, PTL DEF Spec

(* No operation of the file server follows a fid's pointer to an object    *)
(* that is gone, or that its path no longer names, however the addresses   *)
(* are used again (fs.c, with ixp_srv_verifyfile).                         *)
THEOREM NeverStraysAlways == Spec => []NeverStrays
<1>1. IInv => NeverStrays
  BY DEF IInv
<1> QED BY <1>1, Invariance, PTL

(* Keys and rules that were written take effect: some fid that is still    *)
(* open will have them parsed when it is clunked (fs_write, fs_clunk).     *)
THEOREM AppliedAlways == Spec => []AppliedWhenClosed
<1>1. IInv => AppliedWhenClosed
  BY DEF IInv
<1> QED BY <1>1, Invariance, PTL

(* Nobody waits for an event that is queued for him, nothing is queued for *)
(* one who left, and a debug option is on while someone reads it (event,   *)
(* fs_read, fs_flush, fs_clunk).                                           *)
THEOREM ReadersAlways == Spec => []ReadersServed
<1>1. IInv => ReadersServed
  BY DEF IInv
<1> QED BY <1>1, Invariance, PTL

(* The lists of bars and the selection hold only what lives, each bar      *)
(* once, in the directory it is listed for (bar.c).                        *)
THEOREM ObjectsLive == Spec => [](BarsInv /\ SelInv)
<1>1. IInv => BarsInv /\ SelInv
  BY DEF IInv
<1> QED BY <1>1, Invariance, PTL
=============================================================================
