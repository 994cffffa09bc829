-------------------------------- MODULE Files -------------------------------
(***************************************************************************)
(* The file server (cmd/wmii/fs.c) and the bars that live in it (bar.c).   *)
(* A fid holds the chain of files that led to it, the last one first; the  *)
(* files of bars, clients and views point at the object itself.  Objects   *)
(* come and go while fids are kept, so every operation looks the chain up  *)
(* again, name by name, before it follows a pointer (ixp_srv_verifyfile).  *)
(*                                                                         *)
(* An object is the address it lives at, for that is what is compared, and *)
(* an address is used again.  What a control message does to clients and   *)
(* views belongs to other modules: here it may make any of them come, go   *)
(* or be selected.  libixp, which calls the handlers, is external.         *)
(***************************************************************************)
EXTENDS Naturals, Sequences, FiniteSets, SequencesExt, TLC

CONSTANTS Fids, Addrs,
          Names,      \* names of bars, in the order of strcmp, no element "sel"
          Cut,        \* Cut[n]: what is left of n in Bar.name
          ObjNames,   \* names of clients and views
          Paths,      \* bound: what is walked in one request
          Texts,      \* what keys, rules and colrules may hold
          MaxUnread,  \* bound: events queued for one fid
          Nil

BarDirs == {"lbar", "rbar"}
SelDirs == {"client", "tag"}
Tables  == {"keys", "rules", "colrules"}

(* What is left of a name has a place in the order too; Nil is neither an  *)
(* address nor an object.                                                  *)
ASSUME FilesAssumption ==
  /\ Names \in Seq(STRING) /\ ObjNames \subseteq STRING /\ Paths \subseteq Seq(STRING)
  /\ Cut \in [Range(Names) -> Range(Names)]
  /\ Texts # {} /\ MaxUnread \in Nat
  /\ Nil \notin Addrs
  /\ Nil \notin [dir : BarDirs \cup SelDirs, name : Range(Names) \cup ObjNames]

VARIABLES
  obj,        \* what lives at an address: the directory and name, or Nil
  bars,       \* the linked lists of the bars of screen 0
  sel,        \* selclient() and selview
  fid,        \* the fids in use
  reading,    \* fids with a read that is not answered yet
  unread,     \* events queued for each fid
  debugfile,  \* the flag of the one debug option
  text,       \* the tables as written
  applied,    \* the tables as last parsed: keys, rules, colrules
  strayed     \* ghost: an operation followed a pointer to the wrong object

objects == <<obj, bars, sel>>
events  == <<reading, unread, debugfile>>
tables  == <<text, applied>>
vars == <<objects, fid, events, tables, strayed>>

NoFid == [chain |-> <<>>, mode |-> "no", pending |-> FALSE]

File(type, name, ref) == [type |-> type, name |-> name, ref |-> ref]

Root   == File("root", "/", Nil)
NoFile == File("no", "", Nil)   \* what a look-up that fails returns

Init ==
  /\ obj = [a \in Addrs |-> Nil]
  /\ bars = [d \in BarDirs |-> <<>>]
  /\ sel = [d \in SelDirs |-> Nil]
  /\ fid = [f \in Fids |-> NoFid]
  /\ reading = {} /\ unread = [f \in Fids |-> 0]
  /\ debugfile = FALSE
  /\ text = [t \in Tables |-> CHOOSE x \in Texts : TRUE] /\ applied = text
  /\ strayed = FALSE
-----------------------------------------------------------------------------
(* The tree.                                                               *)

(* dirtab: the static entries of a directory, with their types.            *)
Static ==
  [root |-> [lbar |-> "bars", rbar |-> "bars", client |-> "clients", tag |-> "tags",
             event |-> "event", debug |-> "debug", ctl |-> "rctl",
             keys |-> "keys", rules |-> "rules", colrules |-> "colrules"],
   clientdir |-> [ctl |-> "cctl", label |-> "label", tags |-> "ctags", props |-> "props"],
   tagdir |-> [ctl |-> "tctl", index |-> "index"]]

(* The permission bits of dirtab, as the modes a file may be opened in.    *)
Modes(type) ==
  IF type \in {"root", "clients", "tags", "clientdir", "tagdir", "debug", "props", "index"}
    THEN {"r"} ELSE {"r", "w", "rw"}

(* The entries that are looked up among the objects are volatile.          *)
Volatile(file) == file.type \in {"bar", "clientdir", "tagdir"}

DirOf(type) == IF type = "clients" THEN "client" ELSE "tag"

Named(d, name) == {a \in Addrs : obj[a] # Nil /\ obj[a].dir = d /\ obj[a].name = name}

LookupObject(p, name) ==
  LET d   == DirOf(p.type)
      new(a) == File(IF p.type = "clients" THEN "clientdir" ELSE "tagdir", name, a)
  IN  IF name = "sel"
        THEN IF sel[d] = Nil THEN NoFile ELSE new(sel[d])
        ELSE IF Named(d, name) = {} THEN NoFile ELSE new(CHOOSE a \in Named(d, name) : TRUE)

(* bar_find                                                                *)
BarFind(d, name) ==
  LET at == {i \in DOMAIN bars[d] : obj[bars[d][i]].name = name}
  IN  IF at = {} THEN Nil ELSE bars[d][CHOOSE i \in at : \A j \in at : i <= j]

(* lookup_file with a name.                                                *)
Lookup(p, name) ==
  IF p.type = "bars"
    THEN LET b == BarFind(p.name, name)
         IN  IF b = Nil THEN NoFile ELSE File("bar", name, b)
    ELSE IF p.type \in {"clients", "tags"}
      THEN LookupObject(p, name)
      ELSE IF p.type \in DOMAIN Static /\ name \in DOMAIN Static[p.type]
        THEN File(Static[p.type][name], name, p.ref)
        ELSE NoFile

VerifyNames(chain) ==   \* a mutant: the names are there, whoever has them now
  \A i \in 1 .. Len(chain) - 1 : Lookup(chain[i + 1], chain[i].name) # NoFile

(* ixp_srv_verifyfile: every name of the chain is still there, and leads,  *)
(* if it is volatile, to the same object.                                  *)
Verify(chain) ==
  \A i \in 1 .. Len(chain) - 1 :
    LET file == Lookup(chain[i + 1], chain[i].name)
    IN  file # NoFile /\ (Volatile(file) => file.ref = chain[i].ref)

(* Ghost.  The object the chain leads to is what its path says it is.      *)
Fits(chain) ==
  \A i \in DOMAIN chain :
    Volatile(chain[i]) =>
      LET a == chain[i].ref
          d == IF chain[i].type = "bar" THEN chain[i + 1].name ELSE DirOf(chain[i + 1].type)
      IN  /\ obj[a] # Nil /\ obj[a].dir = d
          /\ IF chain[i].name = "sel" /\ d \in SelDirs THEN sel[d] = a ELSE obj[a].name = chain[i].name
          /\ chain[1].ref = a

Follows(f) == strayed' = (strayed \/ ~Fits(fid[f].chain))

Type(f) == fid[f].chain[1].type
Opened(f) == fid[f].mode # "no"
InUse(f) == fid[f].chain # <<>>
Pending(type) == {f \in Fids : InUse(f) /\ fid[f].pending /\ Type(f) = type}
-----------------------------------------------------------------------------
(* event() and dwrite(): a read that waits is answered, and for the others *)
(* it is queued.                                                           *)
PendingWrite(type) ==
  /\ \A f \in Pending(type) \ reading : unread[f] < MaxUnread
  /\ reading' = reading \ Pending(type)
  /\ unread' = [f \in Fids |->
                  IF f \in Pending(type) \ reading THEN unread[f] + 1 ELSE unread[f]]

Event == PendingWrite("event") /\ UNCHANGED <<objects, fid, debugfile, tables, strayed>>

Debug ==
  /\ debugfile
  /\ PendingWrite("debug")
  /\ UNCHANGED <<objects, fid, debugfile, tables, strayed>>

(* Clients and views appear, are selected, and go.                         *)
Appear(a, d, name) ==
  /\ obj[a] = Nil /\ Named(d, name) = {}
  /\ obj' = [obj EXCEPT ![a] = [dir |-> d, name |-> name]]
  /\ UNCHANGED <<bars, sel>>

Vanish(a) ==
  /\ obj[a] # Nil /\ obj[a].dir \in SelDirs
  /\ obj' = [obj EXCEPT ![a] = Nil]
  /\ sel' = [d \in SelDirs |-> IF sel[d] = a THEN Nil ELSE sel[d]]
  /\ UNCHANGED bars

Select(a) ==
  /\ obj[a] # Nil /\ obj[a].dir \in SelDirs
  /\ sel' = [sel EXCEPT ![obj[a].dir] = a]
  /\ UNCHANGED <<obj, bars>>

Reaction ==
  \E a \in Addrs :
    \/ \E d \in SelDirs, n \in ObjNames : Appear(a, d, n)
    \/ Vanish(a)
    \/ Select(a)

Elsewhere == Reaction /\ UNCHANGED <<fid, events, tables, strayed>>
-----------------------------------------------------------------------------
(* fs_attach, fs_walk                                                      *)

Attach(f) ==
  /\ ~InUse(f)
  /\ fid' = [fid EXCEPT ![f].chain = <<Root>>]
  /\ UNCHANGED <<objects, events, tables, strayed>>

(* One name of a walk (ixp_srv_walkandclone); the chain is not verified.   *)
Step(chain, name) ==
  IF chain = <<>> THEN <<>>
    ELSE IF name = ".." THEN IF Len(chain) = 1 THEN chain ELSE Tail(chain)
    ELSE LET file == Lookup(chain[1], name)
         IN  IF file = NoFile THEN <<>> ELSE <<file>> \o chain

(* A walk that fails anywhere makes no fid.                                *)
Walked(chain, path) ==
  LET at[i \in 0 .. Len(path)] == IF i = 0 THEN chain ELSE Step(at[i - 1], path[i])
  IN  at[Len(path)]

Walk(f, g, path) ==
  /\ InUse(f) /\ ~Opened(f) /\ ~InUse(g)
  /\ fid' = [fid EXCEPT ![g].chain = Walked(fid[f].chain, path)]
  /\ UNCHANGED <<objects, events, tables, strayed>>

(* fs_open.  The fid hears of events even when it is then refused.         *)
OpenAs(f, mode) ==
  /\ fid' = [fid EXCEPT ![f].pending = @ \/ Type(f) \in {"event", "debug"},
                        ![f].mode = IF mode \in Modes(Type(f)) THEN mode ELSE "no"]
  /\ debugfile' = (debugfile \/ Type(f) = "debug")
  /\ UNCHANGED <<objects, reading, unread, tables, strayed>>

Open(f, mode) ==
  /\ InUse(f) /\ ~Opened(f)
  /\ Verify(fid[f].chain)
  /\ OpenAs(f, mode)

(* fs_stat and fs_read of the files that are computed from an object, and  *)
(* of buffers: nothing changes.                                            *)
ReadObject(f) ==
  /\ InUse(f)
  /\ Verify(fid[f].chain)
  /\ Follows(f)
  /\ UNCHANGED <<objects, fid, events, tables>>

(* fs_read of the files that are never at their end.                       *)
ReadPending(f) ==
  /\ InUse(f) /\ fid[f].mode \in {"r", "rw"} /\ fid[f].pending /\ f \notin reading
  /\ Verify(fid[f].chain)
  /\ IF unread[f] > 0
       THEN unread' = [unread EXCEPT ![f] = @ - 1] /\ UNCHANGED reading
       ELSE reading' = reading \cup {f} /\ UNCHANGED unread
  /\ UNCHANGED <<objects, fid, debugfile, tables, strayed>>

(* fs_flush of the read that waits: it is answered "interrupted".          *)
Flush(f) ==
  /\ f \in reading
  /\ reading' = reading \ {f}
  /\ UNCHANGED <<objects, fid, unread, debugfile, tables, strayed>>
-----------------------------------------------------------------------------
(* fs_write.  A control message that fails, by error() or with an answer,  *)
(* may have done something before.                                         *)

Writable(f) == InUse(f) /\ fid[f].mode \in {"w", "rw"} /\ Verify(fid[f].chain)

WriteTable(f) ==
  /\ Writable(f) /\ Type(f) \in Tables
  /\ \E t \in Texts : text' = [text EXCEPT ![Type(f)] = t]
  /\ UNCHANGED <<objects, fid, events, applied, strayed>>

WriteEvent(f) ==
  /\ Writable(f) /\ Type(f) = "event"
  /\ PendingWrite("event")
  /\ UNCHANGED <<objects, fid, debugfile, tables, strayed>>

(* client_applytags: views may come and go.                                *)
WriteTags(f) ==
  /\ Writable(f) /\ Type(f) = "ctags"
  /\ Follows(f)
  /\ Reaction \/ UNCHANGED objects
  /\ UNCHANGED <<fid, events, tables>>

WriteCtl(f) ==
  /\ Writable(f) /\ Type(f) \in {"rctl", "cctl", "tctl"}
  /\ Follows(f)
  /\ Reaction \/ UNCHANGED objects
  /\ UNCHANGED <<fid, events, tables>>

(* A client's label, and a bar's colours and text.                         *)
WriteObject(f) ==
  /\ Writable(f) /\ Type(f) \in {"label", "bar"}
  /\ Follows(f)
  /\ UNCHANGED <<objects, fid, events, tables>>
-----------------------------------------------------------------------------
(* fs_create and fs_remove                                                 *)

Rank(name) == CHOOSE i \in DOMAIN Names : Names[i] = name

AppendBar(d, a, name) == [bars EXCEPT ![d] = Append(@, a)]   \* a mutant: unsorted

(* The list after bar_create: a goes before the first bar whose name is    *)
(* not smaller than name, which is compared uncut.                         *)
InsertBar(d, a, name) ==
  LET after == {i \in DOMAIN bars[d] : Rank(obj[bars[d][i]].name) >= Rank(name)}
      place == CHOOSE i \in after \cup {Len(bars[d]) + 1} : \A j \in after : i <= j
  IN  [bars EXCEPT ![d] = InsertAt(@, place, a)]

BarCreate(d, name) ==
  IF BarFind(d, name) # Nil
    THEN UNCHANGED objects
    ELSE \E a \in Addrs :
           /\ obj[a] = Nil
           /\ obj' = [obj EXCEPT ![a] = [dir |-> d, name |-> Cut[name]]]
           /\ bars' = InsertBar(d, a, name)
           /\ UNCHANGED sel

(* The fid becomes that of the new file, and is open.  A bar whose name    *)
(* was cut is not found again: "file not found", and the bar stays.        *)
Create(f, name, mode) ==
  /\ InUse(f) /\ ~Opened(f) /\ Type(f) = "bars"
  /\ \E d \in BarDirs :
       /\ d = fid[f].chain[1].name
       /\ BarCreate(d, name)
       /\ LET b == BarFind(d, name)'
          IN  fid' = IF b = Nil THEN fid
                     ELSE [fid EXCEPT ![f].chain = <<File("bar", name, b)>> \o @,
                                      ![f].mode = mode]
  /\ UNCHANGED <<events, tables, strayed>>

(* bar_destroy                                                             *)
BarDestroy(d, a) ==
  /\ bars' = [bars EXCEPT ![d] = RemoveAt(@, CHOOSE i \in DOMAIN @ : @[i] = a)]
  /\ obj' = [obj EXCEPT ![a] = Nil]
  /\ UNCHANGED sel

(* The fid ends whatever the answer.  wmiir and pyxp remove only files     *)
(* they have walked to and not opened.  A client is asked to go: it lives  *)
(* on until it does (client_kill).                                         *)
Remove9P(f) ==
  /\ InUse(f) /\ ~Opened(f) /\ ~fid[f].pending
  /\ IF Verify(fid[f].chain) /\ Type(f) = "bar"
       THEN Follows(f) /\ BarDestroy(fid[f].chain[2].name, fid[f].chain[1].ref)
       ELSE /\ IF Verify(fid[f].chain) /\ Type(f) = "clientdir" THEN Follows(f) ELSE UNCHANGED strayed
            /\ UNCHANGED objects
  /\ fid' = [fid EXCEPT ![f] = NoFid]
  /\ UNCHANGED <<events, tables>>
-----------------------------------------------------------------------------
(* fs_clunk and fs_freefid                                                 *)

ClunkForgets(f) == UNCHANGED events   \* a mutant: the pending reads are left

(* ixp_pending_clunk answers the read that waits, and says whether another *)
(* fid hears of the same file.                                             *)
PendingClunk(f) ==
  /\ reading' = reading \ {f}
  /\ unread' = [unread EXCEPT ![f] = 0]
  /\ debugfile' = (debugfile /\ ~(Type(f) = "debug" /\ Pending("debug") = {f}))

ClunkWhenWritten(f) == Type(f) \in Tables /\ fid[f].mode = "w"   \* a mutant

(* The tables that the clunk parses: update_keys, update_rules.            *)
Parses(f) == Type(f) \in Tables

Clunk(f) ==
  /\ InUse(f)
  /\ IF ~Verify(fid[f].chain)
       THEN UNCHANGED <<events, applied>>
       ELSE IF fid[f].pending
         THEN PendingClunk(f) /\ UNCHANGED applied
         ELSE /\ UNCHANGED events
              /\ applied' = IF Parses(f) THEN [applied EXCEPT ![Type(f)] = text[Type(f)]]
                            ELSE applied
  /\ fid' = [fid EXCEPT ![f] = NoFid]
  /\ UNCHANGED <<objects, text, strayed>>

Next ==
  \/ Event \/ Debug \/ Elsewhere
  \/ \E f \in Fids :
       \/ Attach(f) \/ Clunk(f) \/ Flush(f) \/ Remove9P(f)
       \/ \E g \in Fids, p \in Paths : Walk(f, g, p)
       \/ \E m \in {"r", "w", "rw"} : Open(f, m)
       \/ \E n \in Range(Names), m \in {"w", "rw"} : Create(f, n, m)
       \/ ReadObject(f) \/ ReadPending(f)
       \/ WriteTable(f) \/ WriteEvent(f) \/ WriteTags(f) \/ WriteCtl(f) \/ WriteObject(f)

Spec == Init /\ [][Next]_vars
-----------------------------------------------------------------------------
(* Properties                                                              *)

(* No operation follows the pointer of a fid to an object that is gone, or *)
(* to another one than the path of the fid names now -- even when the      *)
(* address has been used again.  (ixp_srv_verifyfile, lookup_file)         *)
NeverStrays == ~strayed

(* What was written to keys, rules or colrules and is not in force yet is  *)
(* in the hands of a fid: its clunk will parse it.  (fs_write, fs_clunk)   *)
AppliedWhenClosed ==
  \A t \in Tables : text[t] # applied[t] => \E f \in Fids : Opened(f) /\ Type(f) = t

(* A read that waits for an event has a fid that is open and hears of it,  *)
(* and nothing is queued that it should have had; a debug option is on     *)
(* just as long as a fid hears of it.  (fs_open, fs_clunk, dwrite)         *)
ReadersServed ==
  /\ \A f \in reading : Opened(f) /\ fid[f].pending /\ unread[f] = 0
  /\ \A f \in Fids : ~fid[f].pending => unread[f] = 0
  /\ debugfile <=> Pending("debug") # {}

(* Each list of bars is sorted, holds each bar once, and no two bars of a  *)
(* name, unless the name was cut.  (bar_create, bar_destroy, bar_find)     *)
BarsSorted ==
  \A d \in BarDirs :
    /\ Range(bars[d]) = {a \in Addrs : obj[a] # Nil /\ obj[a].dir = d}
    /\ \A i, j \in DOMAIN bars[d] : i < j =>
         LET m == obj[bars[d][i]].name
             n == obj[bars[d][j]].name
         IN  \/ Rank(m) < Rank(n)
             \/ m = n /\ (\E long \in Range(Names) : Cut[long] = m /\ long # m)
=============================================================================
