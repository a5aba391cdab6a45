--------------------------- MODULE ProcessFileSystem ---------------------------
(* The in-process file system of lib/fs: a tree of entries, the file and      *)
(* directory objects registered in it, and the table of open handles.          *)
(*                                                                              *)
(* Every public call is one step: the class has no lock and no callback that    *)
(* re-enters it (FuseWorkers.tla has the calls of several threads overlap).     *)
(*                                                                              *)
(* Abstractions.  A path is the sequence of its components ("/" is <<>>), and   *)
(* an entry is named by the sequence of names on the way down from root_, its   *)
(* key.  The vectors Entry::children and Entry::handles, whose order and        *)
(* repetitions no code looks at, are the sets of their elements, None standing  *)
(* for a nulled child slot and -1 for a released handle.                        *)
EXTENDS Integers, Sequences, FiniteSets

CONSTANTS
  Names,        \* path components
  Paths,        \* the paths callers pass
  Files, Dirs,  \* the ProcessFile and ProcessDirectory objects of the program
  PathOf,       \* the path each object is constructed with
  Clients,      \* the callers' FileHandle objects
  None,         \* nullptr
  HandleUse,    \* callers use a FileHandle "once", between its open and its close (as
                \* FuseBridge does), or at "any" time; none opens on one in use
  TeardownLast  \* objects die only once every call has been made, as in main()

Objects == Files \cup Dirs

ASSUME PathsAssumption == Paths \subseteq Seq(Names) /\ PathOf \in [Objects -> Paths]
ASSUME ObjectsAssumption == Files \cap Dirs = {} /\ None \notin Objects \cup Names
ASSUME ModesAssumption == HandleUse \in {"once", "any"} /\ TeardownLast \in BOOLEAN

VARIABLES
  tree,      \* the entry at each key, None where there is none
  handles_,  \* the handle table: a key, or None in a free slot; fid i is slot i+1
  life,      \* of each object: "unborn", "live" or "dead"
  sessions,  \* of each file, the fids it was opened with and not yet closed
  fds,       \* the FileHandle each client holds, and what it opened with it
  rc,        \* what the last call returned
  status     \* "up"; "aborted" by an assert; "undefined" behaviour; "down"

vars == <<tree, handles_, life, sessions, fds, rc, status>>
------------------------------------------------------------------------------
(* Keys *)

\* A path that loses the component at its other end.
EntryKeyDropsLast(path) == IF path = <<>> THEN <<>> ELSE SubSeq(path, 1, Len(path) - 1)

\* splitPath strips the outer slashes before it splits, so the first token is the first
\* component (the empty string for "/"), and getEntry starts at the second token.
EntryKey(path) == IF path = <<>> THEN <<>> ELSE Tail(path)

Prefixes(k) == {SubSeq(k, 1, n) : n \in 0..Len(k)}
ParentKey(k) == SubSeq(k, 1, Len(k) - 1)
NameOf(k) == k[Len(k)]

Root == <<>>
Keys == {Root} \cup UNION {Prefixes(EntryKey(p)) : p \in Paths}

Entry == [file : Files \cup {None}, dir : Dirs \cup {None},
          children : SUBSET (Names \cup {None}), handles : SUBSET (Nat \cup {-1})]
NewEntry == [file |-> None, dir |-> None, children |-> {}, handles |-> {}]

ASSUME NoneAssumption == None \notin Keys /\ None \notin Entry

\* getEntry(path): every name on the way down is among the children of its parent.
Found(k) == \A n \in 1..Len(k) :
              LET p == SubSeq(k, 1, n - 1) IN tree[p] # None /\ k[n] \in tree[p].children

\* getEntry(path, true): the missing entries on the way down are created.
Forced(k) ==
  [p \in Keys |->
     IF p \notin Prefixes(k) THEN tree[p]
     ELSE [(IF tree[p] = None THEN NewEntry ELSE tree[p])
             EXCEPT !.children = @ \cup (IF p = k THEN {} ELSE {k[Len(p) + 1]})]]
------------------------------------------------------------------------------
(* The handle table *)

OpenFids == {i \in 0..(Len(handles_) - 1) : handles_[i + 1] # None}

\* A scan that stops at any slot, free or not.
NextFidAnySlot(fid) == \A j \in 0..(fid - 1) : j \in OpenFids

\* A table that only grows.
NextFidAtEnd(fid) == fid = Len(handles_)

\* genHandle: the lowest free slot, or one past the end.
NextFid(fid) == fid \notin OpenFids /\ \A j \in 0..(fid - 1) : j \in OpenFids

WithSlot(fid, v) == IF fid = Len(handles_) THEN Append(handles_, v)
                                           ELSE [handles_ EXCEPT ![fid + 1] = v]

\* releaseHandle on the entry's side: the handle becomes -1, the vector does not shrink.
ReleasedFrom(hs, fid) == IF fid \in hs THEN (hs \ {fid}) \cup {-1} ELSE hs
------------------------------------------------------------------------------
(* Results *)

Return(r) == rc' = r /\ UNCHANGED <<tree, handles_, life, sessions, fds, status>>
Stop(s) == status' = s /\ UNCHANGED <<tree, handles_, life, sessions, fds, rc>>

\* A call that finds the file both set and shadowed by a directory fails an assert; one
\* that calls into a destroyed file is undefined.  The others go on.
Clash(e) == e.file # None /\ e.dir # None
Dangling(e) == e.file # None /\ e.dir = None /\ life[e.file] = "dead"
Usable(e) == e.file # None /\ e.dir = None /\ life[e.file] = "live"

\* The calls a caller makes; main() makes none once an object is gone.
Calling == status = "up" /\ (TeardownLast => \A o \in Objects : life[o] # "dead")
HoldsHandle(c) == HandleUse = "once" => fds[c].open
------------------------------------------------------------------------------
(* openFile *)

\* A cleared handle that no slot has.
NoHandleMinusOne == [fid |-> -1, path |-> None, open |-> FALSE]

\* A default or cleared FileHandle: its hid is that of every file system, whose HostId
\* nothing sets, and its fid reads as 0.
NoHandle == [fid |-> 0, path |-> None, open |-> FALSE]

OpenRefused(path) ==
  /\ Calling
  /\ \/ ~Found(EntryKey(path)) /\ Return("NoSuchPath")
     \/ /\ Found(EntryKey(path))
        /\ tree[EntryKey(path)].file = None
        /\ Return("InvalidFileType")

OpenFaults(path) ==
  /\ Calling
  /\ Found(EntryKey(path))
  /\ \/ Clash(tree[EntryKey(path)]) /\ Stop("aborted")
     \/ Dangling(tree[EntryKey(path)]) /\ Stop("undefined")

OpenFile(c, path) ==
  LET k == EntryKey(path) IN
  /\ Calling /\ ~fds[c].open
  /\ Found(k) /\ Usable(tree[k])
  /\ \E fid \in 0..Len(handles_) :
       /\ NextFid(fid)
       /\ handles_' = WithSlot(fid, k)
       /\ tree' = [tree EXCEPT ![k].handles = @ \cup {fid}]
       /\ sessions' = [sessions EXCEPT ![tree[k].file] = @ \cup {fid}]
       /\ fds' = [fds EXCEPT ![c] = [fid |-> fid, path |-> path, open |-> TRUE]]
  /\ rc' = "Success"
  /\ UNCHANGED <<life, status>>

\* The file's own open() failed and the new handle is kept.
OpenFailsKeepsHandle(c, path) ==
  LET k == EntryKey(path) IN
  /\ Calling /\ ~fds[c].open
  /\ Found(k) /\ Usable(tree[k])
  /\ \E fid \in 0..Len(handles_) :
       /\ NextFid(fid)
       /\ handles_' = WithSlot(fid, k)
       /\ tree' = [tree EXCEPT ![k].handles = @ \cup {fid}]
  /\ fds' = [fds EXCEPT ![c] = NoHandle]
  /\ rc' = "OpenError"
  /\ UNCHANGED <<life, sessions, status>>

\* The file's own open() fails: the handle just made is released and fh cleared, and a
\* cleared FileHandle reads as fid 0.
OpenFails(c, path) ==
  LET k == EntryKey(path) IN
  /\ Calling /\ ~fds[c].open
  /\ Found(k) /\ Usable(tree[k])
  /\ \E fid \in 0..Len(handles_) : NextFid(fid) /\ handles_' = WithSlot(fid, None)
  /\ tree' = [tree EXCEPT ![k].handles = @ \cup {-1}]
  /\ fds' = [fds EXCEPT ![c] = NoHandle]
  /\ rc' = "OpenError"
  /\ UNCHANGED <<life, sessions, status>>
------------------------------------------------------------------------------
(* closeFile, readFile, writeFile: the handle's slot leads to the entry *)

SlotOf(c) == fds[c].fid + 1
InTable(c) == SlotOf(c) <= Len(handles_)
Leads(c) == fds[c].fid \in OpenFids
EntryOf(c) == tree[handles_[SlotOf(c)]]

\* handles_[fid] is not bounds-checked in closeFile.
CloseFaults(c) ==
  /\ Calling /\ HoldsHandle(c)
  /\ \/ ~InTable(c) /\ Stop("undefined")
     \/ /\ Leads(c)
        /\ \/ (EntryOf(c).file = None \/ EntryOf(c).dir # None) /\ Stop("aborted")
           \/ Dangling(EntryOf(c)) /\ Stop("undefined")

CloseUnknown(c) ==
  /\ Calling /\ HoldsHandle(c)
  /\ InTable(c) /\ ~Leads(c)
  /\ fds' = [fds EXCEPT ![c].open = FALSE]
  /\ rc' = "InvalidFileHandle"
  /\ UNCHANGED <<tree, handles_, life, sessions, status>>

\* The table slot is freed but the file never hears of the close.
CloseSkipsFile(c) ==
  LET k == handles_[SlotOf(c)] IN
  /\ Calling /\ HoldsHandle(c)
  /\ Leads(c) /\ Usable(tree[k])
  /\ tree' = [tree EXCEPT ![k].handles = ReleasedFrom(@, fds[c].fid)]
  /\ handles_' = [handles_ EXCEPT ![SlotOf(c)] = None]
  /\ fds' = [fds EXCEPT ![c].open = FALSE]
  /\ rc' = "Success"
  /\ UNCHANGED <<life, sessions, status>>

CloseFile(c) ==
  LET k == handles_[SlotOf(c)] IN
  /\ Calling /\ HoldsHandle(c)
  /\ Leads(c) /\ Usable(tree[k])
  /\ sessions' = [sessions EXCEPT ![tree[k].file] = @ \ {fds[c].fid}]
  /\ tree' = [tree EXCEPT ![k].handles = ReleasedFrom(@, fds[c].fid)]
  /\ handles_' = [handles_ EXCEPT ![SlotOf(c)] = None]
  /\ fds' = [fds EXCEPT ![c].open = FALSE]
  /\ rc' = "Success"
  /\ UNCHANGED <<life, status>>

\* readFile and writeFile take the same way to the file; at() throws past the end.
AccessFile(c) ==
  /\ Calling /\ HoldsHandle(c)
  /\ \/ ~InTable(c) /\ Return("out_of_range")
     \/ InTable(c) /\ ~Leads(c) /\ Return("InvalidFileHandle")
     \/ Leads(c) /\ EntryOf(c).file = None /\ Return("InvalidFileHandle")
     \/ Leads(c) /\ Clash(EntryOf(c)) /\ Stop("aborted")
     \/ Leads(c) /\ Dangling(EntryOf(c)) /\ Stop("undefined")
     \/ Leads(c) /\ Usable(EntryOf(c)) /\ \E r \in {"Success", "NotSupported"} : Return(r)
------------------------------------------------------------------------------
(* readDirectory, readMetadata *)

ReadDirectory(path) ==
  LET k == EntryKey(path) IN
  /\ Calling
  /\ \/ ~Found(k) /\ Return("InvalidPath")
     \/ Found(k) /\ tree[k].file # None /\ Return("InvalidFileType")
     \/ Found(k) /\ tree[k].file = None /\ Return("Success")

\* readMetadata does not look at dir; it asks the file, alive or not.
ReadMetadata(path) ==
  LET k == EntryKey(path) IN
  /\ Calling
  /\ \/ ~Found(k) /\ Return("InvalidPath")
     \/ Found(k) /\ tree[k].file = None /\ Return("NotImplemented")
     \/ /\ Found(k) /\ tree[k].file # None
        /\ IF life[tree[k].file] = "dead" THEN Stop("undefined") ELSE Return("Success")
------------------------------------------------------------------------------
(* Construction and destruction of files, directories and the file system *)

\* addFile: entries are created before the path is refused.
NewFile(f) ==
  LET k == EntryKey(PathOf[f])
      t == Forced(k)
      refused == t[k].children # {} \/ t[k].dir # None
  IN
  /\ status = "up" /\ life[f] = "unborn"
  /\ life' = [life EXCEPT ![f] = "live"]
  /\ tree' = IF refused THEN t ELSE [t EXCEPT ![k].file = f]
  /\ rc' = IF refused THEN "Refused" ELSE "Success"
  /\ UNCHANGED <<handles_, sessions, fds, status>>

NewDirectory(d) ==
  LET k == EntryKey(PathOf[d]) IN
  /\ status = "up" /\ life[d] = "unborn"
  /\ life' = [life EXCEPT ![d] = "live"]
  /\ tree' = [Forced(k) EXCEPT ![k].dir = d]
  /\ rc' = "Success"
  /\ UNCHANGED <<handles_, sessions, fds, status>>

\* removePath that looks at the children only.
RemovableDespiteHandles(k) == Found(k) /\ k # Root /\ tree[k].children = {}

\* removePath that looks at the handles only.
RemovableDespiteChildren(k) == Found(k) /\ k # Root /\ tree[k].handles = {}

\* removePath that keeps every entry which is a file.
RemovableUnlessFile(k) ==
  Found(k) /\ k # Root /\ tree[k].children = {} /\ tree[k].handles = {} /\ tree[k].file = None

\* removePath, never called to recurse: the two vectors must never have held anything.
Removable(k) == Found(k) /\ k # Root /\ tree[k].children = {} /\ tree[k].handles = {}

\* ~Entry: the parent's child slot is nulled.
Without(k) == [tree EXCEPT ![k] = None,
                           ![ParentKey(k)].children = (@ \ {NameOf(k)}) \cup {None}]

\* ~ProcessFile and ~ProcessDirectory remove whatever is at their path.
DestroyObject(o) ==
  LET k == EntryKey(PathOf[o]) IN
  /\ status = "up" /\ life[o] = "live"
  /\ TeardownLast => \A c \in Clients : ~fds[c].open
  /\ life' = [life EXCEPT ![o] = "dead"]
  /\ tree' = IF Removable(k) THEN Without(k) ELSE tree
  /\ sessions' = [f \in Files |-> IF f = o THEN {} ELSE sessions[f]]
  /\ rc' = IF Removable(k) THEN "Success" ELSE "Refused"
  /\ UNCHANGED <<handles_, fds, status>>

\* handles_ is destroyed before root_, whose destructor releases the handles left.
DestroyFileSystem ==
  /\ status = "up"
  /\ \A o \in Objects : life[o] # "live"
  /\ Stop(IF \A k \in Keys : tree[k] = None \/ tree[k].handles \subseteq {-1}
          THEN "down" ELSE "undefined")

Stopped == status # "up" /\ UNCHANGED vars
------------------------------------------------------------------------------
Init ==
  /\ tree = [k \in Keys |-> IF k = Root THEN NewEntry ELSE None]
  /\ handles_ = <<>>
  /\ life = [o \in Objects |-> "unborn"]
  /\ sessions = [f \in Files |-> {}]
  /\ fds = [c \in Clients |-> NoHandle]
  /\ rc = "None"
  /\ status = "up"

Next ==
  \/ \E p \in Paths : \/ OpenRefused(p) \/ OpenFaults(p)
                      \/ ReadDirectory(p) \/ ReadMetadata(p)
  \/ \E c \in Clients, p \in Paths : OpenFile(c, p) \/ OpenFails(c, p)
  \/ \E c \in Clients : CloseFile(c) \/ CloseUnknown(c) \/ CloseFaults(c) \/ AccessFile(c)
  \/ \E f \in Files : NewFile(f)
  \/ \E d \in Dirs : NewDirectory(d)
  \/ \E o \in Objects : DestroyObject(o)
  \/ DestroyFileSystem
  \/ Stopped

Spec == Init /\ [][Next]_vars
------------------------------------------------------------------------------
(* Properties *)

\* Every variable has its type.
TypeOK ==
  /\ tree \in [Keys -> Entry \cup {None}]
  /\ handles_ \in Seq(Keys \cup {None})
  /\ life \in [Objects -> {"unborn", "live", "dead"}]
  /\ sessions \in [Files -> SUBSET Nat]
  /\ fds \in [Clients -> [fid : Nat, path : Paths \cup {None}, open : BOOLEAN]]
  /\ status \in {"up", "aborted", "undefined", "down"}

\* The parent pointers and the children vectors agree, so the assert of ~Entry that the
\* parent lists the entry holds and no removal strands a subtree.
TreeLinked ==
  /\ tree[Root] # None
  /\ \A k \in Keys \ {Root} :
       tree[k] # None <=> /\ tree[ParentKey(k)] # None
                          /\ NameOf(k) \in tree[ParentKey(k)].children

\* The table of handles and the handles of each entry agree: no slot points to an entry
\* that was removed, and an entry lists the slots that point to it and no other.
HandlesAgree ==
  /\ \A fid \in OpenFids : tree[handles_[fid + 1]] # None
  /\ \A k \in Keys : tree[k] # None =>
       tree[k].handles \ {-1} = {fid \in OpenFids : handles_[fid + 1] = k}

\* A file is only ever registered at the entry its own path leads to, and an entry with a
\* handle on it is a file: nothing takes the file from under an open handle.
FilesInPlace ==
  /\ \A k \in Keys : tree[k] # None /\ tree[k].file # None =>
       EntryKey(PathOf[tree[k].file]) = k /\ life[tree[k].file] # "unborn"
  /\ \A fid \in OpenFids : tree[handles_[fid + 1]].file # None

\* Of callers that use a handle only between open and close: each handle leads to the
\* entry it was opened on, and no two callers hold the same one, whatever slots are reused.
FdFaithful ==
  /\ \A c \in Clients : fds[c].open =>
       /\ fds[c].fid \in OpenFids
       /\ handles_[SlotOf(c)] = EntryKey(fds[c].path)
  /\ \A c, d \in Clients : fds[c].open /\ fds[d].open /\ c # d => fds[c].fid # fds[d].fid

\* The table never has more slots than there are callers: every slot that a close or a
\* failed open gives up is used again before the table grows.
TableBounded == Len(handles_) <= Cardinality(Clients)

\* Where no two files share an entry, a file that keeps a context per open handle (the
\* second mode of ProcessFile) has one for exactly the open handles on its entry.
SessionsAgree ==
  \A f \in Files : sessions[f] =
    {fid \in OpenFids : tree[handles_[fid + 1]].file = f /\ life[f] = "live"}

\* A dead object stays registered only where removePath had a reason to keep its entry:
\* the root, an entry that was once opened, or one that ever had a child.
DeadStayOnlyWhereKept ==
  \A k \in Keys \ {Root} :
    tree[k] # None /\ tree[k].file # None /\ life[tree[k].file] = "dead" =>
      tree[k].handles # {} \/ tree[k].children # {}

\* Used as main() does, by callers that close each handle once and with no two objects on
\* one entry, the file system meets no assert and no undefined behaviour.
NoFault == status \in {"up", "down"}

\* The entry of a live file is removed by the end of that file and by nothing else.
OnlyOwnEndUnregisters ==
  [][\A k \in Keys :
       tree[k] # None /\ tree[k].file # None /\ tree'[k] = None =>
         life[tree[k].file] = "live" /\ life'[tree[k].file] = "dead"]_vars

\* An open that fails leaves the set of handles in use as it was.
FailedOpenKeepsHandles == [][rc' # "Success" => OpenFids' = OpenFids]_vars

\* Where no two files share an entry, callers that close each handle once get what a file
\* system promises them: a handle leads to the file it was opened on until it is closed.
Promise == INSTANCE OpenFiles
             WITH reaches <- [c \in Clients |-> IF fds[c].open THEN EntryOf(c).file ELSE None]
ImplementsOpenFiles == Promise!Spec

\* ProcessFile.hpp:48, of the destructor: "This will unregister the module from the file
\* system."
DestructorUnregisters ==
  \A k \in Keys : tree[k] # None /\ tree[k].file # None => life[tree[k].file] # "dead"
==============================================================================
