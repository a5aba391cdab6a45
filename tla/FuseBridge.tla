------------------------------ MODULE FuseBridge -------------------------------
(* FuseBridge: FUSE's callbacks, which turn requests into calls of one FileSystem. *)
(*                                                                                *)
(* The worker threads of fuse_main run them in parallel.  A callback shares what  *)
(* getpwuid() points to with the others, and what the file system has for its     *)
(* handle; it is cut in two where another's step in between tells, and one step   *)
(* else.  What the first step does not depend on in a request is chosen in the     *)
(* second.  The file system does one call at a time (FuseWorkers.tla has what     *)
(* becomes of that).  It may refuse any call, with any return code and then       *)
(* changes nothing, and does as the names in FileSystem.hpp say otherwise.        *)
(* Callbacks that change nothing are no steps.  Groups go the way of owners and   *)
(* are left out, and so are times, sizes and contents.                            *)
EXTENDS PosixUtils

CONSTANTS
  Threads,      \* fuse_main's workers
  Descriptors,  \* the applications' open files: one fuse_file_info each
  Paths,        \* in one directory
  Addrs,        \* where a FileHandle may be allocated
  Fids,         \* what the file system may put into one
  Uids,         \* 0 is root's
  UserName,     \* the names of those uids that getpwuid() knows
  Numeral,      \* the uids in digits
  Perms,        \* the permissions that are asked for
  Accesses,     \* and the accesses, of "read", "write" and "both"
  None

ASSUME NamesAssumption ==
  /\ Uids \subseteq Nat /\ DOMAIN UserName \subseteq Uids /\ DOMAIN Numeral = Uids
  /\ \A u, v \in DOMAIN UserName : UserName[u] = UserName[v] => u = v
  /\ \A u \in DOMAIN UserName, v \in Uids : UserName[u] # Numeral[v]
ASSUME AskedAssumption ==
  Perms \subseteq SUBSET ChmodBits /\ Accesses \subseteq {"read", "write", "both"}

VARIABLES
  heap,       \* the fid in the FileHandle at each address, None if there is none
  fi,         \* the fuse_file_info of each descriptor: fh and access, or None
  job,        \* the request each thread is in the middle of, or None
  spoilt,     \* the threads for which getpwuid()'s result has been overwritten
  opened,     \* external: the file and access the file system has for each fid
  forsaken,   \* history: the fids whose close the file system refused
  files,      \* external: the file system's metadata of each path
  asked,      \* history: what the applications last asked for with success, per path; an
              \* owner whose name was overwritten is None
  status      \* "up", "aborted" by an assert, or "terminated" by an exception

threads == <<job, spoilt>>
handles == <<heap, fi, opened, forsaken>>
metadata == <<files, asked>>
vars == <<threads, handles, metadata, status>>
------------------------------------------------------------------------------
Idle(t) == status = "up" /\ job[t] = None
At(t, op) == status = "up" /\ job[t] # None /\ job[t].op = op

Serving(d) == {t \in Threads : job[t] # None /\ job[t].desc = d}
Looking == {t \in Threads : job[t] # None /\ job[t].op # "close"}

Replies(t) ==
  /\ job' = [job EXCEPT ![t] = None]
  /\ spoilt' = spoilt \ {t}
------------------------------------------------------------------------------
(* genUserInfo *)

\* getpwuid() answers in memory that all threads share, and fills it without a lock.
Looks(t, op, d) ==
  /\ Idle(t)
  /\ job' = [job EXCEPT ![t] = [op |-> op, desc |-> d]]
  /\ spoilt' = IF Looking = {} THEN spoilt ELSE spoilt \cup Looking \cup {t}
  /\ UNCHANGED <<handles, metadata, status>>

\* Those without a name under the first user's.
UserInfoAnyone(uid) == UserName[CHOOSE u \in DOMAIN UserName : uid \in DOMAIN UserName => u = uid]

\* The host's name is never found, as hostname has the size 0: it is left out.
UserInfo(uid) == IF uid \in DOMAIN UserName THEN UserName[uid] ELSE Numeral[uid]

\* What genUserInfo makes of the request's uid; of memory that was overwritten, it makes
\* another user's name or none at all.
GenUserInfo(t, uid) ==
  IF t \in spoilt /\ uid \in DOMAIN UserName
  THEN {UserName[u] : u \in DOMAIN UserName} \cup {None} ELSE {UserInfo(uid)}

\* A name stands for the user that getpwnam() finds, if any.
IsOwner(u, name) == u \in DOMAIN UserName /\ UserName[u] = name
------------------------------------------------------------------------------
(* FileHandles *)

\* O_WRONLY is the bit 0 of the flags and O_RDWR the bit 1.
Flags(access) == CASE access = "read" -> {} [] access = "write" -> {0} [] access = "both" -> {1}

\* One that takes O_WRONLY for reading.
ReqWriteOnlyBoth(flags) == {1} \subseteq flags

ReqWrite(flags) == {0} \subseteq flags \/ {1} \subseteq flags

\* FUSE has one request per new descriptor.
Fresh(d) == fi[d] = None /\ Serving(d) = {}

\* A FileHandle that is not always a new one.
OpensShared(d, p, access) ==
  /\ \E a \in Addrs, fid \in Fids :
       /\ opened[fid] = None
       /\ heap' = [heap EXCEPT ![a] = fid]
       /\ opened' = [opened EXCEPT ![fid] = [file |-> p, write |-> ReqWrite(Flags(access))]]
       /\ fi' = [fi EXCEPT ![d] = [fh |-> a, access |-> access]]
  /\ UNCHANGED forsaken

\* The file system fills in a new FileHandle, and the descriptor gets its address.
Opens(d, p, access) ==
  /\ \E a \in Addrs, fid \in Fids :
       /\ heap[a] = None /\ opened[fid] = None
       /\ heap' = [heap EXCEPT ![a] = fid]
       /\ opened' = [opened EXCEPT ![fid] = [file |-> p, write |-> ReqWrite(Flags(access))]]
       /\ fi' = [fi EXCEPT ![d] = [fh |-> a, access |-> access]]
  /\ UNCHANGED forsaken

\* The FileHandle is deleted again, and the descriptor gets nothing.
OpenRefused(d) == UNCHANGED handles

OpenFile(t, d, p, access) ==
  /\ Idle(t) /\ Fresh(d)
  /\ files[p] # None /\ Opens(d, p, access)
  /\ UNCHANGED <<threads, metadata, status>>

OpenFileRefused(t, d) ==
  /\ Idle(t) /\ Fresh(d)
  /\ OpenRefused(d)
  /\ UNCHANGED <<threads, metadata, status>>

Wanted(t, uid) == IF t \in spoilt THEN None ELSE uid

\* All that was asked for but S_ISUID, S_ISGID and S_ISVTX, which Metadata has no flags for.
Asks(p, mode, uid) ==
  asked' = [asked EXCEPT ![p] = [mode |-> mode \ (ChmodBits \ PermBits), owner |-> uid]]

Makes(p, mode, u) ==
  /\ files[p] = None
  /\ LET md == PosixModeToMetadata(mode, "File") IN
       files' = [files EXCEPT ![p] = [type |-> md.type, modes |-> md.modes, owner |-> u]]

CreateFile(t, d) == Fresh(d) /\ Looks(t, "create", d)

CreateFileReturns(t, p, perm, uid, access) ==
  /\ At(t, "create")
  /\ \E name \in GenUserInfo(t, uid), u \in Uids :
       IsOwner(u, name) /\ Makes(p, S_IFREG \cup perm, u)
  /\ Asks(p, S_IFREG \cup perm, Wanted(t, uid))
  /\ Opens(job[t].desc, p, access)
  /\ Replies(t)
  /\ UNCHANGED status

CreateFileRefused(t) ==
  /\ At(t, "create")
  /\ OpenRefused(job[t].desc)
  /\ Replies(t)
  /\ UNCHANGED <<metadata, status>>

\* FUSE releases a descriptor once, when nothing else is asked of it any more, and has
\* readFile and writeFile answered by then, which only hand its FileHandle on.  The file
\* system closes the handle, and may give the fid out again, or refuses to.
CloseFile(t, d) ==
  /\ Idle(t) /\ fi[d] # None /\ Serving(d) = {}
  /\ LET fid == heap[fi[d].fh] IN
       \/ opened' = [opened EXCEPT ![fid] = None] /\ UNCHANGED forsaken
       \/ forsaken' = forsaken \cup {fid} /\ UNCHANGED opened
  /\ job' = [job EXCEPT ![t] = [op |-> "close", desc |-> d]]
  /\ UNCHANGED <<heap, fi, spoilt, metadata, status>>

\* A close that keeps the FileHandle when the file system refuses.
CloseFileReturnsKeeps(t) ==
  /\ At(t, "close")
  /\ LET a == fi[job[t].desc].fh IN
       heap' = IF heap[a] \in forsaken THEN heap ELSE [heap EXCEPT ![a] = None]
  /\ fi' = [fi EXCEPT ![job[t].desc] = None]
  /\ Replies(t)
  /\ UNCHANGED <<opened, forsaken, metadata, status>>

\* The FileHandle is deleted either way.
CloseFileReturns(t) ==
  /\ At(t, "close")
  /\ heap' = [heap EXCEPT ![fi[job[t].desc].fh] = None]
  /\ fi' = [fi EXCEPT ![job[t].desc] = None]
  /\ Replies(t)
  /\ UNCHANGED <<opened, forsaken, metadata, status>>
------------------------------------------------------------------------------
(* Metadata *)

CreateDirectory(t) == Looks(t, "mkdir", None)

\* The kernel need not say in the mode that it is a directory's.
CreateDirectoryReturns(t, p, perm, uid) ==
  /\ At(t, "mkdir")
  /\ \E type \in {S_IFDIR, {}}, name \in GenUserInfo(t, uid), u \in Uids :
       /\ PosixModeToMetadata(type \cup perm, "File").type = "Directory"
       /\ IsOwner(u, name)
       /\ Makes(p, type \cup perm, u) /\ Asks(p, type \cup perm, Wanted(t, uid))
  /\ Replies(t)
  /\ UNCHANGED <<handles, status>>

SetOwner(t) == Looks(t, "chown", None)

SetOwnerReturns(t, p, uid) ==
  /\ At(t, "chown")
  /\ files[p] # None
  /\ \E name \in GenUserInfo(t, uid), u \in Uids :
       IsOwner(u, name) /\ files' = [files EXCEPT ![p].owner = u]
  /\ asked' = [asked EXCEPT ![p].owner = Wanted(t, uid)]
  /\ Replies(t)
  /\ UNCHANGED <<handles, status>>

\* The file system refuses either of them.
Refused(t) ==
  /\ At(t, "mkdir") \/ At(t, "chown")
  /\ Replies(t)
  /\ UNCHANGED <<handles, metadata, status>>

Remode(p, perm) == asked' = [asked EXCEPT ![p].mode = (@ \ PermBits) \cup (perm \cap PermBits)]

\* A chmod that hands on the type of the Metadata it is put in.
SetModeTyped(p, perm) ==
  /\ status = "up" /\ files[p] # None /\ files[p].type # "Symlink"
  /\ LET md == PosixModeToMetadata(perm, "File") IN
       files' = [files EXCEPT ![p].modes = md.modes, ![p].type = md.type]
  /\ Remode(p, perm)
  /\ UNCHANGED <<threads, handles, status>>

\* Only the permissions are handed on; the kernel has followed links.
SetMode(p, perm) ==
  /\ status = "up" /\ files[p] # None /\ files[p].type # "Symlink"
  /\ files' = [files EXCEPT ![p].modes = PosixModeToMetadata(perm, "File").modes]
  /\ Remode(p, perm)
  /\ UNCHANGED <<threads, handles, status>>

Remove(p) ==
  /\ status = "up" /\ files[p] # None
  /\ files' = [files EXCEPT ![p] = None]
  /\ asked' = [asked EXCEPT ![p] = None]
  /\ UNCHANGED <<threads, handles, status>>

Rename(p, newPath) ==
  /\ status = "up" /\ files[p] # None /\ p # newPath
  /\ files' = [files EXCEPT ![newPath] = files[p], ![p] = None]
  /\ asked' = [asked EXCEPT ![newPath] = asked[p], ![p] = None]
  /\ UNCHANGED <<threads, handles, status>>

\* Nobody asks for a link's owner.
CreateSymlink(to) ==
  /\ status = "up" /\ files[to] = None
  /\ files' = [files EXCEPT ![to] = [type |-> "Symlink", modes |-> PermBits, owner |-> None]]
  /\ Asks(to, S_IFLNK \cup PermBits, None)
  /\ UNCHANGED <<threads, handles, status>>

\* The stat that getattr answers, whose owner is not the one the file system has.
GetAttr(p) == MetadataToStat(files[p])

\* at(length()) is out of range for every name, slash or none, and throws through FUSE.
ReadDirectory ==
  /\ status = "up" /\ \E p \in Paths : files[p] # None
  /\ status' = "terminated"
  /\ UNCHANGED <<threads, handles, metadata>>

\* Who asks for the size of a list or of a value first, as getfattr does, has FUSE pass no
\* memory, which an assert rules out before the size is looked at.
ListXAttr ==
  /\ status = "up"
  /\ status' = "aborted"
  /\ UNCHANGED <<threads, handles, metadata>>

GetXAttr ==
  /\ status = "up"
  /\ status' = "aborted"
  /\ UNCHANGED <<threads, handles, metadata>>
------------------------------------------------------------------------------
Init ==
  /\ heap = [a \in Addrs |-> None]
  /\ fi = [d \in Descriptors |-> None]
  /\ job = [t \in Threads |-> None]
  /\ spoilt = {}
  /\ opened = [fid \in Fids |-> None]
  /\ forsaken = {}
  /\ files = [p \in Paths |-> None]
  /\ asked = [p \in Paths |-> None]
  /\ status = "up"

Next ==
  \/ \E t \in Threads :
       \/ CreateDirectory(t) \/ SetOwner(t) \/ Refused(t)
       \/ CreateFileRefused(t) \/ CloseFileReturns(t)
       \/ \E d \in Descriptors :
            \/ CreateFile(t, d) \/ OpenFileRefused(t, d) \/ CloseFile(t, d)
            \/ \E p \in Paths, access \in Accesses : OpenFile(t, d, p, access)
       \/ \E p \in Paths, uid \in Uids :
            \/ SetOwnerReturns(t, p, uid)
            \/ \E perm \in Perms :
                 \/ CreateDirectoryReturns(t, p, perm, uid)
                 \/ \E access \in Accesses : CreateFileReturns(t, p, perm, uid, access)
  \/ \E p \in Paths : \/ Remove(p) \/ CreateSymlink(p)
                       \/ \E q \in Paths : Rename(p, q)
                       \/ \E perm \in Perms : SetMode(p, perm)
  \/ ReadDirectory \/ ListXAttr \/ GetXAttr

Spec == Init /\ [][Next]_vars
------------------------------------------------------------------------------
(* Properties *)

Requests == [op : {"create", "close"}, desc : Descriptors] \cup [op : {"mkdir", "chown"}, desc : {None}]
OpenInfos == [fh : Addrs, access : Accesses]
OpenFids == [file : Paths, write : BOOLEAN]
Metadatas == [type : {"File", "Directory", "Symlink"}, modes : SUBSET PermBits, owner : Uids \cup {None}]
AskedFor == [mode : SUBSET (0..15), owner : Uids \cup {None}]

ASSUME NoneAssumption ==
  None \notin Paths \cup Addrs \cup Fids \cup Uids \cup Descriptors
                \cup Requests \cup OpenInfos \cup OpenFids \cup Metadatas \cup AskedFor

\* Every variable has its type.
TypeOK ==
  /\ heap \in [Addrs -> Fids \cup {None}]
  /\ fi \in [Descriptors -> OpenInfos \cup {None}]
  /\ job \in [Threads -> Requests \cup {None}]
  /\ spoilt \subseteq Threads
  /\ opened \in [Fids -> OpenFids \cup {None}]
  /\ forsaken \subseteq Fids
  /\ files \in [Paths -> Metadatas \cup {None}]
  /\ asked \in [Paths -> AskedFor \cup {None}]
  /\ status \in {"up", "aborted", "terminated"}

Closing == {d \in Descriptors : \E t \in Serving(d) : job[t].op = "close"}
Open == {d \in Descriptors : fi[d] # None} \ Closing
Fid(d) == heap[fi[d].fh]

\* FuseBridge.cpp:102: "release an open file (1:1 mapping to open())".  Whatever the threads
\* do at once and whatever the file system refuses, each open descriptor has a FileHandle
\* and a fid of its own, which the file system has open as the application asked; no
\* FileHandle is left over, and no fid but those the file system would not close.
OneToOne ==
  /\ {a \in Addrs : heap[a] # None} = {fi[d].fh : d \in Open \cup Closing}
  /\ \A c, d \in Open \cup Closing : c # d => fi[c].fh # fi[d].fh
  /\ {fid \in Fids : opened[fid] # None} = {Fid(d) : d \in Open} \cup forsaken
  /\ \A d \in Open : Fid(d) \notin forsaken /\ opened[Fid(d)].write = (fi[d].access # "read")
  /\ \A c, d \in Open : c # d => Fid(c) # Fid(d)

\* What was last asked for with success has got through genUserInfo and the conversions to
\* the file system: the owner that it has is the one asked for, unless two threads were
\* looking up users at once.  What getattr brings back is the type and the permissions asked
\* for, and root for an owner, whoever was asked for and the file system has.
AskedIsHandedOn ==
  \A p \in Paths : files[p] # None =>
    /\ GetAttr(p) = [mode |-> asked[p].mode, uid |-> 0]
    /\ asked[p].owner # None => files[p].owner = asked[p].owner

\* FileSystem's promise is handed on to the applications: a descriptor leads to the file it
\* was opened on until it is closed.
Promise == INSTANCE OpenFiles WITH
  Clients <- Descriptors, Files <- Paths,
  reaches <- [d \in Descriptors |-> IF d \in Open THEN opened[Fid(d)].file ELSE None]

ImplementsOpenFiles == Promise!Spec
==============================================================================
