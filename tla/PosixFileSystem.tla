---------------------------- MODULE PosixFileSystem -----------------------------
(* PosixFileSystem: the calls of FileSystem made of POSIX calls.                 *)
(*                                                                               *)
(* The kernel is part of the model as far as the class depends on it: which of   *)
(* the process's descriptors are open on what, lowest free number first, and the *)
(* mode and owner of each file.  The rest of the program opens and closes        *)
(* descriptors too, its standard input among them.  Of a file's contents there   *)
(* is the size.  Calls that change nothing, as readFile and those that fail at   *)
(* once, are no steps.  No call is made on a path that is a link.                *)
EXTENDS PosixUtils, Sequences

CONSTANTS
  Clients,    \* callers, with one FileHandle each
  Paths,
  Users,      \* those of getpwnam
  Self,       \* who runs the program
  Perms,      \* the permissions that are asked for
  Umask,
  MaxFd,      \* the process's limit of descriptors
  MaxOpened,  \* bound: how many files are opened in all
  MaxSize,    \* bound: the bytes of a file
  Other,      \* what descriptors of the rest of the program are open on
  None

ASSUME LimitsAssumption == MaxFd \in Nat /\ MaxFd >= 2 /\ MaxOpened \in Nat /\ MaxSize \in Nat
ASSUME PermsAssumption == Perms \subseteq SUBSET PermBits /\ Umask \subseteq PermBits
ASSUME NamesAssumption == Other \notin Paths /\ None \notin Paths \cup {Other}
ASSUME NoneAssumption ==
  None \notin [mode : SUBSET (0..15), owner : Users \cup {Self}, size : 0..MaxSize]

VARIABLES
  fds_,   \* the vector of descriptors, -1 where one was closed; index i at i + 1
  table,  \* the process's descriptors: the path a descriptor is open on, Other or None
  rw,     \* the class's descriptors that were opened with O_RDWR
  files,  \* the file at each path: its mode, owner and size
  asked,  \* history: the permissions that successful calls last asked for, per path, or None
  wanted, \* history: the paths that a caller has opened or created to write to
  fh,     \* each caller's FileHandle, and the file it was opened on, or None
  phase   \* "up", "destroyed", or "overflow" when the stack is exhausted

descriptors == <<fds_, table, rw, wanted>>
vars == <<descriptors, files, asked, fh, phase>>
------------------------------------------------------------------------------
Fds == 0..MaxFd

\* The descriptor the kernel gives out next, if there is one.
IsNext(fd) == table[fd] = None /\ \A g \in Fds : table[g] = None => fd <= g

\* open() and mkdir() take the umask's bits away; neither they nor chmod() touch the type.
NewMode(type, mode) == type \cup ((mode \cap ChmodBits) \ Umask)
ChangedMode(old, mode) == (old \ ChmodBits) \cup (mode \cap ChmodBits)

IsLink(p) == S_IFLNK \subseteq files[p].mode

\* An open that always asks the kernel for O_RDWR.
OpenedBoth(c, p, fd, reqWrite) ==
  /\ table' = [table EXCEPT ![fd] = p]
  /\ rw' = rw \cup {fd}
  /\ wanted' = IF reqWrite THEN wanted \cup {p} ELSE wanted
  /\ fds_' = Append(fds_, fd)
  /\ fh' = [fh EXCEPT ![c] = [fid |-> Len(fds_'), file |-> p]]

\* A fid taken from the size before the push, and made an index.
OpenedTooLow(c, p, fd, reqWrite) ==
  /\ table' = [table EXCEPT ![fd] = p]
  /\ rw' = IF reqWrite THEN rw \cup {fd} ELSE rw
  /\ wanted' = IF reqWrite THEN wanted \cup {p} ELSE wanted
  /\ fds_' = Append(fds_, fd)
  /\ fh' = [fh EXCEPT ![c] = [fid |-> Len(fds_) - 1, file |-> p]]

\* The new descriptor goes to the end of the vector; the fid is the vector's size then.
Opened(c, p, fd, reqWrite) ==
  /\ table' = [table EXCEPT ![fd] = p]
  /\ rw' = IF reqWrite THEN rw \cup {fd} ELSE rw
  /\ wanted' = IF reqWrite THEN wanted \cup {p} ELSE wanted
  /\ fds_' = Append(fds_, fd)
  /\ fh' = [fh EXCEPT ![c] = [fid |-> Len(fds_'), file |-> p]]

Asks(c) == phase = "up" /\ fh[c] = None /\ Len(fds_) < MaxOpened
------------------------------------------------------------------------------
\* A create that forgets the descriptor of a file whose owner could not be set.
CreateFileLeaks(c, p, perm, u, reqWrite) ==
  /\ Asks(c) /\ files[p] = None
  /\ LET mode == NewMode(S_IFREG, MetadataToPosixMode([type |-> "File", modes |-> perm]))
     IN \E fd \in Fds :
          /\ IsNext(fd)
          /\ \/ /\ Opened(c, p, fd, reqWrite)
                /\ files' = [files EXCEPT ![p] = [mode |-> mode, owner |-> u, size |-> 0]]
                /\ asked' = [asked EXCEPT ![p] = perm \ Umask]
             \/ /\ files' = [files EXCEPT ![p] = [mode |-> mode, owner |-> Self, size |-> 0]]
                /\ table' = [table EXCEPT ![fd] = p]
                /\ UNCHANGED <<asked, fds_, rw, wanted, fh>>
  /\ UNCHANGED phase

\* If the user or the group is unknown or chown() fails, the file stays, with the owner it
\* was created with, and its descriptor is closed again.
CreateFile(c, p, perm, u, reqWrite) ==
  /\ Asks(c) /\ files[p] = None
  /\ LET mode == NewMode(S_IFREG, MetadataToPosixMode([type |-> "File", modes |-> perm]))
     IN \E fd \in Fds :
          /\ IsNext(fd)
          /\ \/ /\ Opened(c, p, fd, reqWrite)
                /\ files' = [files EXCEPT ![p] = [mode |-> mode, owner |-> u, size |-> 0]]
                /\ asked' = [asked EXCEPT ![p] = perm \ Umask]
             \/ /\ files' = [files EXCEPT ![p] = [mode |-> mode, owner |-> Self, size |-> 0]]
                /\ UNCHANGED <<asked, descriptors, fh>>
  /\ UNCHANGED phase

\* A directory opens too, to be read.
OpenFile(c, p, reqWrite) ==
  /\ Asks(c) /\ files[p] # None /\ ~IsLink(p)
  /\ reqWrite => S_IFREG \subseteq files[p].mode
  /\ \E fd \in Fds : IsNext(fd) /\ Opened(c, p, fd, reqWrite)
  /\ UNCHANGED <<files, asked, phase>>

\* fds_.at(fh.fid() < 0) is fds_.at(0), which has to be 0 for a handle to be accepted.
Accepts(fid) == fid < Len(fds_) /\ fds_[1] = 0

\* An index past the end that is taken for the last.
ReachedClamped(fid) ==
  IF fds_ # <<>> /\ fds_[1] = 0 THEN fds_[IF fid < Len(fds_) THEN fid + 1 ELSE Len(fds_)] ELSE -1

\* The descriptor that a handle leads to, if the handle is accepted.
Reached(fid) == IF Accepts(fid) THEN fds_[fid + 1] ELSE -1

\* A close that leaves the number of the closed descriptor in the vector.
CloseFileKeeps(c) ==
  /\ phase = "up" /\ fh[c] # None
  /\ table' = [fd \in Fds |-> IF fd = Reached(fh[c].fid) THEN None ELSE table[fd]]
  /\ rw' = rw \ {Reached(fh[c].fid)}
  /\ fh' = [fh EXCEPT ![c] = None]
  /\ UNCHANGED <<fds_, wanted, files, asked, phase>>

\* FuseBridge deletes its FileHandle whatever closeFile returns.  Closing -1 does nothing.
CloseFile(c) ==
  /\ phase = "up" /\ fh[c] # None
  /\ LET fid == fh[c].fid IN
       /\ table' = [fd \in Fds |-> IF fd = Reached(fid) THEN None ELSE table[fd]]
       /\ rw' = rw \ {Reached(fid)}
       /\ fds_' = IF Accepts(fid) THEN [fds_ EXCEPT ![fid + 1] = -1] ELSE fds_
  /\ fh' = [fh EXCEPT ![c] = None]
  /\ UNCHANGED <<wanted, files, asked, phase>>

\* The file that a handle leads to, which need not be the one it was opened on: None without
\* a descriptor, when readFile and writeFile fail.
FileOf(fid) == IF Reached(fid) = -1 THEN None ELSE table[Reached(fid)]

\* Up to end bytes are written into whatever the descriptor is open on; without O_RDWR the
\* kernel refuses.
WriteFile(c, end) ==
  /\ phase = "up" /\ fh[c] # None
  /\ LET fid == fh[c].fid  p == FileOf(fid) IN
       /\ p \in Paths /\ Reached(fid) \in rw
       /\ files' = [files EXCEPT ![p].size = IF end > @ THEN end ELSE @]
  /\ UNCHANGED <<descriptors, asked, fh, phase>>

\* truncate() takes the path.
ResizeFile(p, size) ==
  /\ phase = "up" /\ files[p] # None /\ S_IFREG \subseteq files[p].mode /\ ~IsLink(p)
  /\ files' = [files EXCEPT ![p].size = size]
  /\ UNCHANGED <<descriptors, asked, fh, phase>>
------------------------------------------------------------------------------
\* A directory whose owner cannot be set stays too.
CreateDirectory(p, perm, u) ==
  /\ phase = "up" /\ files[p] = None
  /\ LET mode == NewMode(S_IFDIR, MetadataToPosixMode([type |-> "Directory", modes |-> perm]))
     IN \/ /\ files' = [files EXCEPT ![p] = [mode |-> mode, owner |-> u, size |-> 0]]
           /\ asked' = [asked EXCEPT ![p] = perm \ Umask]
        \/ /\ files' = [files EXCEPT ![p] = [mode |-> mode, owner |-> Self, size |-> 0]]
           /\ UNCHANGED asked
  /\ UNCHANGED <<descriptors, fh, phase>>

CreateLink(link) ==
  /\ phase = "up" /\ files[link] = None
  /\ files' = [files EXCEPT ![link] = [mode |-> S_IFLNK \cup PermBits, owner |-> Self, size |-> 0]]
  /\ UNCHANGED <<descriptors, asked, fh, phase>>

SetOwner(p, u) ==
  /\ phase = "up" /\ files[p] # None /\ ~IsLink(p)
  /\ files' = [files EXCEPT ![p].owner = u]
  /\ UNCHANGED <<descriptors, asked, fh, phase>>

\* The Metadata that setMode fills in has the default type, a file's.
SetMode(p, perm) ==
  /\ phase = "up" /\ files[p] # None /\ ~IsLink(p)
  /\ LET mode == MetadataToPosixMode([type |-> "File", modes |-> perm]) IN
       files' = [files EXCEPT ![p].mode = ChangedMode(@, mode)]
  /\ asked' = [asked EXCEPT ![p] = perm]
  /\ UNCHANGED <<descriptors, fh, phase>>

\* Inside the class remove(p.c_str()) is the member itself, on a path that is longer by
\* rootPath_ at every turn, and so is rename: neither reaches the POSIX call.
RemoveOrRename ==
  /\ phase = "up"
  /\ phase' = "overflow"
  /\ UNCHANGED <<descriptors, files, asked, fh>>

Destroy ==
  /\ phase = "up"
  /\ table' = [fd \in Fds |-> IF \E i \in 1..Len(fds_) : fds_[i] = fd THEN None ELSE table[fd]]
  /\ fds_' = <<>> /\ rw' = {} /\ phase' = "destroyed"
  /\ UNCHANGED <<wanted, files, asked, fh>>
------------------------------------------------------------------------------
(* The rest of the program *)

ProgramOpens(fd) ==
  /\ phase = "up" /\ IsNext(fd)
  /\ table' = [table EXCEPT ![fd] = Other]
  /\ UNCHANGED <<fds_, rw, wanted, files, asked, fh, phase>>

ProgramCloses(fd) ==
  /\ phase = "up" /\ table[fd] = Other
  /\ table' = [table EXCEPT ![fd] = None]
  /\ UNCHANGED <<fds_, rw, wanted, files, asked, fh, phase>>
------------------------------------------------------------------------------
Init ==
  /\ fds_ = <<>>
  /\ table = [fd \in Fds |-> IF fd <= 2 THEN Other ELSE None]
  /\ rw = {} /\ wanted = {}
  /\ files = [p \in Paths |-> None]
  /\ asked = [p \in Paths |-> None]
  /\ fh = [c \in Clients |-> None]
  /\ phase = "up"

Next ==
  \/ \E c \in Clients, p \in Paths, reqWrite \in BOOLEAN :
       \/ OpenFile(c, p, reqWrite)
       \/ \E perm \in Perms, u \in Users : CreateFile(c, p, perm, u, reqWrite)
  \/ \E c \in Clients : CloseFile(c) \/ \E end \in 0..MaxSize : WriteFile(c, end)
  \/ \E p \in Paths, perm \in Perms : SetMode(p, perm) \/ \E u \in Users : CreateDirectory(p, perm, u)
  \/ \E p \in Paths : \/ CreateLink(p) \/ \E u \in Users : SetOwner(p, u)
                       \/ \E size \in 0..MaxSize : ResizeFile(p, size)
  \/ RemoveOrRename \/ Destroy
  \/ \E fd \in Fds : ProgramOpens(fd) \/ ProgramCloses(fd)

Spec == Init /\ [][Next]_vars
------------------------------------------------------------------------------
(* Properties *)

\* Every variable has its type.
TypeOK ==
  /\ fds_ \in Seq(Fds \cup {-1})
  /\ table \in [Fds -> Paths \cup {Other, None}]
  /\ rw \subseteq Fds /\ wanted \subseteq Paths
  /\ files \in [Paths -> [mode : SUBSET (0..15), owner : Users \cup {Self}, size : 0..MaxSize] \cup {None}]
  /\ asked \in [Paths -> (SUBSET PermBits) \cup {None}]
  /\ fh \in [Clients -> [fid : Nat, file : Paths] \cup {None}]
  /\ phase \in {"up", "destroyed", "overflow"}

\* closeFile's -1 and the destructor's test for it: the vector never holds the number of a
\* descriptor that has been closed and may be someone else's by now, nor one twice.
VectorOwnsItsDescriptors ==
  /\ \A i \in 1..Len(fds_) : fds_[i] # -1 => table[fds_[i]] \in Paths
  /\ \A i, j \in 1..Len(fds_) : fds_[i] = fds_[j] /\ fds_[i] # -1 => i = j

\* Every descriptor the class opened and has not closed is in the vector, also after
\* createFile failed half-way, so that the destructor leaves none behind.
NoneLost == \A fd \in Fds : table[fd] \in Paths => \E i \in 1..Len(fds_) : fds_[i] = fd

\* Whatever callers do with their handles, two of them never lead to one descriptor, and
\* none leads to a descriptor of the rest of the program.
HandlesApart ==
  \A c, d \in Clients :
    /\ phase = "up" /\ fh[c] # None => FileOf(fh[c].fid) \in Paths \cup {None}
    /\ /\ phase = "up" /\ c # d /\ fh[c] # None /\ fh[d] # None
       /\ Reached(fh[c].fid) = Reached(fh[d].fid)
       => Reached(fh[c].fid) = -1

\* Though handles lead to other callers' files, none is written to that no caller has ever
\* opened for writing; and only resizeFile makes a file shorter.
OnlyWantedWritten ==
  [][\A p \in Paths : files[p] # None /\ files'[p].size # files[p].size =>
       \/ ResizeFile(p, files'[p].size)
       \/ p \in wanted /\ files'[p].size > files[p].size]_vars

\* No call closes a descriptor of the rest of the program.
OthersUntouched ==
  [][\A fd \in Fds : table[fd] = Other /\ table'[fd] # Other => ProgramCloses(fd)]_vars

\* lstat() tells the owner too.
ReadMetadata(p) == StatToMetadata([mode |-> files[p].mode, uid |-> files[p].owner])

\* The type that readDirectory makes of d_type, which is the mode's.
ListedType(mode) ==
  LET type == mode \ ChmodBits IN
  CASE type = S_IFDIR -> "Directory" [] type = S_IFLNK -> "Symlink"
    [] type = S_IFREG -> "File" [] OTHER -> "Unknown"

\* What readMetadata says of a file's permissions is what the last call that set them and
\* succeeded asked for, less the umask where it created the file; and of its type it says what
\* readDirectory says.  Of its owner it says nothing.
MetadataAsAsked ==
  \A p \in Paths : files[p] # None =>
    /\ asked[p] \in {None, ReadMetadata(p).modes}
    /\ ~IsLink(p) => ReadMetadata(p).type = ListedType(files[p].mode)
==============================================================================
