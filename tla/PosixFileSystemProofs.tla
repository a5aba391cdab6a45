------------------------- MODULE PosixFileSystemProofs -------------------------
(* Theorems about PosixUtils and PosixFileSystem. *)
EXTENDS PosixFileSystem, TLAPS

\* What a mode reads as.
Reads(mode) == PosixModeToMetadata(mode, "File")

\* Of a file and a directory, the type and the permissions survive metadataToStat and
\* statToMetadata, and the owner does not.
THEOREM ModesComeBack ==
  \A md \in [type : {"File", "Directory"}, modes : SUBSET PermBits, uid : STRING] :
    StatToMetadata(MetadataToStat(md)) = [type |-> md.type, modes |-> md.modes, uid |-> NoUid]
<1> SUFFICES ASSUME NEW md \in [type : {"File", "Directory"}, modes : SUBSET PermBits, uid : STRING]
             PROVE  StatToMetadata(MetadataToStat(md))
                      = [type |-> md.type, modes |-> md.modes, uid |-> NoUid]
  OBVIOUS
<1> DEFINE mode == MetadataToPosixMode(md)
<1>1. md.modes \in SUBSET (0..8) /\ md.type \in {"File", "Directory"}
  BY DEF PermBits
<1>2. mode \cap PermBits = md.modes
  BY <1>1 DEF MetadataToPosixMode, TypeBits, S_IFREG, S_IFDIR, PermBits
<1>3. PosixModeToMetadata(mode, "File") = [type |-> md.type, modes |-> md.modes]
  <2>1. CASE md.type = "File"
    <3>1. S_IFREG \subseteq mode
      BY <2>1 DEF MetadataToPosixMode, TypeBits
    <3> QED
      BY <1>2, <2>1, <3>1 DEF PosixModeToMetadata
  <2>2. CASE md.type = "Directory"
    <3>1. S_IFDIR \subseteq mode /\ ~(S_IFREG \subseteq mode)
      BY <1>1, <2>2 DEF MetadataToPosixMode, TypeBits, S_IFDIR, S_IFREG
    <3> QED
      BY <1>2, <2>2, <3>1 DEF PosixModeToMetadata
  <2> QED
    BY <1>1, <2>1, <2>2
<1> QED
  BY <1>3 DEF StatToMetadata, MetadataToStat

\* Whatever its permissions and whoever owns it, a symbolic link reads back as a file: S_IFLNK
\* has the bit of S_IFREG, which posixModeToMetadata looks for first.
THEOREM LinksReadAsFiles ==
  \A s \in [mode : SUBSET (0..15), uid : Nat] :
    S_IFLNK \subseteq s.mode => StatToMetadata(s).type = "File"
BY DEF S_IFLNK, S_IFREG, StatToMetadata, PosixModeToMetadata

\* An errno that has a return code of its own comes back as itself, any other as EPERM:
\* FuseBridge hands on the kernel's error or EPERM, and no error as success.
THEOREM ErrorsComeBack ==
  ASSUME NEW err
  PROVE  RetCodeToErrno(ErrnoToRetCode(err)) =
           IF err \in {"ENODATA", "ENOENT", "EINVAL", "ERANGE", "EFAULT"} THEN err ELSE "EPERM"
BY DEF RetCodeToErrno, ErrnoToRetCode
------------------------------------------------------------------------------
\* fids are handed out in order, so no two callers have the same.
FidsApart ==
  phase = "up" =>
    /\ \A c \in Clients : fh[c] # None => fh[c].fid \in 1..Len(fds_)
    /\ \A c, d \in Clients : fh[c] # None /\ fh[d] # None /\ c # d => fh[c].fid # fh[d].fid

\* What was opened with O_RDWR was asked for so, and is the class's.
WritableWanted == \A fd \in rw : table[fd] \in wanted

\* The class's descriptors are open on files that are there.
OpenOnFiles == \A fd \in Fds : table[fd] \in Paths => files[table[fd]] # None

IInv ==
  /\ TypeOK /\ VectorOwnsItsDescriptors /\ NoneLost
  /\ FidsApart /\ WritableWanted /\ OpenOnFiles

\* None is no file.
LEMMA FilesNotNone ==
  \A mode \in SUBSET (0..15), owner \in Users \cup {Self}, size \in 0..MaxSize :
    [mode |-> mode, owner |-> owner, size |-> size] # None
<1> SUFFICES ASSUME NEW mode \in SUBSET (0..15), NEW owner \in Users \cup {Self}, NEW size \in 0..MaxSize
             PROVE  [mode |-> mode, owner |-> owner, size |-> size] # None
  OBVIOUS
<1>1. [mode |-> mode, owner |-> owner, size |-> size] \in [mode : SUBSET (0..15), owner : Users \cup {Self}, size : 0..MaxSize]
  OBVIOUS
<1> QED
  BY <1>1, NoneAssumption

\* The modes the calls compose are sets of bits.
LEMMA ModeBits ==
  ASSUME NEW perm \in Perms, NEW type \in {"File", "Directory"}
  PROVE  /\ NewMode(S_IFREG, MetadataToPosixMode([type |-> type, modes |-> perm])) \in SUBSET (0..15)
         /\ NewMode(S_IFDIR, MetadataToPosixMode([type |-> type, modes |-> perm])) \in SUBSET (0..15)
         /\ \A old \in SUBSET (0..15) :
              ChangedMode(old, MetadataToPosixMode([type |-> type, modes |-> perm])) \in SUBSET (0..15)
         /\ perm \in SUBSET PermBits /\ perm \ Umask \in SUBSET PermBits
<1> DEFINE m == MetadataToPosixMode([type |-> type, modes |-> perm])
<1>1. (m \cap ChmodBits) \in SUBSET (0..15)
  BY DEF ChmodBits
<1>2. S_IFREG \in SUBSET (0..15) /\ S_IFDIR \in SUBSET (0..15)
  BY DEF S_IFREG, S_IFDIR
<1>3. NewMode(S_IFREG, m) \in SUBSET (0..15) /\ NewMode(S_IFDIR, m) \in SUBSET (0..15)
  BY <1>1, <1>2 DEF NewMode
<1>4. \A old \in SUBSET (0..15) : ChangedMode(old, m) \in SUBSET (0..15)
  BY <1>1 DEF ChangedMode
<1>5. perm \in SUBSET PermBits /\ perm \ Umask \in SUBSET PermBits
  BY PermsAssumption
<1> QED
  BY <1>3, <1>4, <1>5

\* A descriptor that the kernel gives out is not in the vector.
LEMMA NextIsNew ==
  ASSUME IInv, NEW fd \in Fds, IsNext(fd)
  PROVE  \A i \in 1..Len(fds_) : fds_[i] # fd
BY NamesAssumption DEF IInv, TypeOK, VectorOwnsItsDescriptors, IsNext, Fds

\* What an open does to vector, descriptors and handles keeps them in agreement.
LEMMA OpenedKeeps ==
  ASSUME IInv, NEW c \in Clients, NEW p \in Paths, NEW fd \in Fds, IsNext(fd), NEW reqWrite \in BOOLEAN,
         Opened(c, p, fd, reqWrite), phase' = phase,
         files'[p] # None, \A q \in Paths : files[q] # None => files'[q] # None
  PROVE  /\ fds_' \in Seq(Fds \cup {-1})
         /\ table' \in [Fds -> Paths \cup {Other, None}]
         /\ fh' \in [Clients -> [fid : Nat, file : Paths] \cup {None}]
         /\ rw' \subseteq Fds /\ wanted' \subseteq Paths
         /\ VectorOwnsItsDescriptors' /\ NoneLost' /\ FidsApart' /\ WritableWanted' /\ OpenOnFiles'
<1> USE DEF IInv, TypeOK
<1>1. \A i \in 1..Len(fds_) : fds_[i] # fd
  BY NextIsNew
<1>2. /\ Len(fds_) \in Nat /\ Len(fds_') = Len(fds_) + 1
      /\ \A i \in 1..Len(fds_) : fds_'[i] = fds_[i] /\ fds_[i] \in Fds \cup {-1}
      /\ fds_'[Len(fds_) + 1] = fd
      /\ fds_' \in Seq(Fds \cup {-1})
  BY DEF Opened
<1>3. table' = [table EXCEPT ![fd] = p] /\ table' \in [Fds -> Paths \cup {Other, None}]
  BY DEF Opened
<1>4. /\ fh' = [fh EXCEPT ![c] = [fid |-> Len(fds_) + 1, file |-> p]]
      /\ fh' \in [Clients -> [fid : Nat, file : Paths] \cup {None}]
  <2>1. fh' = [fh EXCEPT ![c] = [fid |-> Len(fds_) + 1, file |-> p]]
    BY <1>2 DEF Opened
  <2>2. [fid |-> Len(fds_) + 1, file |-> p] \in [fid : Nat, file : Paths]
    BY <1>2
  <2> QED
    BY <2>1, <2>2
<1>5. VectorOwnsItsDescriptors'
  <2>1. 1..Len(fds_') = 1..Len(fds_) \cup {Len(fds_) + 1}
    BY <1>2
  <2>2. ASSUME NEW i \in 1..Len(fds_'), fds_'[i] # -1
        PROVE  table'[fds_'[i]] \in Paths
    <3>1. CASE i = Len(fds_) + 1
      BY <1>2, <1>3, <3>1
    <3>2. CASE i \in 1..Len(fds_)
      BY <1>1, <1>2, <1>3, <2>2, <3>2 DEF VectorOwnsItsDescriptors
    <3> QED
      BY <2>1, <3>1, <3>2
  <2>3. ASSUME NEW i \in 1..Len(fds_'), NEW j \in 1..Len(fds_'), fds_'[i] = fds_'[j], fds_'[i] # -1
        PROVE  i = j
    BY <1>1, <1>2, <2>1, <2>3 DEF VectorOwnsItsDescriptors
  <2> QED
    BY <2>2, <2>3 DEF VectorOwnsItsDescriptors
<1>6. NoneLost'
  <2> SUFFICES ASSUME NEW g \in Fds, table'[g] \in Paths
               PROVE  \E i \in 1..Len(fds_') : fds_'[i] = g
    BY DEF NoneLost
  <2>1. CASE g = fd
    <3>1. Len(fds_) + 1 \in 1..Len(fds_')
      BY <1>2
    <3> QED
      BY <1>2, <2>1, <3>1
  <2>2. CASE g # fd
    <3>1. PICK i \in 1..Len(fds_) : fds_[i] = g
      BY <1>3, <2>2 DEF NoneLost
    <3>2. i \in 1..Len(fds_') /\ fds_'[i] = g
      BY <1>2, <3>1
    <3> QED
      BY <3>2
  <2> QED
    BY <2>1, <2>2
<1>7. FidsApart'
  <2> SUFFICES ASSUME phase = "up" PROVE FidsApart'
    BY DEF FidsApart
  <2>1. \A a \in Clients \ {c} : fh'[a] = fh[a]
    BY <1>4
  <2>2. fh'[c] = [fid |-> Len(fds_) + 1, file |-> p]
    BY <1>4
  <2>3. \A a \in Clients \ {c} : fh[a] # None => fh[a].fid \in 1..Len(fds_)
    BY DEF FidsApart
  <2>4. \A a, b \in Clients : fh[a] # None /\ fh[b] # None /\ a # b => fh[a].fid # fh[b].fid
    BY DEF FidsApart
  <2>5. \A a \in Clients : fh'[a] # None => fh'[a].fid \in 1..(Len(fds_) + 1)
    BY <1>2, <2>1, <2>2, <2>3
  <2>6. \A a, b \in Clients : fh'[a] # None /\ fh'[b] # None /\ a # b => fh'[a].fid # fh'[b].fid
    BY <1>2, <2>1, <2>2, <2>3, <2>4
  <2> QED
    BY <1>2, <2>5, <2>6 DEF FidsApart
<1>8. rw' \subseteq Fds /\ wanted' \subseteq Paths /\ WritableWanted'
  <2>1. /\ rw' = IF reqWrite THEN rw \cup {fd} ELSE rw
        /\ wanted' = IF reqWrite THEN wanted \cup {p} ELSE wanted
    BY DEF Opened
  <2>2. fd \notin rw
    BY NamesAssumption DEF WritableWanted, IsNext
  <2> QED
    BY <1>3, <2>1, <2>2 DEF WritableWanted
<1>9. OpenOnFiles'
  BY <1>3, NamesAssumption DEF OpenOnFiles
<1> QED
  BY <1>2, <1>3, <1>4, <1>5, <1>6, <1>7, <1>8, <1>9

\* Calls that touch nothing but files on disk.
LEMMA FilesOnlyKeeps ==
  ASSUME IInv, UNCHANGED <<descriptors, fh, phase>>,
         files' \in [Paths -> [mode : SUBSET (0..15), owner : Users \cup {Self}, size : 0..MaxSize] \cup {None}],
         asked' \in [Paths -> (SUBSET PermBits) \cup {None}],
         \A q \in Paths : files[q] # None => files'[q] # None
  PROVE  IInv'
<1>1. OpenOnFiles'
  BY DEF descriptors, IInv, OpenOnFiles
<1> QED
  BY <1>1 DEF descriptors, IInv, TypeOK, VectorOwnsItsDescriptors, NoneLost, FidsApart, WritableWanted

\* The initial state.
LEMMA InitIInv == Init => IInv
<1> SUFFICES ASSUME Init PROVE IInv
  OBVIOUS
<1>1. TypeOK
  BY LimitsAssumption DEF Init, TypeOK, Fds
<1>2. VectorOwnsItsDescriptors /\ FidsApart /\ WritableWanted
  BY DEF Init, VectorOwnsItsDescriptors, FidsApart, WritableWanted
<1>3. NoneLost
  BY NamesAssumption DEF Init, NoneLost
<1>4. OpenOnFiles
  BY NamesAssumption DEF Init, OpenOnFiles
<1> QED
  BY <1>1, <1>2, <1>3, <1>4 DEF IInv

\* createFile, whether or not the owner can be set.
LEMMA CreateFileIInv ==
  ASSUME IInv, NEW c \in Clients, NEW p \in Paths, NEW perm \in Perms, NEW u \in Users,
         NEW reqWrite \in BOOLEAN, CreateFile(c, p, perm, u, reqWrite)
  PROVE  IInv'
<1> DEFINE mode == NewMode(S_IFREG, MetadataToPosixMode([type |-> "File", modes |-> perm]))
           Owned(o) == [files EXCEPT ![p] = [mode |-> mode, owner |-> o, size |-> 0]]
<1>1. mode \in SUBSET (0..15) /\ perm \ Umask \in SUBSET PermBits
  BY ModeBits
<1>2. \A o \in Users \cup {Self} :
        /\ Owned(o) \in [Paths -> [mode : SUBSET (0..15), owner : Users \cup {Self}, size : 0..MaxSize] \cup {None}]
        /\ Owned(o)[p] # None /\ \A q \in Paths : files[q] # None => Owned(o)[q] # None
  BY <1>1, LimitsAssumption, FilesNotNone, SMTT(40) DEF IInv, TypeOK
<1>3. CASE /\ \E fd \in Fds : IsNext(fd) /\ Opened(c, p, fd, reqWrite)
           /\ files' = Owned(u)
           /\ asked' = [asked EXCEPT ![p] = perm \ Umask]
           /\ phase' = phase
  <2> HIDE DEF Owned
  <2>1. PICK fd \in Fds : IsNext(fd) /\ Opened(c, p, fd, reqWrite)
    BY <1>3
  <2>2. asked' \in [Paths -> (SUBSET PermBits) \cup {None}]
    BY <1>1, <1>3 DEF IInv, TypeOK
  <2>3. phase' \in {"up", "destroyed", "overflow"}
    BY <1>3 DEF IInv, TypeOK
  <2> QED
    BY <1>2, <1>3, <2>1, <2>2, <2>3, OpenedKeeps DEF IInv, TypeOK
<1>4. CASE files' = Owned(Self) /\ UNCHANGED <<asked, descriptors, fh, phase>>
  <2> HIDE DEF Owned
  <2> QED
    BY <1>2, <1>4, FilesOnlyKeeps DEF IInv, TypeOK
<1>5. PICK fd \in Fds :
        /\ IsNext(fd)
        /\ \/ /\ Opened(c, p, fd, reqWrite)
              /\ files' = Owned(u)
              /\ asked' = [asked EXCEPT ![p] = perm \ Umask]
           \/ files' = Owned(Self) /\ UNCHANGED <<asked, descriptors, fh>>
  BY DEF CreateFile
<1>6. phase' = phase
  BY DEF CreateFile
<1> QED
  BY <1>3, <1>4, <1>5, <1>6

\* openFile.
LEMMA OpenFileIInv ==
  ASSUME IInv, NEW c \in Clients, NEW p \in Paths, NEW reqWrite \in BOOLEAN,
         OpenFile(c, p, reqWrite)
  PROVE  IInv'
<1>1. PICK fd \in Fds : IsNext(fd) /\ Opened(c, p, fd, reqWrite)
  BY DEF OpenFile
<1> QED
  BY <1>1, OpenedKeeps DEF OpenFile, IInv, TypeOK

\* closeFile: an accepted handle's descriptor leaves the vector and the kernel together.
LEMMA CloseFileIInv ==
  ASSUME IInv, NEW c \in Clients, CloseFile(c)
  PROVE  IInv'
<1> DEFINE fid == fh[c].fid
<1>1. /\ fid \in Nat /\ fh' = [fh EXCEPT ![c] = None] /\ phase = "up"
      /\ rw' = rw \ {Reached(fid)}
      /\ UNCHANGED <<wanted, files, asked, phase>>
      /\ table' = [fd \in Fds |-> IF fd = Reached(fid) THEN None ELSE table[fd]]
      /\ fds_' = IF Accepts(fid) THEN [fds_ EXCEPT ![fid + 1] = -1] ELSE fds_
  BY DEF CloseFile, IInv, TypeOK
<1>2. fds_ \in Seq(Fds \cup {-1}) /\ table \in [Fds -> Paths \cup {Other, None}]
  BY DEF IInv, TypeOK
<1>3. /\ fds_' \in Seq(Fds \cup {-1}) /\ Len(fds_') = Len(fds_)
      /\ \A i \in 1..Len(fds_) : fds_'[i] = fds_[i] \/ fds_'[i] = -1
  <2>1. CASE Accepts(fid)
    <3>1. fid + 1 \in 1..Len(fds_)
      BY <1>1, <1>2, <2>1 DEF Accepts
    <3>2. fds_' = [fds_ EXCEPT ![fid + 1] = -1]
      BY <1>1, <2>1
    <3> HIDE DEF fid
    <3> QED
      BY <1>2, <3>1, <3>2, SMTT(40)
  <2>2. CASE ~Accepts(fid)
    BY <1>1, <1>2, <2>2
  <2> QED
    BY <2>1, <2>2
<1>4. Accepts(fid) => fid + 1 \in 1..Len(fds_) /\ fds_'[fid + 1] = -1
                      /\ Reached(fid) = fds_[fid + 1]
  BY <1>1, <1>2 DEF Accepts, Reached
<1>5. \A i \in 1..Len(fds_) : i # fid + 1 \/ ~Accepts(fid) => fds_'[i] = fds_[i]
  BY <1>1, <1>2
<1>6. \A fd \in Fds : fd # -1
  BY DEF Fds
<1>7. TypeOK'
  BY <1>1, <1>2, <1>3 DEF IInv, TypeOK
<1>8. VectorOwnsItsDescriptors'
  <2>1. ASSUME NEW i \in 1..Len(fds_), fds_'[i] # -1
        PROVE  fds_'[i] = fds_[i] /\ fds_[i] \in Fds /\ fds_[i] # Reached(fid)
    <3>1. fds_'[i] = fds_[i] /\ fds_[i] \in Fds
      BY <1>2, <1>3, <2>1
    <3>2. CASE Accepts(fid)
      BY <1>4, <2>1, <3>1, <3>2 DEF IInv, VectorOwnsItsDescriptors
    <3>3. CASE ~Accepts(fid)
      BY <2>1, <3>1, <3>3 DEF Reached
    <3> QED
      BY <3>1, <3>2, <3>3
  <2>2. \A i \in 1..Len(fds_) : fds_'[i] # -1 => table'[fds_'[i]] \in Paths
    BY <1>1, <2>1 DEF IInv, VectorOwnsItsDescriptors
  <2>3. \A i, j \in 1..Len(fds_) : fds_'[i] = fds_'[j] /\ fds_'[i] # -1 => i = j
    BY <2>1 DEF IInv, VectorOwnsItsDescriptors
  <2> QED
    BY <1>3, <2>2, <2>3 DEF VectorOwnsItsDescriptors
<1>9. NoneLost'
  <2> SUFFICES ASSUME NEW g \in Fds, table'[g] \in Paths
               PROVE  \E i \in 1..Len(fds_') : fds_'[i] = g
    BY DEF NoneLost
  <2>1. g # Reached(fid) /\ table[g] \in Paths
    BY <1>1, NamesAssumption
  <2>2. PICK i \in 1..Len(fds_) : fds_[i] = g
    BY <2>1 DEF IInv, NoneLost
  <2>3. fds_'[i] = g
    BY <1>4, <1>5, <2>1, <2>2
  <2> QED
    BY <1>3, <2>2, <2>3
<1>10. FidsApart'
  <2>1. \A a \in Clients : fh'[a] # None => fh'[a] = fh[a]
    BY <1>1 DEF IInv, TypeOK
  <2> QED
    BY <1>1, <1>3, <2>1 DEF IInv, FidsApart
<1>11. WritableWanted' /\ OpenOnFiles'
  BY <1>1, NamesAssumption DEF IInv, TypeOK, WritableWanted, OpenOnFiles
<1> QED
  BY <1>7, <1>8, <1>9, <1>10, <1>11 DEF IInv

\* createDirectory, createLink, setOwner, setMode, resizeFile.
LEMMA FilesIInv ==
  ASSUME IInv, NEW p \in Paths,
         \/ \E perm \in Perms : SetMode(p, perm) \/ \E u \in Users : CreateDirectory(p, perm, u)
         \/ CreateLink(p) \/ \E u \in Users : SetOwner(p, u)
         \/ \E size \in 0..MaxSize : ResizeFile(p, size)
  PROVE  IInv'
<1> DEFINE A == (SUBSET PermBits) \cup {None}
<1> USE DEF IInv, TypeOK
<1>1. ASSUME NEW f, f \in [mode : SUBSET (0..15), owner : Users \cup {Self}, size : 0..MaxSize], NEW a \in A,
             files' = [files EXCEPT ![p] = f], asked' = [asked EXCEPT ![p] = a],
             UNCHANGED <<descriptors, fh, phase>>
      PROVE  IInv'
  <2>1. f # None
    BY <1>1, NoneAssumption
  <2>2. \A q \in Paths : files[q] # None => files'[q] # None
    BY <1>1, <2>1
  <2> QED
    BY <1>1, <2>2, FilesOnlyKeeps
<1>2. asked[p] \in A /\ asked = [asked EXCEPT ![p] = asked[p]]
  OBVIOUS
<1>3. ASSUME NEW perm \in Perms, SetMode(p, perm) PROVE IInv'
  <2> DEFINE mode == ChangedMode(files[p].mode, MetadataToPosixMode([type |-> "File", modes |-> perm]))
  <2>1. files[p].mode \in SUBSET (0..15) /\ files[p] \in [mode : SUBSET (0..15), owner : Users \cup {Self}, size : 0..MaxSize]
    BY <1>3 DEF SetMode
  <2>2. mode \in SUBSET (0..15) /\ perm \in SUBSET PermBits
    BY <2>1, ModeBits, PermsAssumption
  <2>3. /\ files' = [files EXCEPT ![p] = [files[p] EXCEPT !.mode = mode]]
        /\ asked' = [asked EXCEPT ![p] = perm]
        /\ UNCHANGED <<descriptors, fh, phase>>
    BY <1>3 DEF SetMode
  <2> HIDE DEF mode
  <2>4. /\ [files[p] EXCEPT !.mode = mode] \in [mode : SUBSET (0..15), owner : Users \cup {Self}, size : 0..MaxSize]
        /\ perm \in A
    BY <2>1, <2>2, <1>2
  <2> QED
    BY <1>1, <2>3, <2>4
<1>4. ASSUME NEW perm \in Perms, NEW u \in Users, CreateDirectory(p, perm, u) PROVE IInv'
  <2> DEFINE mode == NewMode(S_IFDIR, MetadataToPosixMode([type |-> "Directory", modes |-> perm]))
  <2>1. mode \in SUBSET (0..15) /\ perm \ Umask \in SUBSET PermBits
    BY ModeBits
  <2>2. /\ UNCHANGED <<descriptors, fh, phase>>
        /\ \/ /\ files' = [files EXCEPT ![p] = [mode |-> mode, owner |-> u, size |-> 0]]
              /\ asked' = [asked EXCEPT ![p] = perm \ Umask]
           \/ /\ files' = [files EXCEPT ![p] = [mode |-> mode, owner |-> Self, size |-> 0]]
              /\ asked' = asked
    BY <1>4 DEF CreateDirectory
  <2> HIDE DEF mode
  <2>3. /\ [mode |-> mode, owner |-> u, size |-> 0] \in [mode : SUBSET (0..15), owner : Users \cup {Self}, size : 0..MaxSize]
        /\ [mode |-> mode, owner |-> Self, size |-> 0] \in [mode : SUBSET (0..15), owner : Users \cup {Self}, size : 0..MaxSize]
        /\ perm \ Umask \in A
    BY <2>1, LimitsAssumption
  <2> QED
    BY <1>1, <1>2, <2>2, <2>3
<1>5. CASE CreateLink(p)
  <2>1. S_IFLNK \cup PermBits \in SUBSET (0..15)
    BY DEF S_IFLNK, PermBits
  <2>2. [mode |-> S_IFLNK \cup PermBits, owner |-> Self, size |-> 0] \in [mode : SUBSET (0..15), owner : Users \cup {Self}, size : 0..MaxSize]
    BY <2>1, LimitsAssumption, SMTT(40)
  <2> QED
    BY <1>1, <1>2, <1>5, <2>2 DEF CreateLink
<1>6. ASSUME NEW u \in Users, SetOwner(p, u) PROVE IInv'
  <2>1. files[p] \in [mode : SUBSET (0..15), owner : Users \cup {Self}, size : 0..MaxSize]
    BY <1>6 DEF SetOwner
  <2>2. [files[p] EXCEPT !.owner = u] \in [mode : SUBSET (0..15), owner : Users \cup {Self}, size : 0..MaxSize]
    BY <2>1
  <2>3. files' = [files EXCEPT ![p] = [files[p] EXCEPT !.owner = u]]
    BY <1>6 DEF SetOwner
  <2> QED
    BY <1>1, <1>2, <1>6, <2>2, <2>3 DEF SetOwner
<1>7. ASSUME NEW size \in 0..MaxSize, ResizeFile(p, size) PROVE IInv'
  <2>1. files[p] \in [mode : SUBSET (0..15), owner : Users \cup {Self}, size : 0..MaxSize]
    BY <1>7 DEF ResizeFile
  <2>2. [files[p] EXCEPT !.size = size] \in [mode : SUBSET (0..15), owner : Users \cup {Self}, size : 0..MaxSize]
    BY <2>1
  <2>3. files' = [files EXCEPT ![p] = [files[p] EXCEPT !.size = size]]
    BY <1>7 DEF ResizeFile
  <2> QED
    BY <1>1, <1>2, <1>7, <2>2, <2>3 DEF ResizeFile
<1> QED
  BY <1>3, <1>4, <1>5, <1>6, <1>7

\* What a handle is accepted for is one of the class's own open descriptors.
LEMMA FileOfHandle ==
  ASSUME IInv, NEW c \in Clients, fh[c] # None, Reached(fh[c].fid) # -1
  PROVE  /\ Reached(fh[c].fid) \in Fds
         /\ FileOf(fh[c].fid) = table[Reached(fh[c].fid)] /\ FileOf(fh[c].fid) \in Paths
<1>1. fh[c].fid \in Nat
  BY DEF IInv, TypeOK
<1>2. /\ fh[c].fid + 1 \in 1..Len(fds_) /\ Reached(fh[c].fid) = fds_[fh[c].fid + 1]
      /\ fds_[fh[c].fid + 1] \in Fds \cup {-1}
  BY <1>1 DEF Reached, Accepts, IInv, TypeOK
<1>3. Reached(fh[c].fid) \in Fds /\ table[Reached(fh[c].fid)] \in Paths
  BY <1>2 DEF IInv, VectorOwnsItsDescriptors
<1> QED
  BY <1>3 DEF FileOf

\* A write makes a file that somebody wanted to write to no shorter.
LEMMA WriteFileFiles ==
  ASSUME IInv, NEW c \in Clients, NEW end \in 0..MaxSize, WriteFile(c, end)
  PROVE  \E p \in wanted \cap Paths, size \in 0..MaxSize :
           /\ files[p] # None /\ size >= files[p].size
           /\ files' = [files EXCEPT ![p] = [files[p] EXCEPT !.size = size]]
<1> DEFINE p == FileOf(fh[c].fid)
           size == IF end > files[p].size THEN end ELSE files[p].size
<1>1. fh[c] # None /\ p \in Paths /\ Reached(fh[c].fid) \in rw
  BY DEF WriteFile
<1>2. files' = [files EXCEPT ![p] = [files[p] EXCEPT !.size = size]]
  BY DEF WriteFile
<1>3. Reached(fh[c].fid) # -1
  BY <1>1 DEF IInv, TypeOK, Fds
<1>4. p \in wanted /\ files[p] # None
  BY <1>1, <1>3, FileOfHandle DEF IInv, WritableWanted, OpenOnFiles
<1>5. files[p].size \in 0..MaxSize
  BY <1>1, <1>4 DEF IInv, TypeOK
<1>6. size \in 0..MaxSize /\ size >= files[p].size
  BY <1>5, SMTT(40)
<1> HIDE DEF size, p
<1> QED
  BY <1>1, <1>2, <1>4, <1>6

\* writeFile.
LEMMA WriteFileIInv ==
  ASSUME IInv, NEW c \in Clients, NEW end \in 0..MaxSize, WriteFile(c, end)
  PROVE  IInv'
<1>1. PICK p \in wanted \cap Paths, size \in 0..MaxSize :
        files[p] # None /\ files' = [files EXCEPT ![p] = [files[p] EXCEPT !.size = size]]
  BY WriteFileFiles
<1>2. files[p] \in [mode : SUBSET (0..15), owner : Users \cup {Self}, size : 0..MaxSize]
  BY <1>1 DEF IInv, TypeOK
<1>3. [files[p] EXCEPT !.size = size] \in [mode : SUBSET (0..15), owner : Users \cup {Self}, size : 0..MaxSize]
  BY <1>2
<1>4. [files[p] EXCEPT !.size = size] # None
  BY <1>3, NoneAssumption
<1>5. /\ files' \in [Paths -> [mode : SUBSET (0..15), owner : Users \cup {Self}, size : 0..MaxSize] \cup {None}]
      /\ \A q \in Paths : files[q] # None => files'[q] # None
  BY <1>1, <1>3, <1>4 DEF IInv, TypeOK
<1>6. UNCHANGED <<descriptors, fh, phase>> /\ asked' = asked
  BY DEF WriteFile
<1>7. asked' \in [Paths -> (SUBSET PermBits) \cup {None}]
  BY <1>6 DEF IInv, TypeOK
<1> QED
  BY <1>5, <1>6, <1>7, FilesOnlyKeeps

\* The destructor closes what the vector has, which is everything.
LEMMA DestroyIInv ==
  ASSUME IInv, Destroy
  PROVE  IInv'
<1>1. TypeOK'
  BY DEF Destroy, IInv, TypeOK
<1>2. \A fd \in Fds : table'[fd] \notin Paths
  BY NamesAssumption DEF Destroy, IInv, NoneLost
<1> QED
  BY <1>1, <1>2 DEF Destroy, IInv, VectorOwnsItsDescriptors, NoneLost, FidsApart, WritableWanted, OpenOnFiles

\* The rest of the program uses descriptors that are not in the vector.
LEMMA ProgramIInv ==
  ASSUME IInv, NEW fd \in Fds, ProgramOpens(fd) \/ ProgramCloses(fd)
  PROVE  IInv'
<1>1. /\ table[fd] \in {Other, None} /\ table'[fd] \in {Other, None}
      /\ \A g \in Fds \ {fd} : table'[g] = table[g]
      /\ table' \in [Fds -> Paths \cup {Other, None}]
      /\ UNCHANGED <<fds_, rw, wanted, files, asked, fh, phase>>
  BY DEF ProgramOpens, ProgramCloses, IsNext, IInv, TypeOK
<1>2. \A i \in 1..Len(fds_) : fds_[i] # -1 => fds_[i] \in Fds \ {fd}
  BY <1>1, NamesAssumption DEF IInv, TypeOK, VectorOwnsItsDescriptors
<1>3. VectorOwnsItsDescriptors' /\ NoneLost'
  BY <1>1, <1>2, NamesAssumption DEF IInv, VectorOwnsItsDescriptors, NoneLost
<1>4. WritableWanted' /\ OpenOnFiles'
  BY <1>1, NamesAssumption DEF IInv, TypeOK, WritableWanted, OpenOnFiles
<1> QED
  BY <1>1, <1>3, <1>4 DEF IInv, TypeOK, FidsApart

\* Every step preserves the invariant.
LEMMA StepIInv == IInv /\ [Next]_vars => IInv'
<1> SUFFICES ASSUME IInv, [Next]_vars PROVE IInv'
  OBVIOUS
<1>1. CASE UNCHANGED vars
  BY <1>1, FilesOnlyKeeps DEF vars, IInv, TypeOK
<1>2. CASE RemoveOrRename
  BY <1>2 DEF RemoveOrRename, descriptors, IInv, TypeOK, VectorOwnsItsDescriptors, NoneLost, FidsApart,
             WritableWanted, OpenOnFiles
<1> QED
  BY <1>1, <1>2, CreateFileIInv, OpenFileIInv, CloseFileIInv, FilesIInv, DestroyIInv, ProgramIInv,
     WriteFileIInv DEF Next

\* The invariant holds in every state.
THEOREM Invariance == Spec => []IInv
<1> QED
  BY InitIInv, StepIInv, PTL DEF Spec

\* Every variable keeps its type, whoever calls.
THEOREM TypesKept == Spec => []TypeOK
<1>1. IInv => TypeOK
  BY DEF IInv
<1> QED
  BY <1>1, Invariance, PTL

\* With any number of descriptors, and whatever else the program opens and closes: what the
\* vector has is open, is the class's, and is there once.
THEOREM VectorStaysItsOwn == Spec => []VectorOwnsItsDescriptors
<1>1. IInv => VectorOwnsItsDescriptors
  BY DEF IInv
<1> QED
  BY <1>1, Invariance, PTL

\* Whatever fails, createFile between open() and chown() included, no descriptor of the class
\* is open that the vector does not have, and so the destructor closes them all.
THEOREM DescriptorsAccounted == Spec => []NoneLost
<1>1. IInv => NoneLost
  BY DEF IInv
<1> QED
  BY <1>1, Invariance, PTL

\* Two handles never lead to one descriptor, and none to one of the rest of the program.
THEOREM HandlesStayApart == Spec => []HandlesApart
<1>1. IInv => HandlesApart
  <2> SUFFICES ASSUME IInv, NEW c \in Clients, NEW d \in Clients, phase = "up", fh[c] # None
               PROVE  /\ FileOf(fh[c].fid) \in Paths \cup {None}
                      /\ c # d /\ fh[d] # None /\ Reached(fh[c].fid) = Reached(fh[d].fid)
                         => Reached(fh[c].fid) = -1
    BY DEF HandlesApart
  <2>1. FileOf(fh[c].fid) \in Paths \cup {None}
    BY FileOfHandle DEF FileOf
  <2>2. ASSUME c # d, fh[d] # None, Reached(fh[c].fid) = Reached(fh[d].fid), Reached(fh[c].fid) # -1
        PROVE  FALSE
    <3>1. fh[c].fid \in Nat /\ fh[d].fid \in Nat /\ fh[c].fid # fh[d].fid
      BY <2>2 DEF IInv, TypeOK, FidsApart
    <3>2. /\ fh[c].fid + 1 \in 1..Len(fds_) /\ fh[d].fid + 1 \in 1..Len(fds_)
          /\ fds_[fh[c].fid + 1] = fds_[fh[d].fid + 1] /\ fds_[fh[c].fid + 1] # -1
      BY <2>2, <3>1 DEF Reached, Accepts, IInv, TypeOK
    <3>3. fh[c].fid + 1 = fh[d].fid + 1
      BY <3>2 DEF IInv, VectorOwnsItsDescriptors
    <3> QED
      BY <3>1, <3>3
  <2> QED
    BY <2>1, <2>2
<1> QED
  BY <1>1, Invariance, PTL
------------------------------------------------------------------------------
\* A step that leaves the sizes of the files that are there.
SizesKept == \A p \in Paths : files[p] # None => files'[p].size = files[p].size

\* chown() and chmod() do.
LEMMA OtherAttributes ==
  ASSUME TypeOK, NEW q \in Paths, files[q] # None, NEW owner, NEW mode,
         \/ files' = [files EXCEPT ![q] = [files[q] EXCEPT !.owner = owner]]
         \/ files' = [files EXCEPT ![q] = [files[q] EXCEPT !.mode = mode]]
  PROVE  SizesKept
<1>1. files[q] \in [mode : SUBSET (0..15), owner : Users \cup {Self}, size : 0..MaxSize]
  BY DEF TypeOK
<1>2. files'[q].size = files[q].size
  BY <1>1 DEF TypeOK
<1> QED
  BY <1>2 DEF TypeOK, SizesKept

\* Through whichever handle, only files that some caller opened for writing are written to.
THEOREM OnlyWantedAreWritten == Spec => OnlyWantedWritten
<1> DEFINE Ok(p) == \/ ResizeFile(p, files'[p].size)
                    \/ p \in wanted /\ files'[p].size > files[p].size
           A == \A p \in Paths : files[p] # None /\ files'[p].size # files[p].size => Ok(p)
<1>1. IInv /\ [Next]_vars => [A]_vars
  <2> SUFFICES ASSUME IInv, Next PROVE A
    BY DEF vars
  <2>1. ASSUME SizesKept PROVE A
    BY <2>1 DEF SizesKept
  <2>2. ASSUME UNCHANGED files PROVE SizesKept
    BY <2>2 DEF SizesKept
  <2>3. ASSUME NEW q \in Paths, files[q] = None, NEW f, files' = [files EXCEPT ![q] = f]
        PROVE  SizesKept
    BY <2>3 DEF SizesKept, IInv, TypeOK
  <2>4. ASSUME NEW c \in Clients, NEW q \in Paths, NEW perm \in Perms, NEW u \in Users,
               NEW reqWrite \in BOOLEAN, CreateFile(c, q, perm, u, reqWrite)
        PROVE  SizesKept
    <3> DEFINE mode == NewMode(S_IFREG, MetadataToPosixMode([type |-> "File", modes |-> perm]))
    <3>1. /\ files[q] = None
          /\ \/ files' = [files EXCEPT ![q] = [mode |-> mode, owner |-> u, size |-> 0]]
             \/ files' = [files EXCEPT ![q] = [mode |-> mode, owner |-> Self, size |-> 0]]
      BY <2>4 DEF CreateFile
    <3> HIDE DEF mode
    <3> QED
      BY <2>3, <3>1
  <2>5. ASSUME NEW q \in Paths, NEW perm \in Perms, NEW u \in Users, CreateDirectory(q, perm, u)
        PROVE  SizesKept
    <3> DEFINE mode == NewMode(S_IFDIR, MetadataToPosixMode([type |-> "Directory", modes |-> perm]))
    <3>1. /\ files[q] = None
          /\ \/ files' = [files EXCEPT ![q] = [mode |-> mode, owner |-> u, size |-> 0]]
             \/ files' = [files EXCEPT ![q] = [mode |-> mode, owner |-> Self, size |-> 0]]
      BY <2>5 DEF CreateDirectory
    <3> HIDE DEF mode
    <3> QED
      BY <2>3, <3>1
  <2>6. ASSUME NEW q \in Paths, CreateLink(q) PROVE SizesKept
    BY <2>3, <2>6 DEF CreateLink
  <2>7. ASSUME NEW q \in Paths, NEW u \in Users, SetOwner(q, u) PROVE SizesKept
    <3>1. files[q] # None /\ files' = [files EXCEPT ![q] = [files[q] EXCEPT !.owner = u]]
      BY <2>7 DEF SetOwner
    <3> QED
      BY <3>1, OtherAttributes DEF IInv
  <2>8. ASSUME NEW q \in Paths, NEW perm \in Perms, SetMode(q, perm) PROVE SizesKept
    <3> DEFINE mode == ChangedMode(files[q].mode, MetadataToPosixMode([type |-> "File", modes |-> perm]))
    <3>1. files[q] # None /\ files' = [files EXCEPT ![q] = [files[q] EXCEPT !.mode = mode]]
      BY <2>8 DEF SetMode
    <3> HIDE DEF mode
    <3> QED
      BY <3>1, OtherAttributes DEF IInv
  <2>9. ASSUME NEW q \in Paths, NEW size \in 0..MaxSize, ResizeFile(q, size) PROVE A
    <3>1. files[q] # None /\ files' = [files EXCEPT ![q] = [files[q] EXCEPT !.size = size]]
      BY <2>9 DEF ResizeFile
    <3>2. files'[q].size = size
      BY <3>1 DEF IInv, TypeOK
    <3>3. \A p \in Paths \ {q} : files'[p] = files[p]
      BY <3>1 DEF IInv, TypeOK
    <3> QED
      BY <2>9, <3>2, <3>3
  <2>10. ASSUME NEW c \in Clients, NEW end \in 0..MaxSize, WriteFile(c, end) PROVE A
    <3>1. PICK q \in wanted \cap Paths, size \in 0..MaxSize :
            /\ files[q] # None /\ size >= files[q].size
            /\ files' = [files EXCEPT ![q] = [files[q] EXCEPT !.size = size]]
      BY <2>10, WriteFileFiles
    <3>2. files'[q].size = size /\ files[q].size \in 0..MaxSize
      BY <3>1 DEF IInv, TypeOK
    <3>3. \A p \in Paths \ {q} : files'[p] = files[p]
      BY <3>1 DEF IInv, TypeOK
    <3> QED
      BY <3>1, <3>2, <3>3
  <2>11. ASSUME \/ \E c \in Clients : \/ CloseFile(c)
                                     \/ \E p \in Paths, w \in BOOLEAN : OpenFile(c, p, w)
                \/ RemoveOrRename \/ Destroy
                \/ \E fd \in Fds : ProgramOpens(fd) \/ ProgramCloses(fd)
         PROVE  UNCHANGED files
    BY <2>11 DEF CloseFile, OpenFile, RemoveOrRename, Destroy, ProgramOpens, ProgramCloses
  <2> HIDE DEF A
  <2> QED
    BY <2>1, <2>2, <2>4, <2>5, <2>6, <2>7, <2>8, <2>9, <2>10, <2>11 DEF Next
<1> QED
  BY <1>1, Invariance, PTL DEF Spec, OnlyWantedWritten
------------------------------------------------------------------------------
\* In the destructor, in closeFile and on every way out of createFile, what is closed is the
\* class's own.
THEOREM OthersStayUntouched == Spec => OthersUntouched
<1> DEFINE A == \A fd \in Fds : table[fd] = Other /\ table'[fd] # Other => ProgramCloses(fd)
<1>1. IInv /\ [Next]_vars => [A]_vars
  <2> SUFFICES ASSUME IInv, Next, NEW fd \in Fds, table[fd] = Other, table'[fd] # Other
               PROVE  ProgramCloses(fd)
    BY DEF vars
  <2>1. \A i \in 1..Len(fds_) : fds_[i] # fd
    BY NamesAssumption DEF IInv, VectorOwnsItsDescriptors, Fds
  <2>2. ASSUME NEW c \in Clients, NEW p \in Paths, NEW g \in Fds, NEW w \in BOOLEAN, IsNext(g),
               Opened(c, p, g, w)
        PROVE  FALSE
    BY <2>2, NamesAssumption DEF IsNext, Opened, IInv, TypeOK
  <2>3. ASSUME NEW c \in Clients, CloseFile(c) PROVE FALSE
    <3>1. fh[c].fid \in Nat /\ fd # -1 /\ Len(fds_) \in Nat
      BY <2>3 DEF CloseFile, IInv, TypeOK, Fds
    <3>2. Accepts(fh[c].fid) => fh[c].fid + 1 \in 1..Len(fds_)
      BY <3>1 DEF Accepts
    <3>3. Reached(fh[c].fid) # fd
      BY <2>1, <3>1, <3>2 DEF Reached
    <3> QED
      BY <2>3, <3>3 DEF CloseFile
  <2>4. ~Destroy
    BY <2>1 DEF Destroy
  <2>5. ASSUME NEW g \in Fds, ProgramOpens(g) PROVE FALSE
    BY <2>5 DEF ProgramOpens, IInv, TypeOK
  <2>6. ASSUME NEW g \in Fds, ProgramCloses(g) PROVE g = fd
    BY <2>6 DEF ProgramCloses, IInv, TypeOK
  <2>7. ASSUME NEW c \in Clients, NEW p \in Paths, NEW perm \in Perms, NEW u \in Users,
               NEW w \in BOOLEAN, CreateFile(c, p, perm, u, w)
        PROVE  FALSE
    <3>1. table' = table \/ \E g \in Fds : IsNext(g) /\ Opened(c, p, g, w)
      BY <2>7 DEF CreateFile, descriptors
    <3> QED
      BY <2>2, <3>1
  <2>8. ASSUME NEW c \in Clients, NEW p \in Paths, NEW w \in BOOLEAN, OpenFile(c, p, w) PROVE FALSE
    BY <2>2, <2>8 DEF OpenFile
  <2>9. ASSUME NEW p \in Paths
        PROVE  /\ ~CreateLink(p)
               /\ \A u \in Users : ~SetOwner(p, u)
               /\ \A size \in 0..MaxSize : ~ResizeFile(p, size)
               /\ \A perm \in Perms : ~SetMode(p, perm) /\ \A u \in Users : ~CreateDirectory(p, perm, u)
    BY DEF SetMode, CreateDirectory, CreateLink, SetOwner, ResizeFile, descriptors
  <2>10. ~RemoveOrRename /\ \A c \in Clients, end \in 0..MaxSize : ~WriteFile(c, end)
    BY DEF RemoveOrRename, WriteFile, descriptors
  <2> QED
    BY <2>3, <2>4, <2>5, <2>6, <2>7, <2>8, <2>9, <2>10 DEF Next
<1> QED
  BY <1>1, Invariance, PTL DEF Spec, OthersUntouched
------------------------------------------------------------------------------
\* A mode's type is one of three, and nothing has been asked of a file that is not there.
PermissionsAsAsked ==
  \A p \in Paths : files[p] # None => asked[p] \in {None, Reads(files[p].mode).modes}

Typed(mode) == mode \ ChmodBits \in {S_IFREG, S_IFDIR, S_IFLNK}

MInv ==
  /\ TypeOK /\ PermissionsAsAsked
  /\ \A p \in Paths : files[p] # None => Typed(files[p].mode)
  /\ \A p \in Paths : files[p] = None => asked[p] = None

\* The permissions of a file that is created or changed.
LEMMA PermissionsSet ==
  ASSUME NEW perm \in Perms
  PROVE  /\ Reads(NewMode(S_IFREG, MetadataToPosixMode([type |-> "File", modes |-> perm]))).modes
              = perm \ Umask
         /\ Reads(NewMode(S_IFDIR, MetadataToPosixMode([type |-> "Directory", modes |-> perm]))).modes
              = perm \ Umask
         /\ \A old : Reads(
                       ChangedMode(old, MetadataToPosixMode([type |-> "File", modes |-> perm]))).modes = perm
<1> DEFINE f == MetadataToPosixMode([type |-> "File", modes |-> perm])
           d == MetadataToPosixMode([type |-> "Directory", modes |-> perm])
<1>1. \A mode : Reads(mode).modes = mode \cap PermBits
  BY DEF Reads, PosixModeToMetadata
<1>2. perm \subseteq PermBits
  BY PermsAssumption
<1>3. PermBits \subseteq ChmodBits
  BY DEF PermBits, ChmodBits
<1>4. S_IFREG \cap ChmodBits = {} /\ S_IFDIR \cap ChmodBits = {}
  BY DEF S_IFREG, S_IFDIR, ChmodBits
<1>5. f = S_IFREG \cup perm /\ d = S_IFDIR \cup perm
  BY DEF MetadataToPosixMode, TypeBits
<1>6. f \cap ChmodBits = perm /\ d \cap ChmodBits = perm
  BY <1>2, <1>3, <1>4, <1>5
<1>7. NewMode(S_IFREG, f) \cap PermBits = perm \ Umask
  BY <1>2, <1>3, <1>4, <1>6 DEF NewMode
<1>8. NewMode(S_IFDIR, d) \cap PermBits = perm \ Umask
  BY <1>2, <1>3, <1>4, <1>6 DEF NewMode
<1>9. \A old : ChangedMode(old, f) \cap PermBits = perm
  BY <1>2, <1>3, <1>6 DEF ChangedMode
<1> QED
  BY <1>1, <1>7, <1>8, <1>9

\* Of a file that is no link, readMetadata and readDirectory see the same type.
LEMMA TypesAgree ==
  ASSUME NEW mode, Typed(mode), ~(S_IFLNK \subseteq mode)
  PROVE  Reads(mode).type = ListedType(mode)
<1> DEFINE type == mode \ ChmodBits
<1>1. 13 \notin ChmodBits /\ 14 \notin ChmodBits /\ 15 \notin ChmodBits
  BY DEF ChmodBits
<1>2. CASE type = S_IFREG
  <2>1. 15 \in mode /\ 15 \in type /\ 14 \notin type /\ 13 \notin type
    BY <1>2 DEF S_IFREG
  <2> QED
    BY <2>1, <1>2 DEF Reads, PosixModeToMetadata, ListedType, S_IFREG, S_IFDIR, S_IFLNK
<1>3. CASE type = S_IFDIR
  <2>1. 14 \in mode /\ 15 \notin mode
    BY <1>1, <1>3 DEF S_IFDIR
  <2> QED
    BY <2>1, <1>3 DEF Reads, PosixModeToMetadata, ListedType, S_IFREG, S_IFDIR
<1>4. CASE type = S_IFLNK
  BY <1>4
<1> QED
  BY <1>2, <1>3, <1>4 DEF Typed

\* The calls make and keep such modes.
LEMMA ModesTyped ==
  ASSUME NEW m
  PROVE  /\ Typed(NewMode(S_IFREG, m)) /\ Typed(NewMode(S_IFDIR, m)) /\ Typed(S_IFLNK \cup PermBits)
         /\ \A old : Typed(old) => Typed(ChangedMode(old, m))
<1>1. /\ S_IFREG \ ChmodBits = S_IFREG /\ S_IFDIR \ ChmodBits = S_IFDIR
      /\ S_IFLNK \ ChmodBits = S_IFLNK /\ PermBits \subseteq ChmodBits
  BY DEF S_IFREG, S_IFDIR, S_IFLNK, ChmodBits, PermBits
<1>2. NewMode(S_IFREG, m) \ ChmodBits = S_IFREG /\ NewMode(S_IFDIR, m) \ ChmodBits = S_IFDIR
  BY <1>1 DEF NewMode
<1>3. (S_IFLNK \cup PermBits) \ ChmodBits = S_IFLNK
  BY <1>1
<1>4. \A old : ChangedMode(old, m) \ ChmodBits = old \ ChmodBits
  BY DEF ChangedMode
<1> QED
  BY <1>2, <1>3, <1>4 DEF Typed

\* A call that makes the file at a path, and asks all of it or nothing.
LEMMA CreatedAsAsked ==
  ASSUME MInv, TypeOK', NEW p \in Paths, files[p] = None, NEW mode \in SUBSET (0..15),
         NEW owner \in Users \cup {Self}, Typed(mode),
         files' = [files EXCEPT ![p] = [mode |-> mode, owner |-> owner, size |-> 0]],
         asked' = asked \/ asked' = [asked EXCEPT ![p] = Reads(mode).modes]
  PROVE  MInv'
<1> USE DEF MInv, TypeOK
<1>1. asked[p] = None
  OBVIOUS
<1>2. files'[p] = [mode |-> mode, owner |-> owner, size |-> 0] /\ \A q \in Paths \ {p} : files'[q] = files[q]
  OBVIOUS
<1>3. files'[p] # None
  <2>1. 0 \in 0..MaxSize
    BY LimitsAssumption
  <2> QED
    BY <1>2, <2>1, FilesNotNone
<1>4. asked'[p] \in {None, Reads(files'[p].mode).modes}
  BY <1>1, <1>2
<1>5. \A q \in Paths \ {p} : asked'[q] = asked[q]
  OBVIOUS
<1>6. \A q \in Paths : files'[q] # None => Typed(files'[q].mode)
  BY <1>2
<1> QED
  BY <1>2, <1>3, <1>4, <1>5, <1>6 DEF PermissionsAsAsked

\* Every step keeps what is asked and what is there in agreement.
LEMMA StepMInv == IInv /\ MInv /\ TypeOK' /\ [Next]_vars => MInv'
<1> SUFFICES ASSUME IInv, MInv, TypeOK', [Next]_vars PROVE MInv'
  OBVIOUS
<1>1. ASSUME UNCHANGED <<files, asked>> PROVE MInv'
  BY <1>1 DEF MInv, PermissionsAsAsked
<1>2. ASSUME NEW c \in Clients, NEW p \in Paths, NEW perm \in Perms, NEW u \in Users,
             NEW w \in BOOLEAN, CreateFile(c, p, perm, u, w)
      PROVE  MInv'
  <2> DEFINE mode == NewMode(S_IFREG, MetadataToPosixMode([type |-> "File", modes |-> perm]))
  <2>1. mode \in SUBSET (0..15) /\ Typed(mode) /\ Reads(mode).modes = perm \ Umask
    BY ModeBits, ModesTyped, PermissionsSet
  <2>2. /\ files[p] = None
        /\ \/ /\ files' = [files EXCEPT ![p] = [mode |-> mode, owner |-> u, size |-> 0]]
              /\ asked' = [asked EXCEPT ![p] = perm \ Umask]
           \/ /\ files' = [files EXCEPT ![p] = [mode |-> mode, owner |-> Self, size |-> 0]]
              /\ asked' = asked
    BY <1>2 DEF CreateFile
  <2> HIDE DEF mode
  <2> QED
    BY <2>1, <2>2, CreatedAsAsked
<1>3. ASSUME NEW p \in Paths, NEW perm \in Perms, NEW u \in Users, CreateDirectory(p, perm, u)
      PROVE  MInv'
  <2> DEFINE mode == NewMode(S_IFDIR, MetadataToPosixMode([type |-> "Directory", modes |-> perm]))
  <2>1. mode \in SUBSET (0..15) /\ Typed(mode) /\ Reads(mode).modes = perm \ Umask
    BY ModeBits, ModesTyped, PermissionsSet
  <2>2. /\ files[p] = None
        /\ \/ /\ files' = [files EXCEPT ![p] = [mode |-> mode, owner |-> u, size |-> 0]]
              /\ asked' = [asked EXCEPT ![p] = perm \ Umask]
           \/ /\ files' = [files EXCEPT ![p] = [mode |-> mode, owner |-> Self, size |-> 0]]
              /\ asked' = asked
    BY <1>3 DEF CreateDirectory
  <2> HIDE DEF mode
  <2> QED
    BY <2>1, <2>2, CreatedAsAsked
<1>4. ASSUME NEW p \in Paths, CreateLink(p) PROVE MInv'
  <2>1. S_IFLNK \cup PermBits \in SUBSET (0..15) /\ Typed(S_IFLNK \cup PermBits)
    BY ModesTyped DEF S_IFLNK, PermBits
  <2>2. /\ files[p] = None /\ asked' = asked
        /\ files' = [files EXCEPT ![p] = [mode |-> S_IFLNK \cup PermBits, owner |-> Self, size |-> 0]]
    BY <1>4 DEF CreateLink
  <2> QED
    BY <2>1, <2>2, CreatedAsAsked
<1>5. ASSUME NEW p \in Paths, NEW u \in Users, SetOwner(p, u) PROVE MInv'
  <2>1. files[p] # None /\ files' = [files EXCEPT ![p].owner = u] /\ asked' = asked
    BY <1>5 DEF SetOwner
  <2>2. files[p] \in [mode : SUBSET (0..15), owner : Users \cup {Self}, size : 0..MaxSize]
    BY <2>1 DEF MInv, TypeOK
  <2>3. /\ files'[p].mode = files[p].mode
        /\ files'[p] \in [mode : SUBSET (0..15), owner : Users \cup {Self}, size : 0..MaxSize]
    BY <2>1, <2>2 DEF MInv, TypeOK
  <2>4. \A q \in Paths \ {p} : files'[q] = files[q] /\ asked'[q] = asked[q]
    BY <2>1 DEF MInv, TypeOK
  <2>5. files'[p] # None
    BY <2>3, NoneAssumption
  <2> QED
    BY <2>1, <2>3, <2>4, <2>5 DEF MInv, PermissionsAsAsked
<1>6. ASSUME NEW p \in Paths, NEW perm \in Perms, SetMode(p, perm) PROVE MInv'
  <2> DEFINE mode == ChangedMode(files[p].mode, MetadataToPosixMode([type |-> "File", modes |-> perm]))
  <2>1. /\ files[p] # None /\ files' = [files EXCEPT ![p].mode = mode]
        /\ asked' = [asked EXCEPT ![p] = perm]
    BY <1>6 DEF SetMode
  <2>2. files[p] \in [mode : SUBSET (0..15), owner : Users \cup {Self}, size : 0..MaxSize]
    BY <2>1 DEF MInv, TypeOK
  <2>3. mode \in SUBSET (0..15) /\ Reads(mode).modes = perm /\ Typed(mode)
    BY <2>1, <2>2, ModeBits, ModesTyped, PermissionsSet DEF MInv
  <2> HIDE DEF mode
  <2>4. /\ files'[p].mode = mode /\ asked'[p] = perm
        /\ files'[p] \in [mode : SUBSET (0..15), owner : Users \cup {Self}, size : 0..MaxSize]
    BY <2>1, <2>2, <2>3 DEF MInv, TypeOK
  <2>5. \A q \in Paths \ {p} : files'[q] = files[q] /\ asked'[q] = asked[q]
    BY <2>1 DEF MInv, TypeOK
  <2>6. files'[p] # None
    BY <2>4, NoneAssumption
  <2> QED
    BY <2>1, <2>3, <2>4, <2>5, <2>6 DEF MInv, PermissionsAsAsked
<1>7. ASSUME NEW p \in Paths, NEW size \in 0..MaxSize, files[p] # None, asked' = asked,
             files' = [files EXCEPT ![p] = [files[p] EXCEPT !.size = size]]
      PROVE  MInv'
  <2>1. files[p] \in [mode : SUBSET (0..15), owner : Users \cup {Self}, size : 0..MaxSize]
    BY <1>7 DEF MInv, TypeOK
  <2>2. files'[p].mode = files[p].mode
    BY <1>7, <2>1 DEF MInv, TypeOK
  <2>3. \A q \in Paths \ {p} : files'[q] = files[q]
    BY <1>7 DEF MInv, TypeOK
  <2>4. [files[p] EXCEPT !.size = size] \in [mode : SUBSET (0..15), owner : Users \cup {Self}, size : 0..MaxSize]
    BY <2>1
  <2>5. files'[p] # None
    BY <1>7, <2>4, NoneAssumption DEF MInv, TypeOK
  <2> QED
    BY <1>7, <2>2, <2>3, <2>5 DEF MInv, PermissionsAsAsked
<1>8. ASSUME NEW p \in Paths, NEW size \in 0..MaxSize, ResizeFile(p, size) PROVE MInv'
  BY <1>7, <1>8 DEF ResizeFile
<1>9. ASSUME NEW c \in Clients, NEW end \in 0..MaxSize, WriteFile(c, end) PROVE MInv'
  <2>1. PICK p \in wanted \cap Paths, size \in 0..MaxSize :
          files[p] # None /\ files' = [files EXCEPT ![p] = [files[p] EXCEPT !.size = size]]
    BY <1>9, WriteFileFiles
  <2> QED
    BY <1>7, <1>9, <2>1 DEF WriteFile
<1>10. ASSUME \/ \E c \in Clients : \/ CloseFile(c)
                                   \/ \E p \in Paths, w \in BOOLEAN : OpenFile(c, p, w)
              \/ RemoveOrRename \/ Destroy
              \/ \E fd \in Fds : ProgramOpens(fd) \/ ProgramCloses(fd)
              \/ UNCHANGED vars
       PROVE  UNCHANGED <<files, asked>>
  BY <1>10 DEF CloseFile, OpenFile, RemoveOrRename, Destroy, ProgramOpens, ProgramCloses, vars
<1> QED
  BY <1>1, <1>2, <1>3, <1>4, <1>5, <1>6, <1>8, <1>9, <1>10 DEF Next

\* Whoever creates, gives away or changes files, in whatever order and with whatever
\* failures, readMetadata tells each file's permissions as they were asked for, less the umask
\* that created it, and the type that readDirectory tells.
THEOREM MetadataStaysAsAsked == Spec => []MetadataAsAsked
<1>1. Init => MInv
  <2>1. Init => TypeOK
    BY InitIInv DEF IInv
  <2> QED
    BY <2>1 DEF Init, MInv, PermissionsAsAsked
<1>2. IInv => TypeOK
  BY DEF IInv
<1>3. MInv => MetadataAsAsked
  BY TypesAgree DEF MInv, PermissionsAsAsked, MetadataAsAsked, ReadMetadata, StatToMetadata, Reads, IsLink
<1> QED
  BY <1>1, <1>2, <1>3, StepMInv, Invariance, PTL DEF Spec

\* Giving a file to another owner changes nothing that readMetadata tells of any file.
OwnersUnread ==
  [][\A p, q \in Paths, u \in Users :
       SetOwner(p, u) /\ files[q] # None => ReadMetadata(q)' = ReadMetadata(q)]_vars

\* Whether setOwner did anything can never be read back: statToMetadata does not hand st_uid on.
THEOREM OwnersGoUnread == Spec => OwnersUnread
<1>1. ASSUME TypeOK, NEW p \in Paths, NEW q \in Paths, NEW u \in Users, SetOwner(p, u), files[q] # None
      PROVE  ReadMetadata(q)' = ReadMetadata(q)
  <2>1. files[q] \in [mode : SUBSET (0..15), owner : Users \cup {Self}, size : 0..MaxSize]
    BY <1>1 DEF TypeOK
  <2>2. files' = [files EXCEPT ![p].owner = u]
    BY <1>1 DEF SetOwner
  <2>3. files'[q].mode = files[q].mode
    BY <1>1, <2>1, <2>2 DEF TypeOK
  <2> QED
    BY <2>3 DEF ReadMetadata, StatToMetadata
<1>2. TypeOK =>
        [\A p, q \in Paths, u \in Users :
           SetOwner(p, u) /\ files[q] # None => ReadMetadata(q)' = ReadMetadata(q)]_vars
  BY <1>1
<1> QED
  BY <1>2, TypesKept, PTL DEF OwnersUnread
------------------------------------------------------------------------------
(* Which descriptor a handle leads to *)

\* A handle that leads to a descriptor leads to another one than it was given.
MissesItsOwn(c) ==
  phase = "up" /\ fh[c] # None /\ Reached(fh[c].fid) # -1 => Reached(fh[c].fid) # fds_[fh[c].fid]

\* openFile makes a fid of the vector's size after the push, and at() takes it for an index: no
\* caller ever reads or writes through the descriptor that was opened for it.
THEOREM HandlesMissTheirOwn == Spec => [](\A c \in Clients : MissesItsOwn(c))
<1>1. IInv => \A c \in Clients : MissesItsOwn(c)
  <2> SUFFICES ASSUME IInv, NEW c \in Clients, phase = "up", fh[c] # None, Reached(fh[c].fid) # -1,
                      Reached(fh[c].fid) = fds_[fh[c].fid]
               PROVE  FALSE
    BY DEF MissesItsOwn
  <2>1. fh[c].fid \in 1..Len(fds_) /\ Len(fds_) \in Nat
    BY DEF IInv, TypeOK, FidsApart
  <2>2. /\ fh[c].fid + 1 \in 1..Len(fds_)
        /\ fds_[fh[c].fid + 1] = fds_[fh[c].fid] /\ fds_[fh[c].fid + 1] # -1
    BY <2>1 DEF Reached, Accepts
  <2>3. fh[c].fid + 1 = fh[c].fid
    BY <2>1, <2>2 DEF IInv, VectorOwnsItsDescriptors
  <2> QED
    BY <2>1, <2>3
<1> QED
  BY <1>1, Invariance, PTL

\* The vector begins with fd, descriptor g is open on p, and no handle is accepted.
PiledUp(fd, g, p) ==
  /\ fds_ # <<>> /\ fds_[1] = fd /\ table[g] = p
  /\ \A c \in Clients : fh[c] # None => ~Accepts(fh[c].fid)

PiledUntilTheEnd(fd, g, p) == phase = "up" => PiledUp(fd, g, p)

\* fds_.at(0) is asked of every handle and written by none.
LEMMA PiledStep ==
  ASSUME IInv, [Next]_vars, NEW fd \in Fds \ {0}, NEW g \in Fds, NEW p \in Paths,
         PiledUntilTheEnd(fd, g, p)
  PROVE  PiledUntilTheEnd(fd, g, p)'
<1> SUFFICES ASSUME phase' = "up" PROVE PiledUp(fd, g, p)'
  BY DEF PiledUntilTheEnd
<1>1. phase = "up"
  <2>1. ASSUME NEW c \in Clients, NEW q \in Paths, NEW reqWrite \in BOOLEAN,
               \/ OpenFile(c, q, reqWrite)
               \/ \E perm \in Perms, u \in Users : CreateFile(c, q, perm, u, reqWrite)
        PROVE  phase = "up"
    BY <2>1, ZenonT(60) DEF OpenFile, CreateFile, Asks
  <2>2. ASSUME NEW c \in Clients, CloseFile(c) \/ \E end \in 0..MaxSize : WriteFile(c, end)
        PROVE  phase = "up"
    BY <2>2, ZenonT(60) DEF CloseFile, WriteFile
  <2>3. ASSUME NEW q \in Paths,
               \/ \E perm \in Perms : SetMode(q, perm) \/ \E u \in Users : CreateDirectory(q, perm, u)
               \/ CreateLink(q) \/ \E u \in Users : SetOwner(q, u)
               \/ \E size \in 0..MaxSize : ResizeFile(q, size)
        PROVE  phase = "up"
    BY <2>3, ZenonT(60) DEF SetMode, CreateDirectory, CreateLink, SetOwner, ResizeFile
  <2>4. CASE \/ RemoveOrRename \/ Destroy \/ UNCHANGED vars
             \/ \E h \in Fds : ProgramOpens(h) \/ ProgramCloses(h)
    BY <2>4, ZenonT(60) DEF RemoveOrRename, Destroy, ProgramOpens, ProgramCloses, vars
  <2> QED
    BY <2>1, <2>2, <2>3, <2>4, ZenonT(60) DEF Next
<1>2. PiledUp(fd, g, p) /\ fds_ \in Seq(Fds \cup {-1}) /\ table \in [Fds -> Paths \cup {Other, None}]
  BY <1>1 DEF PiledUntilTheEnd, IInv, TypeOK
<1>3. \A fid : ~Accepts(fid) /\ Reached(fid) = -1
  BY <1>2 DEF PiledUp, Accepts, Reached
<1>4. ASSUME fds_' # <<>>, fds_'[1] = fd, table'[g] = p
      PROVE  PiledUp(fd, g, p)'
  BY <1>4 DEF PiledUp, Accepts
<1>5. ASSUME NEW c \in Clients, NEW q \in Paths, NEW h \in Fds, NEW reqWrite \in BOOLEAN, IsNext(h),
             Opened(c, q, h, reqWrite)
      PROVE  PiledUp(fd, g, p)'
  <2>1. fds_' # <<>> /\ fds_'[1] = fd
    BY <1>2, <1>5 DEF Opened, PiledUp
  <2>2. table'[g] = p
    BY <1>2, <1>5, NamesAssumption DEF Opened, PiledUp, IsNext
  <2> QED
    BY <1>4, <2>1, <2>2
<1>6. CASE fds_' = fds_ /\ table' = table
  BY <1>2, <1>4, <1>6 DEF PiledUp
<1>7. ASSUME NEW c \in Clients, CloseFile(c)
      PROVE  PiledUp(fd, g, p)'
  <2>1. -1 \notin Fds
    BY DEF Fds
  <2>2. fds_' = fds_ /\ table'[g] = table[g]
    BY <1>3, <1>7, <2>1 DEF CloseFile
  <2> QED
    BY <1>2, <1>4, <2>2 DEF PiledUp
<1>8. ASSUME NEW h \in Fds, ProgramOpens(h) \/ ProgramCloses(h)
      PROVE  PiledUp(fd, g, p)'
  <2>1. fds_' = fds_ /\ table'[g] = table[g]
    BY <1>2, <1>8, NamesAssumption DEF ProgramOpens, ProgramCloses, IsNext, PiledUp
  <2> QED
    BY <1>2, <1>4, <2>1 DEF PiledUp
<1>9. CASE \E c \in Clients, q \in Paths, reqWrite \in BOOLEAN :
             \/ OpenFile(c, q, reqWrite)
             \/ \E perm \in Perms, u \in Users : CreateFile(c, q, perm, u, reqWrite)
  <2>1. PICK c \in Clients, q \in Paths, reqWrite \in BOOLEAN :
          \/ OpenFile(c, q, reqWrite)
          \/ \E perm \in Perms, u \in Users : CreateFile(c, q, perm, u, reqWrite)
    BY <1>9
  <2>2. CASE OpenFile(c, q, reqWrite)
    BY <1>5, <2>2 DEF OpenFile
  <2>3. ASSUME NEW perm \in Perms, NEW u \in Users, CreateFile(c, q, perm, u, reqWrite)
        PROVE  PiledUp(fd, g, p)'
    <3>1. PICK h \in Fds : IsNext(h) /\ (Opened(c, q, h, reqWrite) \/ UNCHANGED descriptors)
      BY <2>3 DEF CreateFile
    <3> QED
      BY <1>5, <1>6, <3>1 DEF descriptors
  <2> QED
    BY <2>1, <2>2, <2>3
<1>10. CASE UNCHANGED vars
  BY <1>6, <1>10 DEF vars, descriptors
<1> QED
  BY <1>6, <1>7, <1>8, <1>9, <1>10
  DEF Next, WriteFile, SetMode, CreateDirectory, CreateLink, SetOwner, ResizeFile, RemoveOrRename,
      Destroy, descriptors

\* The rule for a handle that is out of range stands on the wrong side of a parenthesis: once a
\* file was opened on a descriptor that is not 0, as any is while standard input is open, no
\* closeFile closes anything, and what is open stays open until the class is destroyed.
THEOREM DescriptorsPileUp ==
  ASSUME NEW fd \in Fds \ {0}, NEW g \in Fds, NEW p \in Paths
  PROVE  Spec => [](PiledUp(fd, g, p) => []PiledUntilTheEnd(fd, g, p))
<1>1. PiledUp(fd, g, p) => PiledUntilTheEnd(fd, g, p)
  BY DEF PiledUntilTheEnd
<1>2. IInv /\ [Next]_vars /\ PiledUntilTheEnd(fd, g, p) => PiledUntilTheEnd(fd, g, p)'
  BY PiledStep
<1> QED
  BY <1>1, <1>2, Invariance, PTL DEF Spec
==============================================================================
