------------------------------ MODULE PosixUtils -------------------------------
(* PosixUtils: what it makes of modes, stat structures, return codes and errno.  *)
(* A mode_t is the set of the numbers of its bits, so that (mode & M) == M is    *)
(* M \subseteq mode, and the nine flags of Metadata::Modes are the set of the    *)
(* permission bits they stand for.                                               *)
EXTENDS Integers

PermBits == 0..8                \* S_IXOTH to S_IRUSR
ChmodBits == 0..11              \* those, S_ISVTX, S_ISGID and S_ISUID
S_IFREG == {15}
S_IFDIR == {14}
S_IFLNK == {15, 13}

Metadata == [type : {"Directory", "Symlink", "File", "KeyValueFile", "Unknown"},
             modes : SUBSET PermBits]
------------------------------------------------------------------------------
\* A conversion that takes the sticky bits for permissions.
PosixModeToMetadataSticky(mode, type) ==
  [type |-> IF S_IFREG \subseteq mode THEN "File"
            ELSE IF S_IFDIR \subseteq mode THEN "Directory" ELSE type,
   modes |-> mode \cap ChmodBits]

\* md.type() keeps its value where no case applies.
PosixModeToMetadata(mode, type) ==
  [type |-> IF S_IFREG \subseteq mode THEN "File"
            ELSE IF S_IFDIR \subseteq mode THEN "Directory"
            ELSE IF S_IFLNK \subseteq mode THEN "Symlink" ELSE type,
   modes |-> mode \cap PermBits]

\* The uid of Metadata that nobody has filled in.
NoUid == ""

\* md.Clear() comes first, which makes the type the default one and leaves no uid: st_uid is
\* not handed on, and neither is st_gid.
StatToMetadata(s) ==
  LET md == PosixModeToMetadata(s.mode, "File") IN
  [type |-> md.type, modes |-> md.modes, uid |-> NoUid]

TypeBits(type) ==
  CASE type \in {"File", "KeyValueFile"} -> S_IFREG
    [] type = "Directory" -> S_IFDIR
    [] type = "Symlink" -> S_IFLNK
    [] OTHER -> {}

\* A conversion that forgets what others may do.
MetadataToPosixModeShort(md) == TypeBits(md.type) \cup (md.modes \ 0..2)

MetadataToPosixMode(md) == TypeBits(md.type) \cup md.modes

\* memset() comes first, and nothing fills in st_uid: it is root's.
MetadataToStat(md) == [mode |-> MetadataToPosixMode(md), uid |-> 0]
------------------------------------------------------------------------------
RetCodeToErrno(rc) ==
  CASE rc = "NoData" -> "ENODATA"
    [] rc = "NoSuchPath" -> "ENOENT"
    [] rc \in {"InvalidPath", "InvalidData"} -> "EINVAL"
    [] rc = "OutOfRange" -> "ERANGE"
    [] rc = "MemoryError" -> "EFAULT"
    [] OTHER -> "EPERM"

ErrnoToRetCode(err) ==
  CASE err = "ENODATA" -> "NoData"
    [] err = "ENOENT" -> "NoSuchPath"
    [] err = "EINVAL" -> "InvalidPath"
    [] err = "ERANGE" -> "OutOfRange"
    [] err = "EFAULT" -> "MemoryError"
    [] OTHER -> "InvalidPermissions"
==============================================================================
