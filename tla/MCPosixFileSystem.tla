--------------------------- MODULE MCPosixFileSystem ---------------------------
(* A small process for PosixFileSystem. *)
EXTENDS PosixFileSystem, TLC

\* A mode of which a usual umask takes a bit away.
OnePerm == {{8, 7, 2, 1}}
GroupWrite == {4, 1}

\* Neither callers nor paths differ, and no property is one of liveness.
Alike == Permutations(Clients) \cup Permutations(Paths)
==============================================================================
