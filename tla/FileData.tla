------------------------------- MODULE FileData --------------------------------
(* What an application gets of a file: FuseBridge::readFile and readSymlink over *)
(* the calls of the file systems that they hand on to.                           *)
(*                                                                               *)
(* The file system gets a vector to put the bytes into, and answers with what it *)
(* makes of the vector, with a number of bytes and with a return code.  An       *)
(* application gets a return code and, in memory of its own, bytes.              *)
EXTENDS PosixUtils, Sequences

Answers == [rc : STRING, data : Seq(0..255), processed : Nat]

Least(a, b) == IF a < b THEN a ELSE b
------------------------------------------------------------------------------
(* The file systems *)

\* pread() reads as many bytes as the vector has, at most, and puts them into it.
PosixReadFile(content, data, offset) ==
  LET left == IF offset < Len(content) THEN Len(content) - offset ELSE 0
      n == Least(Len(data), left)
  IN [rc |-> "Success", processed |-> n,
      data |-> [i \in 1..Len(data) |-> IF i <= n THEN content[offset + i] ELSE data[i]]]

\* ProtoProcessFile: the message replaces what is in the vector, whatever size that has.
ProtoRead(message, data, offset) ==
  IF offset # 0 THEN [rc |-> "NotSupported", processed |-> 0, data |-> data]
  ELSE [rc |-> "Success", processed |-> Len(message), data |-> message]

\* TimeProcessFile: so does the time, and wherever the read begins.
TimeRead(ctime, data, offset) == [rc |-> "Success", processed |-> Len(ctime), data |-> ctime]

\* readlink() writes behind the end of an empty string, whose length stays 0; an empty string
\* does not begin with the root's path, if that has any length.
PosixReadLink(rootPath_) ==
  [rc |-> IF rootPath_ = <<>> THEN "Success" ELSE "MalformedLink", link |-> <<>>]
------------------------------------------------------------------------------
(* FuseBridge *)

\* reserve() makes room, and leaves the size of the vector that the file system gets at 0.
ReadVector(memSize) == <<>>

\* resize(): bytes that are new are 0.
Resized(data, n) == [i \in 1..n |-> IF i <= Len(data) THEN data[i] ELSE 0]

\* Of the bytes that were processed the application gets what it has room for.
BridgeReadFile(answer, memSize) ==
  IF answer.rc # "Success" THEN [ret |-> RetCodeToErrno(answer.rc), mem |-> <<>>]
  ELSE [ret |-> "0", mem |-> Resized(answer.data, Least(answer.processed, memSize))]

\* The file system's return code is not looked at.  Bytes that are not written, and the zero
\* that is to end the name among them, are what they were in the application's memory.
BridgeReadSymlink(answer, mem) ==
  IF Len(answer.link) >= Len(mem) THEN [ret |-> "ENAMETOOLONG", mem |-> mem]
  ELSE [ret |-> "0",
        mem |-> [i \in 1..Len(mem) |-> IF i <= Len(answer.link) THEN answer.link[i] ELSE mem[i]]]
==============================================================================
