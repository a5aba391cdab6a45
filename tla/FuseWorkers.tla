------------------------------ MODULE FuseWorkers -------------------------------
(* The calls FuseBridge makes of one ProcessFileSystem from the worker threads of *)
(* fuse_main, which serves requests in parallel unless it is told not to; neither *)
(* the bridge nor the file system has a lock.                                     *)
(*                                                                                *)
(* ProcessFileSystem.tla has each call as one step; here genHandle and            *)
(* releaseHandle are taken apart into their accesses to handles_.  While          *)
(* fuse_main runs the program registers nothing, so a request to open carries the *)
(* file its path leads to, and the ways not to find one are left out.  readFile   *)
(* and writeFile look into the slot of their handle and change nothing: what they *)
(* would reach is what OwnView is about.                                          *)
EXTENDS Integers, Sequences, FiniteSets

CONSTANTS
  Threads,      \* the worker threads
  Descriptors,  \* the applications' open files: one fuse_file_info each
  Files,        \* the ProcessFile objects
  MaxSlots,     \* bound: no open is asked for that might grow handles_ beyond it
  None

ASSUME SlotsAssumption == MaxSlots \in Nat
ASSUME NoneAssumption == None \notin Files \cup Descriptors \cup [fid : Nat, file : Files]

VARIABLES
  handles_,  \* the file of the entry each slot points to, None in a free slot
  listed,    \* Entry::handles of each file's entry, as the set of its elements
  fi,        \* fi->fh of each descriptor: the fid and file of its FileHandle, or None
  pc,        \* where each thread is
  job,       \* the descriptor and file of its request, and genHandle's i or the fid
  status,    \* "up", or "undefined" after a race on the memory of a vector
  overlapped \* whether two threads have ever been in genHandle at once

vars == <<handles_, listed, fi, pc, job, status, overlapped>>
------------------------------------------------------------------------------
Steps == {"scan", "take", "takeList", "push", "pushList", "pushReturn", "open",
          "close", "release", "free"}

Busy == {t \in Threads : pc[t] # "idle"}

\* The requests that are being served on a descriptor.
Serving(d) == {t \in Busy : job[t].desc = d}

\* The threads in genHandle.
Generating == {t \in Busy : pc[t] \in {"scan", "take", "takeList", "push", "pushList", "pushReturn"}}

\* The threads that have yet to add a slot, if they will.
MayGrow == {t \in Busy : pc[t] \in {"scan", "push"}}

Goto(t, where) == pc' = [pc EXCEPT ![t] = where]

NoJob == [desc |-> None, file |-> None, i |-> 0]

\* The end of a call: the descriptor has the fid it was opened with, or none.
Answer(t, result) ==
  /\ fi' = [fi EXCEPT ![job[t].desc] = result]
  /\ job' = [job EXCEPT ![t] = NoJob]
  /\ Goto(t, "idle")

SlotOf(t) == job[t].i + 1
------------------------------------------------------------------------------
(* openFile: getEntry, genHandle, ProcessFile::open *)

OpenFile(t, d, f) ==
  /\ status = "up" /\ pc[t] = "idle"
  /\ fi[d] = None /\ Serving(d) = {}
  /\ Len(handles_) + Cardinality(MayGrow) < MaxSlots
  /\ job' = [job EXCEPT ![t] = [desc |-> d, file |-> f, i |-> 0]]
  /\ Goto(t, "scan")
  /\ overlapped' = (overlapped \/ Generating # {})
  /\ UNCHANGED <<handles_, listed, fi, status>>

\* A scan that takes the slots in use for the free ones.
ScanInverted(t) ==
  /\ status = "up" /\ pc[t] = "scan"
  /\ IF SlotOf(t) > Len(handles_) THEN Goto(t, "push") /\ UNCHANGED job
     ELSE IF handles_[SlotOf(t)] # None THEN Goto(t, "take") /\ UNCHANGED job
     ELSE job' = [job EXCEPT ![t].i = @ + 1] /\ UNCHANGED pc
  /\ UNCHANGED <<handles_, listed, fi, status, overlapped>>

\* A scan that looks at the same slot again and again.
ScanStays(t) ==
  /\ status = "up" /\ pc[t] = "scan"
  /\ Goto(t, IF SlotOf(t) > Len(handles_) THEN "push"
             ELSE IF handles_[SlotOf(t)] = None THEN "take" ELSE "scan")
  /\ UNCHANGED <<handles_, listed, fi, job, status, overlapped>>

\* One turn of genHandle's loop.
Scan(t) ==
  /\ status = "up" /\ pc[t] = "scan"
  /\ \/ /\ SlotOf(t) > Len(handles_)
        /\ Goto(t, "push") /\ UNCHANGED job
     \/ /\ SlotOf(t) <= Len(handles_) /\ handles_[SlotOf(t)] = None
        /\ Goto(t, "take") /\ UNCHANGED job
     \/ /\ SlotOf(t) <= Len(handles_) /\ handles_[SlotOf(t)] # None
        /\ job' = [job EXCEPT ![t].i = @ + 1] /\ UNCHANGED pc
  /\ UNCHANGED <<handles_, listed, fi, status, overlapped>>

\* handles_[i] = e, whatever another thread has put there since.
Take(t) ==
  /\ status = "up" /\ pc[t] = "take"
  /\ handles_' = [handles_ EXCEPT ![SlotOf(t)] = job[t].file]
  /\ Goto(t, "takeList")
  /\ UNCHANGED <<listed, fi, job, status, overlapped>>

\* The push_back on the entry's vector, while another thread goes through that vector or
\* pushes on it too.
ListRace(t) ==
  /\ \E u \in Busy \ {t} :
       \/ pc[u] \in {"takeList", "pushList"} /\ job[u].file = job[t].file
       \/ pc[u] = "release" /\ handles_[SlotOf(u)] = job[t].file
  /\ status' = "undefined"
  /\ UNCHANGED <<listed, pc>>

TakeList(t) ==
  /\ status = "up" /\ pc[t] = "takeList"
  /\ \/ /\ listed' = [listed EXCEPT ![job[t].file] = @ \cup {job[t].i}]
        /\ Goto(t, "open")
        /\ UNCHANGED status
     \/ ListRace(t)
  /\ UNCHANGED <<handles_, fi, job, overlapped>>

\* push_back moves the elements: a thread that is using them meanwhile, or pushes too,
\* may do so in vain or on freed memory.
Push(t) ==
  /\ status = "up" /\ pc[t] = "push"
  /\ \/ /\ handles_' = Append(handles_, job[t].file)
        /\ Goto(t, "pushList")
        /\ UNCHANGED status
     \/ /\ Busy # {t}
        /\ status' = "undefined"
        /\ UNCHANGED <<handles_, pc>>
  /\ UNCHANGED <<listed, fi, job, overlapped>>

\* The size of the table is asked for again, and again for the result.
PushList(t) ==
  /\ status = "up" /\ pc[t] = "pushList"
  /\ \/ /\ listed' = [listed EXCEPT ![job[t].file] = @ \cup {Len(handles_) - 1}]
        /\ Goto(t, "pushReturn")
        /\ UNCHANGED status
     \/ ListRace(t)
  /\ UNCHANGED <<handles_, fi, job, overlapped>>

\* A result one below the slot that was added.
PushReturnBelow(t) ==
  /\ status = "up" /\ pc[t] = "pushReturn"
  /\ job' = [job EXCEPT ![t].i = Len(handles_) - 2]
  /\ Goto(t, "open")
  /\ UNCHANGED <<handles_, listed, fi, status, overlapped>>

\* A result that is the size of the table.
PushReturnSize(t) ==
  /\ status = "up" /\ pc[t] = "pushReturn"
  /\ job' = [job EXCEPT ![t].i = Len(handles_)]
  /\ Goto(t, "open")
  /\ UNCHANGED <<handles_, listed, fi, status, overlapped>>

PushReturn(t) ==
  /\ status = "up" /\ pc[t] = "pushReturn"
  /\ job' = [job EXCEPT ![t].i = Len(handles_) - 1]
  /\ Goto(t, "open")
  /\ UNCHANGED <<handles_, listed, fi, status, overlapped>>

\* The file's own open(): if it fails the handle is given back.
Open(t) ==
  /\ status = "up" /\ pc[t] = "open"
  /\ \/ Answer(t, [fid |-> job[t].i, file |-> job[t].file])
     \/ Goto(t, "release") /\ UNCHANGED <<fi, job>>
  /\ UNCHANGED <<handles_, listed, status, overlapped>>
------------------------------------------------------------------------------
(* closeFile: ProcessFile::close, releaseHandle *)

\* FUSE releases a descriptor once, when nothing else is asked of it any more.
CloseFile(t, d) ==
  /\ status = "up" /\ pc[t] = "idle"
  /\ fi[d] # None /\ Serving(d) = {}
  /\ job' = [job EXCEPT ![t] = [desc |-> d, file |-> fi[d].file, i |-> fi[d].fid]]
  /\ Goto(t, "close")
  /\ UNCHANGED <<handles_, listed, fi, status, overlapped>>

\* The slot is looked at before the file's close() is called, for what that returns.
Close(t) ==
  /\ status = "up" /\ pc[t] = "close"
  /\ \/ handles_[SlotOf(t)] = None /\ Answer(t, None)
     \/ handles_[SlotOf(t)] # None /\ Goto(t, "release") /\ UNCHANGED <<fi, job>>
  /\ UNCHANGED <<handles_, listed, status, overlapped>>

\* A release that only looks at the slot, taking it for released already.
ReleaseKeeps(t) ==
  /\ status = "up" /\ pc[t] = "release"
  /\ Answer(t, None)
  /\ UNCHANGED <<handles_, listed, status, overlapped>>

\* releaseHandle looks at the slot again, and goes by the entry it finds there.
Release(t) ==
  /\ status = "up" /\ pc[t] = "release"
  /\ \/ /\ handles_[SlotOf(t)] = None
        /\ Answer(t, None)
        /\ UNCHANGED listed
     \/ /\ handles_[SlotOf(t)] # None
        /\ LET e == handles_[SlotOf(t)] IN
             listed' = [listed EXCEPT ![e] = IF job[t].i \in @ THEN (@ \ {job[t].i}) \cup {-1} ELSE @]
        /\ Goto(t, "free")
        /\ UNCHANGED <<fi, job>>
  /\ UNCHANGED <<handles_, status, overlapped>>

Free(t) ==
  /\ status = "up" /\ pc[t] = "free"
  /\ handles_' = [handles_ EXCEPT ![SlotOf(t)] = None]
  /\ Answer(t, None)
  /\ UNCHANGED <<listed, status, overlapped>>
------------------------------------------------------------------------------
Work(t) == \/ Scan(t) \/ Take(t) \/ TakeList(t) \/ Push(t) \/ PushList(t)
           \/ PushReturn(t) \/ Open(t) \/ Close(t) \/ Release(t) \/ Free(t)

Init ==
  /\ handles_ = <<>>
  /\ listed = [f \in Files |-> {}]
  /\ fi = [d \in Descriptors |-> None]
  /\ pc = [t \in Threads |-> "idle"]
  /\ job = [t \in Threads |-> NoJob]
  /\ status = "up"
  /\ overlapped = FALSE

Next == \E t \in Threads : \/ Work(t)
                           \/ \E d \in Descriptors : \/ CloseFile(t, d)
                                                     \/ \E f \in Files : OpenFile(t, d, f)

Spec == Init /\ [][Next]_vars

\* A thread that has taken a request goes on with it.
FairSpec == Spec /\ \A t \in Threads : WF_vars(Work(t))
------------------------------------------------------------------------------
(* Properties *)

Used == {i \in 0..(Len(handles_) - 1) : handles_[i + 1] # None}

\* Every variable has its type.
TypeOK ==
  /\ handles_ \in Seq(Files \cup {None})
  /\ listed \in [Files -> SUBSET (Nat \cup {-1})]
  /\ fi \in [Descriptors -> [fid : Nat, file : Files] \cup {None}]
  /\ pc \in [Threads -> Steps \cup {"idle"}]
  /\ job \in [Threads -> [desc : Descriptors \cup {None}, file : Files \cup {None}, i : Nat]]
  /\ status \in {"up", "undefined"}
  /\ overlapped \in BOOLEAN

\* ProcessFile.hpp:19-20: "each user of a file having its own 'view' of the file contents",
\* which the file tells by the handle: no two open descriptors have the same fid, and the
\* fid of each leads to the file it was opened on.
OwnView ==
  /\ \A d \in Descriptors : fi[d] # None /\ Serving(d) = {} => handles_[fi[d].fid + 1] = fi[d].file
  /\ \A c, d \in Descriptors : fi[c] # None /\ fi[d] # None /\ c # d => fi[c].fid # fi[d].fid

\* As long as no vector moved under a thread's hands, it takes two opens at once to break
\* it: closes may run beside an open and beside each other, and the scan may meet slots as
\* they come free.
OwnViewUnlessOverlapped == status = "up" /\ ~overlapped => OwnView

\* FuseBridge.cpp:102: "release an open file (1:1 mapping to open())": when everything that
\* was opened has been released, no slot of the table is in use and no entry lists one,
\* unless two opens ran at once.
AllReleased ==
  status = "up" /\ ~overlapped /\ Busy = {} /\ (\A d \in Descriptors : fi[d] = None) =>
    Used = {} /\ \A f \in Files : listed[f] \subseteq {-1}

\* Whatever the threads do, the fid of an open descriptor is the number of a slot: the
\* subscript that closeFile does not check is in range.
FidsInTable == \A d \in Descriptors : fi[d] # None => fi[d].fid < Len(handles_)

\* Every request is answered, however the other threads fill and free the table during the
\* scan, unless the table's memory is lost.
RequestsAnswered ==
  \A t \in Threads : pc[t] # "idle" ~> pc[t] = "idle" \/ status = "undefined"
==============================================================================
