--------------------------- MODULE FuseBridgeProofs ----------------------------
(* Theorems about FileData and FuseBridge. *)
EXTENDS FuseBridge, FileData, SequenceTheorems, TLAPS

\* A function on 1..n is a sequence of n.
LEMMA CountedSeq ==
  ASSUME NEW n \in Nat, NEW S, NEW f \in [1..n -> S]
  PROVE  f \in Seq(S) /\ Len(f) = n
<1>1. f \in Seq(S)
  BY SeqDef
<1>2. Len(f) \in Nat /\ 1..Len(f) = 1..n
  BY <1>1, LenProperties
<1>3. \A m \in Nat : 1..m = 1..n => m = n
  <2> SUFFICES ASSUME NEW m \in Nat, m # n PROVE 1..m # 1..n
    OBVIOUS
  <2>1. CASE m < n
    <3>1. n \in 1..n /\ n \notin 1..m
      BY <2>1
    <3> QED
      BY <3>1
  <2>2. CASE n < m
    <3>1. m \in 1..m /\ m \notin 1..n
      BY <2>2
    <3> QED
      BY <3>1
  <2> QED
    BY <2>1, <2>2
<1> QED
  BY <1>1, <1>2, <1>3

\* What resize() leaves.
LEMMA ResizedSeq ==
  ASSUME NEW data \in Seq(0..255), NEW n \in Nat
  PROVE  /\ Resized(data, n) \in Seq(0..255) /\ Len(Resized(data, n)) = n
         /\ n = 0 => Resized(data, n) = <<>>
         /\ n <= Len(data) => Resized(data, n) = SubSeq(data, 1, n)
<1>1. ASSUME NEW i \in 1..n PROVE (IF i <= Len(data) THEN data[i] ELSE 0) \in 0..255
  <2>1. CASE i <= Len(data)
    <3>1. i \in 1..Len(data)
      BY <2>1, LenProperties
    <3> QED
      BY <2>1, <3>1, ElementOfSeq
  <2> QED
    BY <2>1
<1>2. Resized(data, n) \in [1..n -> 0..255]
  BY <1>1 DEF Resized
<1>3. Resized(data, n) \in Seq(0..255) /\ Len(Resized(data, n)) = n
  BY <1>2, CountedSeq
<1>4. n = 0 => Resized(data, n) = <<>>
  BY <1>3, EmptySeq
<1>5. n <= Len(data) => Resized(data, n) = SubSeq(data, 1, n)
  BY DEF Resized
<1> QED
  BY <1>3, <1>4, <1>5

\* The application gets no more bytes than it has room for, and none that the file system did
\* not count, whatever a file system does with the vector.
THEOREM ReadsFit ==
  ASSUME NEW answer \in Answers, NEW memSize \in Nat
  PROVE  /\ BridgeReadFile(answer, memSize).mem \in Seq(0..255)
         /\ Len(BridgeReadFile(answer, memSize).mem) <= memSize
         /\ Len(BridgeReadFile(answer, memSize).mem) <= answer.processed
<1> DEFINE n == Least(answer.processed, memSize)
<1>1. answer.processed \in Nat /\ answer.data \in Seq(0..255)
  BY DEF Answers
<1>2. n \in Nat /\ n <= memSize /\ n <= answer.processed
  BY <1>1 DEF Least
<1>3. CASE answer.rc # "Success"
  <2>1. BridgeReadFile(answer, memSize).mem = <<>>
    BY <1>3 DEF BridgeReadFile
  <2> QED
    BY <1>1, <2>1, EmptySeq
<1>4. CASE answer.rc = "Success"
  <2>1. BridgeReadFile(answer, memSize).mem = Resized(answer.data, n)
    BY <1>4 DEF BridgeReadFile
  <2> HIDE DEF n
  <2>2. Resized(answer.data, n) \in Seq(0..255) /\ Len(Resized(answer.data, n)) = n
    BY <1>1, <1>2, ResizedSeq
  <2> QED
    BY <1>1, <1>2, <2>1, <2>2
<1> QED
  BY <1>3, <1>4

\* ProcessFile.hpp:59 says of the vector that it is "The buffer to store the data in + amount of
\* data to read": readFile's has the size 0, and of a PosixFileSystem's files applications never
\* read a byte, but are told that each is at its end.
THEOREM PosixFilesReadEmpty ==
  ASSUME NEW content \in Seq(0..255), NEW offset \in Nat, NEW memSize \in Nat
  PROVE  BridgeReadFile(PosixReadFile(content, ReadVector(memSize), offset), memSize)
           = [ret |-> "0", mem |-> <<>>]
<1> DEFINE answer == PosixReadFile(content, ReadVector(memSize), offset)
<1>1. answer.rc = "Success" /\ answer.processed = 0
  BY DEF PosixReadFile, ReadVector, Least
<1>2. answer.data \in Seq(0..255)
  <2>1. answer.data \in [1..0 -> 0..255]
    BY DEF PosixReadFile, ReadVector, Least
  <2> HIDE DEF answer
  <2> QED
    BY <2>1, CountedSeq
<1>3. Least(0, memSize) = 0
  BY DEF Least
<1> HIDE DEF answer
<1>4. Resized(answer.data, 0) = <<>>
  BY <1>2, ResizedSeq
<1>5. BridgeReadFile(answer, memSize)
        = [ret |-> "0", mem |-> Resized(answer.data, Least(answer.processed, memSize))]
  BY <1>1 DEF BridgeReadFile
<1>6. BridgeReadFile(answer, memSize) = [ret |-> "0", mem |-> <<>>]
  BY <1>1, <1>3, <1>4, <1>5, Zenon
<1> QED
  BY <1>6 DEF answer

\* Who has room for less than the message gets its beginning and cannot get the rest: a read
\* that goes on where the first has ended is refused.
THEOREM LongMessagesCut ==
  ASSUME NEW message \in Seq(0..255), NEW memSize \in Nat
  PROVE  /\ BridgeReadFile(ProtoRead(message, ReadVector(memSize), 0), memSize)
              = [ret |-> "0", mem |-> SubSeq(message, 1, Least(Len(message), memSize))]
         /\ \A offset \in Nat \ {0} :
              BridgeReadFile(ProtoRead(message, ReadVector(memSize), offset), memSize)
                = [ret |-> "EPERM", mem |-> <<>>]
<1> DEFINE n == Least(Len(message), memSize)
<1>1. n \in Nat /\ n <= Len(message)
  BY DEF Least
<1>2. Resized(message, n) = SubSeq(message, 1, n)
  BY <1>1, ResizedSeq
<1>3. BridgeReadFile(ProtoRead(message, ReadVector(memSize), 0), memSize)
        = [ret |-> "0", mem |-> SubSeq(message, 1, n)]
  BY <1>2 DEF BridgeReadFile, ProtoRead
<1>4. ASSUME NEW offset \in Nat \ {0}
      PROVE  BridgeReadFile(ProtoRead(message, ReadVector(memSize), offset), memSize)
               = [ret |-> "EPERM", mem |-> <<>>]
  BY DEF BridgeReadFile, ProtoRead, RetCodeToErrno
<1> QED
  BY <1>3, <1>4

\* A program that reads on until it gets nothing never comes to the time's end.
THEOREM TimeNeverEnds ==
  ASSUME NEW ctime \in Seq(0..255), ctime # <<>>, NEW memSize \in Nat \ {0}, NEW offset \in Nat
  PROVE  BridgeReadFile(TimeRead(ctime, ReadVector(memSize), offset), memSize).mem # <<>>
<1> DEFINE n == Least(Len(ctime), memSize)
<1>1. n \in Nat \ {0}
  BY DEF Least
<1>2. BridgeReadFile(TimeRead(ctime, ReadVector(memSize), offset), memSize).mem = Resized(ctime, n)
  BY DEF TimeRead, BridgeReadFile
<1>3. Len(Resized(ctime, n)) # Len(<<>>)
  BY <1>1, ResizedSeq
<1> QED
  BY <1>2, <1>3

\* Of a symbolic link applications are told that it was read, and find in their memory what
\* was there before.
THEOREM LinksUnread ==
  ASSUME NEW rootPath_ \in Seq(0..255), NEW mem \in Seq(0..255), mem # <<>>
  PROVE  BridgeReadSymlink(PosixReadLink(rootPath_), mem) = [ret |-> "0", mem |-> mem]
<1>1. PosixReadLink(rootPath_).link = <<>>
  BY DEF PosixReadLink
<1>2. Len(mem) > 0 /\ [i \in 1..Len(mem) |-> IF i <= 0 THEN <<>>[i] ELSE mem[i]] = mem
  OBVIOUS
<1> QED
  BY <1>1, <1>2 DEF BridgeReadSymlink
------------------------------------------------------------------------------
USE NamesAssumption, AskedAssumption, NoneAssumption

\* A descriptor is asked for by one thread, a new one has no FileHandle yet, and one that
\* is closed has it until the thread is done.
OneRequestEach ==
  /\ \A t, u \in Threads :
       t # u /\ job[t] # None /\ job[u] # None /\ job[t].desc = job[u].desc => job[t].desc = None
  /\ \A t \in Threads : job[t] # None =>
       /\ job[t].op = "create" => fi[job[t].desc] = None
       /\ job[t].op = "close" => fi[job[t].desc] # None

\* Something has been asked of every file.
EachAskedFor == \A p \in Paths : files[p] # None => asked[p] # None

IInv == TypeOK /\ OneRequestEach /\ OneToOne /\ EachAskedFor /\ AskedIsHandedOn

\* The initial state: nothing is open and nobody asks.
LEMMA InitIInv == Init => IInv
<1> SUFFICES ASSUME Init PROVE IInv
  OBVIOUS
<1>1. Open = {} /\ Closing = {}
  BY DEF Init, Open, Closing, Serving
<1> QED
  BY <1>1 DEF Init, IInv, TypeOK, OneRequestEach, OneToOne, EachAskedFor, AskedIsHandedOn
------------------------------------------------------------------------------
(* Descriptors *)

\* The descriptors that have a FileHandle.
Used == {d \in Descriptors : fi[d] # None}

\* A descriptor with a FileHandle is open, or its close is under way.
LEMMA UsedSplit ==
  ASSUME TypeOK, OneRequestEach
  PROVE  Open \cup Closing = Used /\ Open = Used \ Closing
<1>1. Closing \subseteq Used
  BY DEF Closing, Serving, Used, TypeOK, OneRequestEach
<1> QED
  BY <1>1 DEF Open, Used

\* And after a step.
LEMMA UsedSplitNext ==
  ASSUME TypeOK', OneRequestEach'
  PROVE  (Open \cup Closing)' = Used' /\ Open' = Used' \ Closing'
<1>1. Closing' \subseteq Used'
  BY DEF Closing, Serving, Used, TypeOK, OneRequestEach
<1> QED
  BY <1>1 DEF Open, Used

\* The file that each descriptor leads to, and what a step may do to it.
Reaches == [d \in Descriptors |-> IF d \in Open THEN opened[Fid(d)].file ELSE None]

KeepsPromise == Reaches' = Reaches \/ Promise!Next

\* What a job that begins or ends does to the descriptors that are being closed.
LEMMA ClosingAfter ==
  ASSUME TypeOK, OneRequestEach, NEW t \in Threads, NEW new, job' = [job EXCEPT ![t] = new],
         NEW d \in Descriptors, Serving(d) \subseteq {t}
  PROVE  /\ job'[t] = new /\ \A u \in Threads \ {t} : job'[u] = job[u]
         /\ d \in Closing' <=> new # None /\ new.desc = d /\ new.op = "close"
         /\ d \in Closing <=> job[t] # None /\ job[t].desc = d /\ job[t].op = "close"
<1>1. job'[t] = new /\ \A u \in Threads \ {t} : job'[u] = job[u]
  BY DEF TypeOK
<1>2. \A u \in Threads \ {t} : ~(job[u] # None /\ job[u].desc = d)
  BY DEF Serving
<1> QED
  BY <1>1, <1>2 DEF Closing, Serving

\* The others' descriptors stay as they are.
LEMMA ClosingOthers ==
  ASSUME TypeOK, NEW t \in Threads, NEW new, job' = [job EXCEPT ![t] = new],
         NEW d \in Descriptors, ~(job[t] # None /\ job[t].desc = d), ~(new # None /\ new.desc = d)
  PROVE  d \in Closing' <=> d \in Closing
<1>1. job'[t] = new /\ \A u \in Threads \ {t} : job'[u] = job[u]
  BY DEF TypeOK
<1> QED
  BY <1>1 DEF Closing, Serving

\* A step that leaves the handles alone and closes nothing.
LEMMA SameHandles ==
  ASSUME OneToOne, UNCHANGED handles, Closing' = Closing
  PROVE  OneToOne' /\ Reaches' = Reaches
BY DEF OneToOne, Open, Closing, Fid, handles, Reaches

\* An open takes a FileHandle and a fid that nobody has.
LEMMA OpensOneToOne ==
  ASSUME TypeOK, TypeOK', OneRequestEach, OneRequestEach', OneToOne, Closing' = Closing,
         NEW d \in Descriptors, NEW p \in Paths, NEW access \in Accesses,
         fi[d] = None, Opens(d, p, access)
  PROVE  OneToOne' /\ Reaches[d] = None /\ Reaches' = [Reaches EXCEPT ![d] = p]
<1>1. PICK a \in Addrs, fid \in Fids :
        /\ heap[a] = None /\ opened[fid] = None
        /\ heap' = [heap EXCEPT ![a] = fid]
        /\ opened' = [opened EXCEPT ![fid] = [file |-> p, write |-> ReqWrite(Flags(access))]]
        /\ fi' = [fi EXCEPT ![d] = [fh |-> a, access |-> access]]
        /\ forsaken' = forsaken
  BY DEF Opens
<1>2. /\ Open \cup Closing = Used /\ Open = Used \ Closing
      /\ (Open \cup Closing)' = Used' /\ Open' = Used' \ Closing'
  BY UsedSplit, UsedSplitNext
<1>3. Used' = Used \cup {d} /\ d \notin Used /\ d \notin Closing
  <2>1. [fh |-> a, access |-> access] # None
    BY DEF OpenInfos
  <2> QED
    BY <1>1, <1>2, <2>1 DEF Used, TypeOK
<1>4. Open' = Open \cup {d} /\ d \notin Open
  BY <1>2, <1>3
<1>5. fi'[d] = [fh |-> a, access |-> access] /\ \A c \in Used : fi'[c] = fi[c] /\ fi[c] \in OpenInfos
  BY <1>1, <1>3 DEF Used, TypeOK
<1>6. \A c \in Used : fi[c].fh # a /\ heap[fi[c].fh] # None /\ heap'[fi[c].fh] = heap[fi[c].fh]
  BY <1>1, <1>2, <1>5 DEF OneToOne, OpenInfos, TypeOK
<1>7. Fid(d)' = fid /\ \A c \in Used : Fid(c)' = Fid(c)
  BY <1>1, <1>5, <1>6 DEF Fid, TypeOK
<1>8. \A c \in Open : Fid(c) # fid /\ opened[Fid(c)] # None /\ Fid(c) \in Fids
  BY <1>1, <1>2 DEF OneToOne
<1>9. fid \notin forsaken
  BY <1>1 DEF OneToOne
<1>10. {x \in Addrs : heap'[x] # None} = {fi'[c].fh : c \in (Open \cup Closing)'}
  <2>1. {x \in Addrs : heap'[x] # None} = {x \in Addrs : heap[x] # None} \cup {a}
    BY <1>1 DEF TypeOK
  <2>2. {fi'[c].fh : c \in Used'} = {fi[c].fh : c \in Used} \cup {a}
    BY <1>3, <1>5
  <2> QED
    BY <1>2, <2>1, <2>2 DEF OneToOne
<1>11. \A c, e \in (Open \cup Closing)' : c # e => fi'[c].fh # fi'[e].fh
  BY <1>2, <1>3, <1>5, <1>6 DEF OneToOne
<1>12. {x \in Fids : opened'[x] # None} = {Fid(c)' : c \in Open'} \cup forsaken'
  <2>1. [file |-> p, write |-> ReqWrite(Flags(access))] # None
    <3>1. ReqWrite(Flags(access)) \in BOOLEAN
      BY ZenonT(30) DEF ReqWrite
    <3> QED
      BY <3>1 DEF OpenFids
  <2>2. {x \in Fids : opened'[x] # None} = {x \in Fids : opened[x] # None} \cup {fid}
    BY <1>1, <2>1 DEF TypeOK
  <2>3. {Fid(c)' : c \in Open'} = {Fid(c) : c \in Open} \cup {fid}
    BY <1>2, <1>4, <1>7
  <2> QED
    BY <1>1, <2>2, <2>3 DEF OneToOne
<1>13. \A c \in Open' : /\ Fid(c)' \notin forsaken'
                        /\ opened'[Fid(c)'].write = (fi'[c].access # "read")
  <2>1. ReqWrite(Flags(access)) = (access # "read")
    BY DEF ReqWrite, Flags
  <2>2. opened'[fid].write = ReqWrite(Flags(access)) /\ \A c \in Open : opened'[Fid(c)] = opened[Fid(c)]
    BY <1>1, <1>8 DEF TypeOK
  <2> QED
    BY <1>1, <1>2, <1>4, <1>5, <1>7, <1>9, <2>1, <2>2 DEF OneToOne
<1>14. \A c, e \in Open' : c # e => Fid(c)' # Fid(e)'
  BY <1>2, <1>4, <1>7, <1>8 DEF OneToOne
<1>15. Reaches[d] = None /\ Reaches' = [Reaches EXCEPT ![d] = p]
  <2>1. opened'[fid].file = p /\ \A c \in Open : opened'[Fid(c)] = opened[Fid(c)]
    BY <1>1, <1>8 DEF TypeOK
  <2>2. \A c \in Descriptors :
          Reaches'[c] = IF c \in Open' THEN opened'[Fid(c)'].file ELSE None
    BY DEF Reaches
  <2>3. \A c \in Descriptors \ {d} : Reaches'[c] = Reaches[c]
    BY <1>2, <1>4, <1>7, <2>1, <2>2 DEF Reaches
  <2>4. Reaches'[d] = p
    BY <1>4, <1>7, <2>1, <2>2
  <2> QED
    BY <1>4, <2>3, <2>4 DEF Reaches
<1> QED
  BY <1>10, <1>11, <1>12, <1>13, <1>14, <1>15 DEF OneToOne

\* A close takes the fid away, or leaves it to the file system for good.
LEMMA CloseOneToOne ==
  ASSUME TypeOK, TypeOK', OneRequestEach, OneRequestEach', OneToOne,
         NEW t \in Threads, NEW d \in Descriptors, CloseFile(t, d)
  PROVE  OneToOne' /\ Reaches[d] # None /\ Reaches' = [Reaches EXCEPT ![d] = None]
<1> DEFINE fid == Fid(d)
<1> DEFINE new == [op |-> "close", desc |-> d]
<1>1. /\ fi[d] # None /\ Serving(d) = {} /\ job[t] = None
      /\ job' = [job EXCEPT ![t] = new]
      /\ UNCHANGED <<heap, fi>>
      /\ \/ opened' = [opened EXCEPT ![fid] = None] /\ UNCHANGED forsaken
         \/ forsaken' = forsaken \cup {fid} /\ UNCHANGED opened
  BY DEF CloseFile, Idle, Fid
<1>2. /\ Open \cup Closing = Used /\ Open = Used \ Closing
      /\ (Open \cup Closing)' = Used' /\ Open' = Used' \ Closing'
  BY UsedSplit, UsedSplitNext
<1>3. Used' = Used /\ d \in Used
  BY <1>1 DEF Used
<1>0. new # None /\ new.desc = d /\ new.op = "close"
  BY DEF Requests
<1> HIDE DEF new
<1>4. d \in Closing' /\ d \notin Closing
  BY <1>0, <1>1, ClosingAfter
<1>5. \A c \in Descriptors : c # d => (c \in Closing' <=> c \in Closing)
  BY <1>0, <1>1, ClosingOthers
<1>6. d \in Open /\ Open' = Open \ {d}
  BY <1>2, <1>3, <1>4, <1>5 DEF Used
<1>7. \A c \in Open : Fid(c)' = Fid(c) /\ (c # d => Fid(c) # fid) /\ Fid(c) \in Fids
  BY <1>1, <1>6 DEF Fid, OneToOne
<1>8. {x \in Fids : opened'[x] # None} = {Fid(c)' : c \in Open'} \cup forsaken'
  <2>1. {Fid(c)' : c \in Open'} = {Fid(c) : c \in Open} \ {fid}
    BY <1>6, <1>7
  <2>2. fid \notin forsaken /\ fid \in Fids
    BY <1>6, <1>7 DEF OneToOne
  <2>3. CASE opened' = [opened EXCEPT ![fid] = None] /\ UNCHANGED forsaken
    <3>1. {x \in Fids : opened'[x] # None} = {x \in Fids : opened[x] # None} \ {fid}
      BY <2>3 DEF TypeOK
    <3> QED
      BY <2>1, <2>2, <2>3, <3>1 DEF OneToOne
  <2>4. CASE forsaken' = forsaken \cup {fid} /\ UNCHANGED opened
    <3>1. fid \in {Fid(c) : c \in Open}
      BY <1>6
    <3> QED
      BY <2>1, <2>4, <3>1 DEF OneToOne
  <2> QED
    BY <1>1, <2>3, <2>4
<1>9. \A c \in Open' : Fid(c)' \notin forsaken' /\ opened'[Fid(c)'] = opened[Fid(c)]
  BY <1>1, <1>6, <1>7 DEF OneToOne, TypeOK
<1>10. Reaches[d] # None /\ Reaches' = [Reaches EXCEPT ![d] = None]
  <2>1. opened[fid] \in OpenFids
    BY <1>6, <1>7 DEF OneToOne, TypeOK
  <2>2. Reaches[d] # None
    BY <1>6, <2>1 DEF Reaches, OpenFids
  <2>3. \A c \in Descriptors :
          Reaches'[c] = IF c \in Open' THEN opened'[Fid(c)'].file ELSE None
    BY DEF Reaches
  <2>4. \A c \in Descriptors \ {d} : Reaches'[c] = Reaches[c]
    BY <1>6, <1>7, <1>9, <2>3 DEF Reaches
  <2>5. Reaches'[d] = None
    BY <1>6, <2>3
  <2> QED
    BY <2>2, <2>4, <2>5 DEF Reaches
<1> QED
  BY <1>1, <1>2, <1>3, <1>6, <1>7, <1>8, <1>9, <1>10 DEF OneToOne

\* And its end takes the FileHandle away.
LEMMA CloseReturnsOneToOne ==
  ASSUME TypeOK, TypeOK', OneRequestEach, OneRequestEach', OneToOne,
         NEW t \in Threads, CloseFileReturns(t)
  PROVE  OneToOne' /\ Reaches' = Reaches
<1> DEFINE d == job[t].desc
<1> DEFINE a == fi[d].fh
<1>1. /\ job[t] # None /\ job[t].op = "close" /\ job' = [job EXCEPT ![t] = None]
      /\ heap' = [heap EXCEPT ![a] = None] /\ fi' = [fi EXCEPT ![d] = None]
      /\ UNCHANGED <<opened, forsaken>>
  BY DEF CloseFileReturns, At, Replies
<1>2. d \in Descriptors /\ fi[d] # None /\ a \in Addrs
  <2>1. job[t] \in Requests
    BY <1>1 DEF TypeOK
  <2>2. d \in Descriptors
    BY <1>1, <2>1 DEF Requests
  <2> QED
    BY <1>1, <2>2 DEF OneRequestEach, TypeOK, OpenInfos
<1>3. /\ Open \cup Closing = Used /\ Open = Used \ Closing
      /\ (Open \cup Closing)' = Used' /\ Open' = Used' \ Closing'
  BY UsedSplit, UsedSplitNext
<1>4. Used' = Used \ {d} /\ d \in Used
  BY <1>1, <1>2 DEF Used, TypeOK
<1>5. d \in Closing
  BY <1>1, <1>2 DEF Closing, Serving
<1>6. \A c \in Descriptors : c # d => (c \in Closing' <=> c \in Closing)
  BY <1>1, <1>2, ClosingOthers
<1>7. Open' = Open
  BY <1>3, <1>4, <1>5, <1>6 DEF Used
<1>8. \A c \in Used \ {d} : fi'[c] = fi[c] /\ fi[c].fh # a
  BY <1>1, <1>2, <1>3, <1>4 DEF Used, OneToOne, TypeOK
<1>9. \A c \in Open : Fid(c)' = Fid(c) /\ fi'[c] = fi[c]
  BY <1>1, <1>3, <1>5, <1>8 DEF Fid, Used, TypeOK, OpenInfos
<1>10. {x \in Addrs : heap'[x] # None} = {fi'[c].fh : c \in (Open \cup Closing)'}
  <2>1. {x \in Addrs : heap'[x] # None} = {x \in Addrs : heap[x] # None} \ {a}
    BY <1>1, <1>2 DEF TypeOK
  <2>2. {fi'[c].fh : c \in Used'} = {fi[c].fh : c \in Used} \ {a}
    BY <1>4, <1>8
  <2> QED
    BY <1>3, <2>1, <2>2 DEF OneToOne
<1>11. \A c, e \in (Open \cup Closing)' : c # e => fi'[c].fh # fi'[e].fh
  BY <1>3, <1>4, <1>8 DEF OneToOne
<1>12. {Fid(c)' : c \in Open'} = {Fid(c) : c \in Open}
  BY <1>7, <1>9
<1>13. Reaches' = Reaches
  BY <1>1, <1>7, <1>9 DEF Reaches
<1> QED
  BY <1>1, <1>7, <1>9, <1>10, <1>11, <1>12, <1>13 DEF OneToOne
------------------------------------------------------------------------------
(* Metadata *)

\* Permissions are bits that chmod knows.
LEMMA PermsTyped ==
  ASSUME NEW perm \in Perms
  PROVE  perm \subseteq 0..11
BY DEF ChmodBits

\* A mode and what becomes of it: the type and the permissions come back.
LEMMA ModeComesBack ==
  ASSUME NEW perm \in Perms, NEW type \in {S_IFREG, S_IFDIR}, NEW u
  PROVE  /\ PosixModeToMetadata(type \cup perm, "File").type \in {"File", "Directory"}
         /\ PosixModeToMetadata(type \cup perm, "File").modes = perm \cap PermBits
         /\ MetadataToPosixMode([type |-> PosixModeToMetadata(type \cup perm, "File").type,
                                 modes |-> PosixModeToMetadata(type \cup perm, "File").modes,
                                 owner |-> u])
              = (type \cup perm) \ (ChmodBits \ PermBits)
<1>1. perm \subseteq 0..11
  BY PermsTyped
<1>2. CASE type = {15}
  BY <1>1, <1>2 DEF PosixModeToMetadata, MetadataToPosixMode, TypeBits, S_IFREG, S_IFDIR,
                    S_IFLNK, PermBits, ChmodBits
<1>3. CASE type = {14}
  <2>1. ~ S_IFREG \subseteq (type \cup perm) /\ S_IFDIR \subseteq (type \cup perm)
    BY <1>1, <1>3 DEF S_IFREG, S_IFDIR
  <2> QED
    BY <1>1, <1>3, <2>1 DEF PosixModeToMetadata, MetadataToPosixMode, TypeBits, S_IFREG, S_IFDIR,
                            S_IFLNK, PermBits, ChmodBits
<1> QED
  BY <1>2, <1>3 DEF S_IFREG, S_IFDIR

\* A name that nobody has overwritten is that of one user.
LEMMA OwnName ==
  ASSUME NEW t \in Threads, NEW uid \in Uids, NEW u \in Uids,
         NEW name \in GenUserInfo(t, uid), IsOwner(u, name)
  PROVE  Wanted(t, uid) # None => u = Wanted(t, uid)
<1> SUFFICES ASSUME t \notin spoilt PROVE u = uid
  BY DEF Wanted
<1>1. name = UserInfo(uid)
  BY DEF GenUserInfo
<1> QED
  BY <1>1 DEF UserInfo, IsOwner

\* A step that leaves files and requests alone leaves them as they were asked for.
LEMMA SameMetadata ==
  ASSUME EachAskedFor, AskedIsHandedOn, UNCHANGED metadata
  PROVE  EachAskedFor' /\ AskedIsHandedOn'
BY DEF EachAskedFor, AskedIsHandedOn, GetAttr, MetadataToStat, metadata

\* What is made is handed on as it was asked for.
LEMMA MakesFound ==
  ASSUME TypeOK, EachAskedFor, AskedIsHandedOn, NEW t \in Threads, NEW p \in Paths, NEW perm \in Perms,
         NEW uid \in Uids, NEW u \in Uids, NEW type \in {S_IFREG, S_IFDIR},
         NEW name \in GenUserInfo(t, uid), IsOwner(u, name),
         Makes(p, type \cup perm, u), Asks(p, type \cup perm, Wanted(t, uid))
  PROVE  /\ EachAskedFor' /\ AskedIsHandedOn'
         /\ files' \in [Paths -> Metadatas \cup {None}]
         /\ asked' \in [Paths -> AskedFor \cup {None}]
<1> DEFINE mode == type \cup perm
<1> DEFINE md == PosixModeToMetadata(mode, "File")
<1> DEFINE file == [type |-> md.type, modes |-> md.modes, owner |-> u]
<1> DEFINE ask == [mode |-> mode \ (ChmodBits \ PermBits), owner |-> Wanted(t, uid)]
<1>1. files' = [files EXCEPT ![p] = file] /\ asked' = [asked EXCEPT ![p] = ask]
  BY DEF Makes, Asks
<1>2. /\ md.type \in {"File", "Directory"} /\ md.modes \subseteq PermBits
      /\ MetadataToPosixMode(file) = ask.mode
  <2>1. MetadataToPosixMode(file) = mode \ (ChmodBits \ PermBits)
    BY ModeComesBack
  <2>2. md.type \in {"File", "Directory"} /\ md.modes = perm \cap PermBits
    BY ModeComesBack
  <2> HIDE DEF file, md
  <2> QED
    BY <2>1, <2>2
<1>3. file \in Metadatas
  BY <1>2 DEF Metadatas
<1>4. ask \in AskedFor
  <2>1. mode \subseteq 0..15
    BY PermsTyped DEF S_IFREG, S_IFDIR
  <2>2. Wanted(t, uid) \in Uids \cup {None}
    BY DEF Wanted
  <2> QED
    BY <2>1, <2>2 DEF AskedFor
<1>5. ask.owner # None => file.owner = ask.owner
  BY OwnName
<1> HIDE DEF file, ask
<1>6. AskedIsHandedOn'
  <2> SUFFICES ASSUME NEW q \in Paths, files'[q] # None
               PROVE  /\ MetadataToPosixMode(files'[q]) = asked'[q].mode
                      /\ asked'[q].owner # None => files'[q].owner = asked'[q].owner
    BY DEF AskedIsHandedOn, GetAttr, MetadataToStat
  <2>1. CASE q = p
    BY <1>1, <1>2, <1>5, <2>1 DEF TypeOK
  <2>2. CASE q # p
    BY <1>1, <2>2 DEF TypeOK, AskedIsHandedOn, GetAttr, MetadataToStat
  <2> QED
    BY <2>1, <2>2
<1>7. EachAskedFor'
  BY <1>1, <1>3, <1>4 DEF TypeOK, EachAskedFor
<1> QED
  BY <1>1, <1>3, <1>4, <1>6, <1>7 DEF TypeOK
------------------------------------------------------------------------------
(* Steps *)

\* Steps of OpenFiles.
LEMMA OpenStep ==
  ASSUME NEW d \in Descriptors, NEW p \in Paths, Reaches[d] = None,
         Reaches' = [Reaches EXCEPT ![d] = p]
  PROVE  KeepsPromise
BY DEF KeepsPromise, Promise!Next, Promise!Open, Reaches

\* And a close is one of its closes.
LEMMA CloseStep ==
  ASSUME NEW d \in Descriptors, Reaches[d] # None, Reaches' = [Reaches EXCEPT ![d] = None]
  PROVE  KeepsPromise
BY DEF KeepsPromise, Promise!Next, Promise!Close, Reaches

\* A request begins: nobody else serves its descriptor.
LEMMA Begins ==
  ASSUME TypeOK, OneRequestEach, NEW t \in Threads, NEW new \in Requests,
         job[t] = None, job' = [job EXCEPT ![t] = new], fi' = fi,
         new.desc = None \/ (new.desc \in Descriptors /\ Serving(new.desc) = {}),
         new.op = "create" => fi[new.desc] = None,
         new.op = "close" => fi[new.desc] # None
  PROVE  OneRequestEach' /\ (new.op # "close" => Closing' = Closing)
<1>1. job'[t] = new /\ \A u \in Threads \ {t} : job'[u] = job[u]
  BY DEF TypeOK
<1>2. \A u \in Threads : job[u] # None /\ job[u].desc = new.desc => new.desc = None
  BY DEF Serving
<1>3. OneRequestEach'
  BY <1>1, <1>2 DEF OneRequestEach
<1>4. ASSUME new.op # "close" PROVE Closing' = Closing
  BY <1>1, <1>4 DEF Closing, Serving
<1> QED
  BY <1>3, <1>4

\* One ends, and nothing but its descriptor has changed.
LEMMA Ends ==
  ASSUME TypeOK, OneRequestEach, NEW t \in Threads, job[t] # None,
         job' = [job EXCEPT ![t] = None],
         \A d \in Descriptors : d # job[t].desc => fi'[d] = fi[d]
  PROVE  OneRequestEach' /\ (job[t].op # "close" => Closing' = Closing)
<1>1. job'[t] = None /\ \A u \in Threads \ {t} : job'[u] = job[u]
  BY DEF TypeOK
<1>2. ASSUME NEW u \in Threads \ {t}, job[u] # None, job[u].op \in {"create", "close"}
      PROVE  fi'[job[u].desc] = fi[job[u].desc]
  <2>1. job[u] \in Requests
    BY <1>2 DEF TypeOK
  <2>2. job[u].desc \in Descriptors
    BY <1>2, <2>1 DEF Requests
  <2> QED
    BY <1>2, <2>2 DEF OneRequestEach
<1>3. OneRequestEach'
  BY <1>1, <1>2 DEF OneRequestEach
<1>4. ASSUME job[t].op # "close" PROVE Closing' = Closing
  BY <1>1, <1>4 DEF Closing, Serving
<1> QED
  BY <1>3, <1>4

\* An open leaves the types in order.
LEMMA OpensTyped ==
  ASSUME TypeOK, NEW d \in Descriptors, NEW p \in Paths, NEW access \in Accesses,
         Opens(d, p, access)
  PROVE  /\ heap' \in [Addrs -> Fids \cup {None}]
         /\ fi' \in [Descriptors -> OpenInfos \cup {None}]
         /\ opened' \in [Fids -> OpenFids \cup {None}]
         /\ forsaken' = forsaken
         /\ \A c \in Descriptors : c # d => fi'[c] = fi[c]
<1>1. PICK a \in Addrs, fid \in Fids :
        /\ heap' = [heap EXCEPT ![a] = fid]
        /\ opened' = [opened EXCEPT ![fid] = [file |-> p, write |-> ReqWrite(Flags(access))]]
        /\ fi' = [fi EXCEPT ![d] = [fh |-> a, access |-> access]]
        /\ forsaken' = forsaken
  BY DEF Opens
<1>2. ReqWrite(Flags(access)) \in BOOLEAN
  BY ZenonT(30) DEF ReqWrite
<1>3. [file |-> p, write |-> ReqWrite(Flags(access))] \in OpenFids
  BY <1>2 DEF OpenFids
<1>4. [fh |-> a, access |-> access] \in OpenInfos
  BY DEF OpenInfos
<1> QED
  BY <1>1, <1>3, <1>4 DEF TypeOK

\* A lookup begins a request.
LEMMA LooksIInv ==
  ASSUME IInv, NEW t \in Threads,
         (\E d \in Descriptors : CreateFile(t, d)) \/ CreateDirectory(t) \/ SetOwner(t)
  PROVE  IInv' /\ KeepsPromise
<1> USE DEF IInv
<1>1. PICK new \in Requests :
        /\ new.desc = None \/ (new.desc \in Descriptors /\ Serving(new.desc) = {})
        /\ new.op # "close" /\ (new.op = "create" => fi[new.desc] = None)
        /\ Looks(t, new.op, new.desc) /\ new = [op |-> new.op, desc |-> new.desc]
  <2>1. ASSUME NEW d \in Descriptors, CreateFile(t, d)
        PROVE  Looks(t, "create", d) /\ fi[d] = None /\ Serving(d) = {}
               /\ [op |-> "create", desc |-> d] \in Requests
    BY <2>1 DEF CreateFile, Fresh, Requests
  <2>2. /\ [op |-> "mkdir", desc |-> None] \in Requests
        /\ [op |-> "chown", desc |-> None] \in Requests
    BY DEF Requests
  <2>3. CASE \E d \in Descriptors : CreateFile(t, d)
    <3>1. PICK d \in Descriptors : CreateFile(t, d)
      BY <2>3
    <3> QED
      BY <2>1, <3>1
  <2>4. CASE CreateDirectory(t)
    BY <2>2, <2>4 DEF CreateDirectory
  <2>5. CASE SetOwner(t)
    BY <2>2, <2>5 DEF SetOwner
  <2> QED
    BY <2>3, <2>4, <2>5
<1>2. /\ job[t] = None /\ job' = [job EXCEPT ![t] = new]
      /\ UNCHANGED <<handles, metadata, status>>
      /\ spoilt' \subseteq Threads
  BY <1>1 DEF Looks, Idle, Looking, TypeOK
<1>3. TypeOK'
  BY <1>2 DEF TypeOK, handles, metadata
<1>4. fi' = fi
  BY <1>2 DEF handles
<1>5. OneRequestEach' /\ Closing' = Closing
  BY <1>1, <1>2, <1>4, Begins
<1>6. OneToOne' /\ KeepsPromise
  BY <1>2, <1>5, SameHandles DEF KeepsPromise
<1>7. EachAskedFor' /\ AskedIsHandedOn'
  BY <1>2, SameMetadata DEF metadata
<1> QED
  BY <1>3, <1>5, <1>6, <1>7

\* A refusal ends it and changes nothing else.
LEMMA RefusedIInv ==
  ASSUME IInv, NEW t \in Threads, Refused(t) \/ CreateFileRefused(t)
  PROVE  IInv' /\ KeepsPromise
<1> USE DEF IInv
<1>1. /\ job[t] # None /\ job[t].op # "close" /\ job' = [job EXCEPT ![t] = None]
      /\ spoilt' = spoilt \ {t} /\ UNCHANGED <<handles, metadata, status>>
  BY DEF Refused, CreateFileRefused, OpenRefused, Replies, At
<1>2. TypeOK'
  BY <1>1 DEF TypeOK, handles, metadata
<1>3. fi' = fi
  BY <1>1 DEF handles
<1>4. OneRequestEach' /\ Closing' = Closing
  BY <1>1, <1>3, Ends
<1>5. OneToOne' /\ KeepsPromise
  BY <1>1, <1>4, SameHandles DEF KeepsPromise
<1>6. EachAskedFor' /\ AskedIsHandedOn'
  BY <1>1, SameMetadata DEF metadata
<1> QED
  BY <1>2, <1>4, <1>5, <1>6

\* Files and directories are made as asked, and given away as asked.
LEMMA ReturnsIInv ==
  ASSUME IInv, NEW t \in Threads, NEW p \in Paths, NEW uid \in Uids,
         \/ SetOwnerReturns(t, p, uid)
         \/ \E perm \in Perms : \/ CreateDirectoryReturns(t, p, perm, uid)
                                \/ \E access \in Accesses : CreateFileReturns(t, p, perm, uid, access)
  PROVE  IInv' /\ KeepsPromise
<1> USE DEF IInv
<1>1. /\ job[t] # None /\ job[t].op # "close" /\ job' = [job EXCEPT ![t] = None]
      /\ spoilt' = spoilt \ {t} /\ status' = status
  BY DEF SetOwnerReturns, CreateDirectoryReturns, CreateFileReturns, Replies, At
<1>2. job' \in [Threads -> Requests \cup {None}] /\ spoilt' \subseteq Threads
  BY <1>1 DEF TypeOK
<1>3. CASE SetOwnerReturns(t, p, uid)
  <2>1. PICK name \in GenUserInfo(t, uid), u \in Uids :
          IsOwner(u, name) /\ files' = [files EXCEPT ![p].owner = u]
    BY <1>3 DEF SetOwnerReturns
  <2>2. /\ files[p] \in Metadatas /\ files[p] # None /\ asked[p] \in AskedFor
        /\ asked' = [asked EXCEPT ![p].owner = Wanted(t, uid)] /\ UNCHANGED handles
    BY <1>3 DEF SetOwnerReturns, TypeOK, EachAskedFor
  <2>3. Wanted(t, uid) \in Uids \cup {None} /\ (Wanted(t, uid) # None => u = Wanted(t, uid))
    BY <2>1, OwnName DEF Wanted
  <2>4. PICK file : file = [files[p] EXCEPT !.owner = u]
    OBVIOUS
  <2>5. PICK ask : ask = [asked[p] EXCEPT !.owner = Wanted(t, uid)]
    OBVIOUS
  <2>6. files' = [files EXCEPT ![p] = file] /\ asked' = [asked EXCEPT ![p] = ask]
    BY <2>1, <2>2, <2>4, <2>5
  <2>7. /\ file \in Metadatas /\ file.type = files[p].type /\ file.modes = files[p].modes
        /\ file.owner = u
    BY <2>2, <2>4 DEF Metadatas
  <2>8. ask \in AskedFor /\ ask.mode = asked[p].mode /\ ask.owner = Wanted(t, uid)
    BY <2>2, <2>3, <2>5 DEF AskedFor
  <2>9. TypeOK'
    BY <1>1, <1>2, <2>2, <2>6, <2>7, <2>8 DEF TypeOK, handles
  <2>10. EachAskedFor' /\ AskedIsHandedOn'
    <3>1. MetadataToPosixMode(file) = ask.mode
      BY <2>2, <2>7, <2>8 DEF AskedIsHandedOn, GetAttr, MetadataToStat, MetadataToPosixMode
    <3>2. ASSUME NEW q \in Paths, files'[q] # None
          PROVE  /\ asked'[q] # None /\ MetadataToPosixMode(files'[q]) = asked'[q].mode
                 /\ asked'[q].owner # None => files'[q].owner = asked'[q].owner
      <4>1. CASE q = p
        BY <2>3, <2>6, <2>7, <2>8, <3>1, <4>1 DEF TypeOK
      <4>2. CASE q # p
        BY <2>6, <3>2, <4>2 DEF TypeOK, EachAskedFor, AskedIsHandedOn, GetAttr, MetadataToStat
      <4> QED
        BY <4>1, <4>2
    <3> QED
      BY <3>2 DEF EachAskedFor, AskedIsHandedOn, GetAttr, MetadataToStat
  <2>11. fi' = fi
    BY <2>2 DEF handles
  <2>12. OneRequestEach' /\ OneToOne' /\ KeepsPromise
    BY <1>1, <2>2, <2>11, Ends, SameHandles DEF KeepsPromise
  <2> QED
    BY <2>9, <2>10, <2>12
<1>4. ASSUME NEW perm \in Perms, CreateDirectoryReturns(t, p, perm, uid) PROVE IInv' /\ KeepsPromise
  <2>1. PICK type \in {S_IFDIR, {}}, name \in GenUserInfo(t, uid), u \in Uids :
          /\ PosixModeToMetadata(type \cup perm, "File").type = "Directory"
          /\ IsOwner(u, name)
          /\ Makes(p, type \cup perm, u) /\ Asks(p, type \cup perm, Wanted(t, uid))
    BY <1>4 DEF CreateDirectoryReturns
  <2>2. type = S_IFDIR
    BY <2>1, PermsTyped DEF PosixModeToMetadata, S_IFDIR, S_IFREG, S_IFLNK
  <2>3. /\ EachAskedFor' /\ AskedIsHandedOn'
        /\ files' \in [Paths -> Metadatas \cup {None}] /\ asked' \in [Paths -> AskedFor \cup {None}]
    BY <2>1, <2>2, MakesFound
  <2>4. UNCHANGED handles /\ fi' = fi
    BY <1>4 DEF CreateDirectoryReturns, handles
  <2>5. TypeOK'
    BY <1>1, <1>2, <2>3, <2>4 DEF TypeOK, handles
  <2>6. OneRequestEach' /\ OneToOne' /\ KeepsPromise
    BY <1>1, <2>4, Ends, SameHandles DEF KeepsPromise
  <2> QED
    BY <2>3, <2>5, <2>6
<1>5. ASSUME NEW perm \in Perms, NEW access \in Accesses, CreateFileReturns(t, p, perm, uid, access)
      PROVE  IInv' /\ KeepsPromise
  <2>1. PICK name \in GenUserInfo(t, uid), u \in Uids :
          IsOwner(u, name) /\ Makes(p, S_IFREG \cup perm, u)
    BY <1>5 DEF CreateFileReturns
  <2>2. Asks(p, S_IFREG \cup perm, Wanted(t, uid)) /\ Opens(job[t].desc, p, access)
    BY <1>5 DEF CreateFileReturns
  <2>3. /\ EachAskedFor' /\ AskedIsHandedOn'
        /\ files' \in [Paths -> Metadatas \cup {None}] /\ asked' \in [Paths -> AskedFor \cup {None}]
    BY <2>1, <2>2, MakesFound
  <2>4. job[t].desc \in Descriptors /\ fi[job[t].desc] = None
    <3>1. job[t] \in Requests /\ job[t].op = "create"
      BY <1>5 DEF CreateFileReturns, At, TypeOK
    <3> QED
      BY <1>1, <3>1 DEF Requests, OneRequestEach
  <2>5. /\ heap' \in [Addrs -> Fids \cup {None}]
        /\ fi' \in [Descriptors -> OpenInfos \cup {None}]
        /\ opened' \in [Fids -> OpenFids \cup {None}]
        /\ forsaken' = forsaken
        /\ \A c \in Descriptors : c # job[t].desc => fi'[c] = fi[c]
    BY <2>2, <2>4, OpensTyped
  <2>6. TypeOK'
    BY <1>1, <1>2, <2>3, <2>5 DEF TypeOK
  <2>7. OneRequestEach' /\ Closing' = Closing
    BY <1>1, <2>5, Ends
  <2>8. OneToOne' /\ KeepsPromise
    BY <2>2, <2>4, <2>6, <2>7, OpensOneToOne, OpenStep
  <2> QED
    BY <2>3, <2>6, <2>7, <2>8
<1> QED
  BY <1>3, <1>4, <1>5

\* Descriptors are opened and closed.
LEMMA OpenCloseIInv ==
  ASSUME IInv, NEW t \in Threads,
         \/ CloseFileReturns(t)
         \/ \E d \in Descriptors : \/ CloseFile(t, d)
                                   \/ \E p \in Paths, access \in Accesses : OpenFile(t, d, p, access)
  PROVE  IInv' /\ KeepsPromise
<1> USE DEF IInv
<1>1. ASSUME NEW d \in Descriptors, NEW p \in Paths, NEW access \in Accesses,
             OpenFile(t, d, p, access)
      PROVE  IInv' /\ KeepsPromise
  <2>1. /\ UNCHANGED <<job, spoilt, files, asked, status>> /\ UNCHANGED metadata
        /\ Opens(d, p, access) /\ fi[d] = None /\ Serving(d) = {}
    BY <1>1 DEF OpenFile, Fresh, threads, metadata
  <2>2. TypeOK'
    BY <2>1, OpensTyped DEF TypeOK
  <2>3. \A u \in Threads : job[u] # None => job[u].desc # d
    BY <2>1 DEF Serving
  <2>4. \A u \in Threads : job[u] # None /\ job[u].op \in {"create", "close"} => job[u].desc \in Descriptors
    BY DEF TypeOK, Requests
  <2>5. OneRequestEach'
    BY <2>1, <2>3, <2>4, OpensTyped DEF OneRequestEach
  <2>6. Closing' = Closing
    BY <2>1 DEF Closing, Serving
  <2>7. OneToOne' /\ KeepsPromise
    BY <2>1, <2>2, <2>5, <2>6, OpensOneToOne, OpenStep
  <2> QED
    BY <2>1, <2>2, <2>5, <2>7, SameMetadata
<1>2. ASSUME NEW d \in Descriptors, CloseFile(t, d) PROVE IInv' /\ KeepsPromise
  <2> DEFINE new == [op |-> "close", desc |-> d]
  <2>1. /\ job[t] = None /\ fi[d] # None /\ Serving(d) = {} /\ job' = [job EXCEPT ![t] = new]
        /\ UNCHANGED <<heap, fi, spoilt, files, asked, status>> /\ UNCHANGED metadata
        /\ \/ opened' = [opened EXCEPT ![Fid(d)] = None] /\ UNCHANGED forsaken
           \/ forsaken' = forsaken \cup {Fid(d)} /\ UNCHANGED opened
    BY <1>2 DEF CloseFile, Idle, Fid, metadata
  <2>2. new \in Requests /\ new.desc = d /\ new.op = "close"
    BY DEF Requests
  <2>3. Fid(d) \in Fids
    <3>1. fi[d].fh \in {a \in Addrs : heap[a] # None}
      BY <2>1, UsedSplit DEF OneToOne, Used
    <3> QED
      BY <3>1 DEF Fid, TypeOK
  <2> HIDE DEF new
  <2>4. TypeOK'
    BY <2>1, <2>2, <2>3 DEF TypeOK
  <2>5. OneRequestEach'
    BY <2>1, <2>2, Begins
  <2>6. OneToOne' /\ KeepsPromise
    BY <1>2, <2>4, <2>5, CloseOneToOne, CloseStep
  <2> QED
    BY <2>1, <2>4, <2>5, <2>6, SameMetadata
<1>3. ASSUME CloseFileReturns(t) PROVE IInv' /\ KeepsPromise
  <2>1. /\ job[t] # None /\ job' = [job EXCEPT ![t] = None] /\ spoilt' = spoilt \ {t}
        /\ UNCHANGED <<opened, forsaken, files, asked, status>> /\ UNCHANGED metadata
        /\ heap' = [heap EXCEPT ![fi[job[t].desc].fh] = None]
        /\ fi' = [fi EXCEPT ![job[t].desc] = None]
    BY <1>3 DEF CloseFileReturns, At, Replies, metadata
  <2>2. TypeOK'
    BY <2>1 DEF TypeOK
  <2>3. \A d \in Descriptors : d # job[t].desc => fi'[d] = fi[d]
    BY <2>1 DEF TypeOK
  <2>4. OneRequestEach'
    BY <2>1, <2>3, Ends
  <2>5. OneToOne' /\ KeepsPromise
    BY <1>3, <2>2, <2>4, CloseReturnsOneToOne DEF KeepsPromise
  <2> QED
    BY <2>1, <2>2, <2>4, <2>5, SameMetadata
<1> QED
  BY <1>1, <1>2, <1>3

\* Calls that change files alone.
LEMMA MetadataIInv ==
  ASSUME IInv, UNCHANGED <<threads, handles, status>>,
         files' \in [Paths -> Metadatas \cup {None}], asked' \in [Paths -> AskedFor \cup {None}],
         EachAskedFor', AskedIsHandedOn'
  PROVE  IInv' /\ KeepsPromise
<1> USE DEF IInv
<1>1. TypeOK' /\ OneRequestEach' /\ Closing' = Closing
  BY DEF TypeOK, OneRequestEach, Closing, Serving, threads, handles
<1>2. OneToOne' /\ KeepsPromise
  BY <1>1, SameHandles DEF KeepsPromise
<1> QED
  BY <1>1, <1>2

\* Namely those that remove, rename, link, or change permissions.
LEMMA FilesIInv ==
  ASSUME IInv, NEW p \in Paths,
         \/ Remove(p) \/ CreateSymlink(p)
         \/ \E q \in Paths : Rename(p, q)
         \/ \E perm \in Perms : SetMode(p, perm)
  PROVE  IInv' /\ KeepsPromise
<1> USE DEF IInv
<1>1. CASE Remove(p)
  BY <1>1, MetadataIInv DEF Remove, TypeOK, EachAskedFor, AskedIsHandedOn, GetAttr, MetadataToStat
<1>2. CASE CreateSymlink(p)
  <2> DEFINE link == [type |-> "Symlink", modes |-> PermBits, owner |-> None]
  <2> DEFINE ask == [mode |-> (S_IFLNK \cup PermBits) \ (ChmodBits \ PermBits), owner |-> None]
  <2>1. /\ files' = [files EXCEPT ![p] = link] /\ asked' = [asked EXCEPT ![p] = ask]
        /\ UNCHANGED <<threads, handles, status>>
    BY <1>2 DEF CreateSymlink, Asks
  <2>2. link \in Metadatas /\ ask \in AskedFor
    BY DEF Metadatas, AskedFor, PermBits, ChmodBits, S_IFLNK
  <2>3. MetadataToPosixMode(link) = ask.mode /\ ask.owner = None
    BY DEF MetadataToPosixMode, TypeBits, PermBits, ChmodBits, S_IFLNK
  <2> HIDE DEF link, ask
  <2>4. EachAskedFor' /\ AskedIsHandedOn'
    BY <2>1, <2>2, <2>3 DEF TypeOK, EachAskedFor, AskedIsHandedOn, GetAttr, MetadataToStat
  <2> QED
    BY <2>1, <2>2, <2>4, MetadataIInv DEF TypeOK
<1>3. ASSUME NEW q \in Paths, Rename(p, q) PROVE IInv' /\ KeepsPromise
  BY <1>3, MetadataIInv DEF Rename, TypeOK, EachAskedFor, AskedIsHandedOn, GetAttr, MetadataToStat
<1>4. ASSUME NEW perm \in Perms, SetMode(p, perm) PROVE IInv' /\ KeepsPromise
  <2>1. PICK file : file = [files[p] EXCEPT !.modes = perm \cap PermBits]
    OBVIOUS
  <2>2. PICK ask : ask = [asked[p] EXCEPT !.mode = (@ \ PermBits) \cup (perm \cap PermBits)]
    OBVIOUS
  <2>3. PosixModeToMetadata(perm, "File").modes = perm \cap PermBits
    BY DEF PosixModeToMetadata
  <2>4. /\ files' = [files EXCEPT ![p] = file] /\ asked' = [asked EXCEPT ![p] = ask]
        /\ files[p] \in Metadatas /\ files[p].type # "Symlink" /\ asked[p] \in AskedFor
        /\ UNCHANGED <<threads, handles, status>>
    BY <1>4, <2>1, <2>2, <2>3 DEF SetMode, Remode, TypeOK, EachAskedFor
  <2>5. /\ file \in Metadatas /\ file.type = files[p].type /\ file.owner = files[p].owner
        /\ file.modes = perm \cap PermBits
    BY <2>1, <2>4 DEF Metadatas
  <2>6. /\ ask \in AskedFor /\ ask.owner = asked[p].owner
        /\ ask.mode = (asked[p].mode \ PermBits) \cup (perm \cap PermBits)
    BY <2>2, <2>4 DEF AskedFor, PermBits
  <2>7. MetadataToPosixMode(file) = ask.mode
    <3>1. asked[p].mode = TypeBits(file.type) \cup files[p].modes
      BY <2>4, <2>5 DEF AskedIsHandedOn, GetAttr, MetadataToStat, MetadataToPosixMode
    <3>2. TypeBits(file.type) \cap PermBits = {} /\ files[p].modes \subseteq PermBits
      BY <2>4, <2>5 DEF Metadatas, TypeBits, PermBits, S_IFREG, S_IFDIR
    <3> QED
      BY <2>5, <2>6, <3>1, <3>2 DEF MetadataToPosixMode
  <2>8. EachAskedFor' /\ AskedIsHandedOn'
    BY <2>4, <2>5, <2>6, <2>7 DEF TypeOK, EachAskedFor, AskedIsHandedOn, GetAttr, MetadataToStat
  <2> QED
    BY <2>4, <2>5, <2>6, <2>8, MetadataIInv DEF TypeOK
<1> QED
  BY <1>1, <1>2, <1>3, <1>4

\* Calls that change nothing but the status, and those that are none.
LEMMA NothingIInv ==
  ASSUME IInv, UNCHANGED <<threads, handles, metadata>>,
         status' \in {"up", "aborted", "terminated"}
  PROVE  IInv' /\ KeepsPromise
<1> USE DEF IInv
<1>1. TypeOK' /\ OneRequestEach' /\ Closing' = Closing
  BY DEF TypeOK, OneRequestEach, Closing, Serving, threads, handles, metadata
<1>2. OneToOne' /\ KeepsPromise /\ EachAskedFor' /\ AskedIsHandedOn'
  BY <1>1, SameHandles, SameMetadata DEF KeepsPromise
<1> QED
  BY <1>1, <1>2

\* Every step keeps the invariant and the promise.
LEMMA NextIInv == IInv /\ [Next]_vars => IInv' /\ KeepsPromise
<1> SUFFICES ASSUME IInv, [Next]_vars PROVE IInv' /\ KeepsPromise
  OBVIOUS
<1>1. CASE UNCHANGED vars
  BY <1>1, NothingIInv DEF vars, IInv, TypeOK
<1>2. ASSUME NEW t \in Threads, NEW d \in Descriptors, OpenFileRefused(t, d) PROVE IInv' /\ KeepsPromise
  BY <1>2, NothingIInv DEF OpenFileRefused, OpenRefused, IInv, TypeOK
<1>3. CASE ReadDirectory \/ ListXAttr \/ GetXAttr
  BY <1>3, NothingIInv DEF ReadDirectory, ListXAttr, GetXAttr
<1>4. CASE Next
  BY <1>2, <1>3, <1>4, LooksIInv, RefusedIInv, ReturnsIInv, OpenCloseIInv, FilesIInv DEF Next
<1> QED
  BY <1>1, <1>4

\* The invariant of the specification.
LEMMA SpecIInv == Spec => []IInv
<1>1. IInv /\ [Next]_vars => IInv'
  BY NextIInv
<1> QED
  BY <1>1, InitIInv, PTL DEF Spec

\* Every variable has its type, for any threads, descriptors, paths and users.
THEOREM BridgeTypeCorrect == Spec => []TypeOK
BY SpecIInv, PTL DEF IInv

\* Each open descriptor has a FileHandle and a fid of its own, and nothing is left over but
\* what the file system would not close, for any threads and descriptors.
THEOREM HandlesOneToOne == Spec => []OneToOne
BY SpecIInv, PTL DEF IInv

\* For any users and permissions, what is asked for gets through to the file system, and the
\* type and the permissions back to the applications; the owner never does.
THEOREM HandedOnAsAsked == Spec => []AskedIsHandedOn
BY SpecIInv, PTL DEF IInv

\* getattr contradicts the file system about every file whose owner is to be another than root.
OthersReadAsRoots ==
  \A p \in Paths : files[p] # None /\ asked[p].owner \notin {None, 0} =>
    files[p].owner = asked[p].owner /\ GetAttr(p).uid # files[p].owner

\* An application that gave a file to another user than root with success is told that it is
\* root's, for any users and however threads and refusals interleave, though the file system
\* has the owner asked for: metadataToStat fills in none.
THEOREM OthersFindRoot == Spec => []OthersReadAsRoots
<1>1. AskedIsHandedOn => OthersReadAsRoots
  BY DEF AskedIsHandedOn, OthersReadAsRoots, GetAttr, MetadataToStat
<1> QED
  BY <1>1, HandedOnAsAsked, PTL

\* FuseBridge hands FileSystem's promise on, for any threads, descriptors and paths: each
\* step is an open, a close, or none of what a descriptor leads to.
THEOREM BridgeKeepsThePromise == Spec => ImplementsOpenFiles
<1>1. Init => Promise!Init
  BY DEF Init, Promise!Init, Open
<1>2. IInv /\ [Next]_vars => [Promise!Next]_Reaches
  BY NextIInv DEF KeepsPromise
<1> QED
  BY <1>1, <1>2, SpecIInv, PTL DEF Spec, ImplementsOpenFiles, Promise!Spec, Reaches
------------------------------------------------------------------------------
(* Handles that a file system would not close *)

\* A fid whose close was refused, and what the file system keeps open for it.
Abandoned(fid, info) == fid \in forsaken /\ opened[fid] = info /\ \A d \in Open : Fid(d) # fid

\* Only an open or a close gets at a fid: the one takes it free, the other has it from an
\* open descriptor.
LEMMA AbandonedStep ==
  ASSUME IInv, IInv', [Next]_vars, NEW fid \in Fids, NEW info \in OpenFids, Abandoned(fid, info)
  PROVE  Abandoned(fid, info)'
<1> SUFFICES fid \in forsaken' /\ opened'[fid] = info
  BY DEF Abandoned, IInv, OneToOne
<1>1. /\ fid \in forsaken /\ opened[fid] = info /\ info # None
      /\ opened \in [Fids -> OpenFids \cup {None}]
  BY NoneAssumption DEF Abandoned, IInv, TypeOK
<1>2. CASE UNCHANGED <<opened, forsaken>>
  BY <1>1, <1>2
<1>3. ASSUME NEW d \in Descriptors, NEW p \in Paths, NEW access \in Accesses, Opens(d, p, access)
      PROVE  fid \in forsaken' /\ opened'[fid] = info
  BY <1>1, <1>3 DEF Opens
<1>4. ASSUME NEW t \in Threads, NEW d \in Descriptors, CloseFile(t, d)
      PROVE  fid \in forsaken' /\ opened'[fid] = info
  <2>1. d \in Open
    BY <1>4 DEF CloseFile, Open, Closing
  <2>2. heap[fi[d].fh] # fid
    BY <2>1 DEF Abandoned, Fid
  <2> QED
    BY <1>1, <1>4, <2>2 DEF CloseFile
<1>5. ASSUME NEW t \in Threads, NEW d \in Descriptors, NEW p \in Paths, NEW access \in Accesses,
             OpenFile(t, d, p, access)
      PROVE  fid \in forsaken' /\ opened'[fid] = info
  BY <1>3, <1>5 DEF OpenFile
<1>6. ASSUME NEW t \in Threads, NEW p \in Paths, NEW perm \in Perms, NEW uid \in Uids,
             NEW access \in Accesses, CreateFileReturns(t, p, perm, uid, access)
      PROVE  fid \in forsaken' /\ opened'[fid] = info
  <2>1. job[t] # None /\ job[t].op = "create"
    BY <1>6 DEF CreateFileReturns, At
  <2>2. job[t].desc \in Descriptors
    BY <2>1 DEF IInv, TypeOK, Requests
  <2> QED
    BY <1>3, <1>6, <2>2 DEF CreateFileReturns
<1>7. ASSUME NEW t \in Threads,
             \/ CreateDirectory(t) \/ SetOwner(t) \/ Refused(t)
             \/ CreateFileRefused(t) \/ CloseFileReturns(t)
             \/ \E d \in Descriptors : CreateFile(t, d) \/ OpenFileRefused(t, d)
             \/ \E p \in Paths, uid \in Uids :
                  \/ SetOwnerReturns(t, p, uid)
                  \/ \E perm \in Perms : CreateDirectoryReturns(t, p, perm, uid)
      PROVE  UNCHANGED <<opened, forsaken>>
  BY <1>7 DEF CreateDirectory, SetOwner, Refused, CreateFileRefused, CloseFileReturns, CreateFile,
              OpenFileRefused, OpenRefused, SetOwnerReturns, CreateDirectoryReturns, Looks, handles
<1>8. CASE \/ ReadDirectory \/ ListXAttr \/ GetXAttr \/ UNCHANGED vars
           \/ \E p \in Paths : \/ Remove(p) \/ CreateSymlink(p)
                               \/ \E q \in Paths : Rename(p, q)
                               \/ \E perm \in Perms : SetMode(p, perm)
  BY <1>2, <1>8 DEF ReadDirectory, ListXAttr, GetXAttr, vars, Remove, CreateSymlink, Rename, SetMode,
                    handles
<1> QED
  BY <1>2, <1>4, <1>5, <1>6, <1>7, <1>8 DEF Next

\* closeFile deletes its FileHandle whatever the file system answered (FuseBridge.cpp:486): what
\* was refused is never asked for again, so that the file stays open in the file system, no
\* descriptor leads to it, and none ever gets its fid.
THEOREM AbandonedForGood ==
  ASSUME NEW fid \in Fids, NEW info \in OpenFids
  PROVE  Spec => [](Abandoned(fid, info) => []Abandoned(fid, info))
<1>1. IInv /\ IInv' /\ [Next]_vars /\ Abandoned(fid, info) => Abandoned(fid, info)'
  BY AbandonedStep
<1> QED
  BY <1>1, SpecIInv, PTL DEF Spec
==============================================================================
