--------------------------- MODULE FuseWorkersProofs ----------------------------
(* What the worker threads of FuseWorkers cannot get wrong, and what they cannot  *)
(* until two of them are in genHandle at once, for any number of threads,         *)
(* descriptors and files.                                                         *)
EXTENDS FuseWorkers, TLAPS

\* A thread at work has a request, and the slot it goes by is in the table.
JobsWhole ==
  \A t \in Threads : pc[t] # "idle" =>
    /\ job[t].desc \in Descriptors /\ job[t].file \in Files
    /\ pc[t] \in {"take", "takeList", "open", "close", "release", "free"} =>
         job[t].i < Len(handles_)
    /\ pc[t] \in {"pushList", "pushReturn"} => 0 < Len(handles_)

IInv == TypeOK /\ JobsWhole /\ FidsInTable

\* The invariant holds before the first request.
LEMMA InitIInv == Init => IInv
<1> SUFFICES ASSUME Init PROVE IInv
  OBVIOUS
<1>1. TypeOK
  <2>1. overlapped \in BOOLEAN
    BY Zenon DEF Init
  <2>2. status \in {"up", "undefined"} /\ handles_ \in Seq(Files \cup {None})
    BY DEF Init
  <2>3. /\ listed \in [Files -> SUBSET (Nat \cup {-1})]
        /\ fi \in [Descriptors -> [fid : Nat, file : Files] \cup {None}]
        /\ pc \in [Threads -> Steps \cup {"idle"}]
    BY DEF Init
  <2>4. job \in [Threads -> [desc : Descriptors \cup {None}, file : Files \cup {None}, i : Nat]]
    BY DEF Init, NoJob
  <2> QED
    BY <2>1, <2>2, <2>3, <2>4 DEF TypeOK
<1>2. JobsWhole /\ FidsInTable
  BY DEF Init, JobsWhole, FidsInTable
<1> QED
  BY <1>1, <1>2 DEF IInv

\* A step after which thread t is at work, and its slot in the table.
AtWork(t) ==
  /\ pc' = [pc EXCEPT ![t] = pc'[t]] /\ pc'[t] \in Steps
  /\ job' = [job EXCEPT ![t] = job'[t]]
  /\ job'[t] \in [desc : Descriptors, file : Files, i : Nat]
  /\ pc'[t] \in {"take", "takeList", "open", "close", "release", "free"} =>
       job'[t].i < Len(handles_')
  /\ pc'[t] \in {"pushList", "pushReturn"} => 0 < Len(handles_')
  /\ handles_' \in Seq(Files \cup {None}) /\ Len(handles_) =< Len(handles_')
  /\ listed' \in [Files -> SUBSET (Nat \cup {-1})]
  /\ fi' = fi /\ status' \in {"up", "undefined"} /\ overlapped' \in BOOLEAN

\* Such a step preserves the invariant.
LEMMA JobStep ==
  ASSUME IInv, NEW t \in Threads, AtWork(t)
  PROVE  IInv'
<1> USE DEF IInv
<1>0. Len(handles_) \in Nat /\ Len(handles_') \in Nat
  BY DEF AtWork, TypeOK
<1>1. TypeOK'
  BY ZenonT(60) DEF AtWork, TypeOK
<1>2. JobsWhole'
  <2>1. ASSUME NEW u \in Threads, pc'[u] # "idle"
        PROVE  /\ job'[u].desc \in Descriptors /\ job'[u].file \in Files
               /\ pc'[u] \in {"take", "takeList", "open", "close", "release", "free"} =>
                    job'[u].i < Len(handles_')
               /\ pc'[u] \in {"pushList", "pushReturn"} => 0 < Len(handles_')
    <3>1. CASE u = t
      BY <3>1 DEF AtWork
    <3>2. CASE u # t
      <4>1. pc'[u] = pc[u] /\ job'[u] = job[u] /\ job[u].i \in Nat
        BY <3>2 DEF AtWork, TypeOK
      <4>2. Len(handles_) =< Len(handles_')
        BY DEF AtWork
      <4> QED
        BY <1>0, <2>1, <4>1, <4>2 DEF JobsWhole
    <3> QED
      BY <3>1, <3>2
  <2> QED
    BY <2>1 DEF JobsWhole
<1>3. FidsInTable'
  <2>1. \A d \in Descriptors : fi[d] # None => fi[d].fid \in Nat
    BY DEF TypeOK
  <2> QED
    BY <1>0, <2>1 DEF FidsInTable, AtWork
<1> QED
  BY <1>1, <1>2, <1>3

\* The end of a call, with a fid that is in the table or none.
LEMMA AnswerStep ==
  ASSUME IInv, NEW t \in Threads, pc[t] # "idle",
         NEW r \in [fid : Nat, file : Files] \cup {None},
         Answer(t, r), r # None => r.fid < Len(handles_),
         handles_' \in Seq(Files \cup {None}), Len(handles_') = Len(handles_),
         listed' \in [Files -> SUBSET (Nat \cup {-1})], status' = status,
         overlapped' = overlapped
  PROVE  IInv'
<1> USE DEF IInv
<1>1. /\ job[t].desc \in Descriptors
      /\ fi' = [fi EXCEPT ![job[t].desc] = r]
      /\ job' = [job EXCEPT ![t] = NoJob]
      /\ pc' = [pc EXCEPT ![t] = "idle"]
  BY DEF Answer, Goto, JobsWhole
<1>2. TypeOK'
  BY <1>1 DEF TypeOK, NoJob
<1>3. JobsWhole'
  BY <1>1 DEF JobsWhole, TypeOK
<1>4. FidsInTable'
  BY <1>1 DEF FidsInTable, TypeOK
<1> QED
  BY <1>2, <1>3, <1>4

\* Every step of a thread's work leaves it at work, or is the end of the call.
LEMMA WorkIInv ==
  ASSUME IInv, NEW t \in Threads, Work(t)
  PROVE  IInv'
<1> USE DEF IInv
<1> DEFINE whole == job[t] \in [desc : Descriptors, file : Files, i : Nat]
<1>1. job = [job EXCEPT ![t] = job[t]] /\ Len(handles_) \in Nat
  BY DEF TypeOK
<1>2. pc[t] # "idle" => whole
  BY DEF TypeOK, JobsWhole
<1> HIDE DEF whole
<1>3. CASE Scan(t)
  <2>1. pc[t] = "scan" /\ whole
    BY <1>2, <1>3 DEF Scan
  <2>2. CASE Goto(t, "push") /\ UNCHANGED job
    <3>1. AtWork(t)
      BY <1>1, <1>3, <2>1, <2>2 DEF AtWork, Scan, Goto, Steps, TypeOK, whole
    <3> QED
      BY <3>1, JobStep
  <2>3. CASE SlotOf(t) <= Len(handles_) /\ Goto(t, "take") /\ UNCHANGED job
    <3>1. job[t].i < Len(handles_)
      BY <1>1, <2>1, <2>3 DEF SlotOf, whole
    <3>2. AtWork(t)
      BY <1>1, <1>3, <2>1, <2>3, <3>1 DEF AtWork, Scan, Goto, Steps, TypeOK, whole
    <3> QED
      BY <3>2, JobStep
  <2>4. CASE job' = [job EXCEPT ![t].i = @ + 1] /\ UNCHANGED pc
    <3> DEFINE j == [job[t] EXCEPT !.i = @ + 1]
    <3>0. pc[t] = "scan" /\ UNCHANGED <<handles_, listed, fi, status, overlapped>>
      BY <1>3 DEF Scan
    <3>1. j \in [desc : Descriptors, file : Files, i : Nat]
      BY <2>1 DEF whole
    <3>2. job' = [job EXCEPT ![t] = j]
      BY <2>4
    <3>3. pc' = [pc EXCEPT ![t] = "scan"]
      BY <2>4, <3>0 DEF TypeOK
    <3> HIDE DEF j
    <3>4. pc'[t] = "scan" /\ job'[t] = j
      BY <3>2, <3>3 DEF TypeOK
    <3>5. AtWork(t)
      BY <1>1, <3>0, <3>1, <3>2, <3>3, <3>4 DEF AtWork, Steps, TypeOK
    <3> QED
      BY <3>5, JobStep
  <2> QED
    BY <1>3, <2>2, <2>3, <2>4 DEF Scan
<1>4. CASE Take(t)
  <2>1. whole /\ job[t].i < Len(handles_)
    BY <1>2, <1>4 DEF Take, JobsWhole
  <2>2. handles_' \in Seq(Files \cup {None}) /\ Len(handles_') = Len(handles_)
    BY <1>4, <2>1 DEF Take, SlotOf, whole, TypeOK
  <2>3. AtWork(t)
    BY <1>1, <1>4, <2>1, <2>2 DEF AtWork, Take, Goto, Steps, TypeOK, whole
  <2> QED
    BY <2>3, JobStep
<1>5. CASE TakeList(t)
  <2>1. whole /\ job[t].i < Len(handles_) /\ pc = [pc EXCEPT ![t] = "takeList"]
    BY <1>2, <1>5 DEF TakeList, JobsWhole, TypeOK
  <2>2. listed' \in [Files -> SUBSET (Nat \cup {-1})]
    BY <1>5, <2>1 DEF TakeList, ListRace, whole, TypeOK
  <2>3. CASE Goto(t, "open") /\ UNCHANGED status
    <3>1. AtWork(t)
      BY <1>1, <1>5, <2>1, <2>2, <2>3 DEF AtWork, TakeList, Goto, Steps, TypeOK, whole
    <3> QED
      BY <3>1, JobStep
  <2>4. CASE ListRace(t)
    <3>1. AtWork(t)
      BY <1>1, <1>5, <2>1, <2>2, <2>4 DEF AtWork, TakeList, ListRace, Steps, TypeOK, whole
    <3> QED
      BY <3>1, JobStep
  <2> QED
    BY <1>5, <2>3, <2>4 DEF TakeList
<1>6. CASE Push(t)
  <2>1. whole /\ pc = [pc EXCEPT ![t] = "push"]
    BY <1>2, <1>6 DEF Push, TypeOK
  <2>2. CASE handles_' = Append(handles_, job[t].file) /\ Goto(t, "pushList") /\ UNCHANGED status
    <3>1. handles_' \in Seq(Files \cup {None}) /\ Len(handles_') = Len(handles_) + 1
      BY <2>1, <2>2 DEF whole, TypeOK
    <3>2. AtWork(t)
      BY <1>1, <1>6, <2>1, <2>2, <3>1 DEF AtWork, Push, Goto, Steps, TypeOK, whole
    <3> QED
      BY <3>2, JobStep
  <2>3. CASE status' = "undefined" /\ UNCHANGED <<handles_, pc>>
    <3>1. AtWork(t)
      BY <1>1, <1>6, <2>1, <2>3 DEF AtWork, Push, Steps, TypeOK, whole
    <3> QED
      BY <3>1, JobStep
  <2> QED
    BY <1>6, <2>2, <2>3 DEF Push
<1>7. CASE PushList(t)
  <2>1. whole /\ 0 < Len(handles_) /\ pc = [pc EXCEPT ![t] = "pushList"]
    BY <1>2, <1>7 DEF PushList, JobsWhole, TypeOK
  <2>2. listed' \in [Files -> SUBSET (Nat \cup {-1})]
    <3>1. Len(handles_) - 1 \in Nat
      BY <1>1, <2>1
    <3>2. CASE listed' = [listed EXCEPT ![job[t].file] = @ \cup {Len(handles_) - 1}]
      BY <2>1, <3>1, <3>2 DEF whole, TypeOK
    <3>3. CASE listed' = listed
      BY <3>3 DEF TypeOK
    <3> QED
      BY <1>7, <3>2, <3>3 DEF PushList, ListRace
  <2>3. CASE Goto(t, "pushReturn") /\ UNCHANGED status
    <3>1. AtWork(t)
      BY <1>1, <1>7, <2>1, <2>2, <2>3 DEF AtWork, PushList, Goto, Steps, TypeOK, whole
    <3> QED
      BY <3>1, JobStep
  <2>4. CASE ListRace(t)
    <3>1. AtWork(t)
      BY <1>1, <1>7, <2>1, <2>2, <2>4 DEF AtWork, PushList, ListRace, Steps, TypeOK, whole
    <3> QED
      BY <3>1, JobStep
  <2> QED
    BY <1>7, <2>3, <2>4 DEF PushList
<1>8. CASE PushReturn(t)
  <2> DEFINE j == [job[t] EXCEPT !.i = Len(handles_) - 1]
  <2>1. whole /\ 0 < Len(handles_)
    BY <1>2, <1>8 DEF PushReturn, JobsWhole
  <2>2. Len(handles_) - 1 \in Nat /\ Len(handles_) - 1 < Len(handles_)
    BY <1>1, <2>1
  <2>3. j \in [desc : Descriptors, file : Files, i : Nat] /\ j.i < Len(handles_)
    BY <2>1, <2>2 DEF whole
  <2>4. /\ job' = [job EXCEPT ![t] = j] /\ pc' = [pc EXCEPT ![t] = "open"]
        /\ UNCHANGED <<handles_, listed, fi, status, overlapped>>
    BY <1>8 DEF PushReturn, Goto
  <2> HIDE DEF j
  <2>5. pc'[t] = "open" /\ job'[t] = j
    BY <2>4 DEF TypeOK
  <2>6. AtWork(t)
    BY <1>1, <2>3, <2>4, <2>5 DEF AtWork, Steps, TypeOK
  <2> QED
    BY <2>6, JobStep
<1>9. CASE Open(t)
  <2>1. whole /\ job[t].i < Len(handles_) /\ pc[t] # "idle"
    BY <1>2, <1>9 DEF Open, JobsWhole
  <2>2. CASE Answer(t, [fid |-> job[t].i, file |-> job[t].file])
    BY <1>9, <2>1, <2>2, AnswerStep DEF Open, TypeOK, whole
  <2>3. CASE Goto(t, "release") /\ UNCHANGED <<fi, job>>
    <3>1. AtWork(t)
      BY <1>1, <1>9, <2>1, <2>3 DEF AtWork, Open, Goto, Steps, TypeOK, whole
    <3> QED
      BY <3>1, JobStep
  <2> QED
    BY <1>9, <2>2, <2>3 DEF Open
<1>10. CASE Close(t)
  <2>1. whole /\ job[t].i < Len(handles_) /\ pc[t] # "idle"
    BY <1>2, <1>10 DEF Close, JobsWhole
  <2>2. CASE Answer(t, None)
    BY <1>10, <2>1, <2>2, AnswerStep DEF Close, TypeOK
  <2>3. CASE Goto(t, "release") /\ UNCHANGED <<fi, job>>
    <3>1. AtWork(t)
      BY <1>1, <1>10, <2>1, <2>3 DEF AtWork, Close, Goto, Steps, TypeOK, whole
    <3> QED
      BY <3>1, JobStep
  <2> QED
    BY <1>10, <2>2, <2>3 DEF Close
<1>11. CASE Release(t)
  <2>1. whole /\ job[t].i < Len(handles_) /\ pc[t] # "idle"
    BY <1>2, <1>11 DEF Release, JobsWhole
  <2>2. CASE Answer(t, None) /\ UNCHANGED listed
    BY <1>11, <2>1, <2>2, AnswerStep DEF Release, TypeOK
  <2>3. CASE ~(Answer(t, None) /\ UNCHANGED listed)
    <3> DEFINE e == handles_[SlotOf(t)]
               left == IF job[t].i \in listed[e] THEN (listed[e] \ {job[t].i}) \cup {-1} ELSE listed[e]
    <3>1. e \in Files
      BY <1>11, <2>1, <2>3 DEF Release, SlotOf, whole, TypeOK
    <3>2. listed' = [listed EXCEPT ![e] = left] /\ Goto(t, "free") /\ UNCHANGED <<fi, job>>
      BY <1>11, <2>3 DEF Release
    <3>3. left \in SUBSET (Nat \cup {-1})
      BY <3>1 DEF TypeOK
    <3>4. listed' \in [Files -> SUBSET (Nat \cup {-1})]
      BY <3>1, <3>2, <3>3 DEF TypeOK
    <3>5. AtWork(t)
      BY <1>1, <1>11, <2>1, <3>2, <3>4 DEF AtWork, Release, Goto, Steps, TypeOK, whole
    <3> QED
      BY <3>5, JobStep
  <2> QED
    BY <2>2, <2>3
<1>12. CASE Free(t)
  <2>1. whole /\ job[t].i < Len(handles_) /\ pc[t] # "idle"
    BY <1>2, <1>12 DEF Free, JobsWhole
  <2>2. handles_' \in Seq(Files \cup {None}) /\ Len(handles_') = Len(handles_)
    BY <1>12, <2>1 DEF Free, SlotOf, whole, TypeOK
  <2> QED
    BY <1>12, <2>1, <2>2, AnswerStep DEF Free, TypeOK
<1> QED
  BY <1>3, <1>4, <1>5, <1>6, <1>7, <1>8, <1>9, <1>10, <1>11, <1>12 DEF Work

\* A thread that takes a request has one.
LEMMA RequestIInv ==
  ASSUME IInv, NEW t \in Threads, NEW d \in Descriptors,
         CloseFile(t, d) \/ \E f \in Files : OpenFile(t, d, f)
  PROVE  IInv'
<1> USE DEF IInv
<1>1. CASE CloseFile(t, d)
  <2> DEFINE j == [desc |-> d, file |-> fi[d].file, i |-> fi[d].fid]
  <2>1. j \in [desc : Descriptors, file : Files, i : Nat] /\ j.i < Len(handles_)
    BY <1>1 DEF CloseFile, FidsInTable, TypeOK
  <2>2. job' = [job EXCEPT ![t] = j]
    BY <1>1 DEF CloseFile
  <2> HIDE DEF j
  <2>3. AtWork(t)
    BY <1>1, <2>1, <2>2 DEF AtWork, CloseFile, Goto, Steps, TypeOK
  <2> QED
    BY <2>3, JobStep
<1>2. ASSUME NEW f \in Files, OpenFile(t, d, f)
      PROVE  IInv'
  <2> DEFINE j == [desc |-> d, file |-> f, i |-> 0]
  <2>1. j \in [desc : Descriptors, file : Files, i : Nat]
    OBVIOUS
  <2>2. job' = [job EXCEPT ![t] = j]
    BY <1>2 DEF OpenFile
  <2> HIDE DEF j
  <2>3. AtWork(t)
    BY <1>2, <2>1, <2>2 DEF AtWork, OpenFile, Goto, Steps, TypeOK
  <2> QED
    BY <2>3, JobStep
<1> QED
  BY <1>1, <1>2

\* The invariant holds in every state, whatever the threads do at once.
THEOREM Invariance == Spec => []IInv
<1>1. ASSUME IInv, [Next]_vars PROVE IInv'
  <2>1. CASE UNCHANGED vars
    BY <1>1, <2>1 DEF vars, IInv, TypeOK, JobsWhole, FidsInTable
  <2>2. CASE Next
    BY <1>1, <2>2, WorkIInv, RequestIInv DEF Next
  <2> QED
    BY <1>1, <2>1, <2>2
<1> QED
  BY <1>1, InitIInv, PTL DEF Spec

\* Type correctness of the worker threads' state.
THEOREM WorkersTypeCorrect == Spec => []TypeOK
<1>1. IInv => TypeOK
  BY DEF IInv
<1> QED
  BY <1>1, Invariance, PTL

\* closeFile subscripts handles_ with the fid of an open descriptor and no check: for any
\* number of threads without a lock, the subscript is in range.
THEOREM FidsStayInTable == Spec => []FidsInTable
<1>1. IInv => FidsInTable
  BY DEF IInv
<1> QED
  BY <1>1, Invariance, PTL
------------------------------------------------------------------------------
(* As long as no two opens overlapped: who holds which slot *)

Holding == {"takeList", "pushList", "pushReturn", "open", "close", "release", "free"}

\* The fid a thread works with: until genHandle has returned, that of the last slot.
FidOf(t) == IF pc[t] \in {"pushList", "pushReturn"} THEN Len(handles_) - 1 ELSE job[t].i

\* Slot i is used for descriptor d, opened on file f: the application has the handle, or
\* the thread that serves it does.
Holds(d, i, f) ==
  \/ fi[d] # None /\ i = fi[d].fid /\ f = fi[d].file
  \/ \E t \in Threads : pc[t] \in Holding /\ d = job[t].desc /\ i = FidOf(t) /\ f = job[t].file

InGenHandle == {"scan", "take", "takeList", "push", "pushList", "pushReturn"}

OneGenerates ==
  \A t, u \in Threads : pc[t] \in InGenHandle /\ pc[u] \in InGenHandle => t = u

\* One request at a time per descriptor, and what the descriptor has meanwhile.
OneRequestEach ==
  /\ \A t, u \in Threads : pc[t] # "idle" /\ pc[u] # "idle" /\ job[t].desc = job[u].desc => t = u
  /\ \A t \in Threads :
       /\ pc[t] \in InGenHandle \cup {"open"} => fi[job[t].desc] = None
       /\ pc[t] \in {"close", "release", "free"} /\ fi[job[t].desc] # None =>
            fi[job[t].desc].fid = job[t].i /\ fi[job[t].desc].file = job[t].file

\* A slot that is held has the file it is held for, and no two descriptors hold one.
SlotsHeld ==
  /\ \A d \in Descriptors, i \in Nat, f \in Files :
       Holds(d, i, f) => i < Len(handles_) /\ handles_[i + 1] = f
  /\ \A c, d \in Descriptors, i \in Nat, f, g \in Files : Holds(c, i, f) /\ Holds(d, i, g) => c = d

\* Between genHandle's look at a slot and its use nobody else takes it.
StillFree == \A t \in Threads : pc[t] = "take" => handles_[job[t].i + 1] = None

\* Every slot in use is somebody's.
SlotsUsed ==
  \A i \in Nat : i < Len(handles_) /\ handles_[i + 1] # None =>
    \E d \in Descriptors, f \in Files : Holds(d, i, f)

\* So is every element of an entry's vector, and not of one about to free its slot.
Frees(d) == \E t \in Threads : pc[t] = "free" /\ job[t].desc = d

EntriesHeld ==
  \A f \in Files : \A i \in listed[f] \ {-1} : \E d \in Descriptors : Holds(d, i, f) /\ ~Frees(d)

Orderly == OneGenerates /\ OneRequestEach /\ SlotsHeld /\ StillFree /\ SlotsUsed /\ EntriesHeld

Quiet == status = "up" /\ ~overlapped

QInv == IInv /\ (Quiet => Orderly)

\* One of t's doing, and of everything else's.
ByThread(t, d, i, f) == pc[t] \in Holding /\ d = job[t].desc /\ i = FidOf(t) /\ f = job[t].file

ByOthers(t, d, i, f) ==
  \/ fi[d] # None /\ i = fi[d].fid /\ f = fi[d].file
  \/ \E u \in Threads \ {t} : ByThread(u, d, i, f)

\* Who is to have a slot is a thread, or anybody else.
LEMMA HoldsSplit ==
  ASSUME NEW t \in Threads, NEW d, NEW i, NEW f
  PROVE  Holds(d, i, f) <=> ByOthers(t, d, i, f) \/ ByThread(t, d, i, f)
BY DEF Holds, ByOthers, ByThread

\* A descriptor has one slot.
LEMMA HoldsOne ==
  ASSUME OneRequestEach, NEW d \in Descriptors, NEW i, NEW j, NEW f, NEW g,
         Holds(d, i, f), Holds(d, j, g)
  PROVE  i = j /\ f = g
<1>1. ASSUME NEW t \in Threads, NEW k, NEW h, ByThread(t, d, k, h), fi[d] # None
      PROVE  k = fi[d].fid /\ h = fi[d].file
  BY <1>1 DEF ByThread, OneRequestEach, Holding, InGenHandle, FidOf
<1>2. ASSUME NEW t \in Threads, NEW u \in Threads, ByThread(t, d, i, f), ByThread(u, d, j, g)
      PROVE  i = j /\ f = g
  BY <1>2, ZenonT(60) DEF ByThread, OneRequestEach, Holding
<1> QED
  BY <1>1, <1>2 DEF Holds, ByThread

\* What others hold does not change with t's place and job.
LEMMA OthersHold ==
  ASSUME NEW t \in Threads, IInv, OneGenerates,
         pc' = [pc EXCEPT ![t] = pc'[t]], job' = [job EXCEPT ![t] = job'[t]], fi' = fi,
         Len(handles_') = Len(handles_) \/ pc[t] \in InGenHandle,
         NEW d, NEW i, NEW f
  PROVE  ByOthers(t, d, i, f)' <=> ByOthers(t, d, i, f)
<1>1. ASSUME NEW u \in Threads \ {t}
      PROVE  ByThread(u, d, i, f)' <=> ByThread(u, d, i, f)
  <2>1. pc'[u] = pc[u] /\ job'[u] = job[u]
    BY DEF IInv, TypeOK
  <2>2. FidOf(u)' = FidOf(u)
    BY <2>1 DEF FidOf, OneGenerates, InGenHandle
  <2> QED
    BY <2>1, <2>2 DEF ByThread
<1> QED
  BY <1>1 DEF ByOthers

\* A thread goes on with its request, or with another at its end.
LEMMA GoesOn ==
  ASSUME NEW t \in Threads, IInv, Orderly,
         pc' = [pc EXCEPT ![t] = pc'[t]], job' = [job EXCEPT ![t] = job'[t]], fi' = fi,
         pc[t] # "idle", job'[t].desc = job[t].desc,
         pc'[t] \in InGenHandle => pc[t] \in InGenHandle,
         pc'[t] = "open" => pc[t] \in InGenHandle,
         pc'[t] \notin InGenHandle \cup {"open"} =>
           pc[t] \in {"open", "close", "release"} /\ job'[t] = job[t]
  PROVE  OneGenerates' /\ OneRequestEach'
<1>1. \A u \in Threads \ {t} : pc'[u] = pc[u] /\ job'[u] = job[u]
  BY DEF IInv, TypeOK
<1>2. OneGenerates'
  BY <1>1 DEF Orderly, OneGenerates
<1>3. OneRequestEach'
  <2>1. ASSUME NEW u \in Threads, NEW v \in Threads, pc'[u] # "idle", pc'[v] # "idle",
               job'[u].desc = job'[v].desc
        PROVE  u = v
    BY <1>1, <2>1 DEF Orderly, OneRequestEach
  <2>2. ASSUME NEW u \in Threads
        PROVE  /\ pc'[u] \in InGenHandle \cup {"open"} => fi'[job'[u].desc] = None
               /\ pc'[u] \in {"close", "release", "free"} /\ fi'[job'[u].desc] # None =>
                    fi'[job'[u].desc].fid = job'[u].i /\ fi'[job'[u].desc].file = job'[u].file
    BY <1>1 DEF Orderly, OneRequestEach, InGenHandle
  <2> QED
    BY <2>1, <2>2 DEF OneRequestEach
<1> QED
  BY <1>2, <1>3

\* The end of a request leaves the descriptor to nobody, and the others where they were.
LEMMA Answered ==
  ASSUME NEW t \in Threads, IInv, Orderly, NEW r, Answer(t, r), pc[t] # "idle"
  PROVE  OneGenerates' /\ OneRequestEach'
<1>1. /\ \A u \in Threads \ {t} : pc'[u] = pc[u] /\ job'[u] = job[u]
      /\ pc'[t] = "idle"
      /\ \A d \in Descriptors \ {job[t].desc} : fi'[d] = fi[d]
  BY DEF Answer, Goto, IInv, TypeOK
<1>2. OneGenerates'
  BY <1>1 DEF Orderly, OneGenerates, InGenHandle
<1>3. ASSUME NEW u \in Threads \ {t}, pc[u] # "idle"
      PROVE  fi'[job'[u].desc] = fi[job[u].desc]
  BY <1>1, <1>3 DEF Orderly, OneRequestEach, IInv, JobsWhole
<1>4. OneRequestEach'
  BY <1>1, <1>3 DEF Orderly, OneRequestEach, InGenHandle
<1> QED
  BY <1>2, <1>4

\* The same slots are held.
LEMMA SameSlots ==
  ASSUME Orderly, handles_' = handles_,
         \A d \in Descriptors, i \in Nat, f \in Files : Holds(d, i, f)' <=> Holds(d, i, f)
  PROVE  SlotsHeld' /\ SlotsUsed'
BY DEF Orderly, SlotsHeld, SlotsUsed

\* One more slot is held, which nobody held.
LEMMA MoreSlots ==
  ASSUME Orderly, NEW c \in Descriptors, NEW k \in Nat, NEW e \in Files,
         \A d \in Descriptors, i \in Nat, f \in Files :
           Holds(d, i, f)' <=> Holds(d, i, f) \/ (d = c /\ i = k /\ f = e),
         \A d \in Descriptors, f \in Files : ~Holds(d, k, f),
         k < Len(handles_'), handles_'[k + 1] = e,
         \A i \in Nat \ {k} : /\ i < Len(handles_') <=> i < Len(handles_)
                              /\ i < Len(handles_) => handles_'[i + 1] = handles_[i + 1]
  PROVE  SlotsHeld' /\ SlotsUsed'
<1>1. ASSUME NEW d \in Descriptors, NEW i \in Nat, NEW f \in Files, Holds(d, i, f)'
      PROVE  i < Len(handles_') /\ handles_'[i + 1] = f
  BY <1>1 DEF Orderly, SlotsHeld
<1>2. ASSUME NEW b \in Descriptors, NEW d \in Descriptors, NEW i \in Nat, NEW f \in Files,
             NEW g \in Files, Holds(b, i, f)', Holds(d, i, g)'
      PROVE  b = d
  BY <1>2 DEF Orderly, SlotsHeld
<1>3. ASSUME NEW i \in Nat, i < Len(handles_'), handles_'[i + 1] # None
      PROVE  \E d \in Descriptors, f \in Files : Holds(d, i, f)'
  BY <1>3 DEF Orderly, SlotsUsed
<1> QED
  BY <1>1, <1>2, <1>3 DEF SlotsHeld, SlotsUsed

\* One descriptor's slot is free again.
LEMMA FewerSlots ==
  ASSUME Orderly, NEW c \in Descriptors, NEW k \in Nat, NEW e \in Files, Holds(c, k, e),
         \A d \in Descriptors, i \in Nat, f \in Files : Holds(d, i, f)' <=> Holds(d, i, f) /\ d # c,
         Len(handles_') = Len(handles_), handles_'[k + 1] = None,
         \A i \in Nat \ {k} : i < Len(handles_) => handles_'[i + 1] = handles_[i + 1]
  PROVE  SlotsHeld' /\ SlotsUsed'
<1>1. ASSUME NEW d \in Descriptors, NEW i \in Nat, NEW f \in Files, Holds(d, i, f)'
      PROVE  i < Len(handles_') /\ handles_'[i + 1] = f
  BY <1>1 DEF Orderly, SlotsHeld
<1>2. ASSUME NEW b \in Descriptors, NEW d \in Descriptors, NEW i \in Nat, NEW f \in Files,
             NEW g \in Files, Holds(b, i, f)', Holds(d, i, g)'
      PROVE  b = d
  BY <1>2 DEF Orderly, SlotsHeld
<1>3. ASSUME NEW i \in Nat, i < Len(handles_'), handles_'[i + 1] # None
      PROVE  \E d \in Descriptors, f \in Files : Holds(d, i, f)'
  <2>1. i # k /\ i < Len(handles_) /\ handles_[i + 1] # None
    BY <1>3
  <2>2. PICK d \in Descriptors, f \in Files : Holds(d, i, f)
    BY <2>1 DEF Orderly, SlotsUsed
  <2>3. d # c
    BY <2>1, <2>2, HoldsOne DEF Orderly
  <2> QED
    BY <2>2, <2>3
<1> QED
  BY <1>1, <1>2, <1>3 DEF SlotsHeld, SlotsUsed

\* The entries' vectors stay as they are, and whoever an element belongs to keeps it.
LEMMA SameEntries ==
  ASSUME IInv, EntriesHeld, listed' = listed,
         \A d \in Descriptors, i \in Nat, f \in Files : Holds(d, i, f) /\ ~Frees(d) => Holds(d, i, f)',
         \A d \in Descriptors : Frees(d)' => Frees(d)
  PROVE  EntriesHeld'
<1>1. ASSUME NEW f \in Files, NEW i \in listed[f] \ {-1}
      PROVE  \E d \in Descriptors : Holds(d, i, f)' /\ ~Frees(d)'
  <2>1. i \in Nat
    BY DEF IInv, TypeOK
  <2> QED
    BY <2>1 DEF EntriesHeld
<1> QED
  BY <1>1 DEF EntriesHeld

\* A thread that goes to a step other than free frees nothing more.
LEMMA FreesFewer ==
  ASSUME NEW t \in Threads, IInv, pc' = [pc EXCEPT ![t] = pc'[t]],
         job' = [job EXCEPT ![t] = job'[t]], pc'[t] # "free", NEW d, Frees(d)'
  PROVE  Frees(d)
BY DEF Frees, IInv, TypeOK

\* A step inside genHandle's scan, or of a failed open, or a look at a slot: nothing moves.
LEMMA StepHoldsSame ==
  ASSUME NEW t \in Threads, IInv, Orderly, pc[t] # "idle",
         pc' = [pc EXCEPT ![t] = pc'[t]], job' = [job EXCEPT ![t] = job'[t]], fi' = fi,
         handles_' = handles_,
         \A d \in Descriptors, i \in Nat, f \in Files : ByThread(t, d, i, f)' <=> ByThread(t, d, i, f)
  PROVE  \A d \in Descriptors, i \in Nat, f \in Files : Holds(d, i, f)' <=> Holds(d, i, f)
<1> TAKE d \in Descriptors, i \in Nat, f \in Files
<1>1. Len(handles_') = Len(handles_)
  OBVIOUS
<1>2. ByOthers(t, d, i, f)' <=> ByOthers(t, d, i, f)
  BY <1>1, OthersHold DEF Orderly
<1>3. Holds(d, i, f)' <=> ByOthers(t, d, i, f)' \/ ByThread(t, d, i, f)'
  BY DEF Holds, ByOthers, ByThread
<1> QED
  BY <1>2, <1>3, HoldsSplit

\* A scan finds a slot that is free, and takes nothing.
LEMMA ScanOrderly ==
  ASSUME NEW t \in Threads, IInv, Orderly, Scan(t)
  PROVE  Orderly'
<1>1. /\ pc[t] = "scan" /\ pc'[t] \in {"scan", "push", "take"} /\ job'[t].desc = job[t].desc
      /\ pc' = [pc EXCEPT ![t] = pc'[t]] /\ job' = [job EXCEPT ![t] = job'[t]]
      /\ UNCHANGED <<handles_, listed, fi>>
      /\ pc'[t] = "take" => handles_'[job'[t].i + 1] = None
  BY DEF Scan, Goto, SlotOf, IInv, TypeOK
<1>2. OneGenerates' /\ OneRequestEach'
  BY <1>1, GoesOn DEF InGenHandle
<1>3. \A d, i, f : ~ByThread(t, d, i, f) /\ ~ByThread(t, d, i, f)'
  BY <1>1 DEF ByThread, Holding
<1>4. \A d \in Descriptors, i \in Nat, f \in Files : Holds(d, i, f)' <=> Holds(d, i, f)
  BY <1>1, <1>3, StepHoldsSame
<1>5. SlotsHeld' /\ SlotsUsed'
  BY <1>1, <1>4, SameSlots
<1>6. StillFree'
  BY <1>1, ZenonT(60) DEF Orderly, StillFree, IInv, TypeOK
<1>7. EntriesHeld'
  BY <1>1, <1>4, SameEntries, FreesFewer DEF Orderly
<1> QED
  BY <1>2, <1>5, <1>6, <1>7 DEF Orderly

\* Nobody else is in genHandle: the slot found is still free when it is taken.
LEMMA TakeOrderly ==
  ASSUME NEW t \in Threads, IInv, Orderly, Take(t)
  PROVE  Orderly'
<1> DEFINE c == job[t].desc
           k == job[t].i
           e == job[t].file
<1>1. /\ pc[t] = "take" /\ pc'[t] = "takeList" /\ job' = job
      /\ pc' = [pc EXCEPT ![t] = pc'[t]] /\ job' = [job EXCEPT ![t] = job'[t]]
      /\ UNCHANGED <<listed, fi>>
      /\ handles_' = [handles_ EXCEPT ![k + 1] = e]
  BY DEF Take, Goto, SlotOf, IInv, TypeOK
<1>2. c \in Descriptors /\ k \in Nat /\ e \in Files /\ k < Len(handles_)
  BY <1>1 DEF IInv, JobsWhole, TypeOK
<1>3. Len(handles_') = Len(handles_) /\ handles_'[k + 1] = e
  BY <1>1, <1>2 DEF IInv, TypeOK
<1>4. \A i \in Nat \ {k} : i < Len(handles_) => handles_'[i + 1] = handles_[i + 1]
  BY <1>1, <1>2 DEF IInv, TypeOK
<1>5. OneGenerates' /\ OneRequestEach'
  BY <1>1, GoesOn DEF InGenHandle
<1>6. handles_[k + 1] = None
  BY <1>1 DEF Orderly, StillFree
<1>7. \A d \in Descriptors, f \in Files : ~Holds(d, k, f)
  BY <1>2, <1>6, NoneAssumption DEF Orderly, SlotsHeld
<1>8. \A d \in Descriptors, i \in Nat, f \in Files :
        Holds(d, i, f)' <=> Holds(d, i, f) \/ (d = c /\ i = k /\ f = e)
  <2> TAKE d \in Descriptors, i \in Nat, f \in Files
  <2>1. ByOthers(t, d, i, f)' <=> ByOthers(t, d, i, f)
    BY <1>1, <1>3, OthersHold DEF Orderly
  <2>2. Holds(d, i, f)' <=> ByOthers(t, d, i, f)' \/ ByThread(t, d, i, f)'
    BY DEF Holds, ByOthers, ByThread
  <2>3. ~ByThread(t, d, i, f) /\ (ByThread(t, d, i, f)' <=> d = c /\ i = k /\ f = e)
    BY <1>1 DEF ByThread, Holding, FidOf
  <2> QED
    BY <2>1, <2>2, <2>3, HoldsSplit
<1> HIDE DEF c, k, e
<1>9. SlotsHeld' /\ SlotsUsed'
  BY <1>2, <1>3, <1>4, <1>7, <1>8, MoreSlots
<1>10. StillFree'
  BY <1>1 DEF Orderly, StillFree, OneGenerates, InGenHandle, IInv, TypeOK
<1>11. EntriesHeld'
  BY <1>1, <1>8, SameEntries, FreesFewer DEF Orderly
<1> QED
  BY <1>5, <1>9, <1>10, <1>11 DEF Orderly

\* A push that goes well adds a slot, which is the thread's, and moves none.
LEMMA PushOrderly ==
  ASSUME NEW t \in Threads, IInv, Orderly, Push(t), status' = "up"
  PROVE  Orderly'
<1> DEFINE c == job[t].desc
           k == Len(handles_)
           e == job[t].file
<1>1. /\ pc[t] = "push" /\ pc'[t] = "pushList" /\ job' = job
      /\ pc' = [pc EXCEPT ![t] = pc'[t]] /\ job' = [job EXCEPT ![t] = job'[t]]
      /\ UNCHANGED <<listed, fi>>
      /\ handles_' = Append(handles_, e)
  BY DEF Push, Goto, IInv, TypeOK
<1>2. c \in Descriptors /\ k \in Nat /\ e \in Files
  BY <1>1 DEF IInv, JobsWhole, TypeOK
<1>3. Len(handles_') = k + 1 /\ k < Len(handles_') /\ handles_'[k + 1] = e
  BY <1>1, <1>2 DEF IInv, TypeOK
<1>4. \A i \in Nat \ {k} : /\ i < Len(handles_') <=> i < Len(handles_)
                           /\ i < Len(handles_) => handles_'[i + 1] = handles_[i + 1]
  BY <1>1, <1>2, <1>3 DEF IInv, TypeOK
<1>5. OneGenerates' /\ OneRequestEach'
  BY <1>1, GoesOn DEF InGenHandle
<1>7. \A d \in Descriptors, f \in Files : ~Holds(d, k, f)
  BY <1>2 DEF Orderly, SlotsHeld
<1>8. \A d \in Descriptors, i \in Nat, f \in Files :
        Holds(d, i, f)' <=> Holds(d, i, f) \/ (d = c /\ i = k /\ f = e)
  <2> TAKE d \in Descriptors, i \in Nat, f \in Files
  <2>1. ByOthers(t, d, i, f)' <=> ByOthers(t, d, i, f)
    BY <1>1, OthersHold DEF Orderly, InGenHandle
  <2>2. Holds(d, i, f)' <=> ByOthers(t, d, i, f)' \/ ByThread(t, d, i, f)'
    BY DEF Holds, ByOthers, ByThread
  <2>3. ~ByThread(t, d, i, f) /\ (ByThread(t, d, i, f)' <=> d = c /\ i = k /\ f = e)
    BY <1>1, <1>2, <1>3 DEF ByThread, Holding, FidOf
  <2> QED
    BY <2>1, <2>2, <2>3, HoldsSplit
<1>9. SlotsHeld' /\ SlotsUsed'
  <2> HIDE DEF c, k, e
  <2>1. k < Len(handles_')
    BY <1>3
  <2>2. handles_'[k + 1] = e
    BY <1>3
  <2> QED
    BY <1>2, <1>4, <1>7, <1>8, <2>1, <2>2, MoreSlots, SMTT(60)
<1>10. StillFree'
  BY <1>1 DEF Orderly, StillFree, OneGenerates, InGenHandle, IInv, TypeOK
<1>11. EntriesHeld'
  <2> HIDE DEF c, k, e
  <2> QED
    BY <1>1, <1>8, SameEntries, FreesFewer DEF Orderly
<1> QED
  BY <1>5, <1>9, <1>10, <1>11 DEF Orderly

\* TakeList and PushList: the new element is that of the slot the thread has taken.
LEMMA ListOrderly ==
  ASSUME NEW t \in Threads, IInv, Orderly, TakeList(t) \/ PushList(t), status' = "up", status = "up"
  PROVE  Orderly'
<1> DEFINE e == job[t].file
<1>1. /\ \/ pc[t] = "takeList" /\ pc'[t] = "open"
         \/ pc[t] = "pushList" /\ pc'[t] = "pushReturn"
      /\ job' = job /\ pc' = [pc EXCEPT ![t] = pc'[t]] /\ job' = [job EXCEPT ![t] = job'[t]]
      /\ UNCHANGED <<handles_, fi>>
      /\ listed' = [listed EXCEPT ![e] = @ \cup {FidOf(t)}]
  <2>1. CASE TakeList(t)
    <3>1. /\ pc[t] = "takeList" /\ pc' = [pc EXCEPT ![t] = "open"]
          /\ job' = job /\ UNCHANGED <<handles_, fi>>
          /\ listed' = [listed EXCEPT ![e] = @ \cup {job[t].i}]
      BY <2>1 DEF TakeList, ListRace, Goto
    <3>2. FidOf(t) = job[t].i
      BY <3>1 DEF FidOf
    <3>3. listed' = [listed EXCEPT ![e] = @ \cup {FidOf(t)}]
      <4> HIDE DEF e
      <4> QED
        BY <3>1, <3>2
    <3>4. /\ pc'[t] = "open"
          /\ pc' = [pc EXCEPT ![t] = pc'[t]] /\ job' = [job EXCEPT ![t] = job'[t]]
      BY <3>1 DEF IInv, TypeOK
    <3> QED
      BY <3>1, <3>3, <3>4
  <2>2. CASE PushList(t)
    BY <2>2 DEF PushList, ListRace, Goto, FidOf, IInv, TypeOK
  <2> QED
    BY <2>1, <2>2
<1>2. job[t].desc \in Descriptors /\ e \in Files
  BY <1>1 DEF IInv, JobsWhole
<1>3. OneGenerates' /\ OneRequestEach'
  BY <1>1, GoesOn DEF InGenHandle
<1>4. \A d, i, f : ByThread(t, d, i, f)' <=> ByThread(t, d, i, f)
  BY <1>1 DEF ByThread, Holding, FidOf
<1>5. \A d \in Descriptors, i \in Nat, f \in Files : Holds(d, i, f)' <=> Holds(d, i, f)
  BY <1>1, <1>4, StepHoldsSame
<1>6. SlotsHeld' /\ SlotsUsed'
  BY <1>1, <1>5, SameSlots
<1>7. StillFree'
  BY <1>1 DEF Orderly, StillFree, IInv, TypeOK
<1>8. EntriesHeld'
  <2>1. ASSUME NEW f \in Files, NEW i \in listed'[f] \ {-1}
        PROVE  \E d \in Descriptors : Holds(d, i, f)' /\ ~Frees(d)'
    <3>0. i \in Nat \/ (f = e /\ i = FidOf(t))
      BY <1>1, <1>2 DEF IInv, TypeOK
    <3>00. FidOf(t) \in Nat
      BY <1>1 DEF IInv, TypeOK, JobsWhole, FidOf
    <3>1. CASE i \in listed[f]
      <4>1. PICK d \in Descriptors : Holds(d, i, f) /\ ~Frees(d)
        BY <3>1 DEF Orderly, EntriesHeld
      <4>2. ~Frees(d)'
        BY <1>1, <4>1, FreesFewer
      <4> QED
        BY <1>5, <3>0, <3>00, <4>1, <4>2
    <3>2. CASE i \notin listed[f]
      <4>1. f = e /\ i = FidOf(t)
        BY <1>1, <1>2, <3>2 DEF IInv, TypeOK
      <4>2. PICK d \in Descriptors : d = job[t].desc
        BY <1>2
      <4>3. Holds(d, i, f)
        BY <1>1, <4>1, <4>2 DEF Holds, Holding
      <4>4. ~Frees(d)'
        BY <1>1, <4>2 DEF Frees, Orderly, OneRequestEach, IInv, TypeOK
      <4>5. i \in Nat
        BY <3>00, <4>1
      <4> QED
        BY <1>5, <4>3, <4>4, <4>5
    <3> QED
      BY <3>1, <3>2
  <2> QED
    BY <2>1 DEF EntriesHeld
<1> QED
  BY <1>3, <1>6, <1>7, <1>8 DEF Orderly

\* Nobody has pushed since: the last slot is the thread's own.
LEMMA PushReturnOrderly ==
  ASSUME NEW t \in Threads, IInv, Orderly, PushReturn(t)
  PROVE  Orderly'
<1>1. /\ pc[t] = "pushReturn" /\ pc'[t] = "open" /\ job'[t].desc = job[t].desc
      /\ job'[t].file = job[t].file /\ job'[t].i = Len(handles_) - 1
      /\ pc' = [pc EXCEPT ![t] = pc'[t]] /\ job' = [job EXCEPT ![t] = job'[t]]
      /\ UNCHANGED <<handles_, listed, fi>>
  BY DEF PushReturn, Goto, IInv, TypeOK
<1>2. OneGenerates' /\ OneRequestEach'
  BY <1>1, GoesOn DEF InGenHandle
<1>3. \A d, i, f : ByThread(t, d, i, f)' <=> ByThread(t, d, i, f)
  BY <1>1 DEF ByThread, Holding, FidOf
<1>4. \A d \in Descriptors, i \in Nat, f \in Files : Holds(d, i, f)' <=> Holds(d, i, f)
  BY <1>1, <1>3, StepHoldsSame
<1>5. SlotsHeld' /\ SlotsUsed'
  BY <1>1, <1>4, SameSlots
<1>6. StillFree'
  BY <1>1 DEF Orderly, StillFree, IInv, TypeOK
<1>7. EntriesHeld'
  BY <1>1, <1>4, SameEntries, FreesFewer DEF Orderly
<1> QED
  BY <1>2, <1>5, <1>6, <1>7 DEF Orderly

\* A failed open, and a close whose slot is not empty, go on to release it.
LEMMA ToRelease ==
  ASSUME NEW t \in Threads, IInv, Orderly, pc[t] \in {"open", "close"}, Goto(t, "release"),
         UNCHANGED <<handles_, listed, fi, job>>
  PROVE  Orderly'
<1>1. /\ pc'[t] = "release" /\ pc' = [pc EXCEPT ![t] = pc'[t]]
      /\ job' = job /\ job' = [job EXCEPT ![t] = job'[t]]
  BY DEF Goto, IInv, TypeOK
<1>2. OneGenerates' /\ OneRequestEach'
  BY <1>1, GoesOn DEF InGenHandle
<1>3. \A d, i, f : ByThread(t, d, i, f)' <=> ByThread(t, d, i, f)
  BY <1>1 DEF ByThread, Holding, FidOf
<1>4. \A d \in Descriptors, i \in Nat, f \in Files : Holds(d, i, f)' <=> Holds(d, i, f)
  BY <1>1, <1>3, StepHoldsSame
<1>5. SlotsHeld' /\ SlotsUsed'
  BY <1>4, SameSlots
<1>6. StillFree'
  BY <1>1 DEF Orderly, StillFree, IInv, TypeOK
<1>7. EntriesHeld'
  BY <1>1, <1>4, SameEntries, FreesFewer DEF Orderly
<1> QED
  BY <1>2, <1>5, <1>6, <1>7 DEF Orderly

\* What an answer does to the holders.
LEMMA AnswerOthers ==
  ASSUME NEW t \in Threads, IInv, Orderly, NEW r, Answer(t, r), pc[t] # "idle",
         Len(handles_') = Len(handles_), NEW d \in Descriptors, NEW i, NEW f
  PROVE  Holds(d, i, f)' <=> IF d = job[t].desc THEN r # None /\ i = r.fid /\ f = r.file
                             ELSE Holds(d, i, f)
<1>1. /\ \A u \in Threads \ {t} : pc'[u] = pc[u] /\ job'[u] = job[u] /\ FidOf(u)' = FidOf(u)
      /\ pc'[t] = "idle"
      /\ \A c \in Descriptors \ {job[t].desc} : fi'[c] = fi[c]
      /\ job[t].desc \in Descriptors => fi'[job[t].desc] = r
  BY DEF Answer, Goto, IInv, TypeOK, FidOf
<1>2. \A u \in Threads \ {t} : pc[u] # "idle" => job[u].desc # job[t].desc
  BY DEF Orderly, OneRequestEach
<1>3. ~ByThread(t, d, i, f)'
  BY <1>1 DEF ByThread, Holding
<1>4. \A u \in Threads \ {t} : ByThread(u, d, i, f)' <=> ByThread(u, d, i, f)
  BY <1>1 DEF ByThread
<1>5. Holds(d, i, f)' <=> ByOthers(t, d, i, f)'
  BY <1>3 DEF Holds, ByOthers, ByThread
<1>6. ByOthers(t, d, i, f)' <=> \/ fi'[d] # None /\ i = fi'[d].fid /\ f = fi'[d].file
                                \/ \E u \in Threads \ {t} : ByThread(u, d, i, f)
  BY <1>4 DEF ByOthers
<1>7. CASE d = job[t].desc
  <2>1. \A u \in Threads \ {t} : ~ByThread(u, d, i, f)
    BY <1>2, <1>7 DEF ByThread, Holding
  <2> QED
    BY <1>1, <1>5, <1>6, <1>7, <2>1
<1>8. CASE d # job[t].desc
  <2>1. ~ByThread(t, d, i, f)
    BY <1>8 DEF ByThread
  <2>2. fi'[d] = fi[d]
    BY <1>1, <1>8
  <2> QED
    BY <1>5, <1>6, <1>8, <2>1, <2>2, HoldsSplit DEF ByOthers
<1> QED
  BY <1>7, <1>8

\* After an answer the thread frees nothing, and others are where they were.
LEMMA AnswerFrees ==
  ASSUME NEW t \in Threads, IInv, NEW r, Answer(t, r), NEW d, Frees(d)'
  PROVE  Frees(d)
BY DEF Frees, Answer, Goto, IInv, TypeOK

\* An open file's handle is the slot its thread has taken.
LEMMA OpenOrderly ==
  ASSUME NEW t \in Threads, IInv, Orderly, Open(t)
  PROVE  Orderly'
<1>1. CASE Goto(t, "release") /\ UNCHANGED <<fi, job>>
  BY <1>1, ToRelease DEF Open
<1>2. CASE Answer(t, [fid |-> job[t].i, file |-> job[t].file])
  <2> DEFINE r == [fid |-> job[t].i, file |-> job[t].file]
  <2>1. pc[t] = "open" /\ UNCHANGED <<handles_, listed>> /\ Answer(t, r)
    BY <1>2 DEF Open
  <2>2. OneGenerates' /\ OneRequestEach'
    BY <2>1, Answered
  <2>3. PICK c \in Descriptors : c = job[t].desc
    BY <2>1 DEF IInv, JobsWhole
  <2>4. \A d \in Descriptors, i \in Nat, f \in Files : Holds(d, i, f)' <=> Holds(d, i, f)
    <3> TAKE d \in Descriptors, i \in Nat, f \in Files
    <3>1. Holds(d, i, f)' <=> IF d = job[t].desc THEN r # None /\ i = r.fid /\ f = r.file
                              ELSE Holds(d, i, f)
      BY <2>1, AnswerOthers
    <3>2. r # None
      <4>1. r \in [fid : Nat, file : Files]
        BY <2>1 DEF IInv, TypeOK, JobsWhole
      <4> QED
        BY <4>1, NoneAssumption
    <3>3. Holds(c, job[t].i, job[t].file)
      BY <2>1, <2>3 DEF Holds, Holding, FidOf
    <3>4. r.fid = job[t].i /\ r.file = job[t].file
      OBVIOUS
    <3>5. d = c /\ Holds(d, i, f) => i = job[t].i /\ f = job[t].file
      BY <3>3, HoldsOne DEF Orderly
    <3> QED
      BY <2>3, <3>1, <3>2, <3>3, <3>4, <3>5
  <2>5. SlotsHeld' /\ SlotsUsed'
    BY <2>1, <2>4, SameSlots
  <2>6. StillFree'
    BY <2>1 DEF Orderly, StillFree, Answer, Goto, IInv, TypeOK
  <2>7. EntriesHeld'
    BY <2>1, <2>4, SameEntries, AnswerFrees DEF Orderly
  <2> QED
    BY <2>2, <2>5, <2>6, <2>7 DEF Orderly
<1> QED
  BY <1>1, <1>2 DEF Open

\* A close never finds its slot empty.
LEMMA CloseOrderly ==
  ASSUME NEW t \in Threads, IInv, Orderly, Close(t)
  PROVE  Orderly'
<1>1. pc[t] = "close" /\ UNCHANGED <<handles_, listed>>
  BY DEF Close
<1>2. PICK c \in Descriptors : c = job[t].desc
  BY <1>1 DEF IInv, JobsWhole
<1>3. job[t].i \in Nat /\ job[t].file \in Files /\ job[t].file # None
  BY <1>1, NoneAssumption DEF IInv, JobsWhole, TypeOK
<1>4. Holds(c, job[t].i, job[t].file)
  BY <1>1, <1>2 DEF Holds, Holding, FidOf
<1>5. handles_[SlotOf(t)] # None
  BY <1>2, <1>3, <1>4 DEF Orderly, SlotsHeld, SlotOf
<1> QED
  BY <1>1, <1>5, ToRelease DEF Close

\* The entry forgets the handle whose slot is freed next, and no other's.
LEMMA ReleaseOrderly ==
  ASSUME NEW t \in Threads, IInv, Orderly, Release(t)
  PROVE  Orderly'
<1> DEFINE k == job[t].i
           e == job[t].file
<1>1. pc[t] = "release" /\ UNCHANGED handles_
  BY DEF Release
<1>2. PICK c \in Descriptors : c = job[t].desc
  BY <1>1 DEF IInv, JobsWhole
<1>3. k \in Nat /\ e \in Files /\ e # None
  BY <1>1, NoneAssumption DEF IInv, JobsWhole, TypeOK
<1>4. Holds(c, k, e)
  BY <1>1, <1>2 DEF Holds, Holding, FidOf
<1>5. handles_[k + 1] = e
  BY <1>2, <1>3, <1>4 DEF Orderly, SlotsHeld
<1>6. /\ pc'[t] = "free" /\ pc' = [pc EXCEPT ![t] = pc'[t]]
      /\ job' = job /\ job' = [job EXCEPT ![t] = job'[t]] /\ fi' = fi
      /\ listed' = [listed EXCEPT ![e] = IF k \in @ THEN (@ \ {k}) \cup {-1} ELSE @]
  BY <1>3, <1>5 DEF Release, SlotOf, Goto, IInv, TypeOK
<1>7. OneGenerates' /\ OneRequestEach'
  BY <1>1, <1>6, GoesOn DEF InGenHandle
<1>8. \A d, i, f : ByThread(t, d, i, f)' <=> ByThread(t, d, i, f)
  BY <1>1, <1>6 DEF ByThread, Holding, FidOf
<1>9. \A d \in Descriptors, i \in Nat, f \in Files : Holds(d, i, f)' <=> Holds(d, i, f)
  BY <1>1, <1>6, <1>8, StepHoldsSame
<1>10. SlotsHeld' /\ SlotsUsed'
  BY <1>1, <1>9, SameSlots
<1>11. StillFree'
  BY <1>1, <1>6 DEF Orderly, StillFree, IInv, TypeOK
<1>12. EntriesHeld'
  <2>1. ASSUME NEW f \in Files, NEW i \in listed'[f] \ {-1}
        PROVE  \E d \in Descriptors : Holds(d, i, f)' /\ ~Frees(d)'
    <3>1. listed[e] \in SUBSET (Nat \cup {-1}) /\ listed[f] \in SUBSET (Nat \cup {-1})
      BY <1>3 DEF IInv, TypeOK
    <3>2. i \in listed[f] /\ (f = e => i # k)
      <4>1. CASE f = e
        <5>1. listed'[f] = IF k \in listed[f] THEN (listed[f] \ {k}) \cup {-1} ELSE listed[f]
          BY <1>3, <1>6, <4>1 DEF IInv, TypeOK
        <5> QED
          BY <4>1, <5>1
      <4>2. CASE f # e
        <5>1. listed'[f] = listed[f]
          BY <1>3, <1>6, <4>2 DEF IInv, TypeOK
        <5> QED
          BY <4>2, <5>1
      <4> QED
        BY <4>1, <4>2
    <3>3. PICK d \in Descriptors : Holds(d, i, f) /\ ~Frees(d)
      BY <3>2 DEF Orderly, EntriesHeld
    <3>4. d # c
      BY <1>4, <3>2, <3>3, HoldsOne DEF Orderly
    <3>5. ~Frees(d)'
      BY <1>2, <1>6, <3>3, <3>4 DEF Frees, IInv, TypeOK
    <3>6. i \in Nat
      BY <3>1, <3>2
    <3> QED
      BY <1>9, <3>3, <3>5, <3>6
  <2> QED
    BY <2>1 DEF EntriesHeld
<1> QED
  BY <1>7, <1>10, <1>11, <1>12 DEF Orderly

\* The slot that is freed is the one this thread closes, and nobody else's.
LEMMA FreeOrderly ==
  ASSUME NEW t \in Threads, IInv, Orderly, Free(t)
  PROVE  Orderly'
<1>1. /\ pc[t] = "free" /\ Answer(t, None) /\ listed' = listed
      /\ handles_' = [handles_ EXCEPT ![job[t].i + 1] = None]
  BY DEF Free, SlotOf
<1>2. PICK c \in Descriptors, k \in Nat, e \in Files : c = job[t].desc /\ k = job[t].i /\ e = job[t].file
  BY <1>1 DEF IInv, JobsWhole, TypeOK
<1>3. k < Len(handles_)
  BY <1>1, <1>2 DEF IInv, JobsWhole
<1>4. Len(handles_') = Len(handles_) /\ handles_'[k + 1] = None
  BY <1>1, <1>2, <1>3 DEF IInv, TypeOK
<1>5. \A i \in Nat \ {k} : i < Len(handles_) => handles_'[i + 1] = handles_[i + 1]
  BY <1>1, <1>2, <1>3 DEF IInv, TypeOK
<1>6. OneGenerates' /\ OneRequestEach'
  BY <1>1, Answered
<1>7. Holds(c, k, e)
  BY <1>1, <1>2 DEF Holds, Holding, FidOf
<1>8. \A d \in Descriptors, i \in Nat, f \in Files : Holds(d, i, f)' <=> Holds(d, i, f) /\ d # c
  <2> TAKE d \in Descriptors, i \in Nat, f \in Files
  <2>1. Holds(d, i, f)' <=> IF d = job[t].desc THEN None # None /\ i = None.fid /\ f = None.file
                            ELSE Holds(d, i, f)
    BY <1>1, <1>4, AnswerOthers
  <2> QED
    BY <1>2, <2>1
<1>9. SlotsHeld' /\ SlotsUsed'
  BY <1>4, <1>5, <1>7, <1>8, FewerSlots
<1>10. StillFree'
  <2>1. ASSUME NEW u \in Threads, pc'[u] = "take"
        PROVE  handles_'[job'[u].i + 1] = None
    <3>1. pc[u] = "take" /\ job'[u] = job[u]
      BY <1>1, <2>1 DEF Answer, Goto, IInv, TypeOK
    <3>2. handles_[job[u].i + 1] = None /\ job[u].i \in Nat /\ job[u].i < Len(handles_)
      BY <3>1 DEF Orderly, StillFree, IInv, JobsWhole, TypeOK
    <3> QED
      BY <1>4, <1>5, <3>1, <3>2
  <2> QED
    BY <2>1 DEF StillFree
<1>11. EntriesHeld'
  <2>1. Frees(c)
    BY <1>1, <1>2 DEF Frees
  <2>2. \A d \in Descriptors, i \in Nat, f \in Files : Holds(d, i, f) /\ ~Frees(d) => Holds(d, i, f)'
    BY <1>8, <2>1
  <2>3. \A d \in Descriptors : Frees(d)' => Frees(d)
    BY <1>1, AnswerFrees
  <2> QED
    BY <1>1, <2>2, <2>3, SameEntries DEF Orderly
<1> QED
  BY <1>6, <1>9, <1>10, <1>11 DEF Orderly

\* What an open begins with, when no other is in genHandle.
LEMMA OpenFileOrderly ==
  ASSUME NEW t \in Threads, NEW d0 \in Descriptors, NEW f0 \in Files, IInv, Orderly,
         OpenFile(t, d0, f0), ~overlapped'
  PROVE  Orderly'
<1>1. /\ pc[t] = "idle" /\ pc'[t] = "scan" /\ job'[t].desc = d0 /\ fi[d0] = None
      /\ pc' = [pc EXCEPT ![t] = pc'[t]] /\ job' = [job EXCEPT ![t] = job'[t]]
      /\ UNCHANGED <<handles_, listed, fi>>
      /\ \A u \in Threads : pc[u] # "idle" => job[u].desc # d0
      /\ \A u \in Threads : pc[u] \notin InGenHandle
  BY DEF OpenFile, Goto, Serving, Generating, Busy, InGenHandle, IInv, TypeOK
<1>2. \A u \in Threads \ {t} : pc'[u] = pc[u] /\ job'[u] = job[u]
  BY <1>1 DEF IInv, TypeOK
<1>3. OneGenerates'
  BY <1>1, <1>2 DEF OneGenerates
<1>4. OneRequestEach'
  BY <1>1, <1>2 DEF Orderly, OneRequestEach, InGenHandle
<1>5. \A d, i, f : ~ByThread(t, d, i, f) /\ ~ByThread(t, d, i, f)'
  BY <1>1 DEF ByThread, Holding
<1>6. \A d \in Descriptors, i \in Nat, f \in Files : Holds(d, i, f)' <=> Holds(d, i, f)
  <2> TAKE d \in Descriptors, i \in Nat, f \in Files
  <2>1. ByOthers(t, d, i, f)' <=> ByOthers(t, d, i, f)
    BY <1>1, OthersHold DEF Orderly
  <2>2. Holds(d, i, f)' <=> ByOthers(t, d, i, f)' \/ ByThread(t, d, i, f)'
    BY DEF Holds, ByOthers, ByThread
  <2> QED
    BY <1>5, <2>1, <2>2, HoldsSplit
<1>7. SlotsHeld' /\ SlotsUsed'
  BY <1>1, <1>6, SameSlots
<1>8. StillFree'
  BY <1>1, <1>2 DEF Orderly, StillFree
<1>9. EntriesHeld'
  BY <1>1, <1>6, SameEntries, FreesFewer DEF Orderly
<1> QED
  BY <1>3, <1>4, <1>7, <1>8, <1>9 DEF Orderly

\* A close works with the slot its descriptor has.
LEMMA CloseFileOrderly ==
  ASSUME NEW t \in Threads, NEW d0 \in Descriptors, IInv, Orderly, CloseFile(t, d0)
  PROVE  Orderly'
<1>1. /\ pc[t] = "idle" /\ pc'[t] = "close" /\ fi[d0] # None
      /\ job'[t].desc = d0 /\ job'[t].file = fi[d0].file /\ job'[t].i = fi[d0].fid
      /\ pc' = [pc EXCEPT ![t] = pc'[t]] /\ job' = [job EXCEPT ![t] = job'[t]]
      /\ UNCHANGED <<handles_, listed, fi>>
      /\ \A u \in Threads : pc[u] # "idle" => job[u].desc # d0
  BY DEF CloseFile, Goto, Serving, Busy, IInv, TypeOK
<1>2. \A u \in Threads \ {t} : pc'[u] = pc[u] /\ job'[u] = job[u]
  BY <1>1 DEF IInv, TypeOK
<1>3. OneGenerates'
  BY <1>1, <1>2 DEF Orderly, OneGenerates, InGenHandle
<1>4. OneRequestEach'
  BY <1>1, <1>2 DEF Orderly, OneRequestEach, InGenHandle
<1>5. \A d \in Descriptors, i \in Nat, f \in Files : Holds(d, i, f)' <=> Holds(d, i, f)
  <2> TAKE d \in Descriptors, i \in Nat, f \in Files
  <2>1. ByOthers(t, d, i, f)' <=> ByOthers(t, d, i, f)
    BY <1>1, OthersHold DEF Orderly
  <2>2. Holds(d, i, f)' <=> ByOthers(t, d, i, f)' \/ ByThread(t, d, i, f)'
    BY DEF Holds, ByOthers, ByThread
  <2>3. ~ByThread(t, d, i, f)
    BY <1>1 DEF ByThread, Holding
  <2>4. ByThread(t, d, i, f)' <=> d = d0 /\ i = fi[d0].fid /\ f = fi[d0].file
    BY <1>1 DEF ByThread, Holding, FidOf
  <2>5. ByThread(t, d, i, f)' => ByOthers(t, d, i, f)
    BY <1>1, <2>4 DEF ByOthers
  <2> QED
    BY <2>1, <2>2, <2>3, <2>5, HoldsSplit
<1>6. SlotsHeld' /\ SlotsUsed'
  BY <1>1, <1>5, SameSlots
<1>7. StillFree'
  BY <1>1, <1>2 DEF Orderly, StillFree
<1>8. EntriesHeld'
  BY <1>1, <1>5, SameEntries, FreesFewer DEF Orderly
<1> QED
  BY <1>3, <1>4, <1>6, <1>7, <1>8 DEF Orderly

\* At first nobody has a slot and no slot is in use.
LEMMA InitOrderly == Init => Orderly
<1> SUFFICES ASSUME Init PROVE Orderly
  OBVIOUS
<1>1. \A t \in Threads : pc[t] = "idle"
  BY DEF Init
<1>2. \A d \in Descriptors : \A i, f : ~Holds(d, i, f)
  BY <1>1 DEF Init, Holds, Holding
<1>3. handles_ = <<>> /\ \A f \in Files : listed[f] = {}
  BY DEF Init
<1>4. OneGenerates /\ OneRequestEach /\ StillFree
  BY <1>1 DEF OneGenerates, OneRequestEach, StillFree, InGenHandle
<1>5. SlotsHeld /\ SlotsUsed /\ EntriesHeld
  BY <1>2, <1>3 DEF SlotsHeld, SlotsUsed, EntriesHeld
<1> QED
  BY <1>4, <1>5 DEF Orderly

\* What has been quiet after a step was quiet before it.
LEMMA QuietBefore ==
  ASSUME IInv, Next, Quiet'
  PROVE  Quiet /\ status = "up" /\ status' = "up" /\ overlapped' = FALSE
<1>1. PICK t \in Threads : \/ Work(t)
                           \/ \E d \in Descriptors : \/ CloseFile(t, d)
                                                     \/ \E f \in Files : OpenFile(t, d, f)
  BY DEF Next
<1>2. status' = "up" /\ overlapped' = FALSE
  <2>1. IInv'
    BY WorkIInv, RequestIInv, <1>1
  <2> QED
    BY <2>1 DEF Quiet, IInv, TypeOK
<1>3. status = "up"
  BY <1>1 DEF Work, Scan, Take, TakeList, Push, PushList, PushReturn, Open, Close, Release,
              Free, CloseFile, OpenFile
<1>4. ~overlapped
  <2>1. CASE Work(t)
    BY <1>2, <2>1 DEF Work, Scan, Take, TakeList, Push, PushList, PushReturn, Open, Close, Release, Free
  <2>2. ASSUME NEW d \in Descriptors, CloseFile(t, d)
        PROVE  ~overlapped
    BY <1>2, <2>2 DEF CloseFile
  <2>3. ASSUME NEW d \in Descriptors, NEW f \in Files, OpenFile(t, d, f)
        PROVE  ~overlapped
    BY <1>2, <2>3, Zenon DEF OpenFile
  <2> QED
    BY <1>1, <2>1, <2>2, <2>3
<1> QED
  BY <1>2, <1>3, <1>4 DEF Quiet

\* No step disturbs the order without leaving two opens overlapped or the memory lost.
LEMMA NextOrderly ==
  ASSUME IInv, Quiet => Orderly, Next, Quiet'
  PROVE  Orderly'
<1>1. PICK t \in Threads : \/ Work(t)
                           \/ \E d \in Descriptors : \/ CloseFile(t, d)
                                                     \/ \E f \in Files : OpenFile(t, d, f)
  BY DEF Next
<1>2. status = "up" /\ status' = "up" /\ overlapped' = FALSE /\ Orderly
  BY QuietBefore
<1>3. CASE Work(t)
  BY <1>2, <1>3, ScanOrderly, TakeOrderly, ListOrderly, PushOrderly, PushReturnOrderly,
     OpenOrderly, CloseOrderly, ReleaseOrderly, FreeOrderly DEF Work
<1>4. ASSUME NEW d \in Descriptors, CloseFile(t, d)
      PROVE  Orderly'
  BY <1>2, <1>4, CloseFileOrderly
<1>5. ASSUME NEW d \in Descriptors, NEW f \in Files, OpenFile(t, d, f)
      PROVE  Orderly'
  BY <1>2, <1>5, OpenFileOrderly
<1> QED
  BY <1>1, <1>3, <1>4, <1>5

\* The order holds as long as it can, in every behaviour.
THEOREM OrderlyInvariance == Spec => []QInv
<1>1. Init => QInv
  BY InitIInv, InitOrderly DEF QInv
<1>2. ASSUME QInv, [Next]_vars PROVE QInv'
  <2>1. CASE UNCHANGED vars
    <3>1. Orderly' <=> Orderly
      BY <2>1 DEF vars, Orderly, OneGenerates, OneRequestEach, SlotsHeld, StillFree, SlotsUsed,
                  EntriesHeld, Frees, Holds, FidOf
    <3>2. IInv'
      BY <1>2, <2>1 DEF QInv, vars, IInv, TypeOK, JobsWhole, FidsInTable
    <3> QED
      BY <1>2, <2>1, <3>1, <3>2 DEF QInv, Quiet, vars
  <2>2. CASE Next
    BY <1>2, <2>2, WorkIInv, RequestIInv, NextOrderly DEF QInv, Next
  <2> QED
    BY <1>2, <2>1, <2>2
<1> QED
  BY <1>1, <1>2, PTL DEF Spec

\* Until two opens overlap each open descriptor has a slot of its own, which leads to the
\* file it was opened on, however closes run beside an open and beside each other.
THEOREM ViewsAreOwn == Spec => []OwnViewUnlessOverlapped
<1>1. QInv => OwnViewUnlessOverlapped
  <2> SUFFICES ASSUME QInv, Quiet
               PROVE  OwnView
    BY DEF OwnViewUnlessOverlapped, Quiet
  <2>1. \A d \in Descriptors : fi[d] # None =>
          fi[d].fid \in Nat /\ fi[d].file \in Files /\ Holds(d, fi[d].fid, fi[d].file)
    BY DEF QInv, IInv, TypeOK, Holds
  <2> QED
    BY <2>1 DEF OwnView, QInv, Orderly, SlotsHeld
<1> QED
  BY <1>1, OrderlyInvariance, PTL

\* Until then, when every descriptor is released, no slot is in use and no entry lists one.
THEOREM EverythingReleased == Spec => []AllReleased
<1>1. QInv => AllReleased
  <2> SUFFICES ASSUME QInv, Quiet, Busy = {}, \A d \in Descriptors : fi[d] = None
               PROVE  Used = {} /\ \A f \in Files : listed[f] \subseteq {-1}
    BY DEF AllReleased, Quiet
  <2>1. \A d \in Descriptors : \A i, f : ~Holds(d, i, f)
    BY DEF Busy, Holds, Holding
  <2>2. Used = {}
    BY <2>1, SMTT(40) DEF Used, QInv, Orderly, SlotsUsed, IInv, TypeOK
  <2>3. \A f \in Files : listed[f] \subseteq {-1}
    BY <2>1 DEF QInv, Orderly, EntriesHeld
  <2> QED
    BY <2>2, <2>3
<1> QED
  BY <1>1, OrderlyInvariance, PTL
------------------------------------------------------------------------------
(* What the descriptors are promised, while the threads keep order *)

\* The file each descriptor's handle leads to: what the slot of its fid has now.
Views == [d \in Descriptors |-> IF fi[d] = None THEN None ELSE handles_[fi[d].fid + 1]]

Promised == INSTANCE OpenFiles WITH Clients <- Descriptors, reaches <- Views

OpenedOn == [d \in Descriptors |-> IF fi[d] = None THEN None ELSE fi[d].file]

ViewsFaithful == Views = OpenedOn

\* As long as order is kept the slots have what the descriptors were opened on.
LEMMA ViewsByHandle == IInv /\ Orderly => ViewsFaithful
<1> SUFFICES ASSUME IInv, Orderly PROVE Views = OpenedOn
  BY DEF ViewsFaithful
<1>1. ASSUME NEW d \in Descriptors, fi[d] # None
      PROVE  handles_[fi[d].fid + 1] = fi[d].file
  <2>1. fi[d].fid \in Nat /\ fi[d].file \in Files /\ Holds(d, fi[d].fid, fi[d].file)
    BY <1>1 DEF IInv, TypeOK, Holds
  <2> QED
    BY <2>1 DEF Orderly, SlotsHeld
<1> QED
  BY <1>1 DEF Views, OpenedOn

\* So they have after a step that keeps it.
LEMMA ViewsByHandleAfter == IInv' /\ Orderly' => ViewsFaithful'
BY ViewsByHandle, PTL

\* The end of a request is an open, a close, or nothing to its descriptor.
LEMMA AnswerPromised ==
  ASSUME NEW t \in Threads, IInv, Orderly, IInv', Orderly', pc[t] # "idle", NEW r, Answer(t, r),
         \/ r = None
         \/ r \in [fid : Nat, file : Files] /\ fi[job[t].desc] = None
  PROVE  Promised!Next \/ Views' = Views
<1>1. PICK c \in Descriptors : c = job[t].desc
  BY DEF IInv, JobsWhole
<1>2. fi' = [fi EXCEPT ![c] = r] /\ fi \in [Descriptors -> [fid : Nat, file : Files] \cup {None}]
  BY <1>1 DEF Answer, IInv, TypeOK
<1>3. Views = [d \in Descriptors |-> IF fi[d] = None THEN None ELSE fi[d].file]
  BY ViewsByHandle DEF ViewsFaithful, OpenedOn
<1>4. Views' = [d \in Descriptors |-> IF fi'[d] = None THEN None ELSE fi'[d].file]
  BY ViewsByHandleAfter DEF ViewsFaithful, OpenedOn
<1>5. CASE r = None /\ fi[c] = None
  BY <1>2, <1>3, <1>4, <1>5
<1>6. CASE r = None /\ fi[c] # None
  <2>1. Views[c] # None
    BY <1>2, <1>3, <1>6, NoneAssumption
  <2>2. Views' = [Views EXCEPT ![c] = None]
    BY <1>2, <1>3, <1>4, <1>6
  <2>3. Promised!Close(c)
    BY <2>1, <2>2 DEF Promised!Close
  <2> QED
    BY <2>3 DEF Promised!Next
<1>7. CASE r \in [fid : Nat, file : Files] /\ fi[c] = None
  <2>1. r # None /\ r.file \in Files
    BY <1>7, NoneAssumption
  <2>2. Views[c] = None
    BY <1>3, <1>7
  <2>3. Views' = [Views EXCEPT ![c] = r.file]
    BY <1>2, <1>3, <1>4, <2>1
  <2>4. Promised!Open(c, r.file)
    BY <2>2, <2>3 DEF Promised!Open
  <2> QED
    BY <2>1, <2>4 DEF Promised!Next
<1> QED
  BY <1>1, <1>5, <1>6, <1>7

\* So is every step before two opens overlap, whatever it does to the table.
LEMMA StepPromised ==
  ASSUME QInv, QInv', Quiet', [Next]_vars
  PROVE  Promised!Next \/ Views' = Views
<1>1. CASE UNCHANGED vars
  BY <1>1 DEF vars, Views
<1>2. CASE Next
  <2>1. PICK t \in Threads : \/ Work(t)
                             \/ \E d \in Descriptors : \/ CloseFile(t, d)
                                                       \/ \E f \in Files : OpenFile(t, d, f)
    BY <1>2 DEF Next
  <2>2. Quiet
    BY <1>2, QuietBefore DEF QInv
  <2>3. IInv /\ Orderly /\ IInv' /\ Orderly'
    BY <2>2 DEF QInv
  <2>4. ASSUME fi' = fi
        PROVE  Views' = Views
    BY <2>3, <2>4, ViewsByHandle, ViewsByHandleAfter DEF ViewsFaithful, OpenedOn
  <2>5. CASE Open(t) \/ Close(t) \/ Release(t) \/ Free(t)
    <3>1. pc[t] # "idle"
      BY <2>5 DEF Open, Close, Release, Free
    <3>2. \/ fi' = fi
          \/ Answer(t, None)
          \/ pc[t] = "open" /\ Answer(t, [fid |-> job[t].i, file |-> job[t].file])
      BY <2>5 DEF Open, Close, Release, Free
    <3>3. ASSUME pc[t] = "open"
          PROVE  /\ fi[job[t].desc] = None
                 /\ [fid |-> job[t].i, file |-> job[t].file] \in [fid : Nat, file : Files]
      BY <2>3, <3>3 DEF IInv, TypeOK, JobsWhole, Orderly, OneRequestEach
    <3> QED
      BY <2>3, <2>4, <3>1, <3>2, <3>3, AnswerPromised
  <2>6. CASE \/ Scan(t) \/ Take(t) \/ TakeList(t) \/ Push(t) \/ PushList(t) \/ PushReturn(t)
             \/ \E d \in Descriptors : CloseFile(t, d) \/ \E f \in Files : OpenFile(t, d, f)
    BY <2>4, <2>6 DEF Scan, Take, TakeList, Push, PushList, PushReturn, CloseFile, OpenFile
  <2> QED
    BY <2>1, <2>5, <2>6 DEF Work
<1> QED
  BY <1>1, <1>2

\* ProcessFile.hpp:19-20 gives each user of a file its own view of it.  Until two opens overlap,
\* the threads' accesses to the table, in whatever order they come, add up to what OpenFiles
\* promises: each step opens one descriptor's view, closes one, or leaves every descriptor the
\* view it has.
THEOREM ThreadsKeepThePromise ==
  Spec => Promised!Init /\ [][Quiet' => Promised!Next \/ Views' = Views]_vars
<1>1. Init => Promised!Init
  BY DEF Init, Promised!Init, Views
<1>2. QInv /\ QInv' /\ [Next]_vars => [Quiet' => Promised!Next \/ Views' = Views]_vars
  BY StepPromised
<1> QED
  BY <1>1, <1>2, OrderlyInvariance, PTL DEF Spec

\* A program in whose runs no two opens overlap implements OpenFiles.
THEOREM QuietThreadsImplementOpenFiles == Spec /\ []Quiet => Promised!Spec
<1>1. Init => Promised!Init
  BY DEF Init, Promised!Init, Views
<1>2. QInv /\ QInv' /\ Quiet' /\ [Next]_vars => [Promised!Next]_Views
  BY StepPromised
<1> QED
  BY <1>1, <1>2, OrderlyInvariance, PTL DEF Spec, Promised!Spec
==============================================================================
