--------------------------- MODULE ModuleFileProofs ----------------------------
(* Theorems about ModuleFile. *)
EXTENDS ModuleFile, TLAPS

USE FilesAssumption, PartsAssumption, NoneAssumption

\* Names that end in a letter from A to P and a digit have the unit that they say: two of
\* them share a unit only when they say the same, in whichever case.
THEOREM UnitsApart ==
  ASSUME NEW a \in (65..80 \cup 97..112) \X (48..57), NEW b \in (65..80 \cup 97..112) \X (48..57)
  PROVE  /\ NameToId(a) \in 0..255 /\ NameToId(b) \in 0..255
         /\ NameToId(a) = NameToId(b) <=> ToUpper(a[1]) = ToUpper(b[1]) /\ a[2] = b[2]
<1>1. ASSUME NEW c \in (65..80 \cup 97..112) \X (48..57)
      PROVE  /\ ToUpper(c[1]) \in 65..80 /\ Atoi(c[2]) = c[2] - 48 /\ c[2] \in 48..57
             /\ NameToId(c) = (ToUpper(c[1]) - 65) * 16 + (c[2] - 48)
  BY <1>1 DEF NameToId, ToUpper, Atoi
<1> QED
  BY <1>1, SMTT(40)

\* And a name whose last character is no digit has a unit all the same: that of a zero.
THEOREM NoDigitIsZero ==
  ASSUME NEW c \in 65..80, NEW d \in (0..255) \ (48..57)
  PROVE  NameToId(<<c, d>>) = NameToId(<<c, 48>>) /\ NameToId(<<c, 48>>) # None
BY DEF NameToId, ToUpper, Atoi

\* A brightness other than 0 never dims a bulb: the product of two percentages is not
\* divided by a hundred.
THEOREM NothingDims ==
  ASSUME NEW c \in Int, NEW b \in Int, b > 0
  PROVE  Level([colour |-> c, brightness |-> b]) >= Level([colour |-> c, brightness |-> None])
BY DEF Level, Clamp
------------------------------------------------------------------------------
\* A device gets nothing beyond its range.
LEMMA ShowsInRange ==
  ASSUME NEW f \in Files, NEW m \in Messages(f), Accepts(f, m)
  PROVE  Device(f) \in Devices /\ Shows(f, m) \in 0..100
<1>1. Device(f) \in Devices
  BY DEF Accepts, Device, Devices
<1>2. CASE KindOf[f] = "x10"
  BY <1>1, <1>2 DEF Shows
<1>3. CASE KindOf[f] # "x10"
  <2>1. m.colour \in Int /\ (m.brightness = None \/ m.brightness \in Int)
    BY <1>3 DEF Messages, Accepts
  <2>2. \A n \in Int : Clamp(n) \in 0..100
    BY DEF Clamp
  <2>3. Level(m) \in 0..100
    <3>1. CASE m.brightness = None
      BY <2>1, <2>2, <3>1 DEF Level
    <3>2. CASE m.brightness # None
      <4>1. Clamp(m.colour) \in Int /\ Clamp(m.brightness) \in Int
        BY <2>1, <2>2, <3>2
      <4>2. Clamp(m.colour) * Clamp(m.brightness) \in Int
        BY <4>1
      <4> QED
        BY <2>2, <3>2, <4>2 DEF Level
    <3> QED
      BY <3>1, <3>2
  <2> QED
    BY <1>1, <1>3, <2>3 DEF Shows
<1> QED
  BY <1>2, <1>3

\* Nor does it become anything beyond it when commands meet.
LEMMA CanShowInRange ==
  ASSUME NEW f \in Files, NEW d \in OnLine(Line(f)), KindOf[f] \in {"x10", "liteBrite"}
  PROVE  d \in Devices /\ CanShow(d) \subseteq 0..100
<1>1. PICK g \in Files : Line(g) = Line(f) /\ d = Device(g) /\ d # None
  BY DEF OnLine
<1>2. d \in Devices
  BY <1>1 DEF Devices
<1>3. CASE d \notin Files
  BY <1>2, <1>3 DEF CanShow
<1>4. CASE d \in Files
  <2>1. KindOf[g] # "x10"
    BY <1>1, <1>4 DEF Device, NameToId, ToUpper, Atoi
  <2>2. g = d
    BY <1>1, <2>1 DEF Device
  <2>3. KindOf[d] # "x10"
    BY <2>1, <2>2
  <2>4. ASSUME NEW m \in Messages(d), m.colour # None
        PROVE  Level(m) \in 0..100
    <3> m \in [colour : Parts \cup {None}, brightness : Parts \cup {None}]
      BY <2>3 DEF Messages
    <3>1. m.colour \in Int /\ (m.brightness = None \/ m.brightness \in Int)
      BY <2>4, ZenonT(40)
    <3>2. \A n \in Int : Clamp(n) \in 0..100
      BY DEF Clamp
    <3>3. CASE m.brightness = None
      BY <3>1, <3>2, <3>3 DEF Level
    <3>4. CASE m.brightness # None
      <4>1. Clamp(m.colour) \in Int /\ Clamp(m.brightness) \in Int
        BY <3>1, <3>2, <3>4
      <4>2. Clamp(m.colour) * Clamp(m.brightness) \in Int
        BY <4>1
      <4> QED
        BY <3>2, <3>4, <4>2 DEF Level
    <3> QED
      BY <3>3, <3>4
  <2> QED
    BY <1>2, <1>4, <2>4 DEF CanShow
<1> QED
  BY <1>3, <1>4

\* What reaches the same device goes the same way.
LEMMA DeviceLine ==
  ASSUME NEW f \in Files, NEW g \in Files, Device(f) = Device(g), Device(f) # None
  PROVE  Line(f) = Line(g)
<1>1. \A e \in (0..255) \X (0..255) : NameToId(e) \in (0..255) \cup {None}
  BY DEF NameToId, ToUpper, Atoi
<1> QED
  BY <1>1, SMTT(40) DEF Device, Line
------------------------------------------------------------------------------
\* No other command may change what an undisturbed write, or the last one to a file that
\* is settled, has done.
Clear(f, others) ==
  \A u \in others :
    /\ Device(job[u].file) # Device(f)
    /\ u \in disturbed /\ job[u].stage = "sending" => Line(job[u].file) # Line(f)

Undisturbed ==
  /\ \A t \in Writing \ disturbed : Clear(job[t].file, Writing \ {t})
  /\ \A f \in settled : Clear(f, Writing)

\* What an undisturbed write has sent has arrived.
Arrived ==
  \A t \in Writing \ disturbed :
    job[t].stage = "storing" => shown[Device(job[t].file)] = Shows(job[t].file, job[t].message)

\* What is on its way is what the controllers accept.
SentAccepted ==
  /\ \A t \in Writing : Accepts(job[t].file, job[t].message)
  /\ \A f \in settled : Device(f) # None

IInv == TypeOK /\ Undisturbed /\ Arrived /\ SentAccepted /\ Agreement /\ KeptWasAccepted

\* The initial state: nothing is kept and nothing under way.
LEMMA InitIInv == Init => IInv
<1> SUFFICES ASSUME Init PROVE IInv
  OBVIOUS
<1>1. Writing = {}
  BY DEF Init, Writing, Busy
<1> QED
  BY <1>1 DEF Init, IInv, TypeOK, Undisturbed, Arrived, SentAccepted, Agreement, KeptWasAccepted, Clear

\* What a thread that is writing is at.
LEMMA WritingTyped ==
  ASSUME TypeOK, NEW t \in Writing
  PROVE  /\ t \in Threads /\ job[t].file \in Files /\ job[t].stage \in {"sending", "storing"}
         /\ job[t].message \in Messages(job[t].file)
BY DEF TypeOK, Writing, Busy, Jobs

\* A step that makes a writer of one thread, or none.
LEMMA OneJob ==
  ASSUME TypeOK, NEW t \in Threads, NEW new, job' = [job EXCEPT ![t] = new]
  PROVE  /\ job'[t] = new /\ \A u \in Threads \ {t} : job'[u] = job[u]
         /\ Writing' = (Writing \ {t}) \cup (IF new # None /\ new.stage # "reading" THEN {t} ELSE {})
BY DEF TypeOK, Writing, Busy

\* A write that is accepted meets those of whom it is to stay clear, or disturbs them.
LEMMA WriteIInv ==
  ASSUME IInv, NEW t \in Threads, NEW f \in Files, NEW m \in Messages(f), Write(t, f, m)
  PROVE  IInv'
<1> DEFINE new == [stage |-> "sending", file |-> f, message |-> m]
<1> USE DEF IInv
<1>1. /\ job[t] = None /\ Accepts(f, m) /\ job' = [job EXCEPT ![t] = new]
      /\ UNCHANGED <<portOpen, state_, shown, status>>
  BY DEF Write, Idle
<1>0. new \in Jobs /\ new # None
  BY DEF Message, Jobs
<1>2. /\ t \notin Writing /\ Writing' = Writing \cup {t}
      /\ job'[t] = new /\ \A u \in Writing : job'[u] = job[u] /\ u # t
  BY <1>0, <1>1, OneJob DEF Writing, Busy, TypeOK
<1>3. /\ disturbed' \subseteq Writing' /\ disturbed \subseteq disturbed'
      /\ settled' \subseteq settled
  BY <1>2 DEF Write, TypeOK
<1>4. TypeOK'
  <2>1. job' \in [Threads -> Jobs \cup {None}]
    BY <1>0, <1>1 DEF TypeOK
  <2>2. \A u \in Writing' : job'[u].message \in Messages(job'[u].file)
    BY <1>2, WritingTyped
  <2> QED
    BY <1>1, <1>3, <2>1, <2>2 DEF TypeOK
<1>5. SentAccepted'
  BY <1>1, <1>2, <1>3 DEF SentAccepted, Accepts
<1>6. Device(f) # None
  BY <1>1, ShowsInRange DEF Devices
<1>7. Undisturbed'
  <2>1. CASE Met(f) = {}
    <3>1. disturbed' = disturbed /\ settled' = {g \in settled : Device(g) # Device(f)}
      BY <2>1 DEF Write
    <3>2. \A u \in Writing : /\ Device(job[u].file) # Device(f)
                             /\ ~(Line(job[u].file) = Line(f) /\ job[u].stage = "sending")
      BY <2>1 DEF Met
    <3>3. t \notin disturbed
      BY <1>2 DEF TypeOK
    <3> QED
      BY <1>2, <3>1, <3>2, <3>3 DEF Undisturbed, Clear
  <2>2. CASE Met(f) # {}
    <3>1. /\ disturbed' = disturbed \cup {t} \cup {u \in Writing : Line(job[u].file) = Line(f)}
          /\ settled' = {g \in settled : Line(g) # Line(f)}
      BY <2>2 DEF Write
    <3>2. ASSUME NEW g \in Files, Line(g) # Line(f)
          PROVE  Device(g) # Device(f)
      BY <1>6, <3>2, DeviceLine
    <3>3. ASSUME NEW u \in Writing' \ disturbed', NEW v \in Writing' \ {u}
          PROVE  /\ Device(job'[v].file) # Device(job'[u].file)
                 /\ v \in disturbed' /\ job'[v].stage = "sending"
                      => Line(job'[v].file) # Line(job'[u].file)
      <4>1. u \in Writing \ disturbed /\ Line(job[u].file) # Line(f) /\ job'[u] = job[u]
        BY <1>2, <3>1, <3>3
      <4>2. CASE v = t
        BY <1>2, <3>2, <4>1, <4>2, WritingTyped
      <4>3. CASE v # t
        <5>1. v \in Writing \ {u} /\ job'[v] = job[v]
          BY <1>2, <3>3, <4>3
        <5>2. v \in disturbed' => v \in disturbed \/ Line(job[v].file) = Line(f)
          BY <3>1, <4>3
        <5> QED
          BY <4>1, <5>1, <5>2 DEF Undisturbed, Clear
      <4> QED
        BY <4>2, <4>3
    <3>4. ASSUME NEW g \in settled', NEW v \in Writing'
          PROVE  /\ Device(job'[v].file) # Device(g)
                 /\ v \in disturbed' /\ job'[v].stage = "sending" => Line(job'[v].file) # Line(g)
      <4>1. g \in settled /\ Line(g) # Line(f) /\ g \in Files
        BY <3>1 DEF TypeOK
      <4>2. CASE v = t
        BY <1>2, <3>2, <4>1, <4>2
      <4>3. CASE v # t
        <5>1. v \in Writing /\ job'[v] = job[v]
          BY <1>2, <4>3
        <5>2. v \in disturbed' => v \in disturbed \/ Line(job[v].file) = Line(f)
          BY <3>1, <4>3
        <5> QED
          BY <4>1, <5>1, <5>2 DEF Undisturbed, Clear
      <4> QED
        BY <4>2, <4>3
    <3> QED
      BY <3>3, <3>4 DEF Undisturbed, Clear
  <2> QED
    BY <2>1, <2>2
<1>8. Arrived'
  BY <1>1, <1>2, <1>3 DEF Arrived
<1>9. Agreement' /\ KeptWasAccepted'
  BY <1>1, <1>3 DEF Agreement, KeptWasAccepted, Accepts
<1> QED
  BY <1>4, <1>5, <1>7, <1>8, <1>9

\* A message that the controller takes leaves it with the device: only a disturbed one
\* changes others, and none that a write or a file that is settled depends on.
LEMMA SentIInv ==
  ASSUME IInv, NEW t \in Threads, Sent(t)
  PROVE  IInv'
<1> DEFINE f == job[t].file
<1> DEFINE new == [stage |-> "storing", file |-> f, message |-> job[t].message]
<1> USE DEF IInv
<1>1. /\ t \in Writing /\ job[t].stage = "sending"
      /\ f \in Files /\ job[t].message \in Messages(f)
      /\ UNCHANGED <<portOpen, state_, disturbed, settled, status>>
  BY WritingTyped DEF Sent, At, Writing, Busy
<1>2. new \in Jobs /\ new # None /\ job' = [job EXCEPT ![t] = new]
  <2>1. job[t] \in [stage : {"sending", "storing"}, file : Files, message : Message]
    BY <1>1 DEF TypeOK, Jobs, Writing, Busy
  <2>2. [job[t] EXCEPT !.stage = "storing"] = new
    BY <2>1
  <2>3. job' = [job EXCEPT ![t] = [job[t] EXCEPT !.stage = "storing"]]
    BY DEF Sent
  <2>4. new \in Jobs
    BY <2>1 DEF Jobs
  <2> QED
    BY <2>2, <2>3, <2>4, ZenonT(60)
<1>3. Writing' = Writing /\ job'[t] = new /\ \A u \in Writing \ {t} : job'[u] = job[u]
  BY <1>1, <1>2, OneJob DEF TypeOK, Writing, Busy
<1>4. /\ Accepts(f, job[t].message) /\ KindOf[f] \in {"x10", "liteBrite"}
      /\ Device(f) \in Devices /\ Shows(f, job[t].message) \in 0..100
  BY <1>1, ShowsInRange DEF SentAccepted, Accepts
<1>5. shown' \in [Devices -> 0..100]
  <2>1. CASE t \in disturbed
    <3>1. PICK d \in OnLine(Line(f)) : \E v \in CanShow(d) : shown' = [shown EXCEPT ![d] = v]
      BY <2>1 DEF Sent
    <3> QED
      BY <1>1, <1>4, <3>1, CanShowInRange DEF TypeOK
  <2>2. CASE t \notin disturbed
    BY <1>4, <2>2 DEF Sent, TypeOK
  <2> QED
    BY <2>1, <2>2
<1>6. TypeOK'
  <2>1. job' \in [Threads -> Jobs \cup {None}]
    BY <1>2 DEF TypeOK
  <2>2. \A u \in Writing' : job'[u].message \in Messages(job'[u].file)
    BY <1>1, <1>3 DEF TypeOK
  <2> QED
    BY <1>1, <1>3, <1>5, <2>1, <2>2 DEF TypeOK
<1>7. SentAccepted' /\ Undisturbed'
  <2>1. \A u \in Writing : /\ job'[u].file = job[u].file /\ job'[u].message = job[u].message
                           /\ job'[u].stage = "sending" => job[u].stage = "sending"
    BY <1>1, <1>3
  <2> QED
    BY <1>1, <1>3, <2>1 DEF SentAccepted, Undisturbed, Clear, Accepts
\* What a step of t may change is not what others depend on.
<1>8. ASSUME NEW g \in Files, Device(g) # None, Clear(g, {t}), Device(g) \in Devices
      PROVE  shown'[Device(g)] = shown[Device(g)]
  <2>1. CASE t \in disturbed
    <3>1. PICK h \in Files : /\ Line(h) = Line(f)
                             /\ \E v : shown' = [shown EXCEPT ![Device(h)] = v]
      <4>1. PICK d \in OnLine(Line(f)) : \E v \in CanShow(d) : shown' = [shown EXCEPT ![d] = v]
        BY <2>1 DEF Sent
      <4>2. PICK h \in Files : Line(h) = Line(f) /\ d = Device(h)
        BY DEF OnLine
      <4>3. PICK v : shown' = [shown EXCEPT ![d] = v]
        BY <4>1
      <4> QED
        BY <4>2, <4>3
    <3>2. Device(h) # Device(g)
      BY <1>1, <1>8, <2>1, <3>1, DeviceLine DEF Clear
    <3> QED
      BY <3>1, <3>2, <1>8 DEF TypeOK
  <2>2. CASE t \notin disturbed
    BY <1>8, <2>2 DEF Sent, Clear, TypeOK
  <2> QED
    BY <2>1, <2>2
<1>9. Arrived'
  <2> SUFFICES ASSUME NEW u \in Writing \ disturbed, job'[u].stage = "storing"
               PROVE  shown'[Device(job'[u].file)] = Shows(job'[u].file, job'[u].message)
    BY <1>1, <1>3 DEF Arrived
  <2>1. CASE u = t
    BY <1>3, <1>4, <2>1 DEF Sent, TypeOK
  <2>2. CASE u # t
    <3>1. job'[u] = job[u] /\ Clear(job[u].file, {t})
      BY <1>1, <1>3, <2>2 DEF Undisturbed, Clear
    <3>2. /\ job[u].file \in Files /\ Device(job[u].file) # None
          /\ Device(job[u].file) \in Devices
      BY WritingTyped, ShowsInRange DEF SentAccepted, Devices
    <3> QED
      BY <1>8, <3>1, <3>2 DEF Arrived
  <2> QED
    BY <2>1, <2>2
<1>10. Agreement'
  <2> SUFFICES ASSUME NEW g \in settled
               PROVE  shown'[Device(g)] = shown[Device(g)]
    BY <1>1 DEF Agreement
  <2>1. g \in Files /\ Clear(g, {t}) /\ Device(g) # None
    BY <1>1 DEF TypeOK, Undisturbed, Clear, SentAccepted
  <2> QED
    BY <1>8, <2>1 DEF Devices
<1>11. KeptWasAccepted'
  BY <1>1 DEF KeptWasAccepted, Accepts
<1> QED
  BY <1>6, <1>7, <1>9, <1>10, <1>11

\* A command that is lost disturbs nobody but the write it belongs to.
LEMMA LostIInv ==
  ASSUME IInv, NEW t \in Threads, Lost(t)
  PROVE  IInv'
<1> DEFINE f == job[t].file
<1> DEFINE new == [stage |-> "storing", file |-> f, message |-> job[t].message]
<1> USE DEF IInv
<1>1. /\ t \in Writing /\ job[t].stage = "sending"
      /\ f \in Files /\ job[t].message \in Messages(f)
      /\ disturbed' = disturbed \cup {t}
      /\ UNCHANGED <<portOpen, state_, shown, settled, status>>
  BY WritingTyped DEF Lost, At, Writing, Busy
<1>2. new \in Jobs /\ new # None /\ job' = [job EXCEPT ![t] = new]
  <2>1. job[t] \in [stage : {"sending", "storing"}, file : Files, message : Message]
    BY <1>1 DEF TypeOK, Jobs, Writing, Busy
  <2>2. [job[t] EXCEPT !.stage = "storing"] = new
    BY <2>1
  <2>3. job' = [job EXCEPT ![t] = [job[t] EXCEPT !.stage = "storing"]]
    BY DEF Lost
  <2>4. new \in Jobs
    BY <2>1 DEF Jobs
  <2> QED
    BY <2>2, <2>3, <2>4
<1>3. Writing' = Writing /\ job'[t] = new /\ \A u \in Writing \ {t} : job'[u] = job[u]
  BY <1>1, <1>2, OneJob DEF TypeOK, Writing, Busy
<1>4. TypeOK'
  <2>1. job' \in [Threads -> Jobs \cup {None}]
    BY <1>2 DEF TypeOK
  <2>2. \A u \in Writing' : job'[u].message \in Messages(job'[u].file)
    BY <1>1, <1>3 DEF TypeOK
  <2> QED
    BY <1>1, <1>3, <2>1, <2>2 DEF TypeOK
<1>5. SentAccepted' /\ Undisturbed'
  <2>1. \A u \in Writing : /\ job'[u].file = job[u].file /\ job'[u].message = job[u].message
                           /\ job'[u].stage = "sending" => job[u].stage = "sending" /\ u # t
    BY <1>1, <1>3
  <2> QED
    BY <1>1, <1>3, <2>1 DEF SentAccepted, Undisturbed, Clear, Accepts
<1>6. Arrived' /\ Agreement' /\ KeptWasAccepted'
  BY <1>1, <1>3 DEF Arrived, Agreement, KeptWasAccepted, Accepts
<1> QED
  BY <1>4, <1>5, <1>6

\* What was sent is kept; a write that met nothing settles the file.
LEMMA StoreIInv ==
  ASSUME IInv, NEW t \in Threads, Store(t)
  PROVE  IInv'
<1> DEFINE f == job[t].file
<1> USE DEF IInv
<1>1. /\ t \in Writing /\ job[t].stage = "storing"
      /\ f \in Files /\ job[t].message \in Messages(f) /\ Accepts(f, job[t].message)
      /\ Device(f) # None
      /\ state_' = [state_ EXCEPT ![f] = job[t].message]
      /\ settled' = IF t \in disturbed THEN settled ELSE settled \cup {f}
      /\ job' = [job EXCEPT ![t] = None] /\ disturbed' = disturbed \ {t}
      /\ status' \in {status, "undefined"} /\ UNCHANGED <<portOpen, shown>>
  BY WritingTyped, ShowsInRange DEF Store, Ends, At, Writing, Busy, SentAccepted, Devices
<1>2. Writing' = Writing \ {t} /\ \A u \in Writing' : job'[u] = job[u]
  BY <1>1, OneJob DEF TypeOK, Writing, Busy
<1>3. job[t].message \in Message /\ job[t].message # None
  BY <1>1 DEF Message
<1>4. TypeOK'
  <2>1. state_' \in [Files -> Message \cup {None}] /\ settled' \subseteq Files
    BY <1>1, <1>3 DEF TypeOK
  <2>2. job' \in [Threads -> Jobs \cup {None}]
    BY <1>1 DEF TypeOK
  <2>3. \A u \in Writing' : job'[u].message \in Messages(job'[u].file)
    BY <1>2 DEF TypeOK
  <2>4. disturbed' \subseteq Writing'
    BY <1>1, <1>2 DEF TypeOK
  <2> QED
    BY <1>1, <2>1, <2>2, <2>3, <2>4 DEF TypeOK
<1>5. SentAccepted'
  BY <1>1, <1>2 DEF SentAccepted, Accepts
<1>6. Undisturbed'
  <2>1. t \notin disturbed => Clear(f, Writing \ {t})
    BY <1>1 DEF Undisturbed
  <2>2. ASSUME NEW g \in settled' PROVE Clear(g, Writing \ {t})
    BY <1>1, <2>1, <2>2 DEF Undisturbed, Clear
  <2>3. ASSUME NEW u \in Writing' \ disturbed' PROVE Clear(job[u].file, Writing' \ {u})
    BY <1>1, <1>2 DEF Undisturbed, Clear
  <2> QED
    BY <1>1, <1>2, <2>2, <2>3 DEF Undisturbed, Clear
<1>7. Arrived'
  BY <1>1, <1>2 DEF Arrived
<1>8. Agreement'
  <2> SUFFICES ASSUME NEW g \in settled'
               PROVE  state_'[g] # None /\ shown[Device(g)] = Shows(g, state_'[g])
    BY <1>1 DEF Agreement
  <2>1. CASE g = f
    <3>1. t \notin disturbed
      BY <1>1, <2>1 DEF Undisturbed, Clear
    <3> QED
      BY <1>1, <1>3, <2>1, <3>1 DEF Arrived, TypeOK
  <2>2. CASE g # f
    BY <1>1, <2>2 DEF Agreement, TypeOK
  <2> QED
    BY <2>1, <2>2
<1>9. KeptWasAccepted'
  <2> SUFFICES ASSUME NEW g \in Files, state_'[g] # None PROVE Accepts(g, state_'[g])
    BY <1>1 DEF KeptWasAccepted, Accepts
  <2> QED
    BY <1>1 DEF KeptWasAccepted, TypeOK
<1> QED
  BY <1>4, <1>5, <1>6, <1>7, <1>8, <1>9

\* Reads change nothing.
LEMMA ReadIInv ==
  ASSUME IInv, NEW t \in Threads, (\E f \in Files : Read(t, f)) \/ ReadReturns(t)
  PROVE  IInv'
<1> USE DEF IInv
<1>1. t \notin Writing /\ t \notin disturbed
  BY DEF Read, ReadReturns, Idle, At, Writing, Busy, TypeOK
<1>2. /\ UNCHANGED <<portOpen, state_, shown, settled>> /\ disturbed' = disturbed
      /\ status' \in {"up", "aborted", "undefined"}
  <2>1. CASE \E f \in Files : Read(t, f)
    BY <2>1 DEF Read, TypeOK
  <2>2. CASE ReadReturns(t)
    BY <1>1, <2>2 DEF ReadReturns, Ends, TypeOK
  <2> QED
    BY <2>1, <2>2
<1>3. PICK new \in [stage : {"reading"}, file : Files] \cup {None} : job' = [job EXCEPT ![t] = new]
  <2>1. CASE \E f \in Files : Read(t, f)
    <3>1. PICK f \in Files : job' = [job EXCEPT ![t] = [stage |-> "reading", file |-> f]]
      BY <2>1 DEF Read
    <3> QED
      BY <3>1, ZenonT(60)
  <2>2. CASE ReadReturns(t)
    BY <2>2 DEF ReadReturns, Ends
  <2> QED
    BY <2>1, <2>2
<1>4. Writing' = Writing /\ \A u \in Writing : job'[u] = job[u]
  <2>1. ~(new # None /\ new.stage # "reading")
    OBVIOUS
  <2>2. \A u \in Threads \ {t} : job'[u] = job[u]
    BY <1>3, OneJob DEF TypeOK
  <2>3. Writing' = Writing \ {t}
    <3>1. job'[t] = new
      BY <1>3, OneJob DEF TypeOK
    <3> QED
      BY <2>1, <2>2, <3>1 DEF Writing, Busy
  <2> QED
    BY <1>1, <2>2, <2>3 DEF Writing, Busy
<1>5. TypeOK'
  <2>1. job' \in [Threads -> Jobs \cup {None}]
    BY <1>3 DEF TypeOK, Jobs
  <2>2. \A u \in Writing' : job'[u].message \in Messages(job'[u].file)
    BY <1>4 DEF TypeOK
  <2> QED
    BY <1>2, <1>4, <2>1, <2>2 DEF TypeOK
<1>6. SentAccepted' /\ Undisturbed' /\ Arrived'
  BY <1>2, <1>4 DEF SentAccepted, Undisturbed, Clear, Arrived, Accepts
<1>7. Agreement' /\ KeptWasAccepted'
  BY <1>2 DEF Agreement, KeptWasAccepted, Accepts
<1> QED
  BY <1>5, <1>6, <1>7

\* So does what refuses a write, and every step of no thread.
LEMMA NextIInv == IInv /\ [Next]_vars => IInv'
<1> SUFFICES ASSUME IInv, [Next]_vars PROVE IInv'
  OBVIOUS
<1>1. ASSUME UNCHANGED vars PROVE IInv'
  BY <1>1 DEF vars, IInv, TypeOK, Undisturbed, Clear, Arrived, SentAccepted, Agreement,
              KeptWasAccepted, Accepts, Writing, Busy
<1>2. CASE Next
  <2> PICK t \in Threads :
        \/ Sent(t) \/ Lost(t) \/ Store(t) \/ ReadReturns(t)
        \/ \E f \in Files : \/ Read(t, f)
                            \/ \E m \in Messages(f) : Write(t, f, m) \/ WriteRefused(t, f, m)
    BY <1>2 DEF Next
  <2>1. CASE Sent(t)
    BY <2>1, SentIInv
  <2>2. CASE Lost(t)
    BY <2>2, LostIInv
  <2>3. CASE Store(t)
    BY <2>3, StoreIInv
  <2>4. CASE ReadReturns(t) \/ \E f \in Files : Read(t, f)
    BY <2>4, ReadIInv
  <2>5. CASE \E f \in Files : \E m \in Messages(f) : Write(t, f, m)
    BY <2>5, WriteIInv
  <2>6. CASE \E f \in Files : \E m \in Messages(f) : WriteRefused(t, f, m)
    BY <1>1, <2>6 DEF WriteRefused
  <2> QED
    BY <2>1, <2>2, <2>3, <2>4, <2>5, <2>6
<1> QED
  BY <1>1, <1>2

\* The invariant of the specification.
LEMMA SpecIInv == Spec => []IInv
BY InitIInv, NextIInv, PTL DEF Spec

\* Every variable has its type, for any threads, files, names and numbers.
THEOREM ModuleTypeCorrect == Spec => []TypeOK
BY SpecIInv, PTL DEF IInv

\* What a file keeps is what its device does, for any number of threads and files, unless
\* commands have met or got lost.
THEOREM FilesAgree == Spec => []Agreement
BY SpecIInv, PTL DEF IInv

\* No file keeps what its controller refuses.
THEOREM OnlyAcceptedIsKept == Spec => []KeptWasAccepted
BY SpecIInv, PTL DEF IInv
===============================================================================
