------------------------------ MODULE ModuleFile ------------------------------
(* ProtoProcessFile and the controllers: files that stand for devices.           *)
(*                                                                               *)
(* What is written to such a file goes to the device first and is then kept, for *)
(* reads to return.  FUSE's threads write and read at once, nothing locks, and a *)
(* command to an X10 device takes most of a second.  Calls that are refused      *)
(* before a controller is asked (an offset, data that is no message) change      *)
(* nothing and are no steps.  Of a message there is what controllers look at, of *)
(* a colour one part, as the three go the same way to three pins.                *)
EXTENDS Integers

CONSTANTS
  Threads,
  Files,
  KindOf,    \* the controller of each: "x10", "liteBrite", "hue", or "time" for none
  NameEnd,   \* the character codes of the last two characters of each name
  Parts,     \* the numbers in messages about colour and brightness
  None

ASSUME FilesAssumption ==
  /\ KindOf \in [Files -> {"x10", "liteBrite", "hue", "time"}]
  /\ NameEnd \in [Files -> (0..255) \X (0..255)]
ASSUME PartsAssumption == Parts \subseteq Int

VARIABLES
  portOpen,  \* whether X10Controller has the serial port: fd_ >= 0
  state_,    \* what each file keeps, None before the first write
  job,       \* what each thread is at, or None
  shown,     \* external: what each device does
  disturbed, \* history: the threads whose command met another one, or got lost
  settled,   \* history: the files whose last write met nothing
  status     \* "up", "aborted" by protobuf, or "undefined"

vars == <<portOpen, state_, job, shown, disturbed, settled, status>>
------------------------------------------------------------------------------
(* The devices *)

ToUpper(c) == IF c \in 97..122 THEN c - 32 ELSE c
Atoi(c) == IF c \in 48..57 THEN c - 48 ELSE 0

\* A name's unit, or None.  atoi() takes what is no digit for 0, and no check does.
NameToId(end) ==
  LET house == ToUpper(end[1]) - 65
      unit == Atoi(end[2])
  IN IF house \in 0..15 /\ unit \in 0..15 THEN house * 16 + unit ELSE None

\* What the file's commands reach: a unit, by its number, or the bulb of the file.
Device(f) == IF KindOf[f] = "x10" THEN NameToId(NameEnd[f]) ELSE f

\* What carries them: the serial line, or the bulb's own pins.
Line(f) == IF KindOf[f] = "x10" THEN "serial" ELSE f

Devices == {Device(f) : f \in Files} \ {None}
OnLine(l) == {Device(f) : f \in {g \in Files : Line(g) = l}} \ {None}

Clamp(n) == IF n < 0 THEN 0 ELSE IF n > 100 THEN 100 ELSE n

\* A pin that is set to what the numbers make.
LevelUnclamped(m) ==
  IF m.brightness = None THEN Clamp(m.colour) ELSE Clamp(m.colour) * Clamp(m.brightness)

\* A brightness multiplies and nothing divides; softPwmWrite() clamps again.
Level(m) ==
  IF m.brightness = None THEN Clamp(m.colour) ELSE Clamp(Clamp(m.colour) * Clamp(m.brightness))

Messages(f) ==
  IF KindOf[f] = "x10" THEN [isOn : BOOLEAN]
  ELSE [colour : Parts \cup {None}, brightness : Parts \cup {None}]

\* What a thread is at: a write with the device, one that is being kept, or a read.
Message == UNION {Messages(f) : f \in Files}

Jobs ==
  [stage : {"sending", "storing"}, file : Files, message : Message]
    \cup [stage : {"reading"}, file : Files]

ASSUME NoneAssumption ==
  None \notin Parts \cup Files \cup (0..255) \cup Message \cup Jobs /\ Files \cap (0..255) = {}

\* What a device does when it has got the message.
Shows(f, m) == IF KindOf[f] = "x10" THEN (IF m.isOn THEN 1 ELSE 0) ELSE Level(m)

\* And when commands meet: of one pin's writes some is the last, a line's become any.
CanShow(d) ==
  IF d \in Files THEN {Level(m) : m \in {n \in Messages(d) : n.colour # None}} ELSE {0, 1}
------------------------------------------------------------------------------
(* Writes *)

Idle(t) == status = "up" /\ job[t] = None
At(t, stage) == status = "up" /\ job[t] # None /\ job[t].stage = stage
Busy == {t \in Threads : job[t] # None}
Writing == {t \in Busy : job[t].stage # "reading"}

Accepts(f, m) ==
  \/ KindOf[f] = "x10" /\ portOpen /\ NameToId(NameEnd[f]) # None
  \/ KindOf[f] = "liteBrite" /\ m.colour # None

\* Those a new command to the file meets: commands under way on the line, and writes to
\* the device that have yet to be kept.
Met(f) == {t \in Writing : \/ Line(job[t].file) = Line(f) /\ job[t].stage = "sending"
                           \/ Device(job[t].file) = Device(f)}

\* Of two commands at once on a line either may become any other.
Write(t, f, m) ==
  /\ Idle(t) /\ Accepts(f, m)
  /\ job' = [job EXCEPT ![t] = [stage |-> "sending", file |-> f, message |-> m]]
  /\ IF Met(f) = {}
     THEN /\ settled' = {g \in settled : Device(g) # Device(f)}
          /\ UNCHANGED disturbed
     ELSE /\ settled' = {g \in settled : Line(g) # Line(f)}
          /\ disturbed' = disturbed \cup {t} \cup {u \in Writing : Line(job[u].file) = Line(f)}
  /\ UNCHANGED <<portOpen, state_, shown, status>>

\* A refused message that is kept.
WriteRefusedKeeps(t, f, m) ==
  /\ Idle(t) /\ ~Accepts(f, m)
  /\ state_' = [state_ EXCEPT ![f] = m]
  /\ UNCHANGED <<portOpen, job, shown, disturbed, settled, status>>

\* The controller's return code is the answer, and nothing is kept.
WriteRefused(t, f, m) ==
  /\ Idle(t) /\ ~Accepts(f, m)
  /\ UNCHANGED vars

\* x10_br_out() and softPwmWrite() return.
Sent(t) ==
  /\ At(t, "sending")
  /\ LET f == job[t].file IN
       IF t \in disturbed
       THEN \E d \in OnLine(Line(f)) : \E v \in CanShow(d) : shown' = [shown EXCEPT ![d] = v]
       ELSE shown' = [shown EXCEPT ![Device(f)] = Shows(f, job[t].message)]
  /\ job' = [job EXCEPT ![t].stage = "storing"]
  /\ UNCHANGED <<portOpen, state_, disturbed, settled, status>>

\* A call on the serial port fails in x10_br_out(), whose result nobody looks at.
Lost(t) ==
  /\ At(t, "sending") /\ KindOf[job[t].file] = "x10"
  /\ job' = [job EXCEPT ![t].stage = "storing"]
  /\ disturbed' = disturbed \cup {t}
  /\ UNCHANGED <<portOpen, state_, shown, settled, status>>

\* The threads inside the state_ that t assigns to or reads.
Inside(t) == {u \in Busy \ {t} : job[u].file = job[t].file /\ job[u].stage \in {"storing", "reading"}}

Ends(t) ==
  /\ job' = [job EXCEPT ![t] = None]
  /\ disturbed' = disturbed \ {t}

\* A file that keeps what it has.
StoreOnce(t) ==
  /\ At(t, "storing")
  /\ LET f == job[t].file IN
       state_' = [state_ EXCEPT ![f] = IF @ = None THEN job[t].message ELSE @]
  /\ settled' = IF t \in disturbed THEN settled ELSE settled \cup {job[t].file}
  /\ Ends(t)
  /\ UNCHANGED <<portOpen, shown, status>>

\* state_ = state, in which no other thread should be.
Store(t) ==
  /\ At(t, "storing")
  /\ state_' = [state_ EXCEPT ![job[t].file] = job[t].message]
  /\ settled' = IF t \in disturbed THEN settled ELSE settled \cup {job[t].file}
  /\ Ends(t)
  /\ \/ UNCHANGED status
     \/ Inside(t) # {} /\ status' = "undefined"
  /\ UNCHANGED <<portOpen, shown>>
------------------------------------------------------------------------------
(* Reads *)

Read(t, f) ==
  /\ Idle(t) /\ KindOf[f] # "time"
  /\ job' = [job EXCEPT ![t] = [stage |-> "reading", file |-> f]]
  /\ UNCHANGED <<portOpen, state_, shown, disturbed, settled, status>>

\* What was never written lacks fields that are required: SerializeToString aborts in a
\* debug build and returns a part of a message in others.
ReadReturns(t) ==
  /\ At(t, "reading")
  /\ Ends(t)
  /\ \/ UNCHANGED status
     \/ state_[job[t].file] = None /\ status' = "aborted"
     \/ (\E u \in Inside(t) : job[u].stage = "storing") /\ status' = "undefined"
  /\ UNCHANGED <<portOpen, state_, shown, settled>>
------------------------------------------------------------------------------
\* Nobody knows what an X10 device did before; PWM pins are set to 0, and update(), which
\* is to keep a bulb's first state, is not implemented.
Init ==
  /\ portOpen \in BOOLEAN
  /\ state_ = [f \in Files |-> None]
  /\ job = [t \in Threads |-> None]
  /\ shown \in [Devices -> {0, 1}] /\ \A f \in Devices \cap Files : shown[f] = 0
  /\ disturbed = {} /\ settled = {}
  /\ status = "up"

Next ==
  \E t \in Threads :
    \/ Sent(t) \/ Lost(t) \/ Store(t) \/ ReadReturns(t)
    \/ \E f \in Files :
         \/ Read(t, f)
         \/ \E m \in Messages(f) : Write(t, f, m) \/ WriteRefused(t, f, m)

Spec == Init /\ [][Next]_vars
------------------------------------------------------------------------------
(* Properties *)

\* Every variable has its type, and of a message its kind.
TypeOK ==
  /\ portOpen \in BOOLEAN
  /\ state_ \in [Files -> Message \cup {None}]
  /\ job \in [Threads -> Jobs \cup {None}]
  /\ \A t \in Writing : job[t].message \in Messages(job[t].file)
  /\ shown \in [Devices -> 0..100]
  /\ disturbed \subseteq Writing
  /\ settled \subseteq Files
  /\ status \in {"up", "aborted", "undefined"}

\* ProtoProcessFile.hpp:82, "The current state of this module instance": what a file keeps
\* is what its device does, once a write to it met no other command on the line or to the
\* device and got through, for as long as no other is on its way to the device and no two
\* meet on the line; and that one such write mends whatever was wrong before.
Agreement == \A f \in settled : /\ state_[f] # None
                                /\ shown[Device(f)] = Shows(f, state_[f])

\* No file keeps what its controller refuses, and none but X10's and LiteBrite's keeps
\* anything, whichever of them are read and written at once.
KeptWasAccepted == \A f \in Files : state_[f] # None => Accepts(f, state_[f])
==============================================================================
