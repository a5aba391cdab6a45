# A verification development for rfspp

TLA+ models of rfspp, the TLC runs that check them on small instances, and proofs of
the theorems that hold for every instance. Paths are relative to the repository.

rfspp is a "publish/subscribe system exposed using the standard file system API": a
program registers objects as files of an in-process file system, FUSE serves that file
system to other programs, nodes find each other on the network, and clients reach a
node through a local proxy.

## 1. Inventory

| Component | State | Operations | Meets | What is hard | What makes it correct |
|---|---|---|---|---|---|
| `ProcessFileSystem` (`lib/fs`) | tree of `Entry`, table `handles_` | open, close, read, write, readDirectory, readMetadata; addFile, addDirectory, removePath | objects register themselves and are called back; FuseBridge calls it | slot reuse, objects that die while open, two objects on one path | tree and table agree; a handle leads to what was opened until it is closed |
| `ProcessFile`, `ProcessDirectory` | path, metadata | constructor, destructor, open/close of a file | ProcessFileSystem | registration that fails, replacement | an object's end removes its own entry and no other |
| `FuseBridge` (`src/fuse`) | one `FileHandle` per FUSE descriptor | 20 FUSE callbacks, on several threads | ProcessFileSystem | no lock anywhere, shared results of `getpwuid`, calls that are refused | each descriptor has its own handle, every one is released; what is asked of a file reaches the file system |
| `Discovery` (`librfs/lib`) | map of peers, two timers, one receive | start, stop, doReceive, doPeerTimeoutCheck, doNetworkUpdate, onSendComplete | other nodes, by multicast UDP | loss, delay, repetition, reordering, crashes, stop with handlers queued | entries are other nodes' own lists; changes are learned, the gone are forgotten |
| `Channel`, `WireHeader` | read buffer, queue of writes | send, doHeaderRead, doPayloadRead, doNextWrite, close; serialize, deserialize | Peer, over asio | a write's completion racing `send`, errors half-way; byte order | messages leave once, in order; one close callback; a size is read as it was written |
| `Peer`, `Proxy`, listeners | the one channel of the one peer | setChannel, onRfsMsgReceived, onConnect, doAccept | Channel | a second connection replaces the first | an answer goes to who asked |
| `Client`, `ProxyThread` | fd, mutex, running_ | connect, stat, execCmd, disconnect; run | Proxy, over a local socket | run holds its mutex while the service runs; short reads, end of file | every command is answered or fails |
| `PosixFileSystem` (`lib/fs`) | vector of descriptors | the operations of FileSystem over POSIX calls | FuseBridge | fids against indexes, calls that fail half-way | a handle leads to its descriptor; a failed create leaves nothing |
| `PosixUtils` | none | mode and error conversions | both file systems, FuseBridge | types and errors without a counterpart | a conversion and back is the identity where it should be |
| Modules and controllers | the stored state of a device, a serial port | read, write, set | ProcessFile; the devices | a controller that fails, slow commands on one line, two names of one unit | stored state and device agree |
| `Log` | a line of text, a level | a `streambuf` over syslog | Discovery, channels, listeners | - | - |
| `SocketAddress`, `IpAddress` | one address | parsing, classification, formatting | nothing outside the tests | which kind an address is, byte order | a text is read as the address it names |
| `RemoteFileSystem`, `lib/fs/tmp` | - | stubs; files no build compiles | - | - | - |

`PROJECT.json` lists the hazards line by line, with the properties that watch them.

## 2. Modules

| Module | What it is |
|---|---|
| `OpenFiles`, `Pipe` | what any file system promises the holders of handles, and one direction of a connection those who send (abstract) |
| `ProcessFileSystem` | `lib/fs/ProcessFileSystem.cpp` and the objects registered in it, one step per call |
| `FuseWorkers` | the FUSE worker threads in `openFile` and `closeFile`, one step per access to the table |
| `Discovery` | all nodes, the network between them, and the clock |
| `PosixUtils` | `lib/fs/PosixUtils.cpp`: the conversions, as operators |
| `PosixFileSystem` | `lib/fs/PosixFileSystem.cpp`, one step per call, over the kernel's descriptors, files and their sizes |
| `FuseBridge` | the callbacks of `src/fuse/FuseBridge.cpp`, on several threads, over any `FileSystem` |
| `ModuleFile` | `lib/modules`: files that stand for devices, their controllers, and the devices |
| `Channel` | the writing side of `librfs/lib/Channel.cpp` over asio and a socket |
| `LocalRpc` | `connect()` of several `Client`s, `ProxyThread`, `Proxy` and `LocalListener` in one process |
| `FileData` | what `readFile` and `readSymlink` make of what the file systems answer, as operators |
| `WireHeader` | the header of a message and what a Channel makes of it, as operators |
| `Addresses` | `IpAddress` and `SocketAddress`: parsing and classification, as operators |
| `MC...` | small instances of each |
| `ProcessFileSystemProofs`, `FuseWorkersProofs`, `FuseBridgeProofs`, `DiscoveryProofs`, `PosixFileSystemProofs`, `ModuleFileProofs`, `ChannelProofs`, `LocalRpcProofs` | theorems |

`FuseWorkers` composes the FUSE threads with the file system's table, `LocalRpc` the
clients with the proxy they share; `PosixFileSystem`, `FuseBridge` and `FileData` use
`PosixUtils`, `Addresses` uses `WireHeader`'s byte orders; `ProcessFileSystem`, `FuseBridge`
and, while no two opens overlap, `FuseWorkers` are shown to implement `OpenFiles`, the first
to its callers and the others to applications, and `Channel` to implement `Pipe`.

Some operators are variants of another, placed before it and described as one that drops
a check, a reset or a case (`NextFidAnySlot`, `DoReceiveOwn`, ...). Nothing uses them:
put in the place of the original they make a property fail, which shows that the
property depends on the code being as it is. `PROJECT.json` says which goes with which.

### ProcessFileSystem

`tree` is the tree below `root_`: the entry at each *key*, the sequence of names on the
way down. `EntryKey` does to a path what `splitPath` and `getEntry` do together, which
includes losing the first component. `handles_` is the vector, fid *i* at position *i+1*.
`life`, `sessions` and `fds` are the world around: which objects are constructed, for
which fids a file of the second mode (`ProcessFile.hpp:18-20`) keeps a context, and
which `FileHandle` each caller has. `status` records asserts and undefined behaviour: a
call that would reach either stops the model there. Within one call nothing else runs
(the class has neither a lock nor a callback that re-enters it), so a call is a step.

`HandleUse` says what callers do with their handles. FuseBridge uses each between its
open and its one close (`"once"`); `"any"` callers also use handles that were never opened,
and close twice, which the comment in `releaseHandle` expects. Neither opens on a `FileHandle`
that is in use, which would forget the first fid: "every program" below means whatever
objects and calls short of that.
`TeardownLast` is `main()`: objects die after the last call.

### FuseWorkers

The same calls seen from several threads, with `genHandle` and `releaseHandle` taken
apart into their accesses to `handles_`. While `fuse_main` runs nothing is registered or
destroyed, so the tree is the set of files. A thread that grows the vector while another
is inside a call may leave the latter in freed memory: besides going well, such a push
may end in the status `undefined`, where the model stops; so may a push on an entry's own
vector while another thread is at it. The other accesses are taken one at a time, the
mildest outcome the races can have. `overlapped` is history: whether two threads have
ever been in `genHandle` at once.

### FuseBridge

The bridge from the other side: all its callbacks over a file system that is known by
what `FileSystem.hpp` promises alone. `heap` has the `FileHandle`s that the callbacks
allocate, `fi` each descriptor's `fuse_file_info`, whose `fh` is an address in `heap`;
`opened` and `files` are the file system's and change only as its calls say, or not at
all, when it refuses. A callback is one step where nothing that others do in its middle
can tell, and two where something can: `genUserInfo` works on memory that `getpwuid()`
shares between threads, and `closeFile` gives its fid back to the file system before it
deletes the `FileHandle`. The second step is the one named `...Returns`. `spoilt` says
whose looked-up user has been overwritten: the name read is then anybody's, or none.
`asked` is history: what applications last asked of each path with success. `GetAttr` is the
stat that an application gets back: `metadataToStat` clears it and fills in no `st_uid`, so
its owner is 0, root, whoever is the owner that `files` has.

Applications may be told less than they should in three callbacks that end the process:
`ReadDirectory` throws for any entry with a name, and `ListXAttr` and `GetXAttr` fail an
assert when they are asked for a size. The configuration's constraint stops there.

### ModuleFile

`state_` is what each file keeps, `shown` what each device does, and `job` where each
thread is: with the device (`sending`), about to keep the message (`storing`), or
reading. `Device` and `Line` say which device a file's commands reach and what carries
them: X10 names lead to house and unit codes, so that two names may be one unit, and all
X10 commands share a serial line. A command lasts long enough for another thread's to
begin; what two of them do at once is anybody's guess, so `Sent` chooses any outcome on
the line. `Lost` is a command that never got out, which `X10Controller.cpp:42` does not
look at. `disturbed` and `settled` are history: the threads that met another, and the
files whose last write did not.

A first read of a file that was never written, or a read during a store, ends in the
status `aborted` or `undefined`, or goes well.

### Discovery

Per node: its phase, its interfaces' addresses, its map with the time since `lastSeen`,
the time since its construction, and where its update loop is; between nodes the
datagrams on their way, and in each node the one whose handler is about to run. `said`
is history: what each node ever sent. A datagram that arrives may stay in `net`, which
is a duplicate; any may be lost; they arrive in any order. A handler with an error
re-arms itself, changes nothing else, and is not a step. The timers' expiry is absolute
and set by the constructor alone, so the guard of both timer handlers is that it has
passed, once and for all.

`erase(it)` followed by `++it` is undefined: `DoPeerTimeoutCheck` removes any non-empty
set of the expired entries and goes on, or ends in the phase `undefined`.

### PosixUtils and PosixFileSystem

A `mode_t` is the set of its bits. `fds_` is the vector; `table` says which of the
process's descriptors are open, on a file of this class or on something of the rest of
the program, and the kernel gives out the lowest that is free (`IsNext`). `files` is
what the kernel keeps of each file: its mode, its owner and, of its contents, the size.
`rw` are the descriptors opened with `O_RDWR`, the only ones the kernel writes through.
`asked` and `wanted` are history: the permissions successful calls asked for last, and which
files a caller has opened or created in order to write. A call that fails before it has
changed anything is no step; one that fails after it has is (`CreateFile`,
`CreateDirectory`). `ListedType` is what `readDirectory` makes of an entry's `d_type`, and
`ReadMetadata` what `readMetadata` makes of what `lstat` tells: type and permissions, and no
owner, as `statToMetadata` clears the metadata and never fills in `uid`.

Three things the model takes as the code has them. A fid is one more than the index of
its descriptor (73, 100), so a handle leads to the descriptor of the next open, if any.
`fds_.at ( fh.fid() < 0 )` (109, 124, 143) reads the first element and takes any value
but 0 for a refusal, so that handles are refused unless the first file opened was given
descriptor 0: `Accepts`. `remove` and `rename` call themselves (279, 299) and end
with the stack: `RemoveOrRename`. `HandlesApart` is what is left of the promise of a
handle: if it leads anywhere, nobody else's leads there. `WriteFile` writes to whatever
that is, and `OnlyWantedWritten` is what is left of the promise of a write.

### Channel

`writeMsgs_` is the queue, `ops` the writes whose completion handler has not run. asio
starts a write, ends it or fails it (`Begin`, `End`, `Fail`), and the handler runs some
time after that; between any two of these `send` and `close` may be called. `wire` has
the first and the last byte of each message, which shows one message inside another.
Of the reading side, which nothing in the repository starts, there is what `doHeaderRead`
makes of a header (`WireHeader`).

### LocalRpc

`at` is where each client's thread is on its way through `Client::connect` (`"get"`,
`"run"`, `"serve"` inside `ioService_.run()`, `"getPath"`, `"connect"`), `mtx_` who holds
ProxyThread's mutex, `accept` what asio makes of the accept under way, and `instance`
whether the static object is there; its constructor throws if it cannot bind, and the next
`get()` tries again. `run()` serves in the calling thread with the mutex held (17, 24) and
never sets `running_`. `setupNextAccept` accepts on a Channel's socket, which the Channel's
constructor has opened: asio refuses that, and `doAccept` aborts (38). The rest, `getPath`
and the connection, is in the model though no behaviour comes to it: with a thread of its
own for the service, or an accept that can succeed, it would.

### FileData, WireHeader, Addresses

Operators without state, one per function of the code. `FileData` puts `FuseBridge`'s reads
over those of `PosixFileSystem`, `ProtoProcessFile` and `TimeProcessFile`: a file system
answers with a vector, a count and a return code, and `BridgeReadFile` is what an
application gets of them. `WireHeader` has the four bytes that `serialize` copies from the
host's memory, and `Deserialize`, which takes them for network order. `Addresses` has
`t_` and `addr_` of an `IpAddress`, what `parse` does to them, what the C library's
macros make of them, and `SocketAddress::parse` over that. TLC would only enumerate them:
what they compute is proved, for all values.

## 3. Runs

All finish within three minutes. Bounds are the constants of the configurations.

| Run | Question | Instance |
|---|---|---|
| `PFS_serve` | does a program like `main()` get what it is promised? | two files, a directory, two callers, four paths, `once`, teardown last |
| `PFS_free` | do tree and table survive any program? | three files and a directory on two entries, two callers, `any`, any time of death |
| `FUSE_two` | what holds without a lock, and until when? | two threads, two descriptors, two files |
| `DISC_two` | is what a node knows of its peers right, every change learned, and everyone who is gone forgotten? | two nodes, lossy network, foreign datagrams; one hears itself, the other moves, stops or crashes |
| `POSIX_calls` | are descriptors, metadata and writes kept account of, also when calls fail half-way? | two callers, two paths, three descriptors, three opens, sizes 0 and 1 |
| `BRIDGE_calls` | do applications keep their handles apart, and does what they ask reach the file system? | two threads, two descriptors, two paths, three users of which one has no name |
| `MODULE_writes` | when does a file tell the truth about its device? | two threads, four X10 names (two of one unit, one of another, one of none), a bulb, the clock |
| `CHAN_writes` | do messages leave once, whole and in order, or is the user told? | two messages, four sends |

Why these are enough. Handles: with two callers one handle is reused while the other is
held, which is where a wrong slot shows. Threads: two are enough for every step of one to
fall between two of the other, and `MaxSlots = 3` lets a scan pass a used slot, meet a free
one, or reach the end. Entries: two on one path, one above the other, cover
every relation two entries can have. Discovery: what a node knows of another depends on
no third, except through `erase`, which `DISC_expire` has no need of a third for; ages
and times saturate one above the value they are compared with, times of 0 or 1 let
several updates, several checks or none fall before an expiry. Numbers of the code
(60 s, 5 s, `MaxMessageSize`) enter as the constants `PeerIdleCheckTime`,
`NetworkUpdateTime`, `MaxPeerTimeoutTime` and `MaxMessageSize`. The two lists of addresses
are of one length and overlap, which is what the comparison of lists has to tell apart;
`Foreign` is what else is sent to the group: what does not parse is dropped, a malformed id
(only in `DISC_expire`) ends the `io_service`. `Mortal`, `Movable` and
`Looped` keep runs small by saying which nodes may die, move or hear themselves, and
`MaxSlots` bounds the table of `FUSE_two`, where slots leak: no open is asked for that
might exceed it. `PosixFileSystem`'s vector never shrinks, so `MaxOpened` bounds the
opens: three are needed for a handle to reach a descriptor, for another to reach none,
and for a number to be given out again; all three descriptors (`MaxFd` = 2) are the
program's at first, and free again when it closes them. Sizes up to `MaxSize` = 1 tell
a file that was written to from one that was not. `MaxSent` bounds what is sent on a channel: with four,
messages queue behind a write, behind its handler, and after the channel is gone.
`FuseBridge` has as many addresses and fids as descriptors, so that each close makes the
next open reuse one; two threads are enough for one lookup to fall into another. One set
of permissions will do, with S_ISVTX in it, as bits do not interact.
`ModuleFile` has two names of one unit, one of another unit and one that is refused, and
for numbers 50, which makes a product that has to be clamped; that levels
stay in range is proved for all numbers.

What holds:

- `TreeLinked`, `HandlesAgree`, `TableBounded` - in every program. No removal strands a
  subtree and no slot leads to a removed entry: `removePath` refuses whatever ever had a
  child or a handle. Every slot is used again before the table grows.
- `FdFaithful`, `SessionsAgree`, `FailedOpenKeepsHandles`, `OnlyOwnEndUnregisters`,
  `NoFault`, `ImplementsOpenFiles` - where callers close once
  and no two objects share an entry.
- `DeadStayOnlyWhereKept` - which entries outlive their file: only those that
  `removePath` had a reason to keep.
- `OwnViewUnlessOverlapped`, `AllReleased` - of any worker threads until two are in
  `genHandle` at once: a lock there, and none around closes, would keep every descriptor
  its own slot, were it not for the memory of the vectors. `FidsInTable` and
  `RequestsAnswered` hold whatever overlaps.
- `VectorOwnsItsDescriptors`, `NoneLost`, `HandlesApart`, `OthersUntouched` - whatever
  callers and the rest of the program do: no descriptor is leaked, closed twice, or closed
  in the program's place, though its number is given out again at once.
- `OnlyWantedWritten` - though handles lead astray, no write reaches a file that nobody
  opened to write to, and only `resizeFile` makes a file shorter.
- `MetadataAsAsked` - permissions survive the conversions, the umask and `chmod`, and
  `readMetadata` and `readDirectory` agree on a file's type. It says nothing of owners, of
  which `readMetadata` tells none.
- `OneToOne`, `ImplementsOpenFiles` of `FuseBridge` - whatever the file system refuses and
  whoever closes while others open. A close that is refused loses the file system's slot
  (`forsaken`) and nothing of the bridge.
- `AskedIsHandedOn` - type, permissions and, unless two threads were in `genUserInfo` at
  once, the owner get to the file system as asked; a user without a name is refused by
  `getpwnam()`. `getattr` brings type and permissions back, and says root of every owner.
- `Agreement`, `KeptWasAccepted` - a write that meets no other, on the line or on the device,
  leaves file and device in agreement, also after others have set them apart; what is
  refused is not kept.
- `OneWriteOfTheFront`, `InOrder`, `CloseReportedOnce`, `ImplementsPipe`,
  `WrittenOrClosed` - of a Channel's writes. A message sent after a failed write stays in
  the queue for good, which the user can know, as the close callback has been called.
- `PeersAreOthersAds`, `EntryFollowsDatagram`, `PeersLearned`, `GoneForgotten` - on a
  network that loses, delays, repeats and reorders, of nodes whose lists repeat no address.

What does not (each run stops at its counterexample):

| Run | What the code does |
|---|---|
| `PFS_destructor` | a file that was ever opened stays registered after its destructor: the -1 in its entry keeps the entry |
| `FUSE_race` | two opens at once get one fid, or a fid that leads to the other's file |
| `DISC_expire` | the check increments an iterator it has erased; that of several expired peers some are then passed over takes a third node, which the instance has not |
| `RPC_connect` | a client that connects never comes back: the first serves the proxy itself with the mutex that the others wait for, until its first accept aborts the process |

Of the same kind, seen in the models and not worth a run each: a second close with a
handle whose fid was given out again closes another caller's handle
(`ProcessFileSystem.cpp:357`); the timers of Discovery are never given a new expiry, so
that after the first five seconds a node sends without a pause (`Discovery.cpp:288`), as
`DoNetworkUpdate`'s guard shows; the first component of
every path is ignored, so that two paths are one entry (`ProcessFileSystem.cpp:254`); a
datagram of exactly the maximal size is sent and fails the receiver's assert
(`Discovery.cpp:134`, `263`); handles of PosixFileSystem are refused or lead astray, and
remove and rename never return (see above); a file or directory whose owner cannot be
set is left behind by the call that failed (`PosixFileSystem.cpp:63`, `189`); a symbolic
link's mode reads as a file's (`PosixUtils.cpp:41`); no owner is ever reported, as
`metadataToStat` clears `st_uid` and `st_gid` and fills in neither (`PosixUtils.cpp:12`) and
`statToMetadata` fills in no `uid` (28), so that every file is root's to who asks through
FUSE and nobody's to who asks `readMetadata`, though `Common.proto:37` calls the field
"Owning user ID" and the samples print it as the owner (`PosixFS.cpp:45`,
`TimeOfDay.cpp:48`); an entry can become a file
and a directory, which `openFile` then asserts it is not (`ProcessFileSystem.cpp:220`); a
replaced file unregisters its replacement (`ProcessFile.cpp:40`); two opens at once can
leave a slot that nothing frees (`ProcessFileSystem.cpp:347`); a list that repeats an
address equals one that has more addresses, so that a change goes unnoticed
(`Discovery.cpp:53`); a datagram with a malformed id throws before the next receive is
set up (`Discovery.cpp:156`); a directory that has an entry with a path cannot be
read, as `at(length())` throws (`FuseBridge.cpp:572`); who asks for the size of an
attribute first, as `getfattr` does, ends the process (`FuseBridge.cpp:190`, `215`); two
files that stand for one X10 unit do not know of each other, a name without a digit is
the unit 0 (`X10Controller.cpp:55`), a command that was not sent counts as sent
(`X10Controller.cpp:42`); a brightness multiplies percentages and is never divided, so
that nothing is ever dimmed (`LiteBriteController.cpp:78`); a bulb that was not written
has no state to read, as `update` is not implemented (`ProtoProcessFile.hpp:27`).

And of the operators that are proved about: the bridge hands `readFile` a vector of size 0
(`reserve`, `FuseBridge.cpp:429`), so that a file of `PosixFileSystem`, which goes by the
size as `ProcessFile.hpp:59` says, always reads as empty, and a longer message of a module is
cut with no way to read the rest (`ProtoProcessFile.hpp:37`); reading `/time` never comes to
an end, as the offset is ignored (`TimeProcessFile.cpp:17`); `readSymlink` answers success
whatever `readLink` returned, and `readLink` leaves its string empty (`FuseBridge.cpp:613`,
`PosixFileSystem.cpp:254`); the size of a message is written in the host's byte order and
read in the network's (`WireHeader.cpp:20`); `IpAddress::parse` never says which kind it read,
so that `SocketAddress::parse` refuses every Internet address (`IpAddress.cpp:54`), and
`isLoopback` and `isMulticast` look at the last byte of an IPv4 address instead of the first
(`IpAddress.cpp:88`, `98`). Sizes are cut to the 32 bits of `Metadata` (`PosixUtils.cpp:30`).

## 4. Fairness

`ProcessFileSystem` has none: every property is safety. `FuseWorkers` is weakly fair to
each thread that has taken a request: a call does not block. Nothing makes applications
open or close. `Discovery` is weakly fair to the handlers of each node, since an
`io_service` runs what is ready, and to the clock; nodes need not start, stop, crash or
move. `FairLink` says of a link that what is sent on it again and again also arrives, again
and again, without staying behind as a duplicate: not everything is lost, and no duplicate
lives for ever. It is a strong fairness, since a datagram may be lost at any time, and it is
one of links, not of datagrams: a weaker one would allow a network that delivers nothing, on
which neither liveness property could hold.

`Channel` is weakly fair to asio, because the other side reads or breaks the connection,
and to the handler, because an `io_service` runs what is ready; nobody need send or
close. A peer that neither reads nor goes away would hold a message for ever.
`LocalRpc` is weakly fair to each thread that can go on; the counterexample of `RPC_connect`
does not come from a thread that merely stops.
`PosixFileSystem`, `FuseBridge` and `ModuleFile` have only safety properties.

`GoneForgotten` leaves out nodes that the check itself takes down (`DISC_expire`), and
`PeersLearned` is stated with "always eventually" because a late datagram, or an expiry
between two updates, undoes what was learned until the next update.

## 5. Proofs

tlapm checks them with no step left out. They are about all values of the constants
that satisfy the modules' assumptions, which say that constants have their types, that
`None` is none of the other values, and nothing else; what a theorem assumes beyond that is
in its ASSUME.

**ProcessFileSystemProofs**, for every program (see §2) and both values of `HandleUse`: `TypeCorrect`,
`TreeStaysWhole`, `HandlesStayInAgreement`, `DeadStayWhereKept`, `FailedOpensKeepHandles`,
and, of finitely many callers, `TableStaysBounded`. For callers that close once:
`HandlesStayFaithful`. Where no two objects share an entry (`ObjectsApart`):
`OwnEndsUnregister`, and, used as `main()` does, `MeetsNoFault`.

- `HandlesAgree` is not inductive alone. That a slot never leads to a removed entry needs
  that `removePath` looks at the entry's own vector, so that table and vector agree; that
  the entry found by `getEntry` exists needs `TreeLinked`; that `closeFile` releases the slot
  of the entry it was opened on needs `FdFaithful`; and that an open entry is a file needs
  `FilesInPlace`. `IInv` is the conjunction of these with `TypeOK`.
- `MInv` adds that with an entry come all those above it (`PrefixesPresent`), so that
  `getEntry` finds whatever is there and `removePath` removes whatever it may, and that every
  slot in use is some caller's (`SlotsAreHeld`), from which the bound of the table follows by
  counting. `StepsOfTheTree` says once what any step does to the tree - one vector is
  rewritten (`Relists`), a registration adds to it (`Grows`), an object ends - and the
  later proofs go by that.
- `MeetsNoFault` needs besides that directories are registered where their path leads
  (`DirsInPlace`), so that no entry is a file and a directory, and that once an object has
  ended nobody has a handle (`EndedLast`), which is where `TeardownLast` comes in.

- Where no two files share an entry (`PathsApart`): `KeepsThePromise`, for callers that close
  once: each step is an open, a close or a stutter of `OpenFiles`; and
  `SessionsStayInAgreement`, for all callers. Without the assumption neither holds: a file
  that replaces another changes what open handles reach.
- What never gets better. `KeptForEver`, of every program: an entry that was opened once, or
  had another below it once, is never removed, because closing and removing mark the elements
  of its vectors and `removePath` looks whether these are empty. `DanglesForEver`, where no two
  objects share an entry: if the object of such a path ends, `getEntry` finds the path ever
  after, and it leads to the dead object. It is why `MeetsNoFault` needs that objects end last.
  Both say of a predicate that no step takes it away again, which one lemma shows action by
  action from the invariant (`KeptStep`, `DanglesStep`); the other theorems of the form
  `[](P => []P)` below are proved likewise.

**FuseWorkersProofs**: `WorkersTypeCorrect`, `FidsStayInTable` for any number of threads.
A thread past its scan has the number of a slot; since the table never shrinks, no step
of another thread can take that away. `ViewsAreOwn` and `EverythingReleased` are about
threads no two of which were ever in `genHandle` at once. `Holds(d, i, f)` says that slot *i*
is used for descriptor *d*, by the application or by the thread that serves it, from the
moment the slot is taken to the moment it is freed; `Orderly` says that a slot is held for
one descriptor at most and has its file, that every slot in use and every element of an
entry's vector is held, and that a free slot stays free between the look at it and its use.
A close frees what its own descriptor holds, and a scan takes what nobody holds, so closes
may run beside both. `ThreadsKeepThePromise` takes that further: with the refinement mapping
`Views`, which has a descriptor reach the file of the slot whose number the application was
given, each access to the table is an open or a close of `OpenFiles` or leaves every
descriptor its view, as long as the threads are `Quiet` (no two opens have overlapped, and
nothing was undefined); an open takes effect where its number is answered, a close where its
slot is freed. `QuietThreadsImplementOpenFiles` puts it as an implication between
specifications, `Spec /\ []Quiet => Promised!Spec`. The condition is needed:
the race between two opens, which the run `FUSE_race` shows, breaks the promise.

**DiscoveryProofs**: `DiscoveryTypeCorrect`, `OnlyOthersAdsAreListed` on any network: what
is under way or received was said (`DatagramsAreSaid`), so what is entered was.
`EntriesFollowDatagrams` assumes that no list repeats an address: then a list that is
contained in one of the same length has the same addresses, by the pigeonhole lemma
`DistinctCount`, and an update is never taken for no change. The assumption is needed:
`{a, a}` is taken for `{a, b}`. `ForgottenForGood`: once a peer that is down has no entry at a
node and nothing of it is on its way there, it never gets one again, however the network
repeats datagrams. That it comes to that is `GoneForgotten`, which is model-checked.

**PosixFileSystemProofs**: three theorems about the conversions (`ModesComeBack`: type and
permissions come back, the owner does not; `LinksReadAsFiles`, `ErrorsComeBack`); and for any number of callers, files and descriptors
`TypesKept`, `VectorStaysItsOwn`, `DescriptorsAccounted`, `HandlesStayApart`,
`OthersStayUntouched`, `OnlyWantedAreWritten`. `IInv` has the vector and the kernel's table
account for each other (`VectorOwnsItsDescriptors`, `NoneLost`), with the facts that fids are
handed out in order (`FidsApart`), that what is open for writing was wanted so
(`WritableWanted`) and that open files are there (`OpenOnFiles`). That a descriptor the
kernel gives out is nobody's, and in no place of the vector, is where the -1 that
`closeFile` leaves is needed. `HandlesMissTheirOwn`: of any number of callers no one's handle
ever leads to the descriptor that was opened for it: its own stands in the place before the
one the fid names, and no number is in two places. `DescriptorsPileUp`: once the vector begins
with another descriptor than 0, as it does whenever standard input is open when the first file
is, no handle is accepted, and until the class is destroyed no `closeFile` closes anything.
`MetadataStaysAsAsked` has an invariant of its own, `MInv`:
nothing has been asked of a file that is not there, and a mode's type is one of three. What it
says of permissions needs that they survive both conversions and the umask's and `chmod`'s
arithmetic (`PermissionsSet`), and of types that links aside three bits tell them apart
(`TypesAgree`). `OwnersGoUnread`: `setOwner` changes nothing that `readMetadata` tells.

**FuseBridgeProofs**: `BridgeTypeCorrect`, `HandlesOneToOne`, `HandedOnAsAsked`,
`OthersFindRoot`, `BridgeKeepsThePromise`, for any number of threads, descriptors, addresses, fids, users and
permissions. `OneToOne` needs `OneRequestEach`: no two threads work on one descriptor, and
one that is being closed still has its `FileHandle`. `AskedIsHandedOn` needs that the
conversions of `PosixUtils` lose no permission and no type, and that different users have
different names, which is the assumption `NamesAssumption`. `OthersFindRoot` is what it comes
to for an owner: who gave a file to another user than root with success is told that it is
root's, while the file system has the user asked for. Every step keeps the promise of
`OpenFiles` along with the invariant (`KeepsPromise`): opens and closes are steps of it
(`OpenStep`, `CloseStep`), and what leaves the handles alone leaves alone what they reach.
`AbandonedForGood`: a fid whose close the file system refused is never closed nor used again,
since its `FileHandle` is deleted either way; the file system keeps it, as it was, for ever.
Five theorems are about `FileData`: `ReadsFit`, whatever a file system answers, and
`PosixFilesReadEmpty`, `LongMessagesCut`, `TimeNeverEnds` and `LinksUnread`, for all contents,
sizes and offsets.

**ModuleFileProofs**: `UnitsApart`, `NoDigitIsZero`, `NothingDims` about names and numbers;
`ModuleTypeCorrect`, `FilesAgree`, `OnlyAcceptedIsKept` for any files, threads and messages.
`Agreement` is inductive together with three facts: nobody else is writing to the device of
a write that is not disturbed, or of a file that is settled, and no disturbed command is on
its line (`Undisturbed`); what an undisturbed write has sent has arrived (`Arrived`); and
what is being sent was accepted (`SentAccepted`).

**ChannelProofs**: `WritesDoNotOverlap`, `SentInOrder`, `EndReportedOnce`, `KeepsOrder` for
any messages and any number of them. The invariant says where the one write is: the queue is
the end of what was sent, and what has left is what was taken off the queue and as much of
the front as the write's progress says; without a write, either all has left or the end has
been reported. `KeepsOrder` maps the end of a write to a delivery, the first failure to the
break, and every other step to a send or none. `NoneLeftBehind`: a channel that has nothing
under way and has not reported its end has delivered all that was sent, so that no message
waits for a write that nobody would start; with it, of `WrittenOrClosed` only the progress is
left to the model checker. `SilentAfterTheEnd`: once the end was reported nothing leaves any
more, since the message that failed stays in the queue's front and `send` starts a write only
where the queue was empty. About headers and addresses:
`HeadersComeBackReversed` (0x010100 is the only size up to the limit that is read as it was
written), `HeadersEndChannels`, `InternetTextsRefused`, `LastByteDecides`.

**LocalRpcProofs**: `NobodyConnects` and `ServesForEver`, for any number of clients (whose
names only must differ from `None`): the invariant says that the mutex is the serving client's
and that whoever else called `connect` is still in front of it. No client is ever told
that it is connected, or that it is not; the run `RPC_connect` shows that this is not for
want of scheduling.

Every safety property of the passing runs is thus a theorem, under the assumptions named.
Only model-checked are the liveness properties, which are out of the prover's reach:
`RequestsAnswered`, `PeersLearned`, `GoneForgotten`, `WrittenOrClosed`. Nor is anything proved
by induction over data, so that what `splitPath` and the sequence operators return is taken
from the library's facts about sequences.

## 6. Plan

Done: the file system with its objects, the FUSE bridge and the worker threads over it,
Discovery, the POSIX file system with its conversions and sizes, files that stand for
devices, a Channel's writes, a client's connection, headers, reads and addresses, and the
theorems about them.

What could still be proved is how far the races of `FUSE_race` reach: which descriptors an
overlap leaves with views of their own. About files that stand for devices, that one write which meets no
other mends what was wrong is in `Agreement` as a state's property, not as one of steps.

Left to model are parts of the code that cannot run as it stands, and come with its repair: the
exchange of `execCmd` and `stat` with `Peer`, and a Channel's reads, once `connect()` returns;
`remove` and `rename` of `PosixFileSystem`, once they reach the calls they are named for;
writes by fid, once a fid is the index it is used as.

## 7. Not modelled

- In the process file system metadata, and the text of paths beyond their components, as no
  decision reads them.
- In `PosixFileSystem` what is in a file (its size is), and calls through links.
- In `FuseBridge` groups, which go the way of owners; times, and the contents and sizes that
  it hands on; callbacks that only answer. What `ctime()` shares between threads that read
  the clock.
- What comes after a connection: `Client::execCmd`, which reads on after an end of file
  (`Client.cpp:144`), `stat`, and `Peer`, which answers on the channel it was given last
  (`Peer.cpp:61`). No client gets there (`RPC_connect`), and nothing starts a Channel's
  first read. `InetListener` is started by nothing.
- Discovery's callbacks, which nothing in the repository sets, and its port, which no node
  changes. A clock that jumps is listed as a hazard without a property, with the reason.
- `Log`, on which no other part depends. The formatting of addresses, their copies from and
  to `sockaddr`, and comparisons: only a test that prints uses `SocketAddress`.
- The pins and sockets behind LiteBrite and Hue; `RemoteFileSystem` and the base
  `FileSystem`, which return NotImplemented; `lib/fs/tmp`, which is not built;
  bottlerocket, which is not ours.

`start()` on an object that ran before has no caller.
