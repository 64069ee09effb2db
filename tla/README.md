# A TLA+ model of python-adb

The repository holds three implementations of the Android debug protocols. `src/adb` is Google's
single-threaded library (ADB commands, file sync, fastboot, USB handles); `src/libadb` is a
multi-threaded rewrite that multiplexes streams over one USB connection; `src/myadb` is an earlier
draft of `libadb`, with one loop for each kind of call. This directory models the protocol logic of
the three, and how two of them share a USB bus; it model-checks them with TLC and proves what matters
most with TLAPS.

## 1. Inventory

### The system's parts

| Part | Code | State it keeps | Operations | Correct when |
|---|---|---|---|---|
| Multiplexer | `libadb/protocol.py` | a send queue, a receive queue per stream id and one called "default", two daemon threads | `send`, `receive`, `send_loop`, `receive_loop`, `_atom_receive` (which acknowledges each WRTE) | frames are not interleaved, each reaches its own queue, each WRTE is acknowledged once |
| USB handle | `libadb/handle.py` | the claimed interface | `read`, `write` (errors are swallowed) | nothing is lost unnoticed (it is not) |
| Authentication | `libadb/device.py` | none but its progress | `authenticate` from the constructor | a device that is returned is connected and nothing of an earlier process is met later |
| Shell | `libadb/device.py`, `connection.py`, `adb.py` | `_base_id`; per connection a thread, a queue, a flag | `shell`, `new_id`, `main_loop`, `output`, `wait`, `close` | a call returns the whole output of its own stream, and returns |
| Port forwarding | `libadb/forward_server.py` | per port an id counter; per client a socket, ids, a thread | `ProxyServer.run`, `Worker.run`, `create_connection` | bytes of one client go to the service of its port, in order, and back |
| Push | `libadb/connection.py`, `device.py` | per file a thread, the record it is at | `push`, `PushConnection.main_loop`, `send`, `receive` | all records arrive in order, and the thread ends, whatever runs beside it |
| Device pool | `libadb/device_pool.py` (`myadb/adb.py` has the same loop) | a dict of devices by port path | `refresh_devices` | it has claimed what it can give out, and a refresh misses nothing |
| Packet layer of adb | `adb/adb_protocol.py` | none but the USB handle: every stream has the local id 1 | `Send`, `Read`, `Open`, `Write`, `Okay`, `ReadUntil`, `ReadUntilClose`, `Close` | a response belongs to its request, a WRTE is acknowledged once |
| Handshake of adb | `adb/adb_protocol.py`, `adb_commands.py` | the banner, the current key | `ConnectDevice`, `Connect` | it returns only when served, tries every key, a retry works after the user's consent |
| Commands of adb | `adb/adb_commands.py` | `_service_connections` | `Shell`, `StreamingShell`, `Logcat`, `InteractiveShell`, `Push`, `Pull`, `Install`, `Reboot`, `Close`, ... | as for the packet layer, over a sequence of calls; what is installed is what was pushed |
| File sync | `adb/filesync_protocol.py` | a send buffer and a receive buffer per session | `Push`, `Pull`, `Stat`, `List` over `Send`, `Read`, `_Flush`, `_ReadBuffered` | records survive packing into packets and cutting out of packets |
| Fastboot | `adb/fastboot.py` | none but progress | `Download`, `Flash`, `FlashFromFile`, `Erase`, ... over `SendCommand`, `_AcceptResponses`, `HandleDataSending`, `_Write` | a call that returns was carried out, the image flashed is the file |
| USB handles of adb | `adb/common.py` | a class-level cache of open handles with weak references, and its lock | `FindAndOpen`, `Open`, `BulkRead`, `BulkWrite`, `FlushBuffers`, `Close` | the open handle of a device is in the cache, and opening a free device succeeds |
| myadb | `myadb/device.py` | `base_id`; the thread of the active shell and its two queues | `shell`, `query_file_attributes`, `push`, `active_shell`, `run_cmd_loop` | a call returns what its own stream brought, whole, and returns |
| TCP handles, command line tools, signers, tests | the other files | - | - | - |

### How they interact

In `libadb`, callers, connection threads, forwarding workers and the receive thread all put into
one send queue; one thread writes it to USB, another reads USB and sorts frames into the queues by
stream id. There are no locks: what protects the protocol is the order of the queues. In `adb`
everything runs on the caller's thread, and what couples two calls is what the first has left in
the pipe: every call uses the local id 1 on the same handle. `myadb` also runs on the caller's
thread, but for its active shell, with an id for each stream. Programs of either kind meet on the
USB bus: an interface can be claimed once. Threads of one `adb` program also meet in the handle cache.

### What is hard

* **Interleaving**: a packet is two `put` calls, and two threads may be between them; `new_id` is
  two loads and a store; `Open` looks in the cache, opens and registers in three steps, and `Close`
  loads `self._handle` for each of its calls.
* **Order**: a WRTE is acknowledged before it is queued, a FAIL arrives before the answer that was
  expected, a CNXN of an accepted dialog arrives after the retry has begun.
* **Stale state**: neither side flushes the pipe in `libadb`; ids start from 12 in every process; a
  handle stays in the cache after its device was unplugged.
* **Partial failure**: `Install` is three commands; a refresh of the pool claims one device after
  the other and stops at the first exception.
* **Limits**: bounded queues put with `block=True`, a send buffer filled to the last word, a count
  that passes zero.
* **Timeouts**: in `adb` a call that times out leaves its answer behind; in `libadb` the timeout
  parameter is not used, and `myadb` has none.

`PROJECT.json` lists each hazard with its line and the properties that watch it.

## 2. Modules

| Module | Models | Extends |
|---|---|---|
| `AdbProtocol` | the multiplexer, the USB pipe in both directions and adbd's packet reader | |
| `AdbDaemon` | adbd, external: handshake, streams, flow control, leftovers of an earlier process | `AdbProtocol` |
| `AdbAuth` | `authenticate` running next to the two threads | `AdbDaemon` |
| `AdbShell` | `shell`, `new_id`, the connection and its thread, `adb.shell` | `AdbAuth` |
| `ReliableOutput` | abstract: each call reads one stream, in order, and is told the end | |
| `ForwardServer` | servers and workers of forwarded ports | `AdbAuth` |
| `PushSession` | pushing files through the multiplexer, and the sync service (external); its actions only, `DeviceSession` runs them | `AdbShell` |
| `DeviceSession` | composition: pushes and shells of one program over one multiplexer and one id counter | `PushSession` |
| `AdbMessage` | the packet layer of `adb`, with adbd (external) | |
| `AdbCommands` | programs that make sequences of calls, each of one or several commands | `AdbMessage` |
| `MyAdb` | the calls of `myadb`'s device, with its active shell | `AdbMessage` |
| `FileSync` | a session of Push, Pull, Stat or List | |
| `Fastboot` | commands, the data phase, and the bootloader (external) | |
| `AdbConnect` | `Connect` with several keys and retries, and the user's dialog | |
| `UsbBus` | ports, devices that are unplugged and plugged in, claims (external: libusb) | |
| `UsbHandle` | `UsbHandle` of several threads over the cache and its lock | `UsbBus` |
| `DevicePool` | `refresh_devices`, device by device | `UsbBus` |
| `UsbPrograms` | composition: a program with handles and one with a pool on one bus | `UsbHandle`, `DevicePool` |
| `AdbProtocolProofs` | theorems of the handshake, and lemmas on the way of one stream through the multiplexer | `AdbAuth` |
| `AdbShellProofs` | theorems of shells, and of pushes beside shells | `DeviceSession`, `AdbProtocolProofs` |
| `ForwardProofs` | theorems | `ForwardServer`, `AdbProtocolProofs` |
| `AdbCommandsProofs`, `FastbootProofs`, `FileSyncProofs`, `MyAdbProofs` | theorems | the module they are named for |
| `OpenDeviceProofs` | theorems of the two steps of `ConnectDevice`: how a handle is opened, and the handshake | `UsbPrograms`, `AdbConnect` |
| `MC...` | instances for TLC: values for the constants that a .cfg cannot write | |

### Correspondence to the code

*libadb.* `send` is two operators, `PutHeader` and `PutPayload`, because the code calls `put` twice;
every caller has a step for each, and any other thread may run in between. A message is a record of
its command, its two ids and its data; a payload in a queue is the message with the command DATA, so
that a payload out of place is seen. `receive_queue` is a function on all ids, and `opened` the keys
that exist (`send` makes them for WRTE and OPEN only). The receive thread is `rx_pc` and the frame
it holds: `ReceiveFrame`, `AckWrite`, then `Deliver` or `Discard`. `WriteError` is the write that
`USBHandle.write` swallows, `ChecksumError` the exception that ends the thread. `receive` is `Take`
followed by the caller's test `Expected`. The daemon takes a packet only when header and payload
are next to each other, and drops the connection (`DevGarbled`, `dev_up`) when something else
follows a header.

`new_id` is three steps (`CallShell` loads, `StoreId` stores, `ReturnId` loads again). A connection
is its thread (`TaskReceive`, `TaskPut`), its queue, and what `output` has returned. A call in
`Blocking` lasts until `wait` is over (`ReturnOutput`); the connection of any other is used by
the thread that made it and may be closed (`Close`). A forwarding worker is the loop of
`Worker.run`: select and recv (`SelectTimeout`, `RecvData`, `RecvEof`), the OPEN on the first data,
the WRTE, the wait for output (`Receive`, or `ReceiveNoQueue` when the queue does not exist and the
thread dies), and the send that may be dropped (`SendOut`, `DropOut`). `RecvError` and `SendError` are
the exceptions of `recv` and `sendall`, which end the thread and leave its queue registered. A push is its
thread going through
the records SEND, DATA..., DONE, QUIT, waiting for OKAY after each. In `DeviceSession` one thread
calls `push` and `shell` in any order (`PushStep`, `ShellStep`): a call that blocks (`BlockingPush`,
`Blocking`) keeps the thread until it is over, a push that does not goes on by itself. The daemon runs
the sync service on the streams that pushes have opened.

*adb.* A packet is one transfer or two, and `AdbMessage.Read` that skips a packet takes its header
only: `Reads`, `Skips` and `Misreads` are the three outcomes of one turn of its loop. A program of
`AdbCommands` is a sequence of calls, and `Plan` says of which commands a call consists (`Install`
is push, `pm install`, `rm`); a command that raises ends its call (`Ends` empties `pending`). Each
command has a number, so that a response can be traced to its request and what a service has
received to the push that sent it. `FileSync` counts
lengths in words of four bytes and follows every word of what the service sends; the host's buffers
are those of `FileSyncConnection`. In `Fastboot` a file is a sequence of units that name the call
which sends them, so that an image made of pieces of two calls is seen; `Surpluses` is by how much the data
may be longer or shorter than its count (a `source_len` of the caller, or a file that is not what `stat` said).
In `AdbConnect` keys and tokens are numbers; its `stage` is the place of the host. Each of the three reads of
`Connect` may time out before adbd has answered (`ReadTimeout`), and `overtaken` records that a retry ended
its flush while adbd had yet to answer an earlier attempt.

*USB.* A port numbers the devices that were plugged in at it (`plugs`), so that a handle opened for
one that is gone (`born`) is told from the one that came after. Each member of `Handles` is one object and the
thread that called `FindAndOpen`: `Lookup` (under the lock), the three steps of `Close` on an old
handle, `Claim` (outside the lock), `Register` (under it), and the flush. `ptr` is whether
`self._handle` is not None, and `CloseRaises` the AttributeError when it became None between two
loads. `Collect` is the end of an object, whose cache entry is a weak reference. The pool's refresh
is `NewPool` or `Refresh`, then `ClaimNext` and `Connect` for each device, then `EndRefresh`; an
exception (`Leave`, `raised`) keeps what was claimed.

*myadb.* `shell` is a loop of its own (`ReadOutput`); `query_file_attributes` and `push` are a fixed
order of writes and reads, `Script`, and `step` is how far the call is. `active_shell` and its thread
`run_cmd_loop` take turns by two queues, so that one step at a time is possible: `ReadPrompt`,
`SendCommand`, `ReadCommandOutput`. An exception in the thread leaves the caller in "stranded". `Prompts` are
the packets that contain both "@" and ":/", which the code takes for a prompt, be they one or not. An
interactive shell may end at any moment (`ShellExits`); `cut` has the calls during which one did. `receive`
that meets a payload raises, or skips it when it has 24 bytes (`Misread`).

Text, checksums, magic numbers and packing are left out: a payload is what tells two payloads apart.
A checksum error is a nondeterministic choice when `WireFails` holds.

## 3. What the runs check

| Run | Instance | Shows |
|---|---|---|
| `session` | a push(block=False) of an empty file and a shell(block=True) of up to 3 chunks, queues of 2, a sync service that may fail | `RecordsInOrder`, `EndedMeansFinished`, `ShellOutputWhole`, `CallsEnd`: push and shell do not disturb each other, and both end, unless the output of the shell outgrows its queue. |
| `shell_streams` | a connection used and closed at any moment, and a blocking call of the same thread; queues of 1, up to 3 chunks, a stale OKAY or a stale WRTE | `OneWriteUnderWay`, `StaleNeverDelivered`, `OwnCommand`, and `OutputIsReliable`: the detailed model implements `ReliableOutput`. |
| `forward` | two clients of one port, two chunks each, queues of 1, a handshake with a signature | `OwnStream`, `InputInOrder` even when packets are broken, `AuthenticateEnds`. |
| `forward_faults` | one client, two chunks each way, stale frames or a stale token in the pipe, writes and payloads lost | `OutputInOrder`: a client gets its own stream in order, with gaps. `NoStaleAfterConnect`: when `authenticate` has returned no frame of an earlier process is left anywhere. `ConnectedMeansOnline`: it returns only to a host adbd serves. |
| `adb_commands` | five programs that make each of the calls, at most four commands each, two packets for a push, two chunks for a shell, timeouts at any moment, CLSE sent twice | `OnePiece`, `NoDoubleAck`, `ResponseFromService`, `InstalledIsPushed`, `CallEnds`. |
| `sync` | buffer of 10 words, chunks of 4, 4 and 1, failures at any moment | `RecordsInOrder`, `PacketsFit`, `ResultIsAnswer`, `SessionEnds`. |
| `fastboot` | three calls, files of 0 and 3 units, data one unit shorter than its count, as long or one longer, chunks of 2, refused sizes, timeouts | `WrittenBeforeFlash`, `FlashedIsFile`, `OkayIsOwn`, `CallEnds`. |
| `connect` | three keys of which adbd knows any, three attempts, a user who accepts at any time, each read timing out at any time | `ConnectedMeansOnline`, `OfferMeansNoKeyWorks`, `RetryConnects`. |
| `usb` | two threads with handles of one device, a pool over two ports, one replug, one packet in a pipe | `OpenIsCached`, `OpenAloneSucceeds`, `CallsEnd` of the handles; `RefreshIsComplete`, `ClaimsArePooled` of the pool. |
| `myadb` | four calls in any order, a push of three writes, shells of up to 3 chunks, CLSE sent twice, interactive shells that end, prompts seen at once, late or never, output that looks like one | `OutputIsOwn`, `OutputWhole`, `PushedWhole`, `ResultIsOwn`, `CallEnds`. |
| `frames` (violation) | two connections at once | the acknowledgement of the receive thread comes between an OPEN and its payload. |
| `forward_ports` (violation) | one client of each of two ports | a worker takes the answer to the OPEN of another port. |

Every module that keeps state also has a type invariant, `TypeOK` or a part of one. The runs do not
list them; section 4 proves them. Deadlock is not checked: in every run the program may have nothing left to do.

### Bounds, and why they are enough

Two streams are enough for a frame to go to the wrong one, and two chunks for one to be lost,
repeated or overtaken. The queues have one or two places where the code has 10000, which makes
full queues common instead of rare; nothing in the code depends on the number. `session` has a shell
of three chunks and queues of two, so that both outcomes of `wait` occur; the records of its push are
SEND, DONE and QUIT, since a DATA record is sent and acknowledged as SEND is.
The programs of `adb_commands` are chosen so that each kind of call comes after one that leaves
something behind: three Shells, of which the first may time out, the second not notice it and the
third take its answer; a StreamingShell left unread before an InteractiveShell and its reuse; a Pull
before an Install; a Reboot, whose stream nobody reads, before a Shell. A file of two chunks,
the second short, meets both ends of `_Write`'s loop. Three records and a buffer of ten words fill the
send buffer exactly, overfill it by one, and leave a rest. Three keys and three attempts give a
first, a middle and a last one. Two handles of one port are enough for each step of Open and Close to
meet every other; the second port is there for a refresh that has claimed one device when the other
raises. `usb` lets one device be replugged, so that a handle may outlive its device.
Four calls of `myadb` allow two commands of an active shell with a call between and one after them.
The bounds that the models themselves have: `LocalIds` (ids given out), `MaxChunks`
(what a service writes), `ClientChunks` (what a client sends), `MaxCalls`, `MaxCommands`,
`MaxAttempts`, `Loose` and `MaxReplugs` (devices unplugged and plugged in), `MaxPackets` (packets in
the pipe of a device), `Records` and `PushWrites` (writes of a push).

### Fairness

Weak fairness of each thread: Python threads are scheduled by the operating system, and
`Queue.put` and `Queue.get` wake their waiters, so that a thread that stays able to run does run.
A thread that waits for the cache lock is only assumed to go on once the lock is free and stays so;
no holder waits for anything. adbd and the bootloader read what they are sent; a shell service ends
some day; the sync service answers a whole request; a read of `adb` returns or times out, since
every `BulkRead` but that of Flash has a timeout. In `myadb`, where nothing times out, the service
of a shell is assumed to end and that of an interactive shell to answer a command it was sent, if it has not ended.
That a read times out early, in the handshake of `adb` as in its calls, is allowed at any moment and never required
while an answer is there.
No fairness is assumed of users, of clients, of interactive shells that end, of errors of a socket, of devices
being plugged in, of the pool, of a service
writing more output or of faults.

## 4. What is proved

The proofs hold for all values of the constants: any sets of ids, threads, ports, any queue
capacity, any number of keys, calls and attempts, files, records and packets of any length. They use
only the assumptions stated with the constants (`ProtocolAssumption`, `DaemonAssumption`,
`ShellAssumption`, `PushAssumption`, `ForwardAssumption`, `ConnectAssumption`, `FastbootAssumption`,
`FileSyncAssumption`, `BusAssumption`, `MatchedAssumption`, `MessageAssumption`, `MyAdbAssumption`) and the
hypotheses that a theorem names.

*Handshake and leftovers of `libadb`*

* `AuthTypeCorrect`, `ShellTypeCorrect`: type correctness, with one lemma per layer that says what a
  step of that layer preserves. The second needs that queues are only made for ids given out.
* `StaleGoneAfterConnect` (`NoStaleAfterConnect`) and `ShellNeverStale` (`StaleNeverDelivered`).
  `libadb` never flushes, so that it is not obvious why frames of an earlier process do no harm. The
  invariant `StaleInv` says that the reply to the handshake is a barrier. adbd drops all old streams
  before it sends a reply (`OldStreamsDropped`). Pipe, receive thread and queue keep the order, so
  nothing stale is behind a reply (`NoStaleBehindAnswer`), and once the thread holds one the pipe is
  clean (`PipeClean`), and once it has queued one its hand is too (`HandClean`). No queue for a
  stream exists before `authenticate` has returned (`QueuesAfterAnswer`). The property alone is
  not inductive, since it says nothing before the end of the handshake.
* `ServedAfterConnect` (`ConnectedMeansOnline` of `AdbAuth`), whatever writes and payloads are lost. What is
  to be shown is that the CNXN that `authenticate` takes was said by an adbd that is still online.
  `OnlineInv` says that a device that asks for no signature is sent none (`NoAuthAsked`), that on one that
  does no CNXN comes back before the signature (`NotYetSigned`), that nothing of the handshake follows
  the signature on the way to adbd (`SignedOnce`), and so that, once a CNXN is on its way back, adbd
  is online and has nothing before it that would change that (`ServedWhenTold`). The
  hypothesis `UnreadAnswers` is that an earlier process has left no CNXN unread on a device that asks for a
  signature, nor a token on one that does not: `authenticate` would take that CNXN for the answer
  to its own, since any first answer that is no AUTH counts as success (`device.py:46`) and the flush in
  `handle.py:18` is commented out.

*Streams of `libadb`*

`AdbProtocolProofs` numbers what adbd says on a stream: 1 is its OKAY, n + 1 its n-th WRTE, and the
last number its CLSE. `Run(s, r, S, end, lo, hi)` says that the sequence s holds what has the numbers lo + 1
to hi, in order, each once; `InOrder(r, S, lo)` that queue, hand of the receive thread and pipe, one
after the other, hold what follows lo, or, when the thread is dead, that the queue holds a part of it. `WireInv`
says that frames are in the queue of their id and belong to streams that adbd has opened, for ids
that have a queue. What the host has put and adbd has not read is one sequence, `Pipe`: a step of
the send thread leaves it as it is, a put appends to it, adbd takes from its head. `HandshakeFirst` says that
the packets of the handshake are before every OPEN in it, so that adbd is online while it has a stream of this
session. The lemmas say what each step of the threads and of adbd does to these, for
shells and forwarders.

* `ShellReliable` (`OutputIsReliable`): `AdbShell` implements `ReliableOutput` as long as no two calls share an
  id, with lost writes, a receive thread that dies and leftovers of an earlier process. `ShellOrderInv`
  has for each call that what it has taken of its stream (`Taken`), followed by what is on its way, is all
  that adbd has said (`CallsInOrder`), so that what it takes next is the next chunk, or the end. Each step of the
  abstract specification is shown by itself; what passes from the task to the queue and from there to the
  result is a stutter (`GotStays`). Two calls with the same id do read each other's output, hence the
  hypothesis; `OneCallerReliable` discharges it where one thread makes all the calls.
* `OwnCommandByIds` (`OwnCommand`): the connection of a call is to the stream of its own command, under the same
  hypothesis, and `OneCallerOwnCommand` where one thread makes all the calls. `CommandInv` says that every OPEN under
  way, and every stream adbd has opened, is for the command of a call with that id (`AskedBy`); `ShellOrderInv` that the
  stream a call has taken answers to its id. With a thread for each call TLC finds one whose connection is
  to the stream of the other's command.
* `FlowControlled` (`OneWriteUnderWay`): a stream of adbd that waits has exactly one WRTE or OKAY on its way, and
  no other has any, for every number of calls and threads, with or without distinct ids. `Flow` follows the
  one message from the pipe through the hand of the receive thread to what is on its way to adbd
  (`OnItsWay`), with both ids those of the stream (`ToPeer`), since adbd ignores an OKAY that names another. It
  also ignores it unless it is online: for streams of this session that is `HandshakeFirst` again, for those
  of an earlier process `StaleServed`, which leans on `OldStreamsDropped`: by the time a signature can reach adbd
  these streams are gone. `OneStaleWrite` is the hypothesis that adbd kept to its flow control in the earlier
  session. A lost write loses OKAYs, so that the property is about `~WireFails`.
* `OneCallerIdsDistinct`, which discharges `LocalIdsDistinct`: if one thread makes all calls, ids differ. The
  invariant `IdsGrow` says that a loaded counter is still the counter, and above every id
  given out. The assumption `OneCaller` is needed: with a thread for each call TLC finds
  two calls with the same id.
* `SessionRecordsInOrder` (`RecordsInOrder` of `PushSession`), `SessionEndedMeansFinished`
  (`EndedMeansFinished`) and `SessionShellOutputWhole` (`ShellOutputWhole`), for any number of pushes of
  files of any size beside any number of shells, `push` blocking or not, with lost writes, a receive thread that dies
  and leftovers of an earlier process. They have the hypothesis `OneCaller`: a push takes its id from
  the counter of `shell`, and two threads in `new_id` may take one twice. The invariant has three
  parts, each proved on top of the one before.
  `SessionBase`: types, nothing stale, what a push knows at each place (`PushStates`), ids of
  shells and pushes all different and below the counter (`SessionIds`), and that a WRTE to a push is OKAY or FAIL of
  the service (`RepliesOnly`).
  `PushTurns`: `RecordsInOrder` says nothing of the pipes, but the next record is sent when an OKAY has come, and it
  has to be the OKAY of the last one. `PushTurn` says that of what a push asks (OPEN, WRTE) and what answers it
  (OKAY) at most one is under way, in the pipe, in the hand of the receive thread and in the queue together
  (`Turn`), and none when the push is about to ask again (`Silence`, at the places in `Resting`). A WRTE with
  the id of a
  push is the record it is at (`WritesAreRecords`), and the service has all records before it (`GotRecords`).
  `SessionOrder`: for the shells what `ShellOrderInv` says, and in addition that what a call has got is
  what its service wrote first, all of it when its task has ended (`OutputStates`). That a push leaves the streams
  of shells alone is because ids differ.
* `ForwardTypeCorrect`, `ForwardNeverStale` (`NoStaleAfterConnect`): as for shells. The second needs no new
  invariant, only that no step of a worker makes a frame of an earlier process.
* `ForwardOutputInOrder` (`OutputInOrder`): a queue is shared by the workers with its id, and a frame of another
  stream is thrown away by whoever takes it, so that chunks may be missing. `OutputInv` says that along
  queue, hand and pipe the numbers of a stream grow, and are above those of all that its client was given.
* `OneServerIdsDistinct`: one server gives each id once. `OwnStreamByIds` and `OneServerOwnStream` (`OwnStream`):
  `ServiceInv` says that every OPEN in the pipe, and every stream, is for the port of a worker with that id; as no
  two share one, it is the port of the worker that holds the stream. With two servers ids are shared, and
  `forward_ports` shows the property false.
* `InputInOrderByIds` and `OneServerInputInOrder` (`InputInOrder`). `InputInv` says that every WRTE under way
  was written by the worker whose ids it has (`AllWrote`), that the chunks a worker has received and its
  service has not are on their way in order, but for the one it still holds (`WriteOrder`), and, by
  `HandshakeFirst`, adbd is online while it has a stream: otherwise it would drop a WRTE. That a header and its
  payload may be separated does no harm, since adbd then drops
  the connection. `~WireFails` is needed: when both transfers of a WRTE are lost, `handle.py:26` tells nobody, and the
  next chunk is taken for the one after the last.

*Handshake of `adb`*

* `ConnectTypeCorrect`, `ConnectReturnsOnline` (`ConnectedMeansOnline` of `AdbConnect`) and
  `OfferIsLastResort` (`OfferMeansNoKeyWorks`). Neither property is inductive: that a CNXN means "served"
  depends on which requests are on their way. Any of the reads may time out before its answer comes, so that a retry
  may end its flush while adbd has yet to answer the attempt before (`overtaken`), and the host is then one
  answer behind
  for good; both theorems are about what happens as long as it is not. The invariant `InStep` says that, until a key is
  accepted late or a retry has overtaken an answer, the host waits either for a packet that is the last one on
  its way, with only public keys
  before it, or for the one answer to it (`Awaits`). `Trying` says that, before any dialog and under the same
  condition, the token
  that is signed is the last one and every key before the current one is unknown to adbd; when the
  last key is refused, nothing is left (`NoKeyWorks`).

*Commands of `adb`*

* `CommandsTypeCorrect`, `AlwaysOnePiece` (`OnePiece`) and `NeverAckedTwice` (`NoDoubleAck`), for every set of programs,
  any number of commands, and with timeouts at any moment. `CommandsInv` is about the wire, whatever state the calls
  before have left it in: what is in the pipes was said by a stream adbd has opened or asked by a command (`WireOK`), a
  WRTE header that is still unread carries the number of the last chunk its stream has written (`Numbered`), and a
  stream that may write has neither a WRTE nor an OKAY under way (`Flow`). `NoDoubleAck` is this once the two are
  counted. For `OnePiece` it takes in addition that the chunk after the last one a call has taken is the next
  one of that stream
  (`Piece`): a WRTE that a later call skips or misreads is never acknowledged, so that its stream says nothing more,
  and no chunk is left out in the middle.
* `ReturnsItsResponse` (`ResponseFromService`). The property says nothing of the pipes, so it is not inductive. The
  invariant `ResponseInv` speaks of programs whose commands so far ended in order (`InOrder`), by the place of the
  host (`Phases`). Between two commands every stream is over and at most one CLSE is to come or unread (`Left`), so
  that the two reads of `Open` reach the answer to its own OPEN (`Opening`, with `Asking`, `Refusing` and `Opened` for
  where this OPEN is). From then on only the new stream is open (`OnlyOpen`): what it says follows in order, with
  nothing after its CLSE (`Follows`, `Told`), and what the call has taken is the beginning of it (`Replying`). A sync
  call has one WRTE or its OKAY under way (`Syncing`); when it closes it leaves at most two CLSE, one of which it
  reads (`Closing`). What a command has returned stays the whole output, since a closed stream writes no more
  (`Responses`).
* `InstalledAfterPush` (`InstalledIsPushed`). Nothing is assumed of the calls before: they may have timed out, or
  left streams and packets behind. The invariant `PushInv` is therefore about streams. An OKAY answers one WRTE
  of the call that has it open (`AskedOnce`: without interactive packets at most one is under way, counted with
  the WRTE that
  asks for it), so that at most one OKAY is ahead of a success answer (`SuccessOnce`). Only a sync
  stream that has received DONE says success, and it has then received the packets before DONE as well, as the
  service has
  them in the order of the writes (`Kept`, `LastWritten`). What a call takes as success was said by its own stream
  (`SuccessOwn`), and what that stream has received it keeps until the install is over: after the `Close` of
  the push a CLSE is ahead of
  any WRTE a later command may address to it (`Installing`).

*Fastboot and file sync*

* `AlwaysWrittenBeforeFlash` (`WrittenBeforeFlash`). The invariant `Counted` says that what is left
  to count is what is left to read, from the size that was asked for (no other is taken) to 0. No
  assumption is made about what the bootloader answers.
* `FastbootTypeCorrect`, `FlashedAlwaysFile` (`FlashedIsFile`), `OkayAlwaysOwn` (`OkayIsOwn`), for any number of
  calls of any kind, with data as long as its count or not. What the host waits for only means something when
  no call before left anything behind;
  the invariant is therefore by cases. While no call has timed out (`Clean`), `Phases` says for each place
  of the host what is in the two pipes and where the bootloader is, and what it has of the file. A call after a
  refused size may find the bootloader still waiting for data (`Refused`), and after a timeout nothing is
  claimed but the types (`Overtaken` is what the next command may do then).
* `SyncTypeCorrect`, `RecordsAlwaysInOrder` (`RecordsInOrder`), `PacketsAlwaysFit` (`PacketsFit`),
  `ResultAlwaysAnswer` (`ResultIsAnswer`), from `SyncInvariant`. `SyncInv` has four parts. One packet at most
  is on its way
  in each direction, and the host is where it should be for it (`OneOut`, `FlowControl`). What has been
  received, what is in the buffer and what is still to be sent is the script of the call, and the count
  of the buffer stays within a packet (`RecordsInOrder`, `Buffered`). The service's answer so far is the
  beginning of the answer to
  the call, or ends with a FAIL (`AnswerSoFar`). The words ahead of the reader, in its buffer, in
  the packets and not yet written, are laid out record by record (`Reading` with `Layout`, which gives
  each record its first word): that a record may be cut anywhere, also within its header, is why the proof
  needs positions and not packets.

*myadb*

* `MyAdbTypeCorrect`, `OutputAlwaysWhole` (`OutputWhole`), `PushedAlwaysWhole` (`PushedWhole`) and
  `ResultAlwaysOwn` (`ResultIsOwn`), from `MyAdbInductive`, for any number of calls in any order, pushes of
  any size and devices that close a stream twice. The properties speak of calls that have returned, and say
  nothing of the pipes, so that they are not inductive. `MyAdbInv` has the result of every such call (`Results`)
  and, until a call raises or an interactive shell ends during one (`InOrder`), where the current call stands and what
  is in the pipes (`Phases`).
  Nothing is flushed between two calls and nothing times out. What matters is therefore that the calls before
  leave only acknowledgements and CLSE of streams that have ended, all with smaller ids (`LeftOut`, `LeftIn`), and
  no stream that may still write (`AllSilent`): the new call skips them, and none can be taken for its own. From
  its OPEN (`Asking`, `Refusing`, `Opened`) to its end only the stream of the call speaks (`OfCall`), and what it
  says and the host has not read is known packet by packet (`Talk`, with `Turn` for who is to speak next and
  `Unread` for what the host has still to read).
  Three phases are not about a call that goes well. A further command of an active shell waits for a stream that
  is silent for good, and never returns (`Repeating`; the defect is in section 5). A push whose service has failed
  has the FAIL ahead of, or behind, an OKAY it awaits (`Doomed`): it raises when it meets the payload, or has skipped
  it and waits for an answer that has gone by (`Starved`); that is why one that returns was received whole.

*USB*

* `UsbTypeCorrect`, `OpenAlwaysCached` (`OpenIsCached`). `HandleInv` says that an interface is claimed
  by a handle of the device that is there (`ClaimIsOfDevice`), that only handles that have registered
  are in the cache or closed by another thread (`OnlyRegistered`), and so that a handle about to
  register still has its claim, if its device is still there (`RegisteringHasClaim`). Of two
  registered handles of one device the later could only claim it after the first had lost it.
* `AloneAlwaysOpens` (`OpenAloneSucceeds`). A handle has `self._handle` as long as it has its claim (`ClaimHasPointer`),
  and a `Close` that has released it finds it still released when it clears it (`ReleasedFirst`). A
  call that is alone (`OnlyCall`) is `Undisturbed`: at each place of `Open`, as long as no handle is late (the
  condition of the property), its device
  is there and its interface is nobody's, the pool's, the old handle's that is being closed or, after the
  claim, its own. That the old handle is the one in the cache is `OpenIsCached`.
* `RefreshAlwaysComplete` (`RefreshIsComplete`), `ClaimsAlwaysPooled` (`ClaimsArePooled`). `PoolInv` has
  what a refresh has done so far: each device it has looked at is pooled or gone (`RefreshSoFar`),
  claimed and pooled are the same but for the one being connected (`ClaimsSoFar`), and the dict is
  empty when a pool is made (`NothingPooledYet`).

Every safety property that a passing run checks is proved, but for `OutputIsOwn`, which TLC checks on the
instance. Only model-checked are also the liveness properties
(`CallsEnd`, `CallEnds`, `SessionEnds`, `AuthenticateEnds`, `RetryConnects`), which
with their fairness and `ENABLED` are out of the prover's reach.

## 5. What was found

Two runs show that the code contradicts its own documents:

* `frames`: `protocol.py:95` says that nothing may be read between a WRTE and its data. `send` does
  not see to it: header and payload are two puts, and the receive thread puts OKAYs.
* `forward_ports`: `protocol.py:123` says that `_clear_cache` clears the expired responses of an id.
  It clears a list nothing is put in; two servers count from the same number, and a worker is connected
  to the port of the other.

The following was met while modelling. It is why some properties above have a condition.

In `libadb`:

* `new_id` may give two threads the same id (`device.py:32`), which then share a queue: a call may take the answer
  to the other's OPEN and read the output of its command, hence `OneCaller`.
* A blocking shell whose output has more chunks than the queue never returns (`connection.py:52`); its
  queue full, the receive thread waits, and a push that runs beside it stops too, hence `Clogged`
  in `CallsEnd`.
* A token left in the pipe by an earlier handshake is signed, refused, and the public key offered to
  a device that knows the key (`device.py:56`); after that `authenticate` always raises, because
  `receive([CNXN], ...)` passes a list for an id (`device.py:58`).
* A payload whose checksum is wrong raises in the receive thread (`protocol.py:120`), which ends: no
  stream of the device receives anything from then on.
* The answer to DONE is thrown away, FAIL as well as OKAY (`connection.py:88`): a push that failed
  at the end looks like one that did not, hence no claim about success in `EndedMeansFinished`.
* A worker that ends by an exception of `recv` or `sendall` (`forward_server.py:26` and `37`) leaves its queue
  registered. Once it is full the receive thread waits for it forever (`protocol.py:67`), and no other OPEN is answered.
  No run asks that of a worker; `OwnStream`, `InputInOrder` and `OutputInOrder` hold beside workers that end.
* A worker waits for output without end before it reads input again (`forward_server.py:33`), and
  dies when its client is silent at first. The comment at `forward_server.py:70` says that one client
  may connect; `listen(10)` and the loop let many.
* `refresh_devices` claims every device on the bus, those in the pool too, so that a second refresh raises
  BUSY unless all of them were unplugged; what it had claimed before stays claimed
  (`device_pool.py:35`), hence `raised`. `device_pool.py:53` reads `device.sno`, which
  `AndroidDevice` does not have.

In `adb`:

* After a Shell that timed out, the next one may return its output (`adb_protocol.py:373`), hence the
  condition in `ResponseFromService`. `Write` skips a WRTE that comes before its OKAY, which is then
  never acknowledged (`adb_protocol.py:113`).
* `adb_protocol.py:251` compares seconds with milliseconds: the total timeout never fires.
* A FAIL that the sync service sends before DONE meets the `Write` of `_Flush`: Push raises, but not
  the `PushFailedError` of its docstring (`filesync_protocol.py:133`). The header of a FAIL has two words,
  and Stat and List read four and five (`filesync_protocol.py:218`), so that a short one is waited for until the read
  times out.
* A push that raises skips `connection.Close()` (`adb_commands.py:281`), and its stream is met by
  later calls; an Install after it is still of a whole file.
* After a refused size the bootloader takes the next command for data and may say OKAY to it
  (`fastboot.py:133`), and the retry of a download that timed out may take its late DATA
  (`fastboot.py:128`), hence the conditions in `OkayIsOwn` and `FlashedIsFile`. Data that is shorter or longer than its
  count (a `source_len` of the caller, `fastboot.py:295`, or a file that changed after `stat`) makes `_Write`
  write empty
  chunks forever (`fastboot.py:194`), hence `DataEnded`.
* A key accepted after the flush of a retry: `Connect` returns, and adbd then asks for a signature
  (`adb_protocol.py:314`), hence "late" in `ConnectedMeansOnline`. The same happens when a read times out, the handle
  having a short `default_timeout_ms`, and adbd answers after the flush of the retry: its answer to the signature
  is taken for that to CNXN (`adb_protocol.py:314` and `330`), or every later signature is of a token adbd has replaced
  and the public key is offered to a device that knows a key, hence `overtaken`.
* A handle that registers after its device was unplugged takes the place in the cache of the one that
  has the interface of the device plugged in since, and the next `Open` raises BUSY instead of closing
  it (`common.py:133`), hence `late` in `OpenIsCached`. A `Close` during the `Close` of another thread
  may raise AttributeError (`common.py:149`), out of `Open` too.

In `myadb`:

* The packet that ends a result is not acknowledged (`myadb/device.py:162`), adbd sends nothing more
  on that stream, and the second command of an active shell never ends, hence the first case of `MayWait` in `CallEnds`.
* A result ends with the first packet that contains "@" and ":/" (`myadb/device.py:162`): output ends it early, and
  with a prompt that comes in two packets, or looks different, the call never ends.
* A payload of 24 bytes is skipped without an exception (`myadb/device.py:58`). A FAIL of the sync service may be
  one, and its push then waits forever.
* The CLSE of an interactive shell that ends while `shell` reads ends the loop of `shell` (`myadb/device.py:130`): it
  returns a beginning of the output, hence `cut` in `OutputWhole`.
* An exception in `run_cmd_loop` leaves its caller waiting for a result (`myadb/device.py:180`),
  hence "stranded".

## 6. What is not modelled

* `TcpHandle` of `adb` and `TCPHandle` of `libadb` and `myadb`: sockets without a cache or a claim.
* `authenticate` of `myadb`, which is that of `libadb` without threads, and two threads that use one
  `myadb` device at a time, for which it has no protection at all: its loops read each other's packets.
* The command line tools (each makes one call and closes the device), signers (a signature is the
  token it signs), exceptions, tests.
* The cleaning of backspaces in `InteractiveShell` (`adb_protocol.py:528`), a computation on bytes with
  no state around it; progress callbacks; wall-clock time.
* `fastboot.py:315` opens a named file in text mode, so that its chunks are strings under Python 3; the
  model is of the bytes, as under Python 2.
* Errors that no property here tells apart. A `BulkWrite` of `AdbMessage.Send` that fails between header and payload:
  the call raises, and adbd then takes the next packet of the host for a payload, which no later call survives. In
  `AdbProtocol`, making the queue of an id and the put that follows it are one step (`protocol.py:73`), since
  nobody else
  uses the id yet. `PushSession` takes its id in one step, as its instances and theorems have one calling thread; the
  race in `new_id` is in `AdbShell`.
* `InteractiveShell` without a command (`adb_protocol.py:504`), which yields what the shell writes until a read
  times out.
* A payload of `myadb` that begins with the bytes of the command `receive` waits for; all that are of 24 bytes
  are skipped.
* A file that grows or shrinks in the middle of a fastboot call, but for its length against its count.
* `adb.push` with `block=True` is in `PushSession` (`BlockingPush`); the theorems are about both
  values, but no run uses it.

## 7. Plan

Built so far, in this order: the multiplexer, the daemon and the handshake; shells and their abstract
specification; forwarding; push; the packet layer and the commands of `adb`; file sync; fastboot; the
handshake of `adb`; the type, stale-frame and id theorems; the USB bus with handles and pool, and their
theorems; `myadb`; the composition of pushes and shells; pushes, pulls and installs among the commands
of `adb`; the theorems of the handshake of `adb`, of fastboot, of file sync, of the refinement of
`ReliableOutput`, of forwarding and of flow control, of the commands of `adb` and of what is installed, of
`FindAndOpen`, of pushes beside shells, and of `myadb`.

To be modelled next: an abstract file transfer that `FileSync`, `PushSession` and the push of `MyAdb`
implement; two threads on one `myadb` device.

To be proved next: the order of forwarded chunks with more than one port, for the workers whose ids no
other has.
