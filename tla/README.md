# A TLA+ model of rsadb

rsadb speaks the Android Debug Bridge protocol from the host: it authenticates
to a device over USB or TCP, multiplexes streams over the one connection, and
runs services (shell, files, properties) on those streams. This directory holds
TLA+ modules of its concurrent core and of the services and transports around
it, TLC configurations that check them, and proofs that TLAPS checks.

Paths below are relative to the source tree of the crate (`src/session/reader.rs`
and so on); `PROJECT.json` has the lines behind each definition.

## 1. Inventory

| Part | State | Operations | Talks to | What is hard, what must hold |
|---|---|---|---|---|
| **Session** `session/{mod,reader,registry,stream}.rs` | `Registry` (map of ids, `next_id`), per stream `StreamState` (remote id, closed, acks, `Notify`, data sender), outbox, two tasks | `open_stream`, `send`, `recv`, `close`, drop of `Stream`, `close` and drop of `Session`, reader, writer | transport below, services above | three kinds of threads on atomics, mutexes and a `Notify`; lost wake-ups, check then act, one write in flight, delivery in order, nobody left waiting |
| **Handshake** `session/handshake.rs`, `WireConfig` | flags of the loop, count of stale frames, framing policy | one loop over received messages, with a timeout | transport, user of the device | stale frames of an earlier session, the timeout, agreement on version and payload |
| **Banner** `session/banner.rs` | none | parse, print | handshake, feature lookups | odd shapes |
| **Channel** `channel.rs` | a read buffer | `read_exact`, `next_chunk`, `read_to_end` | every service | chunk borders, end of stream inside a record |
| **Wire codec** `wire/` | none | headers, magic, checksum | transports | limits on lengths |
| **Framed and TCP transport** `transport/{framed,tcp}.rs` | framing policy | `send`, `recv` | byte stream | short reads, a future dropped between header and payload |
| **USB transport** `transport/usb/` | claimed interface, read buffer | bulk transfers | operating system | zero-length packets, frames kept over an open |
| **Keys** `auth/{mod,pubkey}.rs` | key pair | sign, encode | handshake | arithmetic on 2048 bits |
| **Key file** `auth/keyfile.rs` | two files | load, generate and store | file system, other processes | crash between steps, races |
| **Sync client** `services/sync/` | one channel and its buffer | stat, list, pull, push, quit | channel | operations refused or dropped half way |
| **Shell** `services/{shell,shell_v2}.rs` | parser buffer, collected output | shell, exec, shell v2 | channel | packets cut anywhere; both directions over one stream; end without exit code |
| **Properties, content** `services/{props,content}.rs` | none | parse command output | shell | quoting |
| **adb server client** `host/` | connection | request, status, switch to a device | local adb server | length prefixes, end of stream |
| **Device, files** `device/` | none | services composed, files on disk | sync, shell | partial files |
| **Tracker** `track.rs` | set of known devices | watch, poll | USB | events against listing |
| **Errors, command line** `error.rs`, `lib.rs`, `bin/` | none | | everything | input and output |

How they interact: `Session::connect` runs the handshake on the transport, then
splits the transport between a reader task and a writer task. Owners of streams
post messages to the writer through an unbounded queue, and learn of the device
only through `StreamState`, which the reader updates: `OKAY` counts an
acknowledgement, `WRTE` fills the stream's channel, `CLSE` closes it. Services
see a `Channel` and nothing of this. `Session::close` and the end of the reader
both run `Registry::close_all`, possibly at the same time. A `Device` opens a
channel for each call and lets it go; over an adb server the connection itself
is the channel.

`PROJECT.json` lists the hazards, at the line where each bites, with the
properties that cover it, or with a note where a property leaves the case out or
none has it.

## 2. Modules

| Module | Contents |
|---|---|
| `Session` | the session: state, one action per access to shared state, fairness |
| `SessionProps` | its type invariant, invariants, liveness properties |
| `SessionChannel` | the refinement of `Channel` by each of its streams |
| `SessionProofs` | theorems about its calls (types, the window of a send, wake-ups) and its ids (which stream and which service a message belongs to) |
| `SessionDeliveryProofs` | theorems about its data, in both directions, and the refinement of `Channel` |
| `MCSession` | constants of the runs |
| `Handshake`, `HandshakeProps`, `HandshakeProofs`, `MCHandshake` | the handshake likewise |
| `Channel` | what an open stream promises (`channel.rs`), as an abstract specification |
| `ChannelReader` | a service client's buffer, and its service, over that promise |
| `Sync`, `Shell` | the clients of `services/sync` and `services/{shell,shell_v2}.rs` with their services |
| `Device`, `DeviceProps`, `DeviceProofs`, `DeviceAnswerProofs`, `MCDevice` | calls of `device/` composed of these, or of a `SyncClient` that is kept |
| `HostServer`, `HostServerProofs` | the client of an adb server, `host/` |
| `Framing`, `MCFraming` | messages on a byte stream and on bulk endpoints, `transport/`, `wire/` |
| `Content`, `MCContent` | `content_query` and `getprops`: command output taken apart |
| `KeyFile`, `KeyFileProofs` | the host's key on disk, `auth/keyfile.rs` |
| `Tracker`, `TrackerProofs` | `watch_usb` and `poll_usb`, `track.rs` |
| `MCParts` | one run for the parts that share nothing |

They stack up as the code does: `Session` implements `Channel`, so does the
connection in `HostServer`, and `ChannelReader`, `Sync`, `Shell` and `Device`
extend `Channel` and move data by its actions alone. What is checked of the
clients is then checked over anything that keeps the promise.

### Session

One step is one access to shared state: a load, a store, a critical section, a
channel or `Notify` operation. Each owner of a stream has a program counter
`pc` and a phase `life`; the two threads that may run `close_all` (the reader
when it ends, the caller of `Session::close`) have the program counter `apc`
with the stream they serve, `cur`, and the streams they still have to, `todo`.

| Code | Model |
|---|---|
| `Registry::register` | `Register`; `FreshId`, `NextId` wrap at `IdSpace` and skip zero |
| `open_stream` after it | `PostOpen`, the wait, `Refuse` |
| `wait_ack` | `Acked` / `NotAcked` (load of `acks`), `WaitFails` / `WaitOn` (load of `closed`), `Woken` (`notified().await`) |
| a dropped future of `open_stream`, `send` | `CancelOpen`, `CancelSend` (the await is the only place) |
| `send`, `write_chunk` | `BeginSend`, `WriteIds`, `PostWrite`, the wait, again while `rest > 0` |
| `recv` | `RecvTake`, `RecvOkay`, `RecvEnd` |
| `close_now`, drop | `BeginClose`, `CloseMark`, `CloseRemove`, `ClosePost`, `DropStream` |
| `dispatch` | `ReaderOkay`+`AckCount`+`AckWake`, `ReaderWrite`, `ReaderClose`+`MarkClosed`+`TakeAndWake`, `ReaderStray` |
| `read_loop`'s end, `close_all` | `ReaderFails`, `Drain`, `Each`, `MarkClosed`, `TakeAndWake` |
| `Session::close` | `BeginSessionClose`, `close_all`, `aborted`; `ReaderAborts`, `WriterAborts` where the tasks wait |
| `write_loop` | `WriterSends`: sends, or stops, with the link or (`WriterFaults`) alone |
| adbd (external) | `Dev...`: accepts or refuses, acknowledges every `WRTE`, one payload in flight, may finish, may send a command of another layer |

Steps are merged only where no other thread can tell; the comment of the action
says why. The `Notify` is modelled by its permit: `notify_one` stores one,
`notified().await` takes it (a waiter has at most one owner). Data is abstract:
host payloads are lengths, device payloads are the pair of the device's stream
and a running number. `writes`, `asked`, `got`, `eof` are history.

The mutant operators beside some definitions (`NotifiedWaiters`, `PeekedQ`, ...)
are seeded faults: no action uses them. They show that each property fails when
the code is wrong in a plausible way.

### Handshake

One action per arm of the loop. `Gets` takes a message and restarts the timer,
as each turn of the loop does; `Tick` lets time pass only while the host waits
with the key offered. A signature is the number of the token it signs. The
device (external) may know the key or not, ask for no authentication, RSA or
TLS, speak any version, offer any payload, and send frames of an earlier
session, or one frame out of place.

### Channel, and the refinements

`Channel` has two queues, two ends, and says when something may be missing: only
when the transport is lost or an end has closed. `SessionChannel!ChannelOf(s)` maps
a stream of the session to it: `up` is the `WRTE` that is on its way to the device, in
the outbox or on the link; `down` is what the device has written and `recv` has
not returned, whichever queue it is in. `Room` and `Window` are 1, the flow
control of the protocol, and most of `Session`'s steps are stutters. `HostServer` maps a
connection that has been switched to a service the same way. `KeepsPromise` and
`HostKeepsPromise` state that the initial states map to initial states and
every step to a step or a stutter.

### Services and Device

The unit of data is a word (an id, a number, a piece of content), and output is
cut into chunks anywhere. A call has a program counter `pc`, which names what it
waits for, and messages it has yet to send, `todo`; each `read_exact` of the code
is one action, enabled when the buffer holds enough, and `ReadFills` or
`FramesFill` takes a further chunk when it does not.

| Code | Model |
|---|---|
| `SyncClient::{stat,list,start_pull,push,quit}` | `Begins`, then `ReadStat`; `ReadEntry`, `ReadName`; `ReadChunk`, `ReadLen`, `ReadBody`, `ReadEnd`; `PushData`, `PushDone`, `ReadStatus`; `BeginQuit` |
| errors of these | `OutOfPlace` (an id not known), `ReadFailLen` and `ReadFail` (the device's own), `ReadFails`, `PostFails` (the channel ended), `SourceFails` |
| `shell`, `shell_checked`, `exec`, `screencap`, `shell_with_stdin` | `Starts`; `ParseFrame`, `FramesFill`, `FramesEnd` for shell v2, `DrainFills`, `DrainEnd` for the older services |
| a call of `Device` | `OpenSync`, `OpenShell`, `OpenFails`, `Return`, `Quit`, `LetGo` |
| a dropped future, a dropped client | `GiveUp`, `Dropped` |
| adbd's services and commands (external) | `SyncServes`, `ShellTakes`, `Echo`, `Talk`, `Exit`, `Flush`, `Hangup`, `Vanish` |

`clean` remembers whether every call on a channel was answered to its end.

### The other parts

* `HostServer`: `at` is the place of the client in its request (`status`, `len`,
  `text`, and for `open` twice), `fate` what it has returned. The server may list,
  announce, refuse, end or reset at any point.
* `Framing`: the sender of `framed.rs` or `usb/io.rs` faces the receiver of the same
  file. On a stream any number of words is read or written at a time; on bulk
  endpoints transfers become packets and a read ends with a short one.
  Messages may be too long, unknown, or have a wrong magic or checksum.
* `Content`: `ParseRows`, `CountRows` and `ParseAll` are folds over lines, as the
  loops are, and `Render` what the device prints. The two queries of
  `content_query_with` are two actions, between which the table may change, and
  either output may end early.
* `KeyFile`: one action per system call of `load_or_generate`, in any number of
  processes, each of which may stop between any two.
* `Tracker`: the bus changes at any moment, also between what `list` saw and its
  return; a device plugged in again is another device.

## 3. Runs

| Run | Checks | Instance |
|---|---|---|
| `SessionFlow` | `AcknowledgedOnce`, `DeliveredInOrder`, `EndOfStreamIsComplete`, `SentMeansDelivered`, `KeepsPromise` | one stream, buffers of 1 and 3 cut at 2, six units sent, three chunks received, healthy link |
| `SessionFaults` | `TypeOK`, `OneWriteInFlight`, `NoLostWakeup`, `SentMeansDelivered`, `KeepsPromise` | one stream, one buffer of two chunks, link failure, a writer that stops alone, `Session::close`, cancelled open, every stray command |
| `SessionTwo` | `EndsAgree`, `Reachable`, `DeliveredInOrder` | two streams, ids 3 and (past zero) 1, link failure; the streams are symmetric |
| `SessionLive` | `OpenReturns`, `SendReturns`, `DeviceIsTold`, `ReaderClosesStreams` | one stream, cancelled calls, link failure, a writer that stops alone, a message that ends the reader; `FairSpec`, no symmetry |
| `SessionWrittenThenClosed` | `WrittenThenClosed` fails | |
| `SessionCancelledSend` | `OneWriteInFlight` fails | as `SessionFaults`, with cancelled sends |
| `SessionLateOpen` | `OpensEnd` fails | `FairSpec` |
| `HandshakeFull` | `TypeOK`, `KnownKeyConnects`, `OfferedOnlyIfUnknown`, `PoliciesAgree`, `HandshakeEnds` | four versions, three offers, stale limit 2 and up to 3 stale frames, `FairSpec` |
| `HandshakeWait` | `WaitIsBounded` fails | the same |
| `DeviceCalls` | `AnswerIsTrue`, `InStep`, `NoHalfFile`, `OutputIsWhole`, `CallReturns` | two calls; a file of three pieces and one that is not there, `DATA_MAX` of 2 and devices that send 2 or 3; both versions; given up, failing, vanishing anywhere; `FairSpec` |
| `Parts` | `QueryIsTrue`, `PropsAreTrue`, `FramesInOrder`, `FailsForAReason`, `HostKeepsPromise`, `ToldWhatHappened`, `ListsAreTrue`, `OneIdentity`, `FilesBelong`, `NoneMissed`, `EventsInOrder` | below |
| `ContentValues` | `ValuesKeptWhole` fails | the texts of `MCContent` |

What the passing runs of the session show beyond the comments of their properties:
a writer that stops on its own loses what is queued but breaks no promise. A
`send` or an open that has not posted its message yet is told; one that has waits
for an answer that may not come, until the reader ends too and closes its
stream (`Stranded` in `SendReturns`, `ReaderClosesStreams`). `close_now` takes a writer
that is gone for a transport that is down (`session/stream.rs:95`), so a device
behind such a session does not learn of a close.

What the passing runs of the services and parts show:

* `DeviceCalls`: an answer is that of the request, of this path, whole, whatever
  was asked on the channel before (`AnswerIsTrue`), because a call that was
  answered, be it with `FAIL`, leaves nothing unread (`InStep`). A file on the
  device is never half a push (`NoHalfFile`). The outputs of a shell v2 command
  come back under their own streams, in order, and whole if there is an exit
  code (`OutputIsWhole`). Every call returns (`CallReturns`), with two exceptions
  that the properties name: a client on which a call was given up is out of
  step (`clean`), and `shell_with_stdin` sends all its input before it reads
  anything, so that more input than stream and pipe hold leaves the call, the
  command and the stream waiting for each other (`Fits`; TLC shows it when
  `Fits` is left out of `CallReturns`).
* `Parts`, `content`: `content_query` returns the rows of the table or an error as
  long as the free text is in the last column; one of its two outputs may end
  early and no row is missing for it. A row mark inside a text is caught by the
  count. `getprops` returns every property whose closing bracket came, with its value
  up to the first line that ends in a bracket; of an output that ends early it
  loses only what had not come. Besides that it may return a beginning of the one value
  that was cut, if the cut falls at a bracket, and what a value spells out like
  `getprop` in a line past such a bracket (`PropsAreTrue` says exactly which).
* `Parts`, `framing`: `recv` returns what was sent up to the first wrong message, on
  both transports, and fails only with a reason.
* `Parts`, `host`: the connection keeps `Channel`'s promise; an error names the request
  that was refused, whatever word comes in place of the one expected
  (`ReadOddWord`); a tracker has every list the server announced, and
  `only_device` takes a device only if it was the one online.
* `Parts`, `key` and `tracker`: see the proofs. The key files may be there in any
  state at first, also one without the other.

What the violations show:

* `SessionWrittenThenClosed`: the device sends `OKAY` and `CLSE`. The owner
  loads `acks` before the `OKAY` is counted and `closed` after the `CLSE` is
  served, and `wait_ack` (`session/registry.rs:49-54`) answers false.
  `docs/architecture.md:56-58` says this must read as "written, then closed".
* `SessionCancelledSend`: with the future of `send` dropped while it waits, the
  next `send` puts a second `WRTE` in flight (`session/stream.rs:16-17` says one)
  and takes the first one's `OKAY` for its own. Without cancelled sends the
  property holds in `SessionFaults` and is proved.
* `SessionLateOpen`: an `open_stream` that registers after `close_all` has
  emptied the map waits for ever if its `OPEN` gets no answer, although
  `close` and `close_all` say they close every stream.
* `HandshakeWait`: `auth_wait` is said to bound the wait for the user
  (`session/handshake.rs:38-39`), but each stale frame starts it anew.
* `ContentValues`: `parse_rows` skips every empty line (`services/content.rs:48`),
  also one in the middle of a value, and the count of rows cannot notice. The
  comment above it says a continuation belongs to its column, newline and all.

**Bounds.** The hazards of the session are between the threads of one stream, or
between one stream and the map. One stream with two chunks in each direction
has every interleaving of a wait with its own and with an earlier
acknowledgement; a third chunk each way adds the steady state. Two streams are
what it takes to deliver to the wrong one and to close only some. `IdSpace` is
small and `FirstId` in front of the wrap so that zero is met; fewer streams are
opened than there are ids (a clash of a live id takes 2^32 opens in the code,
listed as a hazard). `MaxBytes` and `MaxChunks` bound the work, and `DevStray`
sends one frame: the reader ends or ignores it. A stale limit of 2 meets the
boundary of the limit of 64 from both sides.

In `DeviceCalls` a chunk is one word, two, or all that is left: a split at every
position; a reader that holds the beginning of the next record while the rest of
it is still to come; and chunks that hold several replies at once. Two calls are
what it takes for one to disturb another, since a third meets no state of the
channel that a second does not. `DATA_MAX` of 2 against three pieces makes two
chunks with a rest, and a device that sends 3 exceeds it. Six units of input
exceed pipe and stream, two do not. A command shares no state with a call before
it, so shell calls run alone.

`Parts` starts one part, `scene`, in each behaviour and leaves the others still. Its
texts hold every mark a parser looks for (a row, a notice, a column, a bracket,
a blank line, a carriage return), in first, last and middle lines. Framing has
payloads of none, less than, exactly and more than a packet (of 3 words), one at
and one above the limit, and a wire of three words or packets; three processes
share the key files, since two can race and a third may then read; two serials, two
changes; three devices of which one has no ADB interface.

`CHECK_DEADLOCK` is off everywhere
because the systems stop: all work done, or a session closed.

**Fairness.** `WF` on what an owner goes on to do once it has begun a call, on
each task as a whole, on `close_all` by the caller of `Session::close`, and on the device's reading of
what it is sent: the Tokio runtime polls a task that was woken, and adbd has a
loop of its own. None on beginning a call, taking a chunk, closing, cancelling,
failing, or on the output of services; none on the user who may tap Allow.
`HandshakeEnds` also takes `WF` on the clock, and a device that answers: the
code itself does not bound the wait before the key is offered. In `Device`, `WF` on
`CallStep` (a call that can go on is polled) and on `ServiceStep` (the device
serves what it is sent and its commands end); none on beginning, giving up or
vanishing.

**Mutants.** For each property `PROJECT.json` names a seeded fault, an operator
beside the definition it stands in for, with which TLC finds the property
violated: buffered bytes thrown away with a reply (`TakeAll`), the last word of a
status left unread (`ReadEndUnread`), a failed source that ends the push like a
finished one (`SourceEnds`), input never closed (`InputUnclosed`), an empty
transfer refused (`UsbHeadIsStrict`), the watch started after the list
(`NotifyLate`), and so on.

## 4. Proofs

`SessionProofs` proves, for any set of streams, any id space and any limits:

* `TypeCorrect`: `Spec => []TypeOK`. `TypeOK` is a conjunction of named groups of
  variables, and its one strengthening (a thread in the middle of serving a
  stream has one, `TypeOKClosers`) makes it inductive. The lemma `TypeStep` has a step per
  action; the lemmas on `FreshId`, `ChunkLen`, `Post` and `Recv` keep the steps
  short.
* `WriteWindow`: `Spec => []OneWriteInFlight` if no send is cancelled.
  `OneWriteInFlight` alone is not inductive: a `WRTE` posted on the strength of
  an old count would break it. `Window` says for each phase of an owner how
  `writes` stands to `acks` and to the count it saw: not yet writing, no more
  than acknowledged; posted, one more than seen. The argument is then that
  only the owner posts and only the reader counts (`OwnerKeepsOthers`,
  `TasksKeepCalls`), so a step of one never disturbs the phase of the other.
* `WakeupsArrive`: `Spec => []NoLostWakeup`. `Awake` adds to it the program
  points at which a waiter has yet to look again (`acks`), at which nothing is
  owed to it. Whoever stores first and notifies afterwards is between the two
  (`WakeDue`) until the permit is there.

The second part of `SessionProofs`, and `SessionDeliveryProofs`, prove more, for any number of
streams, chunks and bytes, all from one hypothesis: `IdsSuffice`, that a session
opens fewer streams than there are ids. The code has 2^32 - 1 of them, gives them
out in turn and does not look whether one is in use (`registry.rs:118`); the
2^32nd `open_stream` may replace a live stream, and then `Reachable` is false.

* `NoStreamIsLost`: `IdsSuffice => (Spec => []Reachable)`. `RoutingInv` numbers the ids in the
  order they are handed out, past the end and past zero (`Turn`); each stream has a
  turn of its own (`Allocated`), so the map never replaces an entry. `Phase` says in
  which call a stream of each life can be, and `ClosesOnce` that the reader runs
  `close_all` only after an error. `Reachable` then follows from `Reach`, whose
  second half (`Doomed`) names the thread that took the stream out of the map.
* `StreamsMeetServices`: `IdsSuffice => (Spec => []EndsAgree)`. `PeersInv` follows an id to the
  device and back: an `OPEN` on its way is the only one of its stream and nothing
  has been started for it (`OpensPending`), a service is started once
  (`ServicesApart`), and what it sends is addressed to its own stream
  (`MessagesMatch`), from which the stream learns its remote id (`RemotesMatch`).
* `ChunksArriveInOrder`: `IdsSuffice => (Spec => []DeliveredInOrder)`. Order alone is not inductive: a
  second chunk in the link would have to be shown to be the next one. `Flow` says
  where the last chunk of a service is: in the link, the channel, or `recv`'s
  hand, or its `OKAY` is on the way, in one of them only, and all chunks before it
  have been returned. `FirstOkay` is for a stream that has yet to learn its id: the
  `OKAY` that tells it comes before any chunk.
* `NoAcknowledgementIsLost`: `IdsSuffice => (Spec => []AcknowledgedOnce)`. `Flow` says there is at most
  one place, `Owed` that there is one, for as long as stream and service are
  attached; `Marked` (whoever takes a stream's sender away has marked the
  stream closed before), `Sending` and `Receiving` close the cases of a chunk that
  reaches nobody. The property counts messages in queues; `CountFor` is the
  cardinality of a set of places for that reason.
* `SendsAreDelivered`: `IdsSuffice /\ ~CancelSends => (Spec => []SentMeansDelivered)`. `SendInv` has a
  ledger: what was handed to `send` is what the service has read, the `WRTE` on
  its way and the rest still to be written (`Ledger`, `Balanced`), and one of `WRTE`,
  `OKAY` and count is under way at a time (`Turnaround`). With a cancelled send the
  next one takes a foreign `OKAY` for its own, which the run
  `SessionCancelledSend` shows: the hypothesis is not there for the proof's sake.
* `NothingAfterTheEnd`: `IdsSuffice /\ Peaceful => (Spec => []EndOfStreamIsComplete)`. `Peaceful`
  leaves out what ends a stream without its service: a link or a writer that fails, a call of
  `Session::close`, and a device that sends `STLS` or `OPEN`, which end the reader; after
  any of them `recv` answers `None` as well (`stream.rs:104`), with chunks missing.
  Opens and sends may be cancelled. `EndInv` adds the other half of the data's way to
  `Flow`: a `CLSE` for a live stream (`Live`: its owner has not begun to take it out of
  the map) is its service's last word, behind all its chunks (`LastDown`), and nobody
  has told that service to go (`LetGo`), because the reader finds a listener for every
  chunk of a live stream (`Wanted`); so only that `CLSE` takes the stream out of the map
  or its sender away (`EntryStays`, `SenderStays`, `Passed`). Where no `OPEN` has arrived yet
  there is no `CLSE` to find it (`Closing`, `Awaited`), and what `recv` has not returned by
  then is in the channel or its hand, which are empty when it answers `None` (`Ended`).
* `StreamsAreChannels`: `IdsSuffice /\ ~CancelSends => (Spec => KeepsPromise)`, the refinement: every
  step of the session is, for each of its streams, a step of `Channel` or leaves its variables
  alone. A payload passes through two queues and a chunk through three, each shared with
  other streams or run by another task; `View` says, of a stream and its service, what these
  queues hold for it, which by `Turnaround` is one payload at most and by `Flow` one chunk
  (`Viewed`), and `NoView` that they hold nothing for a stream without (`Unviewed`). A step is
  then judged by whether the payload and the chunk are still on their way
  (`UpMoves`, `DownMoves`), actor by actor (`PromisedOwner`, `PromisedTasks`, `PromisedCarry`,
  `PromisedDevice`, `PromisedStart`, `PromisedUnserved`). Here the link and the writer may fail and the session be
  closed: the invariant is that the session is lost or `EndInv` holds (`PromiseInv`), so a
  chunk that finds no listener and a `None` before the last chunk are shown to happen to a
  stream only that is lost or given up, which `Channel` allows. A cancelled send may leave its
  payload on the way when the next one posts another, so that hypothesis is needed here
  too: with `CancelSends` true TLC finds `KeepsPromise` violated.

`HandshakeProofs` proves, for any limit on stale frames, any wait, versions and
offers:

* `TypeCorrect`: `Spec => []TypeOK`, which is inductive as it stands.
* `OnePolicy`: `Spec => []PoliciesAgree`. `Truth` is the strengthening: a
  greeting in the device's queue tells the device's own version and offer, and a
  device that has sent one stays online. It stays so because the host greets
  once (`Greeting`), and no second `CNXN` starts the device over.
* `KnownKeyNotOffered`: `Spec => []OfferedOnlyIfUnknown`. For a device that knows
  the key, `Unasked` counts: at most one token is ever sent, it is gone from the
  queue once signed, and any signature on its way is of that token, so the
  device accepts it and the host has nothing further to answer. `Greeting`
  rules out a token sent before the device has read `CNXN`.
* `KnownKeyIsAccepted`: `Spec => []KnownKeyConnects`. `Steady` counts the frames of the
  earlier session: those the host has skipped and those still in the queue
  (`StaleIn`) are no more than the device has sent, so the limit is reached only by a
  device that sends more. The timer cannot end such a handshake because it runs
  only once the key was offered, which `Unasked` excludes.

`KeyFileProofs` proves, for any number of processes, killed or failing anywhere:

* `IdentityKept` and `FilesTogether`: `KeySpec => []OneIdentity` and `[]FilesBelong`.
  Neither is inductive. `Quiet`, which need only hold while nobody has raced
  (`raced`: two processes between the check and the write at once), says that at
  most one process is storing a key (`OneStores`), that the files are what its
  step says (`Progress`), that no key of theirs is public before it is private
  (`PublicLast`), that a stored key is that of a process past its check (`Stored`), and
  that whoever has a key has the stored one (`Handed`) and, if it generated it, has put
  its public file beside it (`Together`). A process that stops leaves a file that
  exists, so no second one ever generates. The files may be in any state at first, an
  `adbkey.pub` without its `adbkey` included: `load_or_generate` asks for the private one
  only (`keyfile.rs:78`), and replaces the other.

`TrackerProofs` proves, for any devices and whatever the bus does:

* `WatchMissesNone` and `EventsMakeSense`: `TrackerSpec => []NoneMissed` and
  `[]EventsInOrder`. Neither is inductive, for the bus and `view` meet only through
  the queue of events and `known`. `Knows` says that where `known` and the bus
  differ, the event that settles it waits in the queue; `Queue` that a device's
  arrival comes before its departure, which is in the queue if it is gone; `Tells`
  that `known` is what the consumer has and what is on its way to it. `Knows`
  holds from the first listing on because the watch begins before it, which is
  what the order in the code is for.

`HostServerProofs` proves, for any devices, any room in a connection, and a server that
may end or reset it anywhere:

* `ToldTheTruth` and `ListsAreAnnounced`: `HostInit /\ [][HostNext]_hostVars` implies
  `[]ToldWhatHappened` and `[]ListsAreTrue`. The client reads word by word, and what a word
  means depends on how many came before it; so the invariant numbers the words from
  the status (`Place`) and says what each one on its way is: of a query, that the
  even ones are the lists announced next (`OnTheWay`) and, without a reset, that all of
  them are there (`AllSent`); of an open, which of the two requests the next status
  answers (`Opening`), and that a switched connection carries the service's words
  in order (`InChannel`). A word that is none of those expected ends the call, and
  with it what is said of the words behind it. `Verdicts` and `Chosen` tie the result to it.
* `HostIsAChannel`: `HostInit /\ [][HostNext]_hostVars => HostKeepsPromise`, the refinement
  of `Channel`. The mapping takes a queue from its first word of data on (`StreamOf`).
  `Tidy`, invariant together with the above, says that no data is under way before the
  service has started, and that after it the OKAY is the one word ahead of data, until
  it is read. Each step is then a step of `Channel` (`RecvPromised`, `WritePromised`,
  `AnswerPromised`, ...) or leaves its variables alone (`Quiet`, `Unmoved`).

`DeviceProofs` proves, for any files, features, `DATA_MAX` and number of calls, given up,
failing or vanishing anywhere:

* `FilesAreWhole`: `Spec => []NoHalfFile`. A push is many messages, and what the device
  writes at `DONE` is the sum of all `DATA` since `SEND`. `Whole` follows the device
  through the messages to come (`Queue`): there is a sequence `got`, what it has of a
  push at each of them, which is a whole body at every `DONE` and, with what is
  still to be read of the source, at the end. A push that is given up never gets
  its `DONE`, and a `SEND` starts anew. `InTwo` keeps the two messages of a `SND2` together:
  between them nothing of another push may come, or it would be added to this one's.

`DeviceAnswerProofs` proves in the same generality, of a client and the service it talks to:

* `AnswersAreTrue`: `Spec => []AnswerIsTrue`, and `EndsInStep`: `Spec => []InStep`. Neither is
  inductive: whether the word read next makes an answer true depends on all that is on
  its way. `Stream` is that: what is buffered, what is in chunks, and what the service has
  yet to write. `Conversation` says what it is at each point of a call, as long as no call on
  the channel was given up or failed: either the request is still owed an answer
  (`Unserved`), there is nothing in the stream, and `Owed` says where the requests and
  the service are; or it is served (`Served`), and the stream is `Due`, the rest of the
  reply word by word, or the beginning of it if the service has gone (`PartOf`). Moving a
  chunk leaves the stream alone (`JoinedFill`, `JoinedFlush`), so where the channel cuts
  does not matter; each `read_exact` takes the first part of what is due and leaves what is
  due next (`ReadOnward`). `ListDue` and `PullDue` tie what has been collected to what is to
  come: the first entries and the words of the others, the first bytes and the chunks of
  the rest (`DentsStep`, `ChunkWords`). At `idle` and `return` nothing is due, which is
  `InStep`, and the next call starts from there.

  A listing and a file are of any length, so the proof needs what `FlattenSeq` computes
  for every sequence of sequences. `Induction` is derived for it from the least element of
  a set of numbers (`Least`, from the library's `WFMin`); `FlatAppend`, `FlatCat` and
  `FlatHead` are proved by it. The assumptions it adds are that names are finitely many and
  that the files there are at first have a body, a mode and a time.

* `OutputsAreWhole`: `Spec => []OutputIsWhole`, on the same `Stream` of a command's channel.
  For `shell,v2` the invariant (`ByFrames`) is that some number `k` of the frames the command has
  written have been taken: the caller has the outputs among them, and while the
  parser is at work what comes is the words of the others (`Unparsed`), with the words of the
  exit code after them once the command has ended, or the beginning of that if it is gone.
  So an exit code is parsed only when `k` is all of them. Without frames what comes is all
  that was written (`Bare`), and `drain` returns what has come of it. `OutInv` was checked by
  TLC on the instance of `DeviceCalls` first, but for the types of its words.

The proofs use the named assumptions of these modules on their constants and
nothing else; TLC evaluates those on every run.

Only model-checked:

* `FramesInOrder` and `FailsForAReason`: the checksum and the cutting into packets are folds,
  to be treated as `FlattenSeq` is in `DeviceAnswerProofs`; not done.
* `QueryIsTrue` and `PropsAreTrue`: what the parsers, folds of an operator over lines,
  return for every text. `Content` has a recursive operator besides, and its state is
  little: these are statements about functions.
* All liveness and `ENABLED`, which are out of the prover's reach.

## 5. Not modelled

* The banner (`session/banner.rs`): a pure parser of one line, without state; which
  features a device has is an input of `Device`.
* RSA, signatures and the layout of public keys (`auth/{mod,pubkey}.rs`): arithmetic on
  2048 bits. A signature in `Handshake` is the number of its token.
* `error.rs`, the command line, parsing of TCP addresses, `usb::find` and opening an
  interface: input and output around what is modelled.
* The local files of `pull_to_file` and `push_file`; `getprop` of a single name and its
  argument check; `reboot` and `command`, which run a service and drain it like
  `exec`; `quote`.
* In the session: ids that come round to a live one, which takes 2^32 opens, and what
  a caller should be told when the transport is lost while its open is pending (a
  refusal, as things are). They are hazards with a note in `PROJECT.json`. The
  length of an `OPEN` is a constant: `open_stream` does not compare it with the
  negotiated payload, and neither does the model.
* Permissions, directories and PEM around the key files; `Broken` stands for any file
  that holds no whole key.

What the models take for granted: the services answer as the clients expect (a
`FAIL` to `LIST` is as long as an entry's header; nothing in the repository says what
devices send); only the adb server's words may be odd. A reset connection loses data, which `HostChannel` reports as an
end of the stream like another; `ToldWhatHappened` and `Channel` promise
completeness only of connections that end in order. A send dropped between
header and payload (`torn`) makes the rest of the stream meaningless; the writer
task of a session, the only sender, is dropped only with its connection. Likewise the
properties leave out, and `PROJECT.json` notes at the hazard: a client that goes
on after a call on it was given up (`clean`), more input than stream and pipe hold
(`Fits`), output without an exit code, which is only a beginning, a `None` after a
lost link, and two processes that generate a key at once (`raced`).

## 6. What may follow

Theorems: `FramesInOrder` of `Framing`. Models: the local files of
`pull_to_file`, and `Device` over several channels of one session at once.
