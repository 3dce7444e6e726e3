------------------------------ MODULE Session ------------------------------
(***************************************************************************)
(* One established ADB session of rsadb (src/src/session): the streams'    *)
(* owners (open_stream, Stream::send / recv / close / drop), the reader    *)
(* task that demultiplexes, the writer task that serialises, and a call of *)
(* Session::close, all running in parallel over the shared Registry and    *)
(* the per-stream StreamState; the device at the far end is modelled from  *)
(* what the session expects of it.                                         *)
(*                                                                         *)
(* A step is one access to shared state: an atomic load or store, one      *)
(* critical section of a mutex, one channel operation, one Notify          *)
(* operation.  Accesses that no other thread can tell apart are merged,    *)
(* and the comment of the action says which.                               *)
(***************************************************************************)
EXTENDS Integers, Sequences

CONSTANTS
    Streams,        \* one element per call of open_stream
    NoStream,       \* "no entry": not in Streams
    IdSpace,        \* local ids are u32: 2^32 in the code
    FirstId,        \* next_id: 1 in a new session, any id in an old one
    RemoteIds,      \* ids the device hands out, in increasing order
    MaxPayload,     \* negotiated max_payload, in units of data
    OpenLen,        \* length of an OPEN payload (service name and its NUL)
    SendLens,       \* lengths of the buffers handed to send
    MaxBytes,       \* bound: data handed to send, per stream
    MaxChunks,      \* bound: WRTE messages of the device, per stream
    Strays,         \* commands of other layers; the device may send one, once
    CancelOpens,    \* may a caller drop the future of open_stream?
    CancelSends,    \* may a caller drop the future of send?
    LinkFaults,     \* may the transport fail?
    WriterFaults,   \* may its sink fail alone, while messages still arrive?
    SessionCloses   \* may somebody call Session::close?

StrayCommands == {"STLS", "OPEN", "CNXN", "AUTH", "SYNC"}

ASSUME StreamsAssumption == NoStream \notin Streams
ASSUME IdSpaceAssumption == /\ IdSpace \in Nat /\ IdSpace >= 2
                            /\ FirstId \in 0 .. IdSpace - 1
ASSUME RemoteIdsAssumption == RemoteIds \subseteq Nat \ {0}
ASSUME PayloadAssumption == MaxPayload \in Nat \ {0} /\ OpenLen \in Nat
ASSUME LoadAssumption == /\ SendLens \subseteq Nat \ {0}
                         /\ MaxBytes \in Nat /\ MaxChunks \in Nat
ASSUME EnvironmentAssumption ==
    /\ Strays \subseteq StrayCommands
    /\ {CancelOpens, CancelSends, LinkFaults, WriterFaults, SessionCloses} \subseteq BOOLEAN

LocalIds == 0 .. IdSpace - 1

(* The threads that run Registry::close_all. *)
Closers == {"reader", "session"}

VARIABLES
    \* Registry
    nextId,         \* next_id: AtomicU32
    registry,       \* streams: local id -> stream or NoStream
    \* StreamState
    localId, remoteId, closed, acks,
    permit,         \* wake: the permit a Notify holds
    dataTx,         \* data_tx is Some
    \* The owner of each stream: one call at a time
    dataQ,          \* chunks in the data channel
    rxLive,         \* data_rx is alive
    pc, life, seen, rest, sendRes,
    hand,           \* the chunk recv has taken and not yet returned
    eof,            \* recv has returned None
    \* The owner's history
    writes,         \* WRTE messages posted
    asked,          \* data handed to send
    got,            \* chunks recv has returned
    \* The reader task and the thread in Session::close
    apc, cur, todo, readerErr, aborted,
    \* The writer task and the link
    writer, outbox, link, h2d, d2h,
    \* The device
    devNext, devSt, devHost, devInFlight, devSent, devBytes, devRefused, strayed

registryVars == <<nextId, registry, localId>>
stateVars    == <<remoteId, closed, acks, permit, dataTx>>
recvVars     == <<dataQ, rxLive, hand, eof, got>>
sendVars     == <<seen, rest, sendRes, writes, asked>>
ownerVars    == <<pc, life, recvVars, sendVars>>
closerVars   == <<apc, cur, todo, readerErr, aborted>>
writerVars   == <<writer, outbox>>
linkVars     == <<link, h2d, d2h>>
deviceVars   == <<devNext, devSt, devHost, devInFlight, devSent, devBytes,
                  devRefused, strayed>>

(* The streams with their owners, and everything that runs beside them. *)
streamVars   == <<registryVars, stateVars, ownerVars>>
taskVars     == <<closerVars, writerVars, linkVars, deviceVars>>

vars == <<streamVars, taskVars>>

(* A wire message.  data is a payload's length from the host, and the       *)
(* number of the chunk within its stream from the device.                   *)
Msg(cmd, arg0, arg1, data) ==
    [cmd |-> cmd, arg0 |-> arg0, arg1 |-> arg1, data |-> data]

Commands == {"WRTE", "OKAY", "CLSE"} \cup StrayCommands

(* The sender's own id comes first: the host's are u32s from next_id. *)
HostMessages   == [cmd : Commands, arg0 : LocalIds, arg1 : Nat, data : Nat]
DeviceMessages == [cmd : Commands, arg0 : Nat, arg1 : LocalIds, data : Nat]

(* UnboundedSender::send on the outbox: fails once its receiver is gone. *)
Post(m) == /\ writer = "run"
           /\ outbox' = Append(outbox, m)
           /\ UNCHANGED writer
PostFails == writer = "stopped" /\ UNCHANGED writerVars

-----------------------------------------------------------------------------
(* Opening a stream *)

(* Registry::register.  fetch_add wraps, and zero is skipped.  The insert   *)
(* is merged with the allocation: nobody knows the id before.               *)
FreshIdZeroToo == nextId
FreshId == IF nextId = 0 THEN 1 ELSE nextId

NextIdUnmoved == FreshId
NextId == (FreshId + 1) % IdSpace

Register(s) ==
    /\ life[s] = "unborn"
    /\ localId' = [localId EXCEPT ![s] = FreshId]
    /\ nextId' = NextId
    /\ registry' = [registry EXCEPT ![FreshId] = s]
    /\ life' = [life EXCEPT ![s] = "opening"]
    /\ dataTx' = [dataTx EXCEPT ![s] = TRUE]
    /\ rxLive' = [rxLive EXCEPT ![s] = TRUE]
    /\ pc' = [pc EXCEPT ![s] = "post_open"]
    /\ UNCHANGED <<remoteId, closed, acks, permit, dataQ, hand, eof, got,
                   sendVars, taskVars>>

(* The OPEN is queued; when the writer is gone open_stream returns          *)
(* Disconnected and leaves the registry's entry behind.                     *)
PostOpen(s) ==
    /\ pc[s] = "post_open"
    /\ \/ /\ Post(Msg("OPEN", localId[s], 0, OpenLen))
          /\ pc' = [pc EXCEPT ![s] = "acks"]
          /\ seen' = [seen EXCEPT ![s] = 0]
          /\ UNCHANGED <<life, rxLive>>
       \/ /\ PostFails
          /\ pc' = [pc EXCEPT ![s] = "idle"]
          /\ life' = [life EXCEPT ![s] = "disconnected"]
          /\ rxLive' = [rxLive EXCEPT ![s] = FALSE]
          /\ UNCHANGED seen
    /\ UNCHANGED <<registryVars, stateVars, dataQ, hand, eof, got, rest,
                   sendRes, writes, asked, closerVars, linkVars, deviceVars>>

(* wait_ack has returned false, or no remote id was adopted: the entry is   *)
(* removed and the caller told ServiceRefused.                              *)
Refuse(s) ==
    /\ pc[s] = "refuse"
    /\ registry' = [registry EXCEPT ![localId[s]] = NoStream]
    /\ pc' = [pc EXCEPT ![s] = "idle"]
    /\ life' = [life EXCEPT ![s] = "refused"]
    /\ rxLive' = [rxLive EXCEPT ![s] = FALSE]
    /\ dataQ' = [dataQ EXCEPT ![s] = <<>>]
    /\ UNCHANGED <<nextId, localId, stateVars, hand, eof, got, sendVars,
                   taskVars>>

-----------------------------------------------------------------------------
(* StreamState::wait_ack, called by open_stream and by write_chunk *)

(* notify_one leaves a permit when nobody waits; notify_waiters would not.  *)
NotifiedWaiters(s) == [permit EXCEPT ![s] = pc[s] = "park"]
Notified(s) == [permit EXCEPT ![s] = TRUE]

AckArrivedAtOnce(s) == acks[s] >= seen[s]
AckArrived(s) == acks[s] > seen[s]

(* acks() > seen: the wait succeeds.  An open then looks for the remote id, *)
(* a send goes on with the rest of its buffer.  The remote id is merged     *)
(* with the load: the reader has stored it before it counts.                *)
Acked(s) ==
    /\ pc[s] = "acks"
    /\ AckArrived(s)
    /\ \/ /\ life[s] = "opening"
          /\ life' = IF remoteId[s] # 0 THEN [life EXCEPT ![s] = "open"] ELSE life
          /\ pc' = [pc EXCEPT ![s] = IF remoteId[s] # 0 THEN "idle" ELSE "refuse"]
          /\ UNCHANGED sendRes
       \/ /\ life[s] = "open" /\ rest[s] = 0
          /\ sendRes' = [sendRes EXCEPT ![s] = "ok"]
          /\ pc' = [pc EXCEPT ![s] = "idle"]
          /\ UNCHANGED life
       \/ /\ life[s] = "open" /\ rest[s] > 0
          /\ pc' = [pc EXCEPT ![s] = "ids"]
          /\ UNCHANGED <<life, sendRes>>
    /\ UNCHANGED <<registryVars, stateVars, recvVars, seen, rest, writes,
                   asked, taskVars>>

NotAcked(s) ==
    /\ pc[s] = "acks"
    /\ ~AckArrived(s)
    /\ pc' = [pc EXCEPT ![s] = "closed"]
    /\ UNCHANGED <<registryVars, stateVars, life, recvVars, sendVars,
                   taskVars>>

(* is_closed(): the wait fails, and with it the open or the send. *)
WaitFails(s) ==
    /\ pc[s] = "closed"
    /\ closed[s]
    /\ \/ /\ life[s] = "opening"
          /\ pc' = [pc EXCEPT ![s] = "refuse"]
          /\ UNCHANGED <<rest, sendRes>>
       \/ /\ life[s] # "opening"
          /\ pc' = [pc EXCEPT ![s] = "idle"]
          /\ rest' = [rest EXCEPT ![s] = 0]
          /\ sendRes' = [sendRes EXCEPT ![s] = "closed"]
    /\ UNCHANGED <<registryVars, stateVars, life, recvVars, seen, writes,
                   asked, taskVars>>

WaitOn(s) ==
    /\ pc[s] = "closed"
    /\ ~closed[s]
    /\ pc' = [pc EXCEPT ![s] = "park"]
    /\ UNCHANGED <<registryVars, stateVars, life, recvVars, sendVars,
                   taskVars>>

(* wake.notified().await takes the permit and the loop starts again. *)
Woken(s) ==
    /\ pc[s] = "park"
    /\ permit[s]
    /\ permit' = [permit EXCEPT ![s] = FALSE]
    /\ pc' = [pc EXCEPT ![s] = "acks"]
    /\ UNCHANGED <<registryVars, remoteId, closed, acks, dataTx, life,
                   recvVars, sendVars, taskVars>>

(* The caller drops the future at its only suspension point.  An open so    *)
(* cancelled leaves its registry entry: nobody owns the stream any more.    *)
CancelOpen(s) ==
    /\ CancelOpens
    /\ pc[s] = "park" /\ life[s] = "opening"
    /\ pc' = [pc EXCEPT ![s] = "idle"]
    /\ life' = [life EXCEPT ![s] = "orphan"]
    /\ rxLive' = [rxLive EXCEPT ![s] = FALSE]
    /\ dataQ' = [dataQ EXCEPT ![s] = <<>>]
    /\ UNCHANGED <<registryVars, stateVars, hand, eof, got, sendVars,
                   taskVars>>

CancelSend(s) ==
    /\ CancelSends
    /\ pc[s] = "park" /\ life[s] = "open"
    /\ pc' = [pc EXCEPT ![s] = "idle"]
    /\ rest' = [rest EXCEPT ![s] = 0]
    /\ sendRes' = [sendRes EXCEPT ![s] = "cancelled"]
    /\ UNCHANGED <<registryVars, stateVars, life, recvVars, seen, writes,
                   asked, taskVars>>

-----------------------------------------------------------------------------
(* Stream::send and its write_chunk *)

(* An empty buffer is not worth a state: send returns Ok at once. *)
BeginSend(s, n) ==
    /\ pc[s] = "idle" /\ life[s] \in {"open", "closed"}
    /\ asked[s] + n <= MaxBytes
    /\ pc' = [pc EXCEPT ![s] = "ids"]
    /\ rest' = [rest EXCEPT ![s] = n]
    /\ asked' = [asked EXCEPT ![s] = @ + n]
    /\ sendRes' = [sendRes EXCEPT ![s] = "pending"]
    /\ UNCHANGED <<registryVars, stateVars, life, recvVars, seen, writes,
                   taskVars>>

SeenNothing(s) == 0
SeenBefore(s) == acks[s]

(* ids() and acks(): the loads of closed and of acks are merged, because    *)
(* any order of them with the reader's stores is also an order in which     *)
(* both happen at one instant.                                              *)
WriteIds(s) ==
    /\ pc[s] = "ids"
    /\ \/ /\ ~closed[s] /\ remoteId[s] # 0
          /\ seen' = [seen EXCEPT ![s] = SeenBefore(s)]
          /\ pc' = [pc EXCEPT ![s] = "post_write"]
          /\ UNCHANGED <<rest, sendRes>>
       \/ /\ closed[s] \/ remoteId[s] = 0
          /\ pc' = [pc EXCEPT ![s] = "idle"]
          /\ rest' = [rest EXCEPT ![s] = 0]
          /\ sendRes' = [sendRes EXCEPT ![s] = "closed"]
          /\ UNCHANGED seen
    /\ UNCHANGED <<registryVars, stateVars, life, recvVars, writes, asked,
                   taskVars>>

ChunkLenUncut(s) == MaxPayload
ChunkLen(s) == IF rest[s] < MaxPayload THEN rest[s] ELSE MaxPayload

PostWrite(s) ==
    /\ pc[s] = "post_write"
    /\ \/ /\ Post(Msg("WRTE", localId[s], remoteId[s], ChunkLen(s)))
          /\ pc' = [pc EXCEPT ![s] = "acks"]
          /\ writes' = [writes EXCEPT ![s] = @ + 1]
          /\ rest' = [rest EXCEPT ![s] = @ - ChunkLen(s)]
          /\ UNCHANGED sendRes
       \/ /\ PostFails
          /\ pc' = [pc EXCEPT ![s] = "idle"]
          /\ rest' = [rest EXCEPT ![s] = 0]
          /\ sendRes' = [sendRes EXCEPT ![s] = "disconnected"]
          /\ UNCHANGED writes
    /\ UNCHANGED <<registryVars, stateVars, life, recvVars, seen, asked,
                   closerVars, linkVars, deviceVars>>

-----------------------------------------------------------------------------
(* Stream::recv *)

PeekedQ(s) == dataQ[s]
PoppedQ(s) == Tail(dataQ[s])

(* A chunk is taken and the ids looked up; the load of closed is merged     *)
(* with the channel operation, which it does not disturb.  A closed stream  *)
(* is not acknowledged and the chunk returned at once.                      *)
RecvTake(s) ==
    /\ pc[s] = "idle" /\ life[s] \in {"open", "closed"}
    /\ dataQ[s] # <<>>
    /\ dataQ' = [dataQ EXCEPT ![s] = PoppedQ(s)]
    /\ \/ /\ ~closed[s] /\ remoteId[s] # 0
          /\ hand' = [hand EXCEPT ![s] = <<Head(dataQ[s])>>]
          /\ pc' = [pc EXCEPT ![s] = "okay"]
          /\ UNCHANGED got
       \/ /\ closed[s] \/ remoteId[s] = 0
          /\ got' = [got EXCEPT ![s] = Append(@, Head(dataQ[s]))]
          /\ UNCHANGED <<hand, pc>>
    /\ UNCHANGED <<registryVars, stateVars, life, rxLive, eof, sendVars,
                   taskVars>>

OkaySwapped(s) == Msg("OKAY", remoteId[s], localId[s], 0)
OkayFor(s) == Msg("OKAY", localId[s], remoteId[s], 0)

(* The OKAY is queued and the chunk returned; when the writer is gone the   *)
(* error takes the chunk's place.                                           *)
RecvOkay(s) ==
    /\ pc[s] = "okay"
    /\ pc' = [pc EXCEPT ![s] = "idle"]
    /\ hand' = [hand EXCEPT ![s] = <<>>]
    /\ \/ /\ Post(OkayFor(s))
          /\ got' = [got EXCEPT ![s] = @ \o hand[s]]
       \/ /\ PostFails
          /\ UNCHANGED got
    /\ UNCHANGED <<registryVars, stateVars, life, dataQ, rxLive, eof,
                   sendVars, closerVars, linkVars, deviceVars>>

(* Every sender is gone and the queue is drained: recv returns None. *)
EndsAtClose(s) == ~dataTx[s]
EndsWhenDrained(s) == dataQ[s] = <<>> /\ ~dataTx[s]

RecvEnd(s) ==
    /\ pc[s] = "idle" /\ life[s] \in {"open", "closed"}
    /\ EndsWhenDrained(s) /\ ~eof[s]
    /\ eof' = [eof EXCEPT ![s] = TRUE]
    /\ UNCHANGED <<registryVars, stateVars, pc, life, dataQ, rxLive, hand,
                   got, sendVars, taskVars>>

-----------------------------------------------------------------------------
(* Stream::close_now, from close and from Drop *)

BeginClose(s) ==
    /\ pc[s] = "idle" /\ life[s] = "open"
    /\ \/ /\ closed[s]
          /\ life' = [life EXCEPT ![s] = "closed"]
          /\ UNCHANGED pc
       \/ /\ ~closed[s]
          /\ pc' = [pc EXCEPT ![s] = "close_mark"]
          /\ UNCHANGED life
    /\ UNCHANGED <<registryVars, stateVars, recvVars, sendVars, taskVars>>

(* mark_closed in one step: only the owner reads closed and waits on wake,  *)
(* and the owner is here.                                                   *)
CloseMark(s) ==
    /\ pc[s] = "close_mark"
    /\ closed' = [closed EXCEPT ![s] = TRUE]
    /\ dataTx' = [dataTx EXCEPT ![s] = FALSE]
    /\ permit' = Notified(s)
    /\ pc' = [pc EXCEPT ![s] = "close_remove"]
    /\ UNCHANGED <<registryVars, remoteId, acks, life, recvVars, sendVars,
                   taskVars>>

CloseRemove(s) ==
    /\ pc[s] = "close_remove"
    /\ registry' = [registry EXCEPT ![localId[s]] = NoStream]
    /\ pc' = [pc EXCEPT ![s] = "close_post"]
    /\ UNCHANGED <<nextId, localId, stateVars, life, recvVars, sendVars,
                   taskVars>>

CloseUnaddressed(s) == Msg("CLSE", localId[s], 0, 0)
CloseFor(s) == Msg("CLSE", localId[s], remoteId[s], 0)

(* The result of queueing the CLSE is ignored. *)
ClosePost(s) ==
    /\ pc[s] = "close_post"
    /\ \/ Post(CloseFor(s))
       \/ PostFails
    /\ pc' = [pc EXCEPT ![s] = "idle"]
    /\ life' = [life EXCEPT ![s] = "closed"]
    /\ UNCHANGED <<registryVars, stateVars, recvVars, sendVars, closerVars,
                   linkVars, deviceVars>>

(* The Stream value goes away, and data_rx with it. *)
DropStream(s) ==
    /\ pc[s] = "idle" /\ life[s] = "closed"
    /\ life' = [life EXCEPT ![s] = "dropped"]
    /\ rxLive' = [rxLive EXCEPT ![s] = FALSE]
    /\ dataQ' = [dataQ EXCEPT ![s] = <<>>]
    /\ UNCHANGED <<registryVars, stateVars, pc, hand, eof, got, sendVars,
                   taskVars>>

-----------------------------------------------------------------------------
(* The reader task: read_loop and dispatch *)

(* source.recv() returns the next message. *)
Recv(cmd) == /\ apc["reader"] = "recv"
             /\ d2h # <<>> /\ Head(d2h).cmd = cmd
             /\ d2h' = Tail(d2h)
             /\ UNCHANGED <<link, h2d>>

Addressee == registry[Head(d2h).arg1]

(* StreamState::ack begins with the remote id, stored once; merged with the *)
(* registry's lookup because the owner reads it only after the count.       *)
ReaderOkay ==
    /\ Recv("OKAY")
    /\ \/ /\ Addressee # NoStream
          /\ remoteId' = IF remoteId[Addressee] = 0
                         THEN [remoteId EXCEPT ![Addressee] = Head(d2h).arg0]
                         ELSE remoteId
          /\ cur' = [cur EXCEPT !["reader"] = Addressee]
          /\ apc' = [apc EXCEPT !["reader"] = "count"]
       \/ /\ Addressee = NoStream
          /\ UNCHANGED <<remoteId, cur, apc>>
    /\ UNCHANGED <<registryVars, closed, acks, permit, dataTx, ownerVars,
                   todo, readerErr, aborted, writerVars, deviceVars>>

AckCount ==
    /\ apc["reader"] = "count"
    /\ acks' = [acks EXCEPT ![cur["reader"]] = @ + 1]
    /\ apc' = [apc EXCEPT !["reader"] = "wake"]
    /\ UNCHANGED <<registryVars, remoteId, closed, permit, dataTx, ownerVars,
                   cur, todo, readerErr, aborted, writerVars, linkVars,
                   deviceVars>>

AckWake ==
    /\ apc["reader"] = "wake"
    /\ permit' = Notified(cur["reader"])
    /\ apc' = [apc EXCEPT !["reader"] = "recv"]
    /\ cur' = [cur EXCEPT !["reader"] = NoStream]
    /\ UNCHANGED <<registryVars, remoteId, closed, acks, dataTx, ownerVars,
                   todo, readerErr, aborted, writerVars, linkVars,
                   deviceVars>>

(* StreamState::deliver: data_tx is still there and data_rx still alive. *)
Listening(s) == s # NoStream /\ dataTx[s] /\ rxLive[s]

(* The lookup, the delivery and the CLSE for a stream nobody listens to are *)
(* one step: an owner that closes between them changes neither the outcome  *)
(* nor, the two CLSEs being equal, the queue.  A queue without receiver     *)
(* ends the loop with Disconnected.                                         *)
ReaderWrite ==
    /\ Recv("WRTE")
    /\ \/ /\ Listening(Addressee)
          /\ dataQ' = [dataQ EXCEPT ![Addressee] =
                          Append(@, <<Head(d2h).arg0, Head(d2h).data>>)]
          /\ UNCHANGED <<writerVars, apc, readerErr>>
       \/ /\ ~Listening(Addressee)
          /\ \/ /\ Post(Msg("CLSE", Head(d2h).arg1, Head(d2h).arg0, 0))
                /\ UNCHANGED <<apc, readerErr>>
             \/ /\ PostFails
                /\ apc' = [apc EXCEPT !["reader"] = "drain"]
                /\ readerErr' = TRUE
          /\ UNCHANGED dataQ
    /\ UNCHANGED <<registryVars, stateVars, pc, life, rxLive, hand, eof, got,
                   sendVars, cur, todo, aborted, deviceVars>>

ReaderClose ==
    /\ Recv("CLSE")
    /\ registry' = [registry EXCEPT ![Head(d2h).arg1] = NoStream]
    /\ \/ /\ Addressee # NoStream
          /\ cur' = [cur EXCEPT !["reader"] = Addressee]
          /\ apc' = [apc EXCEPT !["reader"] = "mark"]
       \/ /\ Addressee = NoStream
          /\ UNCHANGED <<cur, apc>>
    /\ UNCHANGED <<nextId, localId, stateVars, ownerVars, todo, readerErr,
                   aborted, writerVars, deviceVars>>

(* TLS or an OPEN towards the host ends the loop; a message of the          *)
(* handshake is ignored.                                                    *)
ReaderStray ==
    /\ \/ /\ \E cmd \in {"STLS", "OPEN"} : Recv(cmd)
          /\ apc' = [apc EXCEPT !["reader"] = "drain"]
          /\ readerErr' = TRUE
       \/ /\ \E cmd \in {"CNXN", "AUTH", "SYNC"} : Recv(cmd)
          /\ UNCHANGED <<apc, readerErr>>
    /\ UNCHANGED <<streamVars, cur, todo, aborted, writerVars, deviceVars>>

(* source.recv() fails: the transport is gone, with whatever of it had not  *)
(* been read.                                                               *)
ReaderFails ==
    /\ apc["reader"] = "recv"
    /\ link = "down"
    /\ apc' = [apc EXCEPT !["reader"] = "drain"]
    /\ readerErr' = TRUE
    /\ d2h' = <<>>
    /\ UNCHANGED <<streamVars, cur, todo, aborted, writerVars, link, h2d,
                   deviceVars>>

(* The abort requested by Session::close takes effect where the task waits, *)
(* and nowhere else: close_all does not run.                                *)
ReaderAborts ==
    /\ apc["reader"] = "recv"
    /\ aborted
    /\ apc' = [apc EXCEPT !["reader"] = "stopped"]
    /\ UNCHANGED <<streamVars, cur, todo, readerErr, aborted, writerVars,
                   linkVars, deviceVars>>

-----------------------------------------------------------------------------
(* Registry::close_all and StreamState::mark_closed, by thread a *)

RegisteredAfterClear == {}
Registered == {registry[i] : i \in LocalIds} \ {NoStream}

BeginSessionClose ==
    /\ SessionCloses
    /\ apc["session"] = "before"
    /\ apc' = [apc EXCEPT !["session"] = "drain"]
    /\ UNCHANGED <<streamVars, cur, todo, readerErr, aborted, writerVars,
                   linkVars, deviceVars>>

Drain(a) ==
    /\ apc[a] = "drain"
    /\ todo' = [todo EXCEPT ![a] = Registered]
    /\ registry' = [i \in LocalIds |-> NoStream]
    /\ apc' = [apc EXCEPT ![a] = "each"]
    /\ UNCHANGED <<nextId, localId, stateVars, ownerVars, cur, readerErr,
                   aborted, writerVars, linkVars, deviceVars>>

(* The map yields its entries in any order.  Then the reader ends, and      *)
(* Session::close aborts both tasks.                                        *)
Each(a) ==
    /\ apc[a] = "each"
    /\ \/ \E s \in todo[a] :
             /\ cur' = [cur EXCEPT ![a] = s]
             /\ todo' = [todo EXCEPT ![a] = @ \ {s}]
             /\ apc' = [apc EXCEPT ![a] = "mark"]
             /\ UNCHANGED aborted
       \/ /\ todo[a] = {}
          /\ apc' = [apc EXCEPT ![a] = "stopped"]
          /\ aborted' = (aborted \/ a = "session")
          /\ UNCHANGED <<cur, todo>>
    /\ UNCHANGED <<streamVars, readerErr, writerVars, linkVars, deviceVars>>

MarkClosed(a) ==
    /\ apc[a] = "mark"
    /\ closed' = [closed EXCEPT ![cur[a]] = TRUE]
    /\ apc' = [apc EXCEPT ![a] = "take"]
    /\ UNCHANGED <<registryVars, remoteId, acks, permit, dataTx, ownerVars,
                   cur, todo, readerErr, aborted, writerVars, linkVars,
                   deviceVars>>

(* data_tx is taken and the owner woken: one step, because an owner waiting *)
(* for the one is not waiting for the other.                                *)
TakeAndWake(a) ==
    /\ apc[a] = "take"
    /\ dataTx' = [dataTx EXCEPT ![cur[a]] = FALSE]
    /\ permit' = Notified(cur[a])
    /\ apc' = [apc EXCEPT ![a] =
                  IF a = "session" \/ readerErr THEN "each" ELSE "recv"]
    /\ cur' = [cur EXCEPT ![a] = NoStream]
    /\ UNCHANGED <<registryVars, remoteId, closed, acks, ownerVars, todo,
                   readerErr, aborted, writerVars, linkVars, deviceVars>>

-----------------------------------------------------------------------------
(* The writer task and the link *)

(* sink.send: on a link that has failed the message is lost, at once with   *)
(* an error that stops the task or, in a buffer below, without one.  The    *)
(* sink may also fail alone: the writer stops, and the reader reads on.     *)
WriterSends ==
    /\ writer = "run" /\ outbox # <<>>
    /\ \/ /\ link = "up"
          /\ h2d' = Append(h2d, Head(outbox))
          /\ outbox' = Tail(outbox)
          /\ UNCHANGED writer
       \/ /\ link = "down"
          /\ outbox' = Tail(outbox)
          /\ UNCHANGED <<writer, h2d>>
       \/ /\ link = "down" \/ WriterFaults
          /\ writer' = "stopped" /\ outbox' = <<>>
          /\ UNCHANGED h2d
    /\ UNCHANGED <<streamVars, closerVars, link, d2h, deviceVars>>

WriterAborts ==
    /\ writer = "run" /\ aborted
    /\ writer' = "stopped" /\ outbox' = <<>>
    /\ UNCHANGED <<streamVars, closerVars, linkVars, deviceVars>>

LinkDown ==
    /\ LinkFaults
    /\ link = "up"
    /\ link' = "down" /\ h2d' = <<>>
    /\ UNCHANGED <<streamVars, closerVars, writerVars, d2h, deviceVars>>

-----------------------------------------------------------------------------
(* The device, as the session uses it: adbd and the services behind it *)

DeviceGets(cmd) == /\ link = "up"
                   /\ h2d # <<>> /\ Head(h2d).cmd = cmd
                   /\ h2d' = Tail(h2d)
                   /\ UNCHANGED link

DeviceSends(m) == d2h' = Append(d2h, m)

(* A stream the host's message addresses: arg1 is the device's id. *)
KnownToDevice(r) == r \in RemoteIds /\ devSt[r] = "open"

DevOpen ==
    /\ DeviceGets("OPEN")
    /\ \/ /\ devNext \in RemoteIds
          /\ devNext' = devNext + 1
          /\ devSt' = [devSt EXCEPT ![devNext] = "open"]
          /\ devHost' = [devHost EXCEPT ![devNext] = Head(h2d).arg0]
          /\ DeviceSends(Msg("OKAY", devNext, Head(h2d).arg0, 0))
          /\ UNCHANGED devRefused
       \/ /\ DeviceSends(Msg("CLSE", 0, Head(h2d).arg0, 0))
          /\ devRefused' = devRefused \cup {Head(h2d).arg0}
          /\ UNCHANGED <<devNext, devSt, devHost>>
    /\ UNCHANGED <<streamVars, closerVars, writerVars, devInFlight, devSent,
                   devBytes, strayed>>

DevWrite ==
    /\ DeviceGets("WRTE")
    /\ LET r == Head(h2d).arg1 IN
       \/ /\ KnownToDevice(r)
          /\ devBytes' = [devBytes EXCEPT ![r] = @ + Head(h2d).data]
          /\ DeviceSends(Msg("OKAY", r, devHost[r], 0))
       \/ /\ ~KnownToDevice(r)
          /\ UNCHANGED <<devBytes, d2h>>
    /\ UNCHANGED <<streamVars, closerVars, writerVars, devNext, devSt,
                   devHost, devInFlight, devSent, devRefused, strayed>>

DevOkay ==
    /\ DeviceGets("OKAY")
    /\ LET r == Head(h2d).arg1 IN
       devInFlight' = IF KnownToDevice(r)
                      THEN [devInFlight EXCEPT ![r] = FALSE] ELSE devInFlight
    /\ UNCHANGED <<streamVars, closerVars, writerVars, d2h, devNext, devSt,
                   devHost, devSent, devBytes, devRefused, strayed>>

(* adbd may answer a CLSE with one of its own; the tests' device does not. *)
DevClose ==
    /\ DeviceGets("CLSE")
    /\ LET r == Head(h2d).arg1 IN
       \/ /\ KnownToDevice(r)
          /\ devSt' = [devSt EXCEPT ![r] = "dropped"]
          /\ DeviceSends(Msg("CLSE", r, devHost[r], 0)) \/ UNCHANGED d2h
       \/ /\ ~KnownToDevice(r)
          /\ UNCHANGED <<devSt, d2h>>
    /\ UNCHANGED <<streamVars, closerVars, writerVars, devNext, devHost,
                   devInFlight, devSent, devBytes, devRefused, strayed>>

(* The service behind stream r has output, or has finished.  adbd sends one *)
(* WRTE and waits for its OKAY; it may close without waiting.               *)
DevOutput(r) ==
    /\ link = "up" /\ devSt[r] = "open" /\ ~devInFlight[r]
    /\ devSent[r] < MaxChunks
    /\ devSent' = [devSent EXCEPT ![r] = @ + 1]
    /\ devInFlight' = [devInFlight EXCEPT ![r] = TRUE]
    /\ DeviceSends(Msg("WRTE", r, devHost[r], devSent[r] + 1))
    /\ UNCHANGED <<streamVars, closerVars, writerVars, link, h2d, devNext,
                   devSt, devHost, devBytes, devRefused, strayed>>

DevFinish(r) ==
    /\ link = "up" /\ devSt[r] = "open"
    /\ devSt' = [devSt EXCEPT ![r] = "finished"]
    /\ DeviceSends(Msg("CLSE", r, devHost[r], 0))
    /\ UNCHANGED <<streamVars, closerVars, writerVars, link, h2d, devNext,
                   devHost, devInFlight, devSent, devBytes, devRefused,
                   strayed>>

DevStray(cmd) ==
    /\ link = "up" /\ cmd \in Strays /\ ~strayed
    /\ strayed' = TRUE
    /\ DeviceSends(Msg(cmd, 0, 0, 0))
    /\ UNCHANGED <<streamVars, closerVars, writerVars, link, h2d, devNext,
                   devSt, devHost, devInFlight, devSent, devBytes,
                   devRefused>>

-----------------------------------------------------------------------------
Init ==
    /\ nextId = FirstId
    /\ registry = [i \in LocalIds |-> NoStream]
    /\ localId = [s \in Streams |-> 0]
    /\ remoteId = [s \in Streams |-> 0]
    /\ closed = [s \in Streams |-> FALSE]
    /\ acks = [s \in Streams |-> 0]
    /\ permit = [s \in Streams |-> FALSE]
    /\ dataTx = [s \in Streams |-> FALSE]
    /\ dataQ = [s \in Streams |-> <<>>]
    /\ rxLive = [s \in Streams |-> FALSE]
    /\ pc = [s \in Streams |-> "idle"]
    /\ life = [s \in Streams |-> "unborn"]
    /\ seen = [s \in Streams |-> 0]
    /\ rest = [s \in Streams |-> 0]
    /\ sendRes = [s \in Streams |-> "none"]
    /\ hand = [s \in Streams |-> <<>>]
    /\ eof = [s \in Streams |-> FALSE]
    /\ writes = [s \in Streams |-> 0]
    /\ asked = [s \in Streams |-> 0]
    /\ got = [s \in Streams |-> <<>>]
    /\ apc = [a \in Closers |-> IF a = "reader" THEN "recv" ELSE "before"]
    /\ cur = [a \in Closers |-> NoStream]
    /\ todo = [a \in Closers |-> {}]
    /\ readerErr = FALSE /\ aborted = FALSE
    /\ writer = "run" /\ outbox = <<>>
    /\ link = "up" /\ h2d = <<>> /\ d2h = <<>>
    /\ devNext \in RemoteIds /\ \A r \in RemoteIds : devNext <= r
    /\ devSt = [r \in RemoteIds |-> "free"]
    /\ devHost = [r \in RemoteIds |-> 0]
    /\ devInFlight = [r \in RemoteIds |-> FALSE]
    /\ devSent = [r \in RemoteIds |-> 0]
    /\ devBytes = [r \in RemoteIds |-> 0]
    /\ devRefused = {} /\ strayed = FALSE

(* What the owner of s goes on to do once a call has begun ... *)
OwnerStep(s) ==
    \/ PostOpen(s) \/ Refuse(s)
    \/ Acked(s) \/ NotAcked(s) \/ WaitFails(s) \/ WaitOn(s) \/ Woken(s)
    \/ WriteIds(s) \/ PostWrite(s)
    \/ RecvOkay(s)
    \/ CloseMark(s) \/ CloseRemove(s) \/ ClosePost(s)

(* ... and what it may choose to do. *)
OwnerChoice(s) ==
    \/ Register(s)
    \/ \E n \in SendLens : BeginSend(s, n)
    \/ RecvTake(s) \/ RecvEnd(s)
    \/ BeginClose(s) \/ DropStream(s)
    \/ CancelOpen(s) \/ CancelSend(s)

Owner(s) == OwnerStep(s) \/ OwnerChoice(s)

CloseAll(a) == Drain(a) \/ Each(a) \/ MarkClosed(a) \/ TakeAndWake(a)

ReaderTask ==
    \/ ReaderOkay \/ AckCount \/ AckWake \/ ReaderWrite \/ ReaderClose
    \/ ReaderStray \/ ReaderFails \/ ReaderAborts
    \/ CloseAll("reader")

SessionThread == BeginSessionClose \/ CloseAll("session")

WriterTask == WriterSends \/ WriterAborts

DeviceReceives == DevOpen \/ DevWrite \/ DevOkay \/ DevClose

Device ==
    \/ DeviceReceives
    \/ \E r \in RemoteIds : DevOutput(r) \/ DevFinish(r)
    \/ \E cmd \in Strays : DevStray(cmd)

Next ==
    \/ \E s \in Streams : Owner(s)
    \/ ReaderTask \/ SessionThread \/ WriterTask
    \/ LinkDown \/ Device

Spec == Init /\ [][Next]_vars

(* The runtime polls a task that can run; a device reads what it is sent.   *)
(* Nobody is obliged to begin a call, to cancel one, or to fail.            *)
Fairness ==
    /\ \A s \in Streams : WF_vars(OwnerStep(s))
    /\ WF_vars(ReaderTask) /\ WF_vars(CloseAll("session"))
    /\ WF_vars(WriterTask) /\ WF_vars(DeviceReceives)

FairSpec == Spec /\ Fairness

=============================================================================
