---------------------------- MODULE SessionProps ----------------------------
(***************************************************************************)
(* What an established session must guarantee: to the owner of a stream,   *)
(* to the device, and to whoever waits.                                    *)
(***************************************************************************)
EXTENDS Session, FiniteSets

PcStates == {"idle", "post_open", "refuse", "acks", "closed", "park", "ids",
             "post_write", "okay", "close_mark", "close_remove", "close_post"}
LifeStates == {"unborn", "opening", "open", "refused", "disconnected", "orphan",
               "closed", "dropped"}
CloserStates == {"before", "recv", "count", "wake", "drain", "each", "mark",
                 "take", "stopped"}

TypeOKHost ==
    /\ nextId \in LocalIds
    /\ registry \in [LocalIds -> Streams \cup {NoStream}]
    /\ localId \in [Streams -> LocalIds]
    /\ remoteId \in [Streams -> Nat]
    /\ closed \in [Streams -> BOOLEAN]
    /\ acks \in [Streams -> Nat]
    /\ permit \in [Streams -> BOOLEAN]
    /\ dataTx \in [Streams -> BOOLEAN]

TypeOKCalls ==
    /\ pc \in [Streams -> PcStates]
    /\ life \in [Streams -> LifeStates]
    /\ rxLive \in [Streams -> BOOLEAN]
    /\ eof \in [Streams -> BOOLEAN]
    /\ sendRes \in [Streams -> {"none", "pending", "ok", "closed",
                                "disconnected", "cancelled"}]

(* A chunk of stream r's output, and its number. *)
ChunkType == Nat \X Nat

TypeOKQueues ==
    /\ dataQ \in [Streams -> Seq(ChunkType)]
    /\ hand \in [Streams -> Seq(ChunkType)]
    /\ got \in [Streams -> Seq(ChunkType)]

TypeOKCounts ==
    /\ seen \in [Streams -> Nat]
    /\ rest \in [Streams -> Nat]
    /\ writes \in [Streams -> Nat]
    /\ asked \in [Streams -> Nat]

TypeOKClosers ==
    /\ apc \in [Closers -> CloserStates]
    /\ cur \in [Closers -> Streams \cup {NoStream}]
    /\ \A a \in Closers :
          apc[a] \in {"count", "wake", "mark", "take"} => cur[a] \in Streams
    /\ todo \in [Closers -> SUBSET Streams]
    /\ readerErr \in BOOLEAN /\ aborted \in BOOLEAN

TypeOKLink ==
    /\ writer \in {"run", "stopped"} /\ link \in {"up", "down"}
    /\ outbox \in Seq(HostMessages) /\ h2d \in Seq(HostMessages)
    /\ d2h \in Seq(DeviceMessages)

TypeOKDevice ==
    /\ devNext \in Nat \ {0}
    /\ devSt \in [RemoteIds -> {"free", "open", "finished", "dropped"}]
    /\ devHost \in [RemoteIds -> LocalIds]
    /\ devInFlight \in [RemoteIds -> BOOLEAN]
    /\ devSent \in [RemoteIds -> Nat]
    /\ devBytes \in [RemoteIds -> Nat]
    /\ devRefused \subseteq LocalIds /\ strayed \in BOOLEAN

(* Every variable holds a value of its type; a task that is in the middle   *)
(* of serving a stream (ack, mark_closed) knows which.                      *)
TypeOK == /\ TypeOKHost /\ TypeOKCalls /\ TypeOKQueues /\ TypeOKCounts
          /\ TypeOKClosers /\ TypeOKLink /\ TypeOKDevice

-----------------------------------------------------------------------------
(* Flow control *)

(* Stream::send keeps one WRTE in flight per stream (stream.rs:16-17): the  *)
(* WRTEs posted on an open stream never run ahead of the OKAYs counted, of  *)
(* which the first belongs to the OPEN.                                     *)
OneWriteInFlight ==
    \A s \in Streams : life[s] = "open" => writes[s] <= acks[s]

IsFor(m, cmd, s) == m.cmd = cmd /\ m.arg0 = localId[s] /\ m.arg1 = remoteId[s]
IsTo(m, cmd, s)  == m.cmd = cmd /\ m.arg0 = remoteId[s] /\ m.arg1 = localId[s]

CountFor(q, cmd, s) == Cardinality({i \in DOMAIN q : IsFor(q[i], cmd, s)})
CountTo(q, cmd, s)  == Cardinality({i \in DOMAIN q : IsTo(q[i], cmd, s)})

(* Reads acknowledge each WRTE once the caller has taken the chunk, so that *)
(* the device never has more than one payload in flight (stream.rs:17-19).  *)
(* The device believes a payload unacknowledged exactly as long as it, or   *)
(* its OKAY, is in the link, the channel, recv's hand or the outbox: a lost *)
(* acknowledgement stalls a stream for good, a doubled one floods it.       *)
AcknowledgedOnce ==
    \A s \in Streams :
        /\ life[s] = "open" /\ ~closed[s] /\ registry[localId[s]] = s
        /\ link = "up" /\ writer = "run" /\ devSt[remoteId[s]] = "open"
        =>  CountTo(d2h, "WRTE", s) + Len(dataQ[s]) + Len(hand[s])
          + CountFor(outbox, "OKAY", s) + CountFor(h2d, "OKAY", s)
          = IF devInFlight[remoteId[s]] THEN 1 ELSE 0

-----------------------------------------------------------------------------
(* Wake-ups *)

(* A closer or the reader is past its store and before its notify_one. *)
WakeDue(s) == \E a \in Closers : cur[a] = s /\ apc[a] \in {"wake", "take"}

(* registry.rs:20 "waiters re-check state after each wake": whoever waits   *)
(* in wait_ack while what it waits for has happened has a permit to go on,  *)
(* or a notify_one is on its way.                                           *)
NoLostWakeup ==
    \A s \in Streams :
        /\ pc[s] \in {"closed", "park"} /\ acks[s] > seen[s]
              => permit[s] \/ WakeDue(s)
        /\ pc[s] = "park" /\ closed[s] => permit[s] \/ WakeDue(s)

-----------------------------------------------------------------------------
(* Routing and delivery *)

(* A stream that is not closed is found by the messages to it: the map has  *)
(* it under its id, or somebody who has taken it out of the map is about to *)
(* close it.  Otherwise its owner would wait for ever.                      *)
Reachable ==
    \A s \in Streams :
        life[s] \in {"opening", "open", "orphan"} /\ ~closed[s]
        /\ pc[s] \notin {"refuse"} =>
            \/ registry[localId[s]] = s
            \/ \E a \in Closers : s \in todo[a] \/ (cur[a] = s /\ apc[a] = "mark")

(* The two ends of an open stream agree on each other's id, neither is the  *)
(* zero that means "none" on the wire (registry.rs:11), and no two streams  *)
(* share one: each speaks to the service its OPEN started.                  *)
EndsAgree ==
    \A s \in Streams : remoteId[s] # 0 =>
        /\ remoteId[s] \in RemoteIds /\ localId[s] # 0
        /\ devHost[remoteId[s]] = localId[s]
        /\ \A t \in Streams : remoteId[t] = remoteId[s] => t = s

Chunks(r, n) == [i \in 1 .. n |-> <<r, i>>]

(* What recv has returned, has in hand and has still to come is the         *)
(* beginning of what this stream's service wrote: nothing of another        *)
(* stream, nothing twice, nothing left out, nothing out of order.           *)
DeliveredInOrder ==
    \A s \in Streams :
        LET in == got[s] \o hand[s] \o dataQ[s]
        IN  in = Chunks(remoteId[s], Len(in))

(* End of stream after an orderly close (no failure of the link, no         *)
(* Session::close, not closed by the caller): recv returns None only after  *)
(* every chunk the service wrote (channel.rs:13).                           *)
EndOfStreamIsComplete ==
    \A s \in Streams : life[s] = "open" /\ eof[s] =>
        /\ devSt[remoteId[s]] = "finished"
        /\ got[s] = Chunks(remoteId[s], devSent[remoteId[s]])

(* A send that returned Ok has delivered: the service holds every byte of   *)
(* every buffer handed to send on that stream so far.                       *)
SentMeansDelivered ==
    \A s \in Streams : sendRes[s] = "ok" =>
        devBytes[remoteId[s]] = asked[s]

-----------------------------------------------------------------------------
(* Liveness, under FairSpec *)

(* Nothing has ended the reader, neither its link nor an error; the session *)
(* is whole as long as the writer has not stopped either.                   *)
Reads == link = "up" /\ ~readerErr
Whole == Reads /\ writer = "run"

(* As long as the session is whole, every call of open_stream returns.      *)
OpenReturns ==
    \A s \in Streams : life[s] = "opening" ~> life[s] # "opening" \/ ~Whole

(* Every call of send returns, whether the device answers, closes the       *)
(* stream, sends what ends the reader, or the link fails.  Only a writer    *)
(* that stops alone leaves one waiting, which has posted its chunk, and     *)
(* only for as long as the reader reads on; one that has not posted yet is  *)
(* told (stream.rs:80).                                                     *)
Stranded(s) == writer = "stopped" /\ Reads /\ pc[s] \in {"acks", "closed", "park"}
SendReturns ==
    \A s \in Streams :
        sendRes[s] = "pending" /\ ~Stranded(s) ~> sendRes[s] # "pending" \/ Stranded(s)

(* close and Drop reach the device: a service whose stream the host has     *)
(* closed is told (close_now), and so is one that writes to a stream nobody *)
(* listens to any more (reader.rs:48), the one of a cancelled open included.*)
DeviceIsTold ==
    \A s \in Streams : \A r \in RemoteIds :
        /\ (life[s] \in {"closed", "dropped"} /\ remoteId[s] = r)
              ~> devSt[r] # "open" \/ ~Whole
        /\ (/\ life[s] = "orphan" /\ devHost[r] = localId[s]
            /\ \E i \in DOMAIN d2h : d2h[i].cmd = "WRTE" /\ d2h[i].arg0 = r)
              ~> devSt[r] # "open" \/ ~Whole

(* A reader that has ended, with the link or by an error, has closed every  *)
(* open stream: whoever waits in send or recv is let go (reader.rs:29).     *)
ReaderClosesStreams ==
    \A s \in Streams : (~Reads /\ life[s] = "open") ~>
        (closed[s] /\ ~dataTx[s]) \/ life[s] # "open"

-----------------------------------------------------------------------------
(* What the documents say and the code does not do *)

(* docs/architecture.md: an OKAY immediately followed by CLSE must read as  *)
(* "written, then closed", not as "closed while writing".                   *)
WrittenThenClosed ==
    \A s \in Streams : pc[s] = "closed" /\ closed[s] => acks[s] <= seen[s]

(* mod.rs:129, registry.rs:130: closing the session, and the loss of the    *)
(* transport, close every stream; no open is left waiting.                  *)
OpensEnd ==
    \A s \in Streams :
        (life[s] = "opening" /\ (apc["reader"] = "stopped" \/ aborted))
            ~> life[s] # "opening"

=============================================================================
