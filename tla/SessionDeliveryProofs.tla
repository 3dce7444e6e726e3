----------------------- MODULE SessionDeliveryProofs -----------------------
(***************************************************************************)
(* Theorems about the data of a stream: every chunk a service writes is in *)
(* one place, from the device's WRTE to the OKAY that answers it, and the  *)
(* places are passed in order; what a send that returned Ok was given is   *)
(* at the service; a stream ends after its last chunk; and, of all that,   *)
(* that a stream is a Channel (SessionChannel).  As in the second part of  *)
(* SessionProofs ids must not come round.                                  *)
(***************************************************************************)
EXTENDS SessionProofs, SessionChannel

-----------------------------------------------------------------------------
(* The inductive invariant *)

(* A chunk of r, the device's answer to an OPEN, the host's to a chunk.     *)
Carries(r, m) == m.cmd = "WRTE" /\ m.arg0 = r
Accepts(r, m) == m.cmd = "OKAY" /\ m.arg0 = r
Answers(r, m) == m.cmd = "OKAY" /\ m.arg1 = r

InDown(r) == \E k \in DOMAIN d2h : Carries(r, d2h[k])
InUp(r)   == \E k \in DOMAIN Upward : Answers(r, Upward[k])

OnceDown(r) ==
    \A k \in DOMAIN d2h : Carries(r, d2h[k]) =>
        /\ d2h[k].data = devSent[r]
        /\ \A j \in DOMAIN d2h : Carries(r, d2h[j]) => j = k

OnceUp(r) ==
    \A k, j \in DOMAIN Upward :
        Answers(r, Upward[k]) /\ Answers(r, Upward[j]) => j = k

(* All of r's output but the last chunk has been returned, and that one is  *)
(* not yet acknowledged.                                                    *)
AllButLast(r, s) == devInFlight[r] /\ Len(got[s]) + 1 = devSent[r]

(* The last chunk of r is in the link, in the stream's channel or in recv's *)
(* hand; or its OKAY is on the way; or the device has that.                 *)
Flow(r, s) ==
    /\ \A k \in DOMAIN got[s] : got[s][k] = <<r, k>>
    /\ OnceDown(r) /\ OnceUp(r)
    /\ InDown(r) => AllButLast(r, s) /\ hand[s] = <<>> /\ dataQ[s] = <<>> /\ ~InUp(r)
    /\ dataQ[s] # <<>> =>
          /\ dataQ[s] = << <<r, devSent[r]>> >>
          /\ AllButLast(r, s) /\ hand[s] = <<>> /\ ~InUp(r)
    /\ hand[s] # <<>> =>
          /\ hand[s] = << <<r, devSent[r]>> >>
          /\ AllButLast(r, s) /\ ~InUp(r)
    /\ InUp(r) => devInFlight[r] /\ Len(got[s]) = devSent[r]
    /\ ~devInFlight[r] => Len(got[s]) = devSent[r]

(* Before a stream has learnt its remote id no chunk can reach it: the OKAY *)
(* that tells the id is ahead of them.                                      *)
FirstOkay(r, s) ==
    registry[localId[s]] = s /\ remoteId[s] = 0 =>
        /\ link = "up" => \E j \in DOMAIN d2h : Accepts(r, d2h[j])
        /\ \A k \in DOMAIN d2h : Carries(r, d2h[k]) =>
              \E j \in 1 .. k - 1 : Accepts(r, d2h[j])

NothingYet(s) == got[s] = <<>> /\ hand[s] = <<>> /\ dataQ[s] = <<>>

HandFull(s) == pc[s] = "okay" <=> hand[s] # <<>>

(* From a stream to its service. *)
ToService(m) == \E s \in Born :
    m.arg0 = localId[s] /\ m.arg1 = remoteId[s] /\ remoteId[s] # 0

Unaddressed == \A s \in Streams : remoteId[s] = 0 => NothingYet(s)
Unstarted == \A r \in RemoteIds : ~Started(r) => devSent[r] = 0 /\ ~devInFlight[r]
UpwardMatch ==
    \A k \in DOMAIN Upward : Upward[k].cmd \in {"OKAY", "WRTE"} => ToService(Upward[k])
Flows == \A r \in RemoteIds, s \in Streams : Serves(r, s) => Flow(r, s) /\ FirstOkay(r, s)

FlowInv == /\ PeersInv
           /\ Unaddressed /\ (\A s \in Streams : HandFull(s)) /\ Unstarted
           /\ UpwardMatch /\ Flows

-----------------------------------------------------------------------------
(* Steps that move no chunk of r on *)

DownQuiet(r) ==
    \/ Slice(d2h', d2h)
    \/ \E m : ~Carries(r, m) /\ Grown(d2h', d2h, m)

UpQuiet(r) ==
    \/ Slice(Upward', Upward)
    \/ \E m : ~Answers(r, m) /\ Grown(Upward', Upward, m)

LEMMA Domains ==
    ASSUME TypeOK
    PROVE  /\ DOMAIN d2h = 1 .. Len(d2h) /\ Len(d2h) \in Nat
           /\ DOMAIN Upward = 1 .. Len(Upward) /\ Len(Upward) \in Nat
BY UpwardTyped, LenProperties DEF TypeOK, TypeOKLink

LEMMA DomainsPrimed ==
    ASSUME TypeOK'
    PROVE  /\ DOMAIN d2h' = 1 .. Len(d2h') /\ Len(d2h') \in Nat
           /\ DOMAIN Upward' = 1 .. Len(Upward') /\ Len(Upward') \in Nat
<1>1. d2h' \in Seq(DeviceMessages) /\ h2d' \in Seq(HostMessages) /\ outbox' \in Seq(HostMessages)
  BY DEF TypeOK, TypeOKLink
<1>2. Upward' \in Seq(HostMessages)
  BY <1>1, ConcatProperties DEF Upward
<1>. QED
  BY <1>1, <1>2, LenProperties

LEMMA DownShrinks ==
    ASSUME TypeOK, TypeOK', NEW r \in RemoteIds, OnceDown(r), DownQuiet(r),
           devSent'[r] = devSent[r]
    PROVE  OnceDown(r)' /\ (InDown(r)' => InDown(r))
<1>1. CASE Slice(d2h', d2h)
  <2>1. PICK d \in Nat : /\ Len(d2h') + d <= Len(d2h)
                         /\ \A i \in 1 .. Len(d2h') : d2h'[i] = d2h[i + d]
    BY <1>1 DEF Slice
  <2>2. \A k \in DOMAIN d2h' : k + d \in DOMAIN d2h /\ d2h'[k] = d2h[k + d] /\ k \in Nat
    BY <2>1, Domains, DomainsPrimed
  <2>. QED
    BY <2>2 DEF OnceDown, InDown, Carries
<1>2. ASSUME NEW m, ~Carries(r, m), Grown(d2h', d2h, m)
      PROVE  OnceDown(r)' /\ (InDown(r)' => InDown(r))
  <2>1. \A k \in DOMAIN d2h' : Carries(r, d2h'[k]) => k \in DOMAIN d2h /\ d2h'[k] = d2h[k]
    BY <1>2, Domains, DomainsPrimed DEF Grown
  <2>. QED
    BY <2>1 DEF OnceDown, InDown, Carries
<1>. QED
  BY <1>1, <1>2 DEF DownQuiet

LEMMA UpShrinks ==
    ASSUME TypeOK, TypeOK', NEW r \in RemoteIds, OnceUp(r), UpQuiet(r)
    PROVE  OnceUp(r)' /\ (InUp(r)' => InUp(r))
<1>1. CASE Slice(Upward', Upward)
  <2>1. PICK d \in Nat : /\ Len(Upward') + d <= Len(Upward)
                         /\ \A i \in 1 .. Len(Upward') : Upward'[i] = Upward[i + d]
    BY <1>1 DEF Slice
  <2>2. \A k \in DOMAIN Upward' :
           k + d \in DOMAIN Upward /\ Upward'[k] = Upward[k + d] /\ k \in Nat
    BY <2>1, Domains, DomainsPrimed
  <2>. QED
    BY <2>2 DEF OnceUp, InUp, Answers
<1>2. ASSUME NEW m, ~Answers(r, m), Grown(Upward', Upward, m)
      PROVE  OnceUp(r)' /\ (InUp(r)' => InUp(r))
  <2>1. \A k \in DOMAIN Upward' :
           Answers(r, Upward'[k]) => k \in DOMAIN Upward /\ Upward'[k] = Upward[k]
    BY <1>2, Domains, DomainsPrimed DEF Grown
  <2>. QED
    BY <2>1 DEF OnceUp, InUp, Answers
<1>. QED
  BY <1>1, <1>2 DEF UpQuiet

LEMMA FlowFrame ==
    ASSUME TypeOK, TypeOK', NEW r \in RemoteIds, NEW s \in Streams, Flow(r, s),
           DownQuiet(r), UpQuiet(r), got'[s] = got[s],
           hand'[s] \in {hand[s], <<>>}, dataQ'[s] \in {dataQ[s], <<>>},
           devSent'[r] = devSent[r], devInFlight'[r] = devInFlight[r]
    PROVE  Flow(r, s)'
<1>1. /\ OnceDown(r)' /\ (InDown(r)' => InDown(r))
      /\ OnceUp(r)' /\ (InUp(r)' => InUp(r))
  BY DownShrinks, UpShrinks DEF Flow
<1>. QED
  BY <1>1 DEF Flow, AllButLast

-----------------------------------------------------------------------------
(* The steps of a chunk *)

(* 1: the service writes. *)
LEMMA ChunkSent ==
    ASSUME TypeOK, TypeOK', NEW r \in RemoteIds, NEW s \in Streams, Flow(r, s),
           DevOutput(r)
    PROVE  Flow(r, s)'
<1>. DEFINE n == Len(d2h)
<1>1. PICK m : m = Msg("WRTE", r, devHost[r], devSent[r] + 1)
  OBVIOUS
<1>2. Carries(r, m) /\ m.data = devSent[r] + 1
  BY <1>1 DEF Carries, Msg
<1>3. /\ devSent'[r] = devSent[r] + 1 /\ devInFlight'[r] = TRUE
      /\ ~devInFlight[r] /\ devSent[r] \in Nat
      /\ UNCHANGED <<got, hand, dataQ, h2d, outbox>>
      /\ Upward' = Upward /\ d2h' = Append(d2h, m) /\ d2h \in Seq(DeviceMessages)
  BY <1>1 DEF DevOutput, DeviceSends, TypeOK, TypeOKDevice, TypeOKLink, streamVars, ownerVars,
         recvVars, writerVars, Upward
<1>4. /\ Len(got[s]) = devSent[r] /\ hand[s] = <<>> /\ dataQ[s] = <<>>
      /\ ~InDown(r) /\ ~InUp(r)
  BY <1>3 DEF Flow, AllButLast
<1>5. /\ DOMAIN d2h = 1 .. n /\ n \in Nat /\ DOMAIN d2h' = 1 .. n + 1
      /\ d2h'[n + 1] = m /\ \A k \in 1 .. n : d2h'[k] = d2h[k]
  BY <1>3
<1>6. \A k \in DOMAIN d2h' : Carries(r, d2h'[k]) => k = n + 1
  BY <1>4, <1>5 DEF InDown
<1>7. OnceDown(r)'
  BY <1>2, <1>3, <1>5, <1>6 DEF OnceDown, Carries
<1>8. OnceUp(r)' /\ ~InUp(r)'
  BY <1>3, <1>4 DEF OnceUp, InUp, Answers, Flow
<1>. QED
  BY <1>3, <1>4, <1>7, <1>8 DEF Flow, AllButLast

(* What the reader takes is the oldest of d2h. *)
LEMMA RecvTakes ==
    ASSUME TypeOK, NEW cmd, Recv(cmd)
    PROVE  /\ d2h # <<>> /\ 1 \in DOMAIN d2h /\ Head(d2h) = d2h[1] /\ Head(d2h).cmd = cmd
           /\ Head(d2h).arg1 \in LocalIds /\ Head(d2h).arg0 \in Nat /\ Head(d2h).data \in Nat
           /\ Len(d2h') = Len(d2h) - 1
           /\ \A k \in 1 .. Len(d2h') : d2h'[k] = d2h[k + 1]
           /\ Slice(d2h', d2h)
<1>1. /\ d2h # <<>> /\ d2h \in Seq(DeviceMessages) /\ d2h' = Tail(d2h)
      /\ Head(d2h).cmd = cmd
  BY DEF Recv, TypeOK, TypeOKLink
<1>2. Len(d2h) \in Nat /\ Len(d2h) # 0 /\ DOMAIN d2h = 1 .. Len(d2h)
  BY <1>1, LenProperties, EmptySeq
<1>3. Head(d2h) = d2h[1] /\ 1 \in DOMAIN d2h
  BY <1>1, <1>2
<1>4. Head(d2h) \in DeviceMessages
  BY <1>1
<1>. QED
  BY <1>1, <1>3, <1>4, HeadTailProperties, TailSlice DEF DeviceMessages

(* A chunk is addressed to the stream its service was started for. *)
LEMMA ChunkAddressed ==
    ASSUME PeersInv, NEW cmd \in {"OKAY", "WRTE"}, Recv(cmd)
    PROVE  /\ FromService(Head(d2h)) /\ Head(d2h).arg0 \in RemoteIds
           /\ Addressee \in Streams \cup {NoStream}
           /\ Addressee # NoStream => Serves(Head(d2h).arg0, Addressee)
<1>1. TypeOK /\ Allocated /\ MessagesMatch
  BY DEF PeersInv, RoutingInv, Peers
<1>2. FromService(Head(d2h)) /\ Head(d2h).arg1 \in LocalIds
  BY <1>1, RecvTakes DEF MessagesMatch
<1>. QED
  BY <1>1, <1>2 DEF FromService, Addressee, Serves, Allocated, Born, TypeOK, TypeOKHost

(* 2: the reader takes the chunk off the link, and queues it for the stream.*)
LEMMA ChunkQueued ==
    ASSUME TypeOK, TypeOK', NEW r \in RemoteIds, NEW s \in Streams, Flow(r, s),
           Recv("WRTE"), Head(d2h).arg0 = r, UNCHANGED <<outbox, deviceVars, got, hand>>,
           dataQ'[s] = Append(dataQ[s], <<r, Head(d2h).data>>)
    PROVE  Flow(r, s)'
<1>1. /\ 1 \in DOMAIN d2h /\ Carries(r, d2h[1]) /\ Head(d2h) = d2h[1]
      /\ Len(d2h') = Len(d2h) - 1 /\ \A k \in 1 .. Len(d2h') : d2h'[k] = d2h[k + 1]
  BY RecvTakes DEF Carries
<1>2. /\ InDown(r) /\ AllButLast(r, s) /\ hand[s] = <<>> /\ dataQ[s] = <<>> /\ ~InUp(r)
      /\ Head(d2h).data = devSent[r]
  BY <1>1 DEF InDown, Flow, OnceDown
<1>3. dataQ'[s] = << <<r, devSent[r]>> >>
  BY <1>2
<1>4. ~InDown(r)' /\ OnceDown(r)'
  <2>1. \A k \in DOMAIN d2h' : k + 1 \in DOMAIN d2h /\ k + 1 # 1 /\ d2h'[k] = d2h[k + 1]
    BY <1>1, Domains, DomainsPrimed
  <2>2. \A k \in DOMAIN d2h' : ~Carries(r, d2h'[k])
    BY <1>1, <2>1 DEF Flow, OnceDown
  <2>. QED
    BY <2>2 DEF InDown, OnceDown, Carries
<1>5. OnceUp(r)' /\ ~InUp(r)'
  BY <1>2 DEF Recv, Upward, Flow, OnceUp, InUp, Answers
<1>. QED
  BY <1>2, <1>3, <1>4, <1>5 DEF Flow, AllButLast, deviceVars

(* 3: recv takes the chunk, and returns one of a closed stream at once.     *)
LEMMA ChunkTaken ==
    ASSUME TypeOK, TypeOK', NEW r \in RemoteIds, NEW s \in Streams, Flow(r, s),
           RecvTake(s)
    PROVE  Flow(r, s)'
<1>1. /\ dataQ[s] = << <<r, devSent[r]>> >>
      /\ AllButLast(r, s) /\ hand[s] = <<>> /\ ~InUp(r) /\ ~InDown(r)
      /\ \A k \in DOMAIN got[s] : got[s][k] = <<r, k>>
  BY DEF RecvTake, Flow
<1>2. /\ UNCHANGED <<h2d, outbox, d2h, deviceVars>> /\ Upward' = Upward
      /\ dataQ'[s] = <<>> /\ Head(dataQ[s]) = <<r, devSent[r]>>
  BY <1>1 DEF RecvTake, PoppedQ, taskVars, linkVars, writerVars, Upward, TypeOK, TypeOKQueues
<1>3. OnceDown(r)' /\ OnceUp(r)' /\ ~InUp(r)' /\ ~InDown(r)'
  BY <1>1, <1>2 DEF OnceDown, OnceUp, InUp, InDown, Answers, Flow, deviceVars
<1>4. got[s] \in Seq(ChunkType) /\ Len(got[s]) \in Nat
  BY LenProperties DEF TypeOK, TypeOKQueues
<1>5. CASE hand'[s] = << <<r, devSent[r]>> >> /\ got' = got
  BY <1>1, <1>2, <1>3, <1>5 DEF Flow, AllButLast, deviceVars
<1>6. CASE hand' = hand /\ got'[s] = Append(got[s], <<r, devSent[r]>>)
  <2>1. /\ Len(got'[s]) = Len(got[s]) + 1 /\ DOMAIN got'[s] = 1 .. Len(got[s]) + 1
        /\ got'[s][Len(got[s]) + 1] = <<r, devSent[r]>>
        /\ DOMAIN got[s] = 1 .. Len(got[s])
        /\ \A k \in 1 .. Len(got[s]) : got'[s][k] = got[s][k]
    BY <1>4, <1>6
  <2>2. \A k \in DOMAIN got'[s] : got'[s][k] = <<r, k>>
    BY <1>1, <1>4, <2>1 DEF AllButLast
  <2>. QED
    BY <1>1, <1>2, <1>3, <1>4, <1>6, <2>1, <2>2 DEF Flow, AllButLast, deviceVars
<1>. QED
  BY <1>2, <1>5, <1>6 DEF RecvTake, TypeOK, TypeOKQueues

(* 4: recv acknowledges it and returns it. *)
LEMMA ChunkReturned ==
    ASSUME TypeOK, TypeOK', NEW r \in RemoteIds, NEW s \in Streams, Flow(r, s),
           RecvOkay(s), hand[s] # <<>>, remoteId[s] = r
    PROVE  Flow(r, s)'
<1>1. /\ hand[s] = << <<r, devSent[r]>> >> /\ dataQ[s] = <<>>
      /\ AllButLast(r, s) /\ ~InUp(r) /\ ~InDown(r)
      /\ \A k \in DOMAIN got[s] : got[s][k] = <<r, k>>
  BY DEF Flow
<1>2. /\ UNCHANGED <<h2d, d2h, deviceVars>> /\ dataQ' = dataQ /\ hand'[s] = <<>>
  BY DEF RecvOkay, linkVars, TypeOK, TypeOKQueues
<1>3. OnceDown(r)' /\ ~InDown(r)'
  BY <1>1, <1>2 DEF OnceDown, InDown, Flow, deviceVars
<1>4. CASE Upward' = Upward /\ got' = got
  <2>1. OnceUp(r)' /\ ~InUp(r)'
    BY <1>1, <1>4 DEF OnceUp, InUp, Flow, Answers
  <2>. QED
    BY <1>1, <1>2, <1>3, <1>4, <2>1 DEF Flow, AllButLast, deviceVars
<1>5. CASE Grown(Upward', Upward, OkayFor(s)) /\ got'[s] = got[s] \o hand[s]
  <2>1. got[s] \in Seq(ChunkType) /\ Len(got[s]) \in Nat
    BY LenProperties DEF TypeOK, TypeOKQueues
  <2>2. /\ Len(got'[s]) = Len(got[s]) + 1 /\ DOMAIN got'[s] = 1 .. Len(got[s]) + 1
        /\ got'[s][Len(got[s]) + 1] = <<r, devSent[r]>>
        /\ DOMAIN got[s] = 1 .. Len(got[s])
        /\ \A k \in 1 .. Len(got[s]) : got'[s][k] = got[s][k]
    BY <1>1, <1>5, <2>1
  <2>3. \A k \in DOMAIN got'[s] : got'[s][k] = <<r, k>>
    BY <1>1, <2>1, <2>2 DEF AllButLast
  <2>4. \A k \in DOMAIN Upward' : Answers(r, Upward'[k]) => k = Len(Upward) + 1
    BY <1>1, <1>5, Domains, DomainsPrimed DEF Grown, InUp
  <2>5. OnceUp(r)'
    BY <2>4 DEF OnceUp, Answers
  <2>6. devInFlight'[r] /\ Len(got'[s]) = devSent'[r]
    BY <1>1, <1>2, <2>2 DEF AllButLast, deviceVars
  <2>. QED
    BY <1>1, <1>2, <1>3, <2>3, <2>5, <2>6 DEF Flow
<1>. QED
  <2>1. OkayFor(s) \in HostMessages
    BY DEF OkayFor, Msg, HostMessages, Commands, TypeOK, TypeOKHost
  <2>2. Post(OkayFor(s)) => Grown(Upward', Upward, OkayFor(s))
    BY <1>2, <2>1, PostGrows DEF TypeOK
  <2>. QED
    BY <1>2, <1>4, <1>5, <2>2 DEF RecvOkay, PostFails, writerVars, Upward, TypeOK, TypeOKQueues

(* 5: the device takes the OKAY, and the service may write again. *)
LEMMA ChunkAnswered ==
    ASSUME TypeOK, TypeOK', NEW r \in RemoteIds, NEW s \in Streams, Flow(r, s), DevOkay
    PROVE  Flow(r, s)'
<1>1. /\ 1 \in DOMAIN Upward /\ Upward[1] = Head(h2d) /\ Head(h2d).cmd = "OKAY"
      /\ Len(Upward') = Len(Upward) - 1
      /\ \A k \in 1 .. Len(Upward') : Upward'[k] = Upward[k + 1]
  BY GetsSlice DEF DevOkay, TypeOK, writerVars
<1>2. UNCHANGED <<got, hand, dataQ, d2h, devSent>>
  BY DEF DevOkay, streamVars, ownerVars, recvVars
<1>3. \A k \in DOMAIN Upward' : k + 1 \in DOMAIN Upward /\ k + 1 # 1 /\ Upward'[k] = Upward[k + 1]
  BY <1>1, Domains, DomainsPrimed
<1>4. OnceUp(r)' /\ (InUp(r)' => InUp(r))
  <2>1. \A k, j \in DOMAIN Upward' : k + 1 = j + 1 => k = j
    BY DomainsPrimed
  <2>. QED
    BY <1>3, <2>1 DEF OnceUp, InUp, Answers, Flow
<1>5. OnceDown(r)' /\ InDown(r)' = InDown(r)
  BY <1>2 DEF OnceDown, InDown, Flow
<1>6. CASE Head(h2d).arg1 = r
  <2>1. InUp(r) /\ ~InUp(r)'
    BY <1>1, <1>3, <1>6 DEF InUp, Answers, Flow, OnceUp
  <2>. QED
    BY <1>2, <1>4, <1>5, <2>1 DEF Flow, AllButLast
<1>7. CASE Head(h2d).arg1 # r
  <2>1. devInFlight'[r] = devInFlight[r]
    BY <1>7 DEF DevOkay, TypeOK, TypeOKDevice
  <2>. QED
    BY <1>2, <1>4, <1>5, <2>1 DEF Flow, AllButLast
<1>. QED
  BY <1>6, <1>7

-----------------------------------------------------------------------------
(* Who serves whom *)

(* No stream is served by an older service's id. *)
LEMMA ServesBack ==
    ASSUME IdsSuffice, PeersInv, [Next]_vars, NEW r \in RemoteIds, NEW t \in Streams,
           Started(r)' = Started(r), devHost'[r] = devHost[r], Serves(r, t)'
    PROVE  Serves(r, t)
<1>1. TypeOK /\ Allocated /\ Phases /\ ServicesKnown
  BY DEF PeersInv, RoutingInv, Peers
<1>2. Started(r) /\ t \in Born' /\ localId'[t] = devHost[r]
  BY DEF Serves
<1>3. CASE RegistryKept
  BY <1>2, <1>3 DEF RegistryKept, Serves
<1>4. ASSUME NEW s \in Streams, Register(s) PROVE Serves(r, t)
  <2>1. life[s] = "unborn" /\ s \notin Born
    BY <1>4 DEF Register, Born
  <2>2. PICK u \in Born : localId[u] = devHost[r]
    BY <1>1, <1>2 DEF ServicesKnown, HasPosted
  <2>3. devHost[r] # FreshId
    BY <1>1, <2>1, <2>2, FreshIdFree
  <2>4. t # s /\ localId'[t] = localId[t] /\ t \in Born
    BY <1>1, <1>2, <1>4, <2>3 DEF Register, Born, TypeOK, TypeOKHost, TypeOKCalls
  <2>. QED
    BY <1>2, <2>4 DEF Serves
<1>. QED
  BY <1>1, <1>3, <1>4, RegistryStep

LEMMA ServesOne ==
    ASSUME Allocated, NEW r, NEW s, NEW t, Serves(r, s), Serves(r, t)
    PROVE  s = t
BY DEF Serves, Allocated

LEMMA RemoteServes ==
    ASSUME PeersInv, NEW s \in Streams, remoteId[s] # 0
    PROVE  remoteId[s] \in RemoteIds /\ Serves(remoteId[s], s)
BY DEF PeersInv, Peers, RemotesMatch

(* Nothing is entered in the map for a stream that is already born. *)
LEMMA RegisteredBack ==
    ASSUME TypeOK, Phases, [Next]_vars, NEW t \in Born, registry'[localId'[t]] = t
    PROVE  registry[localId[t]] = t /\ localId'[t] = localId[t]
<1>1. t # NoStream /\ localId[t] \in LocalIds
  BY StreamsAssumption DEF Born, TypeOK, TypeOKHost
<1>2. CASE RegistryKept
  BY <1>1, <1>2 DEF RegistryKept
<1>3. ASSUME NEW s \in Streams, Register(s)
      PROVE  registry[localId[t]] = t /\ localId'[t] = localId[t]
  BY <1>1, <1>3 DEF Register, Born, TypeOK, TypeOKHost
<1>. QED
  BY <1>2, <1>3, RegistryStep

LEMMA RemoteKept ==
    ASSUME TypeOK, [Next]_vars, NEW t \in Streams, remoteId[t] # 0
    PROVE  remoteId'[t] = remoteId[t]
<1>1. CASE UNCHANGED vars
  BY <1>1 DEF vars, streamVars, stateVars
<1>. QED
  BY <1>1, OwnerKeepsRemotes, TasksKeepRemotes DEF Next

(* The map and the id apart, a stream's first OKAY depends on the link only.*)
LEMMA FirstOkayFrame ==
    ASSUME TypeOK, TypeOK', Phases, [Next]_vars, NEW r \in RemoteIds, NEW t \in Born,
           FirstOkay(r, t), link' = "up" => link = "up",
           \/ d2h' = d2h
           \/ \E m : Grown(d2h', d2h, m) /\ (Carries(r, m) => link = "up")
    PROVE  FirstOkay(r, t)'
<1>1. SUFFICES ASSUME registry'[localId'[t]] = t, remoteId'[t] = 0
               PROVE  (/\ link = "up" => \E j \in DOMAIN d2h : Accepts(r, d2h[j])
                       /\ \A k \in DOMAIN d2h : Carries(r, d2h[k]) =>
                             \E j \in 1 .. k - 1 : Accepts(r, d2h[j]))'
  BY DEF FirstOkay
<1>2. registry[localId[t]] = t /\ remoteId[t] = 0
  BY <1>1, RegisteredBack, RemoteKept DEF Born
<1>3. /\ link = "up" => \E j \in DOMAIN d2h : Accepts(r, d2h[j])
      /\ \A k \in DOMAIN d2h : Carries(r, d2h[k]) =>
            \E j \in 1 .. k - 1 : Accepts(r, d2h[j])
  BY <1>2 DEF FirstOkay
<1>4. CASE d2h' = d2h
  BY <1>3, <1>4 DEF Accepts, Carries
<1>5. ASSUME NEW m, Grown(d2h', d2h, m), Carries(r, m) => link = "up"
      PROVE  (/\ link = "up" => \E j \in DOMAIN d2h : Accepts(r, d2h[j])
              /\ \A k \in DOMAIN d2h : Carries(r, d2h[k]) =>
                    \E j \in 1 .. k - 1 : Accepts(r, d2h[j]))'
  <2>1. /\ DOMAIN d2h = 1 .. Len(d2h) /\ DOMAIN d2h' = 1 .. Len(d2h) + 1
        /\ Len(d2h) \in Nat /\ d2h'[Len(d2h) + 1] = m
        /\ \A k \in 1 .. Len(d2h) : d2h'[k] = d2h[k]
    BY <1>5, Domains, DomainsPrimed DEF Grown
  <2>2. \A j \in DOMAIN d2h : Accepts(r, d2h[j]) => j \in DOMAIN d2h' /\ Accepts(r, d2h'[j])
    BY <2>1
  <2>3. ASSUME NEW k \in DOMAIN d2h', Carries(r, d2h'[k])
        PROVE  \E j \in 1 .. k - 1 : Accepts(r, d2h'[j])
    <3>1. CASE k \in DOMAIN d2h
      <4>1. PICK j \in 1 .. k - 1 : Accepts(r, d2h[j])
        BY <1>3, <2>1, <2>3, <3>1
      <4>2. j \in DOMAIN d2h
        BY <2>1, <3>1
      <4>. QED
        BY <2>2, <4>1, <4>2
    <3>2. CASE k = Len(d2h) + 1
      <4>1. PICK j \in DOMAIN d2h : Accepts(r, d2h[j])
        BY <1>3, <1>5, <2>1, <2>3, <3>2
      <4>. QED
        BY <2>1, <2>2, <3>2, <4>1
    <3>. QED
      BY <2>1, <3>1, <3>2
  <2>. QED
    BY <1>3, <2>2, <2>3 DEF Accepts, Carries
<1>. QED
  BY <1>4, <1>5

(* A message read is either not the OKAY waited for, or that and the stream *)
(* learns its remote id.                                                    *)
LEMMA FirstOkayRecv ==
    ASSUME TypeOK, TypeOK', PeersInv, [Next]_vars, NEW r \in RemoteIds, NEW t \in Born,
           Serves(r, t), FirstOkay(r, t), NEW cmd, Recv(cmd),
           cmd = "OKAY" => ReaderOkay
    PROVE  FirstOkay(r, t)'
<1>1. SUFFICES ASSUME registry'[localId'[t]] = t, remoteId'[t] = 0
               PROVE  (/\ link = "up" => \E j \in DOMAIN d2h : Accepts(r, d2h[j])
                       /\ \A k \in DOMAIN d2h : Carries(r, d2h[k]) =>
                             \E j \in 1 .. k - 1 : Accepts(r, d2h[j]))'
  BY DEF FirstOkay
<1>2. registry[localId[t]] = t /\ remoteId[t] = 0
  BY <1>1, RegisteredBack, RemoteKept DEF Born, PeersInv, RoutingInv
<1>3. /\ link = "up" => \E j \in DOMAIN d2h : Accepts(r, d2h[j])
      /\ \A k \in DOMAIN d2h : Carries(r, d2h[k]) =>
            \E j \in 1 .. k - 1 : Accepts(r, d2h[j])
  BY <1>2 DEF FirstOkay
<1>4. /\ 1 \in DOMAIN d2h /\ Head(d2h) = d2h[1] /\ Head(d2h).cmd = cmd
      /\ Len(d2h') = Len(d2h) - 1 /\ \A k \in 1 .. Len(d2h') : d2h'[k] = d2h[k + 1]
  BY RecvTakes
<1>5. ~Accepts(r, d2h[1])
  <2>1. SUFFICES ASSUME Accepts(r, d2h[1]) PROVE FALSE
    OBVIOUS
  <2>2. Recv("OKAY") /\ ReaderOkay /\ Head(d2h).arg0 = r
    BY <1>4, <2>1 DEF Accepts
  <2>3. FromService(Head(d2h))
    BY <2>2, ChunkAddressed
  <2>4. Addressee = t
    BY <1>2, <2>2, <2>3 DEF FromService, Serves, Addressee
  <2>5. remoteId'[t] = r
    BY <1>2, <2>2, <2>4, StreamsAssumption DEF ReaderOkay, Born, TypeOK, TypeOKHost
  <2>. QED
    BY <1>1, <2>5, RemoteIdsAssumption
<1>6. link' = link
  BY DEF Recv
<1>7. /\ DOMAIN d2h = 1 .. Len(d2h) /\ DOMAIN d2h' = 1 .. Len(d2h) - 1 /\ Len(d2h) \in Nat
      /\ \A k \in DOMAIN d2h' : k + 1 \in DOMAIN d2h /\ d2h'[k] = d2h[k + 1]
  BY <1>4, Domains, DomainsPrimed
<1>8. \A j \in DOMAIN d2h : Accepts(r, d2h[j]) =>
         j - 1 \in DOMAIN d2h' /\ Accepts(r, d2h'[j - 1])
  <2>1. ASSUME NEW j \in DOMAIN d2h, Accepts(r, d2h[j])
        PROVE  j - 1 \in DOMAIN d2h' /\ Accepts(r, d2h'[j - 1])
    <3>1. j # 1
      BY <1>5, <2>1
    <3>2. j - 1 \in DOMAIN d2h' /\ (j - 1) + 1 = j
      BY <1>7, <3>1
    <3>. QED
      BY <1>7, <2>1, <3>2
  <2>. QED
    BY <2>1
<1>9. ASSUME NEW k \in DOMAIN d2h', Carries(r, d2h'[k])
      PROVE  \E j \in 1 .. k - 1 : Accepts(r, d2h'[j])
  <2>1. PICK j \in 1 .. (k + 1) - 1 : Accepts(r, d2h[j])
    BY <1>3, <1>7, <1>9
  <2>2. j \in DOMAIN d2h /\ j # 1 /\ k \in Nat
    BY <1>5, <1>7, <2>1
  <2>. QED
    BY <1>8, <2>1, <2>2
<1>. QED
  BY <1>3, <1>6, <1>8, <1>9 DEF Accepts, Carries

-----------------------------------------------------------------------------
(* The steps of the owners *)

(* Only recv moves chunks; a stream that is given up drops its queue. *)
LEMMA OwnerMoves ==
    ASSUME TypeOK, NEW s \in Streams, NEW t \in Streams, Owner(s),
           ~(s = t /\ (RecvTake(s) \/ RecvOkay(s)))
    PROVE  /\ got'[t] = got[t] /\ hand'[t] = hand[t]
           /\ dataQ'[t] \in {dataQ[t], <<>>}
           /\ life'[t] \in {"opening", "open"} => dataQ'[t] = dataQ[t]
<1>. USE DEF TypeOK, TypeOKQueues, TypeOKCalls, recvVars
<1>1. CASE RecvTake(s)
  BY <1>1 DEF RecvTake
<1>2. CASE RecvOkay(s)
  BY <1>2 DEF RecvOkay
<1>3. CASE Register(s) \/ PostOpen(s) \/ Refuse(s) \/ CancelOpen(s) \/ DropStream(s)
  BY <1>3 DEF Register, PostOpen, Refuse, CancelOpen, DropStream
<1>4. CASE Acked(s) \/ NotAcked(s) \/ WaitFails(s) \/ WaitOn(s) \/ Woken(s) \/ CancelSend(s)
  BY <1>4 DEF Acked, NotAcked, WaitFails, WaitOn, Woken, CancelSend
<1>5. CASE (\E n \in SendLens : BeginSend(s, n)) \/ WriteIds(s) \/ PostWrite(s)
  BY <1>5 DEF BeginSend, WriteIds, PostWrite
<1>6. CASE RecvEnd(s) \/ BeginClose(s) \/ CloseMark(s) \/ CloseRemove(s) \/ ClosePost(s)
  BY <1>6 DEF RecvEnd, BeginClose, CloseMark, CloseRemove, ClosePost
<1>. QED
  BY <1>1, <1>2, <1>3, <1>4, <1>5, <1>6 DEF Owner, OwnerStep, OwnerChoice

LEMMA HandOwner ==
    ASSUME TypeOK, NEW s \in Streams, Phase(s), HandFull(s), Owner(s)
    PROVE  HandFull(s)'
<1>. USE DEF HandFull, TypeOK, TypeOKQueues, TypeOKCalls, recvVars
<1>1. CASE RecvTake(s)
  <2>1. CASE pc'[s] = "okay" /\ hand'[s] = <<Head(dataQ[s])>>
    BY <2>1
  <2>2. CASE pc' = pc /\ hand' = hand
    BY <2>2
  <2>. QED
    BY <1>1, <2>1, <2>2 DEF RecvTake
<1>2. CASE RecvOkay(s)
  BY <1>2 DEF RecvOkay
<1>3. CASE Register(s)
  BY <1>3 DEF Register, Phase
<1>4. CASE PostOpen(s) \/ Refuse(s) \/ CancelOpen(s) \/ DropStream(s)
  BY <1>4 DEF PostOpen, Refuse, CancelOpen, DropStream
<1>5. CASE Acked(s) \/ NotAcked(s) \/ WaitFails(s) \/ WaitOn(s) \/ Woken(s) \/ CancelSend(s)
  BY <1>5 DEF Acked, NotAcked, WaitFails, WaitOn, Woken, CancelSend
<1>6. CASE (\E n \in SendLens : BeginSend(s, n)) \/ WriteIds(s) \/ PostWrite(s)
  BY <1>6 DEF BeginSend, WriteIds, PostWrite
<1>7. CASE RecvEnd(s) \/ BeginClose(s) \/ CloseMark(s) \/ CloseRemove(s) \/ ClosePost(s)
  BY <1>7 DEF RecvEnd, BeginClose, CloseMark, CloseRemove, ClosePost
<1>. QED
  BY <1>1, <1>2, <1>3, <1>4, <1>5, <1>6, <1>7 DEF Owner, OwnerStep, OwnerChoice

(* Only the owner of s answers the chunks of its service. *)
LEMMA OwnerAnswers ==
    ASSUME PeersInv, NEW s \in Streams, Owner(s), NEW r \in RemoteIds, NEW t \in Streams,
           Serves(r, t), ~(s = t /\ RecvOkay(s))
    PROVE  UpQuiet(r)
<1>1. TypeOK /\ Allocated /\ Phase(s)
  BY DEF PeersInv, RoutingInv, Phases
<1>2. CASE Upward' = Upward
  BY <1>1, <1>2, SameSlice, UpwardTyped DEF UpQuiet, TypeOK
<1>3. ASSUME NEW m, ~Answers(r, m), Grown(Upward', Upward, m) PROVE UpQuiet(r)
  BY <1>3 DEF UpQuiet
<1>4. /\ ~Answers(r, Msg("WRTE", localId[s], remoteId[s], ChunkLen(s)))
      /\ ~Answers(r, Msg("OPEN", localId[s], 0, OpenLen)) /\ ~Answers(r, CloseFor(s))
  BY DEF Answers, Msg, CloseFor
<1>5. ASSUME RecvOkay(s) PROVE ~Answers(r, OkayFor(s))
  <2>1. remoteId[s] # 0 /\ s # t
    BY <1>1, <1>5 DEF RecvOkay, Phase
  <2>2. Serves(remoteId[s], s)
    BY <2>1, RemoteServes
  <2>3. remoteId[s] # r
    BY <1>1, <2>1, <2>2, ServesOne
  <2>. QED
    BY <2>3 DEF Answers, OkayFor, Msg
<1>. QED
  BY <1>1, <1>2, <1>3, <1>4, <1>5, OwnerPosts

LEMMA FlowsOwner ==
    ASSUME IdsSuffice, FlowInv, [Next]_vars, TypeOK', NEW s \in Streams, Owner(s)
    PROVE  Flows'
<1>1. TypeOK /\ Allocated /\ Phases /\ Phase(s) /\ PeersInv
  BY DEF FlowInv, PeersInv, RoutingInv, Phases
<1>2. UNCHANGED <<link, h2d, d2h, deviceVars>>
  BY <1>1, OwnerPosts
<1>3. ASSUME NEW r \in RemoteIds, NEW t \in Streams, Serves(r, t)'
      PROVE  Flow(r, t)' /\ FirstOkay(r, t)'
  <2>1. Serves(r, t) /\ t \in Born
    BY <1>1, <1>2, <1>3, ServesBack DEF deviceVars, Started, Serves
  <2>2. Flow(r, t) /\ FirstOkay(r, t)
    BY <2>1 DEF FlowInv, Flows
  <2>3. FirstOkay(r, t)'
    BY <1>1, <1>2, <2>1, <2>2, FirstOkayFrame
  <2>4. CASE s = t /\ RecvTake(s)
    BY <1>1, <2>2, <2>3, <2>4, ChunkTaken
  <2>5. CASE s = t /\ RecvOkay(s)
    <3>1. hand[s] # <<>> /\ remoteId[s] # 0
      BY <1>1, <2>5 DEF FlowInv, HandFull, RecvOkay, Phase
    <3>2. remoteId[s] \in RemoteIds /\ Serves(remoteId[s], s)
      BY <1>1, <3>1, RemoteServes
    <3>3. remoteId[s] = r
      BY <1>1, <2>1, <2>5, <3>2 DEF Serves, PeersInv, Peers, ServicesApart
    <3>. QED
      BY <1>1, <2>2, <2>3, <2>5, <3>1, <3>3, ChunkReturned
  <2>6. CASE ~(s = t /\ (RecvTake(s) \/ RecvOkay(s)))
    <3>1. UpQuiet(r) /\ DownQuiet(r)
      BY <1>1, <1>2, <2>1, <2>6, OwnerAnswers, SameSlice DEF DownQuiet, TypeOK, TypeOKLink
    <3>2. got'[t] = got[t] /\ hand'[t] = hand[t] /\ dataQ'[t] \in {dataQ[t], <<>>}
      BY <1>1, <2>6, OwnerMoves
    <3>. QED
      BY <1>1, <1>2, <2>2, <2>3, <3>1, <3>2, FlowFrame DEF deviceVars
  <2>. QED
    BY <2>4, <2>5, <2>6
<1>. QED
  BY <1>3 DEF Flows

-----------------------------------------------------------------------------
(* The steps of the tasks *)

LEMMA TasksMove ==
    ASSUME ReaderTask \/ SessionThread \/ WriterTask \/ LinkDown \/ Device
    PROVE  /\ got' = got /\ hand' = hand /\ pc' = pc
           /\ ~ReaderWrite => dataQ' = dataQ
<1>. USE DEF streamVars, ownerVars, recvVars
<1>1. CASE ReaderOkay \/ AckCount \/ AckWake \/ ReaderWrite
  BY <1>1 DEF ReaderOkay, AckCount, AckWake, ReaderWrite
<1>2. CASE ReaderClose \/ ReaderStray \/ ReaderFails \/ ReaderAborts
  BY <1>2 DEF ReaderClose, ReaderStray, ReaderFails, ReaderAborts
<1>3. CASE BeginSessionClose \/ (\E a \in Closers : CloseAll(a))
  BY <1>3 DEF BeginSessionClose, CloseAll, Drain, Each, MarkClosed, TakeAndWake
<1>4. CASE WriterTask \/ LinkDown
  BY <1>4 DEF WriterTask, WriterSends, WriterAborts, LinkDown
<1>5. CASE Device
  BY <1>5 DEF Device, DeviceReceives, DevOpen, DevWrite, DevOkay, DevClose,
              DevOutput, DevFinish, DevStray
<1>. QED
  BY <1>1, <1>2, <1>3, <1>4, <1>5 DEF ReaderTask, SessionThread, Closers

(* What the reader takes off the link, if it takes anything. *)
LEMMA ReaderTakes ==
    ASSUME ReaderTask \/ SessionThread
    PROVE  \/ \E cmd \in Commands : Recv(cmd) /\ (cmd = "OKAY" => ReaderOkay)
           \/ d2h' = d2h
           \/ d2h' = <<>> /\ link = "down"
<1>1. CASE ReaderOkay \/ ReaderWrite \/ ReaderClose \/ ReaderStray
  BY <1>1 DEF ReaderOkay, ReaderWrite, ReaderClose, ReaderStray, Recv, Commands, StrayCommands
<1>2. CASE AckCount \/ AckWake \/ ReaderFails \/ ReaderAborts \/ BeginSessionClose
  BY <1>2 DEF AckCount, AckWake, ReaderFails, ReaderAborts, BeginSessionClose, linkVars
<1>3. CASE \E a \in Closers : CloseAll(a)
  BY <1>3 DEF CloseAll, Drain, Each, MarkClosed, TakeAndWake, linkVars
<1>. QED
  BY <1>1, <1>2, <1>3 DEF ReaderTask, SessionThread, Closers

LEMMA FlowsTasks ==
    ASSUME IdsSuffice, FlowInv, [Next]_vars, TypeOK', ReaderTask \/ SessionThread
    PROVE  Flows'
<1>1. TypeOK /\ Allocated /\ Phases /\ PeersInv
  BY DEF FlowInv, PeersInv, RoutingInv
<1>2. UNCHANGED <<link, h2d, deviceVars>> /\ Slice(d2h', d2h)
  BY <1>1, TasksPost
<1>3. ASSUME NEW r \in RemoteIds, NEW t \in Streams, Serves(r, t)'
      PROVE  Flow(r, t)' /\ FirstOkay(r, t)'
  <2>1. Serves(r, t) /\ t \in Born
    BY <1>1, <1>2, <1>3, ServesBack DEF deviceVars, Started, Serves
  <2>2. Flow(r, t) /\ FirstOkay(r, t)
    BY <2>1 DEF FlowInv, Flows
  <2>3. FirstOkay(r, t)'
    <3>1. CASE d2h' = d2h
      BY <1>1, <1>2, <2>1, <2>2, <3>1, FirstOkayFrame
    <3>2. CASE d2h' = <<>> /\ link = "down"
      BY <1>2, <3>2 DEF FirstOkay
    <3>. QED
      BY <1>1, <2>1, <2>2, <3>1, <3>2, FirstOkayRecv, ReaderTakes
  <2>4. UpQuiet(r) /\ DownQuiet(r)
    BY <1>1, <1>2, TasksPost, SameSlice, UpwardTyped DEF UpQuiet, DownQuiet, Answers, TypeOK
  <2>5. CASE dataQ'[t] = dataQ[t]
    BY <1>1, <1>2, <2>2, <2>3, <2>4, <2>5, FlowFrame, TasksMove DEF deviceVars
  <2>6. CASE ReaderWrite /\ dataQ'[t] # dataQ[t]
    <3>1. /\ Recv("WRTE") /\ Addressee # NoStream /\ outbox' = outbox
          /\ dataQ' = [dataQ EXCEPT ![Addressee] =
                          Append(@, <<Head(d2h).arg0, Head(d2h).data>>)]
      BY <2>6 DEF ReaderWrite, Listening, writerVars
    <3>2. Serves(Head(d2h).arg0, Addressee) /\ Head(d2h).arg0 \in RemoteIds
      BY <1>1, <3>1, ChunkAddressed
    <3>3. Addressee = t
      BY <2>6, <3>1 DEF TypeOK, TypeOKQueues
    <3>4. Head(d2h).arg0 = r
      BY <1>1, <2>1, <3>2, <3>3 DEF Serves, PeersInv, Peers, ServicesApart
    <3>5. dataQ'[t] = Append(dataQ[t], <<r, Head(d2h).data>>)
      BY <1>1, <3>1, <3>3, <3>4 DEF TypeOK, TypeOKQueues
    <3>. QED
      BY <1>1, <1>2, <2>2, <2>3, <3>1, <3>4, <3>5, ChunkQueued, TasksMove
  <2>. QED
    BY <2>5, <2>6, TasksMove
<1>. QED
  BY <1>3 DEF Flows

LEMMA FlowsCarry ==
    ASSUME IdsSuffice, FlowInv, [Next]_vars, TypeOK', WriterTask \/ LinkDown
    PROVE  Flows'
<1>1. TypeOK /\ Phases /\ PeersInv /\ LinkIsEmpty
  BY DEF FlowInv, PeersInv, RoutingInv, Peers
<1>2. d2h' = d2h /\ UNCHANGED deviceVars /\ (link' = "up" => link = "up")
  BY DEF WriterTask, WriterSends, WriterAborts, LinkDown, linkVars
<1>3. Slice(Upward', Upward) /\ Slice(d2h', d2h)
  BY <1>1, <1>2, CarrySlice, SameSlice DEF TypeOK, TypeOKLink
<1>4. ~ReaderWrite
  BY <1>2 DEF ReaderWrite, Recv, WriterTask, WriterSends, WriterAborts, LinkDown,
     writerVars, linkVars
<1>5. ASSUME NEW r \in RemoteIds, NEW t \in Streams, Serves(r, t)'
      PROVE  Flow(r, t)' /\ FirstOkay(r, t)'
  <2>1. Serves(r, t) /\ t \in Born
    BY <1>1, <1>2, <1>5, ServesBack DEF deviceVars, Started, Serves
  <2>2. Flow(r, t) /\ FirstOkay(r, t)
    BY <2>1 DEF FlowInv, Flows
  <2>3. FirstOkay(r, t)'
    BY <1>1, <1>2, <2>1, <2>2, FirstOkayFrame
  <2>4. got' = got /\ hand' = hand /\ dataQ' = dataQ
    BY <1>4, TasksMove
  <2>. QED
    BY <1>1, <1>2, <1>3, <2>2, <2>3, <2>4, FlowFrame DEF UpQuiet, DownQuiet, deviceVars
<1>. QED
  BY <1>5 DEF Flows

-----------------------------------------------------------------------------
(* The steps of the device *)

LEMMA DeviceGetsUp ==
    ASSUME TypeOK, outbox' = outbox, h2d' = h2d \/ \E cmd \in Commands : DeviceGets(cmd)
    PROVE  Slice(Upward', Upward)
<1>1. CASE h2d' = h2d
  BY <1>1, UpwardTyped, SameSlice DEF Upward, TypeOK
<1>2. ASSUME NEW cmd \in Commands, DeviceGets(cmd) PROVE Slice(Upward', Upward)
  <2>1. /\ Len(Upward') = Len(Upward) - 1 /\ Len(Upward) \in Nat
        /\ \A k \in 1 .. Len(Upward') : Upward'[k] = Upward[k + 1]
    BY <1>2, GetsSlice, UpwardTyped, LenProperties DEF TypeOK
  <2>2. Len(Upward') + 1 <= Len(Upward)
    BY <2>1
  <2>3. \E k \in Nat : /\ Len(Upward') + k <= Len(Upward)
                      /\ \A i \in 1 .. Len(Upward') : Upward'[i] = Upward[i + k]
    <3>. WITNESS 1 \in Nat
    <3>. QED
      BY <2>1, <2>2
  <2>. QED
    BY <2>3 DEF Slice
<1>. QED
  BY <1>1, <1>2

LEMMA DeviceSendsDown ==
    ASSUME TypeOK, NEW m \in DeviceMessages, DeviceSends(m)
    PROVE  Grown(d2h', d2h, m)
BY AppendGrown DEF DeviceSends, TypeOK, TypeOKLink

LEMMA DeviceReads ==
    ASSUME TypeOK, Device
    PROVE  UNCHANGED <<streamVars, closerVars, writerVars, link>> /\ Slice(Upward', Upward)
<1>. USE DEF Commands, StrayCommands, writerVars
<1>1. CASE DevOpen
  BY <1>1, DeviceGetsUp DEF DevOpen, DeviceGets
<1>2. CASE DevWrite
  BY <1>2, DeviceGetsUp DEF DevWrite, DeviceGets
<1>3. CASE DevOkay
  BY <1>3, DeviceGetsUp DEF DevOkay, DeviceGets
<1>4. CASE DevClose
  BY <1>4, DeviceGetsUp DEF DevClose, DeviceGets
<1>5. CASE \/ \E q \in RemoteIds : DevOutput(q) \/ DevFinish(q)
           \/ \E cmd \in Strays : DevStray(cmd)
  BY <1>5, DeviceGetsUp DEF DevOutput, DevFinish, DevStray
<1>. QED
  BY <1>1, <1>2, <1>3, <1>4, <1>5 DEF Device, DeviceReceives

(* Only a service's output sends a chunk, only an OKAY lets the next one go.*)
LEMMA DeviceMoves ==
    ASSUME TypeOK, Device, NEW r \in RemoteIds
    PROVE  /\ ~DevOutput(r) =>
                 /\ devSent'[r] = devSent[r]
                 /\ d2h' = d2h \/ \E m : ~Carries(r, m) /\ Grown(d2h', d2h, m)
           /\ ~DevOutput(r) /\ ~DevOkay => devInFlight'[r] = devInFlight[r]
<1>. DEFINE Down == \/ d2h' = d2h
                    \/ \E m \in DeviceMessages : ~Carries(r, m) /\ DeviceSends(m)
<1>. USE DEF TypeOK, TypeOKDevice, TypeOKLink, Commands, StrayCommands
<1>a. /\ \A q \in RemoteIds : q \in Nat /\ devHost[q] \in LocalIds /\ devSent[q] + 1 \in Nat
      /\ 0 \in LocalIds
  BY RemoteIdsAssumption, IdSpaceAssumption DEF LocalIds
<1>b. \A cmd \in Commands \ {"WRTE"}, q \in Nat, i \in LocalIds :
         Msg(cmd, q, i, 0) \in DeviceMessages /\ ~Carries(r, Msg(cmd, q, i, 0))
  BY DEF Msg, DeviceMessages, Carries
<1>1. CASE DevOpen
  <2>1. Head(h2d).arg0 \in LocalIds
    BY <1>1, DeviceGetsTyped DEF DevOpen
  <2>2. Down
    BY <1>1, <1>a, <1>b, <2>1 DEF DevOpen
  <2>. QED
    BY <1>1, <2>2, DeviceSendsDown DEF DevOpen
<1>2. CASE DevWrite
  <2>1. Down
    BY <1>2, <1>a, <1>b DEF DevWrite, KnownToDevice
  <2>. QED
    BY <1>2, <2>1, DeviceSendsDown DEF DevWrite
<1>3. CASE DevOkay
  BY <1>3 DEF DevOkay
<1>4. CASE DevClose
  <2>1. Down
    BY <1>4, <1>a, <1>b DEF DevClose, KnownToDevice
  <2>. QED
    BY <1>4, <2>1, DeviceSendsDown DEF DevClose
<1>5. ASSUME NEW q \in RemoteIds, DevOutput(q)
      PROVE  q # r => devSent'[r] = devSent[r] /\ devInFlight'[r] = devInFlight[r] /\ Down
  <2>1. ASSUME q # r PROVE Down
    <3>1. /\ Msg("WRTE", q, devHost[q], devSent[q] + 1) \in DeviceMessages
          /\ ~Carries(r, Msg("WRTE", q, devHost[q], devSent[q] + 1))
      BY <1>a, <2>1 DEF Msg, DeviceMessages, Carries
    <3>. QED
      BY <1>5, <3>1 DEF DevOutput
  <2>. QED
    BY <1>5, <2>1 DEF DevOutput
<1>6. ASSUME NEW q \in RemoteIds, DevFinish(q)
      PROVE  devSent'[r] = devSent[r] /\ devInFlight'[r] = devInFlight[r] /\ Down
  BY <1>6, <1>a, <1>b DEF DevFinish
<1>7. ASSUME NEW cmd \in Strays, DevStray(cmd)
      PROVE  devSent'[r] = devSent[r] /\ devInFlight'[r] = devInFlight[r] /\ Down
  BY <1>7, <1>a, <1>b, EnvironmentAssumption DEF DevStray
<1>. QED
  BY <1>1, <1>2, <1>3, <1>4, <1>5, <1>6, <1>7, DeviceSendsDown
  DEF Device, DeviceReceives

(* Accepting an OPEN starts a service; nothing else does. *)
Starts(r) == DevOpen /\ r = devNext /\ devNext' # devNext

LEMMA DeviceStarts ==
    ASSUME TypeOK, Device, NEW r \in RemoteIds, ~Starts(r)
    PROVE  Started(r)' = Started(r) /\ devHost'[r] = devHost[r]
<1>. USE DEF Started, TypeOK, TypeOKDevice
<1>1. CASE DevOpen
  BY <1>1 DEF DevOpen, Starts
<1>2. CASE DevWrite \/ DevOkay \/ DevClose
  BY <1>2 DEF DevWrite, DevOkay, DevClose, KnownToDevice
<1>3. ASSUME NEW q \in RemoteIds, DevOutput(q) \/ DevFinish(q)
      PROVE  Started(r)' = Started(r) /\ devHost'[r] = devHost[r]
  BY <1>3 DEF DevOutput, DevFinish
<1>4. ASSUME NEW cmd \in Strays, DevStray(cmd)
      PROVE  Started(r)' = Started(r) /\ devHost'[r] = devHost[r]
  BY <1>4 DEF DevStray
<1>. QED
  BY <1>1, <1>2, <1>3, <1>4 DEF Device, DeviceReceives

(* Of a service that is about to start nothing is known yet: its stream has *)
(* no remote id, and no message is under way to it.                         *)
LEMMA StartsFresh ==
    ASSUME FlowInv, NEW r \in RemoteIds, Starts(r), NEW t \in Streams, Serves(r, t)'
    PROVE  /\ ~Started(r) /\ remoteId[t] = 0
           /\ \A k \in DOMAIN Upward : Upward[k].cmd \in {"OKAY", "WRTE"} => Upward[k].arg1 # r
<1>1. TypeOK /\ Peers /\ TypeOKDevice
  BY DEF FlowInv, PeersInv, RoutingInv, TypeOK
<1>2. ~Started(r)
  BY <1>1 DEF Starts, Peers, ServicesKnown, TypeOKDevice
<1>3. DeviceGets("OPEN") /\ UNCHANGED <<streamVars, writerVars>> /\ devHost'[r] = Head(h2d).arg0
  BY <1>1 DEF Starts, DevOpen, TypeOKDevice
<1>4. 1 \in DOMAIN Upward /\ Opens(Head(h2d).arg0, Upward[1])
  BY <1>1, <1>3, GetsSlice DEF TypeOK, Opens, writerVars
<1>5. t \in Born /\ localId[t] = Head(h2d).arg0
  BY <1>3 DEF Serves, Born, streamVars, registryVars, ownerVars
<1>6. remoteId[t] = 0
  <2>1. SUFFICES ASSUME remoteId[t] # 0 PROVE FALSE
    OBVIOUS
  <2>2. PICK q \in RemoteIds : Serves(q, t)
    BY <1>1, <2>1 DEF Peers, RemotesMatch
  <2>3. Started(q) /\ devHost[q] = Upward[1].arg0 /\ Upward[1].cmd = "OPEN"
    BY <1>4, <1>5, <2>2 DEF Serves, Opens
  <2>. QED
    BY <1>1, <1>4, <2>3 DEF Peers, OpensPending
<1>7. ASSUME NEW k \in DOMAIN Upward, Upward[k].cmd \in {"OKAY", "WRTE"}, Upward[k].arg1 = r
      PROVE  FALSE
  <2>1. PICK s \in Born : remoteId[s] = r /\ r # 0
    BY <1>7 DEF FlowInv, UpwardMatch, ToService
  <2>2. Serves(r, s)
    BY <1>1, <2>1 DEF Peers, RemotesMatch, Born
  <2>. QED
    BY <1>2, <2>2 DEF Serves
<1>. QED
  BY <1>2, <1>6, <1>7

(* A service that has just started has sent nothing but its OKAY, and its   *)
(* stream has no remote id yet.                                             *)
LEMMA FlowStarts ==
    ASSUME FlowInv, TypeOK', NEW r \in RemoteIds, Starts(r), NEW t \in Streams, Serves(r, t)'
    PROVE  Flow(r, t)' /\ FirstOkay(r, t)'
<1>. DEFINE i == Head(h2d).arg0
            n == Len(d2h)
<1>1. /\ TypeOK /\ Peers /\ ~Started(r) /\ devSent[r] = 0 /\ ~devInFlight[r]
  BY StartsFresh DEF FlowInv, PeersInv, RoutingInv, Unstarted
<1>2. PICK m : m = Msg("OKAY", r, i, 0)
  OBVIOUS
<1>3. /\ DeviceGets("OPEN") /\ UNCHANGED <<streamVars, writerVars, devSent, devInFlight>>
      /\ devHost'[r] = i /\ d2h' = Append(d2h, m) /\ d2h \in Seq(DeviceMessages)
  BY <1>1, <1>2 DEF Starts, DevOpen, DeviceSends, TypeOK, TypeOKDevice, TypeOKLink
<1>4. /\ 1 \in DOMAIN Upward /\ Opens(i, Upward[1])
      /\ Len(Upward') = Len(Upward) - 1
      /\ \A k \in 1 .. Len(Upward') : Upward'[k] = Upward[k + 1]
  BY <1>1, <1>3, GetsSlice DEF TypeOK, Opens, writerVars
<1>5. /\ n \in Nat /\ DOMAIN d2h = 1 .. n /\ DOMAIN d2h' = 1 .. n + 1 /\ d2h'[n + 1] = m
      /\ \A k \in 1 .. n : d2h'[k] = d2h[k]
  BY <1>3
<1>6. remoteId[t] = 0
  BY StartsFresh
<1>7. got[t] = <<>> /\ hand[t] = <<>> /\ dataQ[t] = <<>>
  BY <1>6 DEF FlowInv, Unaddressed, NothingYet
<1>8. \A k \in DOMAIN d2h' : ~Carries(r, d2h'[k])
  BY <1>1, <1>2, <1>5 DEF Peers, MessagesMatch, FromService, Carries, Msg
<1>9. \A k \in DOMAIN Upward' : ~Answers(r, Upward'[k])
  <2>1. \A k \in DOMAIN Upward' : k + 1 \in DOMAIN Upward /\ Upward'[k] = Upward[k + 1]
    BY <1>1, <1>4, Domains, DomainsPrimed
  <2>. QED
    BY <2>1, StartsFresh DEF Answers
<1>10. ~InDown(r)' /\ OnceDown(r)' /\ ~InUp(r)' /\ OnceUp(r)'
  BY <1>8, <1>9 DEF InDown, OnceDown, InUp, OnceUp, Carries, Answers
<1>11. UNCHANGED <<got, hand, dataQ, devSent, devInFlight>>
  BY <1>3 DEF streamVars, ownerVars, recvVars
<1>12. Flow(r, t)'
  BY <1>1, <1>7, <1>10, <1>11 DEF Flow
<1>13. FirstOkay(r, t)'
  <2>1. Accepts(r, d2h'[n + 1]) /\ n + 1 \in DOMAIN d2h'
    BY <1>2, <1>5 DEF Accepts, Msg
  <2>. QED
    BY <1>8, <2>1 DEF FirstOkay, Accepts, Carries
<1>. QED
  BY <1>12, <1>13

LEMMA FlowsDevice ==
    ASSUME IdsSuffice, FlowInv, [Next]_vars, TypeOK', Device
    PROVE  Flows'
<1>1. TypeOK /\ Phases /\ PeersInv
  BY DEF FlowInv, PeersInv, RoutingInv
<1>2. ASSUME NEW r \in RemoteIds, NEW t \in Streams, Serves(r, t)', ~Starts(r)
      PROVE  Flow(r, t)' /\ FirstOkay(r, t)'
  <2>1. Serves(r, t) /\ t \in Born
    BY <1>1, <1>2, ServesBack, DeviceStarts DEF Serves
  <2>2. Flow(r, t) /\ FirstOkay(r, t)
    BY <2>1 DEF FlowInv, Flows
  <2>3. UNCHANGED <<streamVars, writerVars, link>> /\ UpQuiet(r)
    BY <1>1, DeviceReads DEF UpQuiet
  <2>4. UNCHANGED <<got, hand, dataQ>>
    BY <2>3 DEF streamVars, ownerVars, recvVars
  <2>5. CASE DevOutput(r)
    <3>1. Msg("WRTE", r, devHost[r], devSent[r] + 1) \in DeviceMessages
      BY <1>1, RemoteIdsAssumption DEF Msg, DeviceMessages, Commands, TypeOK, TypeOKDevice
    <3>2. \E m : Grown(d2h', d2h, m)
      BY <1>1, <2>5, <3>1, DeviceSendsDown DEF DevOutput
    <3>3. FirstOkay(r, t)'
      BY <1>1, <2>1, <2>2, <2>3, <2>5, <3>2, FirstOkayFrame DEF DevOutput
    <3>. QED
      BY <1>1, <2>2, <2>5, <3>3, ChunkSent
  <2>6. CASE ~DevOutput(r)
    <3>1. /\ devSent'[r] = devSent[r] /\ DownQuiet(r)
          /\ d2h' = d2h \/ \E m : ~Carries(r, m) /\ Grown(d2h', d2h, m)
      BY <1>1, <2>6, DeviceMoves, SameSlice DEF DownQuiet, TypeOK, TypeOKLink
    <3>2. FirstOkay(r, t)'
      BY <1>1, <2>1, <2>2, <2>3, <3>1, FirstOkayFrame
    <3>3. CASE DevOkay
      BY <1>1, <2>2, <3>2, <3>3, ChunkAnswered
    <3>4. CASE ~DevOkay
      <4>1. devInFlight'[r] = devInFlight[r]
        BY <1>1, <2>6, <3>4, DeviceMoves
      <4>. QED
        BY <1>1, <2>2, <2>3, <2>4, <3>1, <3>2, <4>1, FlowFrame
    <3>. QED
      BY <3>3, <3>4
  <2>. QED
    BY <2>5, <2>6
<1>. QED
  BY <1>2, FlowStarts DEF Flows

-----------------------------------------------------------------------------
(* The rest of the invariant *)

LEMMA UnaddressedStep ==
    ASSUME FlowInv, [Next]_vars, TypeOK' PROVE Unaddressed'
<1>1. TypeOK /\ PeersInv /\ Allocated
  BY DEF FlowInv, PeersInv, RoutingInv
<1>2. SUFFICES ASSUME NEW t \in Streams, remoteId'[t] = 0 PROVE NothingYet(t)'
  BY DEF Unaddressed
<1>3. remoteId[t] = 0 /\ got[t] = <<>> /\ hand[t] = <<>> /\ dataQ[t] = <<>>
  BY <1>1, <1>2, RemoteKept DEF FlowInv, Unaddressed, NothingYet
<1>4. ASSUME NEW s \in Streams, Owner(s) PROVE NothingYet(t)'
  <2>1. ~(s = t /\ (RecvTake(s) \/ RecvOkay(s)))
    BY <1>3 DEF RecvTake, RecvOkay, FlowInv, HandFull
  <2>. QED
    BY <1>1, <1>3, <1>4, <2>1, OwnerMoves DEF NothingYet
<1>5. CASE ReaderWrite
  <2>1. SUFFICES ASSUME dataQ'[t] # dataQ[t] PROVE FALSE
    BY <1>3, <1>5, TasksMove DEF ReaderTask, NothingYet
  <2>2. Recv("WRTE") /\ Addressee = t
    BY <1>1, <1>5, <2>1 DEF ReaderWrite, TypeOK, TypeOKQueues
  <2>3. t # NoStream
    BY StreamsAssumption
  <2>4. PICK r \in RemoteIds : r = Head(d2h).arg0 /\ Serves(r, t)
    BY <1>1, <2>2, <2>3, ChunkAddressed
  <2>5. registry[localId[t]] = t
    BY <1>1, <2>2, <2>3, RecvTakes DEF Addressee, Allocated
  <2>6. 1 \in DOMAIN d2h /\ Carries(r, d2h[1])
    BY <1>1, <2>2, <2>4, RecvTakes DEF Carries
  <2>7. FirstOkay(r, t)
    BY <2>4 DEF FlowInv, Flows
  <2>8. \E j \in 1 .. 1 - 1 : Accepts(r, d2h[j])
    BY <1>3, <2>5, <2>6, <2>7 DEF FirstOkay
  <2>. QED
    BY <2>8
<1>6. CASE (ReaderTask \/ SessionThread \/ WriterTask \/ LinkDown \/ Device) /\ ~ReaderWrite
  BY <1>3, <1>6, TasksMove DEF NothingYet
<1>7. CASE UNCHANGED vars
  BY <1>3, <1>7 DEF vars, streamVars, ownerVars, recvVars, NothingYet
<1>. QED
  BY <1>4, <1>5, <1>6, <1>7 DEF Next

LEMMA HandsStep ==
    ASSUME TypeOK, Phases, [Next]_vars, NEW t \in Streams, HandFull(t) PROVE HandFull(t)'
<1>1. ASSUME NEW s \in Streams, Owner(s) PROVE HandFull(t)'
  <2>1. CASE s = t
    BY <1>1, <2>1, HandOwner DEF Phases
  <2>2. CASE s # t
    BY <1>1, <2>2, OwnerMoves, OwnerKeepsOthers DEF HandFull, OthersKept
  <2>. QED
    BY <2>1, <2>2
<1>2. CASE ReaderTask \/ SessionThread \/ WriterTask \/ LinkDown \/ Device
  BY <1>2, TasksMove DEF HandFull
<1>3. CASE UNCHANGED vars
  BY <1>3 DEF vars, streamVars, ownerVars, recvVars, HandFull
<1>. QED
  BY <1>1, <1>2, <1>3 DEF Next

(* Who but the device may touch the device. *)
LEMMA OthersLeaveDevice ==
    ASSUME TypeOK, [Next]_vars, ~Device
    PROVE  UNCHANGED deviceVars
<1>1. CASE \E s \in Streams : Owner(s)
  BY <1>1, OwnerPosts
<1>2. CASE ReaderTask \/ SessionThread
  BY <1>2, TasksPost
<1>3. CASE WriterTask \/ LinkDown
  BY <1>3 DEF WriterTask, WriterSends, WriterAborts, LinkDown
<1>4. CASE UNCHANGED vars
  BY <1>4 DEF vars, taskVars
<1>. QED
  BY <1>1, <1>2, <1>3, <1>4 DEF Next

LEMMA UnstartedStep ==
    ASSUME TypeOK, TypeOK', Unstarted, [Next]_vars PROVE Unstarted'
<1>1. CASE ~Device
  BY <1>1, OthersLeaveDevice DEF deviceVars, Unstarted, Started
<1>2. ASSUME Device, NEW r \in RemoteIds, ~Started(r)'
      PROVE  devSent'[r] = 0 /\ ~devInFlight'[r]
  <2>1. ~Starts(r)
    BY <1>2 DEF Starts, DevOpen, Started, TypeOK, TypeOKDevice
  <2>2. ~Started(r) /\ ~DevOutput(r)
    BY <1>2, <2>1, DeviceStarts DEF DevOutput, Started
  <2>3. devSent'[r] = devSent[r] /\ (~DevOkay => devInFlight'[r] = devInFlight[r])
    BY <1>2, <2>2, DeviceMoves
  <2>4. DevOkay => devInFlight'[r] \in {devInFlight[r], FALSE}
    BY DEF DevOkay, TypeOK, TypeOKDevice
  <2>. QED
    BY <2>2, <2>3, <2>4 DEF Unstarted
<1>. QED
  BY <1>1, <1>2 DEF Unstarted

UpwardQuiet ==
    \/ Slice(Upward', Upward)
    \/ \E m : (m.cmd \in {"OKAY", "WRTE"} => ToService(m)) /\ Grown(Upward', Upward, m)

LEMMA UpwardFrame ==
    ASSUME TypeOK, TypeOK', Phases, [Next]_vars, UpwardMatch, UpwardQuiet
    PROVE  UpwardMatch'
<1>1. \A m : ToService(m) => ToService(m)'
  BY StreamsKeptStep, RemoteKept DEF ToService, StreamsKept, Born
<1>2. CASE Slice(Upward', Upward)
  <2>1. PICK d \in Nat : /\ Len(Upward') + d <= Len(Upward)
                         /\ \A i \in 1 .. Len(Upward') : Upward'[i] = Upward[i + d]
    BY <1>2 DEF Slice
  <2>2. \A k \in DOMAIN Upward' : k + d \in DOMAIN Upward /\ Upward'[k] = Upward[k + d]
    BY <2>1, Domains, DomainsPrimed
  <2>3. \A k \in DOMAIN Upward' :
           Upward'[k].cmd \in {"OKAY", "WRTE"} => \E m : m = Upward'[k] /\ ToService(m)
    BY <2>2 DEF UpwardMatch
  <2>. QED
    BY <1>1, <2>3 DEF UpwardMatch, ToService
<1>3. ASSUME NEW m, m.cmd \in {"OKAY", "WRTE"} => ToService(m), Grown(Upward', Upward, m)
      PROVE  UpwardMatch'
  <2>1. \A k \in DOMAIN Upward' :
           Upward'[k].cmd \in {"OKAY", "WRTE"} => \E x : x = Upward'[k] /\ ToService(x)
    BY <1>3, Domains, DomainsPrimed DEF Grown, UpwardMatch
  <2>. QED
    BY <1>1, <2>1 DEF UpwardMatch, ToService
<1>. QED
  BY <1>2, <1>3 DEF UpwardQuiet

LEMMA UpwardStep ==
    ASSUME FlowInv, TypeOK', [Next]_vars PROVE UpwardMatch'
<1>1. TypeOK /\ Phases /\ UpwardMatch /\ LinkIsEmpty
  BY DEF FlowInv, PeersInv, RoutingInv, Peers
<1>2. ASSUME NEW s \in Streams, Owner(s) PROVE UpwardQuiet
  <2>1. CASE PostWrite(s) \/ RecvOkay(s)
    <3>1. s \in Born /\ remoteId[s] # 0
      BY <1>1, <2>1 DEF PostWrite, RecvOkay, Phases, Phase, Born
    <3>2. /\ ToService(Msg("WRTE", localId[s], remoteId[s], ChunkLen(s)))
          /\ ToService(OkayFor(s))
      BY <3>1 DEF ToService, Msg, OkayFor
    <3>. QED
      BY <1>1, <1>2, <2>1, <3>2, OwnerPosts, SameSlice, UpwardTyped
      DEF UpwardQuiet, TypeOK, PostWrite, RecvOkay, ClosePost, PostOpen
  <2>2. CASE ~(PostWrite(s) \/ RecvOkay(s))
    <3>1. /\ Msg("OPEN", localId[s], 0, OpenLen).cmd \notin {"OKAY", "WRTE"}
          /\ CloseFor(s).cmd \notin {"OKAY", "WRTE"}
      BY DEF Msg, CloseFor
    <3>. QED
      BY <1>1, <1>2, <2>2, <3>1, OwnerPosts, SameSlice, UpwardTyped DEF UpwardQuiet, TypeOK
  <2>. QED
    BY <2>1, <2>2
<1>3. CASE ReaderTask \/ SessionThread
  <2>1. UpwardQuiet
    BY <1>1, <1>3, TasksPost, SameSlice, UpwardTyped DEF UpwardQuiet, TypeOK
  <2>. QED
    BY <1>1, <2>1, UpwardFrame
<1>4. CASE WriterTask \/ LinkDown
  <2>1. UpwardQuiet
    BY <1>1, <1>4, CarrySlice DEF UpwardQuiet, TypeOK
  <2>. QED
    BY <1>1, <2>1, UpwardFrame
<1>5. CASE Device
  BY <1>1, <1>5, DeviceReads, UpwardFrame DEF UpwardQuiet
<1>6. CASE UNCHANGED vars
  <2>1. Upward' = Upward
    BY <1>6 DEF vars, taskVars, writerVars, linkVars, Upward
  <2>. QED
    BY <1>1, <2>1, SameSlice, UpwardTyped, UpwardFrame DEF UpwardQuiet, TypeOK
<1>. QED
  BY <1>1, <1>2, <1>3, <1>4, <1>5, <1>6, UpwardFrame DEF Next

LEMMA FlowsStep ==
    ASSUME IdsSuffice, FlowInv, [Next]_vars, TypeOK' PROVE Flows'
<1>1. CASE UNCHANGED vars
  <2>1. UNCHANGED <<got, hand, dataQ, d2h, h2d, outbox, devSent, devInFlight, registry,
                    localId, remoteId, link, life, devSt, devHost>> /\ Upward' = Upward
    BY <1>1 DEF vars, streamVars, taskVars, ownerVars, recvVars, registryVars, stateVars,
       writerVars, linkVars, deviceVars, Upward
  <2>. QED
    BY <2>1 DEF FlowInv, Flows, Flow, FirstOkay, Serves, Started, Born, AllButLast,
       OnceDown, OnceUp, InDown, InUp, Carries, Answers, Accepts
<1>. QED
  BY <1>1, FlowsOwner, FlowsTasks, FlowsCarry, FlowsDevice DEF Next

LEMMA FlowStep == ASSUME IdsSuffice, FlowInv, [Next]_vars PROVE FlowInv'
<1>1. PeersInv /\ PeersInv' /\ TypeOK /\ TypeOK' /\ Phases
  BY PeersStep DEF FlowInv, PeersInv, RoutingInv
<1>2. Unaddressed' /\ UpwardMatch' /\ Flows'
  BY <1>1, UnaddressedStep, UpwardStep, FlowsStep
<1>3. Unstarted' /\ \A s \in Streams : HandFull(s)'
  BY <1>1, UnstartedStep, HandsStep DEF FlowInv
<1>. QED
  BY <1>1, <1>2, <1>3 DEF FlowInv

LEMMA FlowInit == ASSUME IdsSuffice, Init PROVE FlowInv
<1>1. PeersInv
  BY PeersInitial
<1>2. Upward = <<>>
  BY DEF Init, Upward
<1>. QED
  BY <1>1, <1>2 DEF FlowInv, Unaddressed, NothingYet, HandFull, Unstarted, Started,
     UpwardMatch, Flows, Serves, Init

-----------------------------------------------------------------------------
(* What the invariant says of one stream. *)
LEMMA InOrder ==
    ASSUME TypeOK, NEW r \in RemoteIds, NEW s \in Streams, Flow(r, s),
           NEW in, in = got[s] \o hand[s] \o dataQ[s]
    PROVE  in = Chunks(r, Len(in))
<1>. DEFINE n == Len(got[s])
            chunk == << <<r, devSent[r]>> >>
<1>1. /\ got[s] \in Seq(ChunkType) /\ n \in Nat
      /\ hand[s] \in Seq(ChunkType) /\ dataQ[s] \in Seq(ChunkType)
      /\ \A k \in 1 .. n : got[s][k] = <<r, k>>
  BY LenProperties DEF Flow, TypeOK, TypeOKQueues
<1>2. CASE hand[s] = <<>> /\ dataQ[s] = <<>>
  <2>1. in = got[s]
    BY <1>1, <1>2, ConcatEmptySeq
  <2>. QED
    BY <1>1, <2>1, LenProperties DEF Chunks
<1>3. CASE hand[s] # <<>> \/ dataQ[s] # <<>>
  <2>1. n + 1 = devSent[r]
    BY <1>3 DEF Flow, AllButLast
  <2>2. in = got[s] \o chunk
    <3>1. CASE hand[s] = chunk /\ dataQ[s] = <<>>
      BY <1>1, <3>1, ConcatProperties, ConcatEmptySeq
    <3>2. CASE hand[s] = <<>> /\ dataQ[s] = chunk
      BY <1>1, <3>2, ConcatEmptySeq
    <3>. QED
      BY <1>3, <3>1, <3>2 DEF Flow
  <2>3. /\ Len(in) = n + 1 /\ in[n + 1] = <<r, n + 1>>
        /\ \A k \in 1 .. n : in[k] = got[s][k]
        /\ in = [k \in 1 .. n + 1 |-> in[k]]
    BY <1>1, <2>1, <2>2
  <2>4. ASSUME NEW k \in 1 .. n + 1 PROVE in[k] = <<r, k>>
    <3>1. k = n + 1 \/ k \in 1 .. n
      BY <1>1
    <3>. QED
      BY <1>1, <2>3, <3>1
  <2>. QED
    BY <2>3, <2>4 DEF Chunks
<1>. QED
  BY <1>2, <1>3

(* What a stream has received, in recv's results, in its hand and in the    *)
(* channel, is the beginning of what its own service wrote (reader.rs:43,   *)
(* stream.rs:88): for any number of streams and chunks, in any interleaving,*)
(* through closes, cancelled opens and failures of the link.                *)
THEOREM ChunksArriveInOrder ==
    ASSUME IdsSuffice
    PROVE  Spec => []DeliveredInOrder
<1>1. Init => FlowInv
  BY FlowInit
<1>2. FlowInv /\ [Next]_vars => FlowInv'
  BY FlowStep
<1>3. FlowInv => DeliveredInOrder
  <2>1. SUFFICES ASSUME FlowInv, NEW s \in Streams, NEW in, in = got[s] \o hand[s] \o dataQ[s]
                 PROVE  in = Chunks(remoteId[s], Len(in))
    BY DEF DeliveredInOrder
  <2>2. CASE remoteId[s] = 0
    <3>1. in = <<>>
      BY <2>1, <2>2 DEF FlowInv, Unaddressed, NothingYet
    <3>. QED
      BY <3>1 DEF Chunks
  <2>3. CASE remoteId[s] # 0
    <3>1. remoteId[s] \in RemoteIds /\ Serves(remoteId[s], s) /\ TypeOK
      BY <2>1, <2>3, RemoteServes DEF FlowInv, PeersInv, RoutingInv
    <3>. QED
      BY <2>1, <3>1, InOrder DEF FlowInv, Flows
  <2>. QED
    BY <2>2, <2>3
<1>. QED
  BY <1>1, <1>2, <1>3, PTL DEF Spec

-----------------------------------------------------------------------------
(* What keeps a chunk from being lost on its way: a stream that is not      *)
(* closed listens, from registration on.                                    *)

Sending == \A s \in Born : ~closed[s] => dataTx[s]
Marked == \A a \in Closers : apc[a] = "take" => closed[cur[a]]
Receiving == \A s \in Streams : life[s] \in {"opening", "open"} => rxLive[s]

LEMMA ClosedKept ==
    ASSUME TypeOK, Marked, [Next]_vars, NEW t \in Streams
    PROVE  (closed[t] => closed'[t]) /\ (dataTx[t] => dataTx'[t] \/ closed'[t])
<1>. USE DEF TypeOK, TypeOKHost, TypeOKClosers, Closers, registryVars, stateVars,
             streamVars, taskVars
<1>1. ASSUME NEW s \in Streams, Register(s) \/ CloseMark(s)
      PROVE  (closed[t] => closed'[t]) /\ (dataTx[t] => dataTx'[t] \/ closed'[t])
  BY <1>1 DEF Register, CloseMark
<1>2. ASSUME NEW s \in Streams, Owner(s), ~Register(s), ~CloseMark(s)
      PROVE  closed' = closed /\ dataTx' = dataTx
  BY <1>2 DEF Owner, OwnerStep, OwnerChoice, PostOpen, Refuse, Acked, NotAcked,
       WaitFails, WaitOn, Woken, CancelOpen, CancelSend, BeginSend, WriteIds,
       PostWrite, RecvTake, RecvOkay, RecvEnd, BeginClose, CloseRemove,
       ClosePost, DropStream
<1>3. ASSUME NEW a \in Closers, MarkClosed(a) \/ TakeAndWake(a)
      PROVE  (closed[t] => closed'[t]) /\ (dataTx[t] => dataTx'[t] \/ closed'[t])
  BY <1>3 DEF MarkClosed, TakeAndWake, Marked
<1>4. ASSUME NEW a \in Closers, Drain(a) \/ Each(a) PROVE closed' = closed /\ dataTx' = dataTx
  BY <1>4 DEF Drain, Each
<1>5. CASE ReaderOkay \/ AckCount \/ AckWake \/ ReaderWrite
  BY <1>5 DEF ReaderOkay, AckCount, AckWake, ReaderWrite
<1>6. CASE ReaderClose \/ ReaderStray \/ ReaderFails \/ ReaderAborts \/ BeginSessionClose
  BY <1>6 DEF ReaderClose, ReaderStray, ReaderFails, ReaderAborts, BeginSessionClose
<1>7. CASE WriterTask \/ LinkDown
  BY <1>7 DEF WriterTask, WriterSends, WriterAborts, LinkDown
<1>8. CASE Device
  BY <1>8, DeviceReads
<1>9. CASE UNCHANGED vars
  BY <1>9 DEF vars
<1>. QED
  BY <1>1, <1>2, <1>3, <1>4, <1>5, <1>6, <1>7, <1>8, <1>9
  DEF Next, ReaderTask, SessionThread, CloseAll

LEMMA SendingStep ==
    ASSUME TypeOK, Phases, Marked, Sending, [Next]_vars PROVE Sending'
<1>1. ASSUME NEW s \in Streams, Register(s) PROVE Sending'
  BY <1>1 DEF Register, Sending, Born, TypeOK, TypeOKHost, TypeOKCalls
<1>2. CASE RegistryKept
  BY <1>2, ClosedKept DEF RegistryKept, Sending, Born
<1>. QED
  BY <1>1, <1>2, RegistryStep

LEMMA MarkedStep ==
    ASSUME TypeOK, Marked, [Next]_vars PROVE Marked'
<1>. USE DEF TypeOK, TypeOKHost, TypeOKClosers, Closers
<1>1. ASSUME NEW a \in Closers, MarkClosed(a) PROVE Marked'
  BY <1>1 DEF MarkClosed, Marked
<1>2. ASSUME ~(\E a \in Closers : MarkClosed(a)), NEW b \in Closers, apc'[b] = "take"
      PROVE  apc[b] = "take" /\ cur'[b] = cur[b]
  <2>1. CASE \E s \in Streams : Owner(s)
    BY <1>2, <2>1, OwnerKeepsClosers
  <2>2. CASE ReaderOkay \/ AckCount \/ AckWake \/ ReaderWrite
    BY <1>2, <2>2 DEF ReaderOkay, AckCount, AckWake, ReaderWrite, Recv
  <2>3. CASE ReaderClose \/ ReaderStray \/ ReaderFails \/ ReaderAborts \/ BeginSessionClose
    BY <1>2, <2>3 DEF ReaderClose, ReaderStray, ReaderFails, ReaderAborts, BeginSessionClose, Recv
  <2>4. ASSUME NEW a \in Closers, CloseAll(a) PROVE apc[b] = "take" /\ cur'[b] = cur[b]
    BY <1>2, <2>4 DEF CloseAll, Drain, Each, TakeAndWake
  <2>5. CASE WriterTask \/ LinkDown
    BY <1>2, <2>5 DEF WriterTask, WriterSends, WriterAborts, LinkDown, closerVars
  <2>6. CASE Device
    BY <1>2, <2>6, DeviceReads DEF closerVars
  <2>7. CASE UNCHANGED vars
    BY <1>2, <2>7 DEF vars, taskVars, closerVars
  <2>. QED
    BY <2>1, <2>2, <2>3, <2>4, <2>5, <2>6, <2>7 DEF Next, ReaderTask, SessionThread
<1>3. ASSUME NEW b \in Closers, apc[b] = "take", cur'[b] = cur[b]
      PROVE  closed'[cur'[b]]
  <2>1. cur[b] \in Streams
    BY <1>3
  <2>. QED
    BY <1>3, <2>1, ClosedKept DEF Marked
<1>. QED
  BY <1>1, <1>2, <1>3 DEF Marked

LEMMA ReceivingStep ==
    ASSUME TypeOK, Receiving, [Next]_vars PROVE Receiving'
<1>. USE DEF TypeOK, TypeOKCalls, Receiving, recvVars, ownerVars, streamVars
<1>1. ASSUME NEW s \in Streams, Register(s) \/ PostOpen(s) \/ Refuse(s) PROVE Receiving'
  BY <1>1 DEF Register, PostOpen, Refuse
<1>2. ASSUME NEW s \in Streams, CancelOpen(s) \/ DropStream(s) PROVE Receiving'
  BY <1>2 DEF CancelOpen, DropStream
<1>3. ASSUME NEW s \in Streams, Acked(s) \/ NotAcked(s) \/ WaitFails(s) \/ WaitOn(s) \/ Woken(s)
      PROVE  Receiving'
  BY <1>3 DEF Acked, NotAcked, WaitFails, WaitOn, Woken
<1>4. ASSUME NEW s \in Streams, CancelSend(s) \/ (\E n \in SendLens : BeginSend(s, n)) \/
             WriteIds(s) \/ PostWrite(s)
      PROVE  Receiving'
  BY <1>4 DEF CancelSend, BeginSend, WriteIds, PostWrite
<1>5. ASSUME NEW s \in Streams, RecvTake(s) \/ RecvOkay(s) \/ RecvEnd(s) PROVE Receiving'
  BY <1>5 DEF RecvTake, RecvOkay, RecvEnd
<1>6. ASSUME NEW s \in Streams, BeginClose(s) \/ CloseMark(s) \/ CloseRemove(s) \/ ClosePost(s)
      PROVE  Receiving'
  BY <1>6 DEF BeginClose, CloseMark, CloseRemove, ClosePost
<1>7. CASE ReaderTask \/ SessionThread
  BY <1>7 DEF ReaderTask, SessionThread, ReaderOkay, AckCount, AckWake, ReaderWrite,
       ReaderClose, ReaderStray, ReaderFails, ReaderAborts, BeginSessionClose, CloseAll,
       Drain, Each, MarkClosed, TakeAndWake
<1>8. CASE WriterTask \/ LinkDown
  BY <1>8 DEF WriterTask, WriterSends, WriterAborts, LinkDown
<1>9. CASE Device
  BY <1>9, DeviceReads
<1>10. CASE UNCHANGED vars
  BY <1>10 DEF vars
<1>. QED
  BY <1>1, <1>2, <1>3, <1>4, <1>5, <1>6, <1>7, <1>8, <1>9, <1>10
  DEF Next, Owner, OwnerStep, OwnerChoice

-----------------------------------------------------------------------------
(* Where the chunk is that the device has not seen acknowledged *)

Attached(r, s) ==
    /\ life[s] \in {"opening", "open"} /\ ~closed[s] /\ registry[localId[s]] = s
    /\ link = "up" /\ writer = "run" /\ devSt[r] = "open"

OnItsWay(r, s) == InDown(r) \/ InUp(r) \/ hand[s] # <<>> \/ dataQ[s] # <<>>

Owed(r, s) == Attached(r, s) /\ devInFlight[r] => OnItsWay(r, s)

OwedInv ==
    /\ FlowInv /\ Sending /\ Marked /\ Receiving
    /\ \A r \in RemoteIds, s \in Streams : Serves(r, s) => Owed(r, s)

(* The device may let go of a stream it serves, never take it up again. *)
LEMMA OpenBack ==
    ASSUME TypeOK, [Next]_vars, NEW r \in RemoteIds, Started(r), devSt'[r] = "open",
           ~Starts(r)
    PROVE  devSt[r] = "open"
<1>1. CASE ~Device
  BY <1>1, OthersLeaveDevice DEF deviceVars
<1>. USE DEF TypeOK, TypeOKDevice
<1>2. CASE DevOpen
  BY <1>2 DEF DevOpen, Starts
<1>3. CASE DevWrite \/ DevOkay \/ DevClose
  BY <1>3 DEF DevWrite, DevOkay, DevClose, KnownToDevice
<1>4. ASSUME NEW q \in RemoteIds, DevOutput(q) \/ DevFinish(q) PROVE devSt[r] = "open"
  BY <1>4 DEF DevOutput, DevFinish
<1>5. ASSUME NEW cmd \in Strays, DevStray(cmd) PROVE devSt[r] = "open"
  BY <1>5 DEF DevStray
<1>. QED
  BY <1>1, <1>2, <1>3, <1>4, <1>5 DEF Device, DeviceReceives

(* Writer and link do not come back. *)
LEMMA EndsBack ==
    ASSUME TypeOK, [Next]_vars
    PROVE  (link' = "up" => link = "up") /\ (writer' = "run" => writer = "run")
<1>1. CASE \E s \in Streams : Owner(s)
  <2>1. PICK s \in Streams : Owner(s)
    BY <1>1
  <2>2. link' = link
    BY <2>1, OwnerPosts
  <2>3. CASE Register(s) \/ PostOpen(s) \/ Refuse(s) \/ Acked(s) \/ NotAcked(s) \/ WaitFails(s)
             \/ WaitOn(s) \/ Woken(s) \/ CancelOpen(s) \/ CancelSend(s)
    BY <2>2, <2>3 DEF Register, PostOpen, Refuse, Acked, NotAcked, WaitFails, WaitOn, Woken,
       CancelOpen, CancelSend, Post, PostFails, writerVars, taskVars
  <2>4. CASE \/ (\E n \in SendLens : BeginSend(s, n)) \/ WriteIds(s) \/ PostWrite(s)
             \/ RecvTake(s) \/ RecvOkay(s) \/ RecvEnd(s)
    BY <2>2, <2>4 DEF BeginSend, WriteIds, PostWrite, RecvTake, RecvOkay, RecvEnd,
       Post, PostFails, writerVars, taskVars
  <2>5. CASE BeginClose(s) \/ CloseMark(s) \/ CloseRemove(s) \/ ClosePost(s) \/ DropStream(s)
    BY <2>2, <2>5 DEF BeginClose, CloseMark, CloseRemove, ClosePost, DropStream,
       Post, PostFails, writerVars, taskVars
  <2>. QED
    BY <2>1, <2>3, <2>4, <2>5 DEF Owner, OwnerStep, OwnerChoice
<1>2. CASE ReaderTask \/ SessionThread
  BY <1>2 DEF ReaderTask, SessionThread, ReaderOkay, AckCount, AckWake, ReaderWrite,
       ReaderClose, ReaderStray, ReaderFails, ReaderAborts, BeginSessionClose, CloseAll,
       Drain, Each, MarkClosed, TakeAndWake, Recv, Post, PostFails, writerVars, linkVars
<1>3. CASE WriterTask \/ LinkDown
  BY <1>3 DEF WriterTask, WriterSends, WriterAborts, LinkDown, writerVars, linkVars
<1>4. CASE Device
  BY <1>4, DeviceReads DEF writerVars
<1>5. CASE UNCHANGED vars
  BY <1>5 DEF vars, taskVars, writerVars, linkVars
<1>. QED
  BY <1>1, <1>2, <1>3, <1>4, <1>5 DEF Next

(* A step before which s was not attached does not attach it. *)
LEMMA AttachedBack ==
    ASSUME TypeOK, Phases, Marked, [Next]_vars, NEW r \in RemoteIds, NEW s \in Streams,
           Serves(r, s), Attached(r, s)', ~Starts(r)
    PROVE  Attached(r, s)
<1>1. s \in Born /\ Started(r)
  BY DEF Serves
<1>2. life[s] \in {"opening", "open"}
  <2>1. CASE \E u \in Streams : Owner(u) /\ u # s
    BY <2>1, OwnerKeepsOthers DEF OthersKept, Attached
  <2>2. CASE Owner(s)
    BY <1>1, <2>2 DEF Attached, Born, Owner, OwnerStep, OwnerChoice, Register, PostOpen, Refuse,
       Acked, NotAcked, WaitFails, WaitOn, Woken, CancelOpen, CancelSend, BeginSend, WriteIds,
       PostWrite, RecvTake, RecvOkay, RecvEnd, BeginClose, CloseMark, CloseRemove,
       ClosePost, DropStream, TypeOK, TypeOKCalls
  <2>3. CASE ReaderTask \/ SessionThread \/ WriterTask \/ LinkDown \/ Device
    BY <2>3, TasksKeepCalls DEF Attached
  <2>4. CASE UNCHANGED vars
    BY <2>4 DEF Attached, vars, streamVars, ownerVars
  <2>. QED
    BY <2>1, <2>2, <2>3, <2>4 DEF Next
<1>3. ~closed[s]
  BY ClosedKept DEF Attached, TypeOK, TypeOKHost
<1>4. registry[localId[s]] = s
  BY <1>1, RegisteredBack DEF Attached
<1>5. link = "up" /\ writer = "run"
  BY EndsBack DEF Attached
<1>6. devSt[r] = "open"
  BY <1>1, OpenBack DEF Attached
<1>. QED
  BY <1>2, <1>3, <1>4, <1>5, <1>6 DEF Attached

LEMMA InUpGrown ==
    ASSUME TypeOK, TypeOK', NEW r, NEW m, Grown(Upward', Upward, m), InUp(r) \/ Answers(r, m)
    PROVE  InUp(r)'
<1>1. /\ DOMAIN Upward' = 1 .. Len(Upward) + 1 /\ Len(Upward) \in Nat
      /\ DOMAIN Upward = 1 .. Len(Upward) /\ Upward'[Len(Upward) + 1] = m
      /\ \A k \in 1 .. Len(Upward) : Upward'[k] = Upward[k]
  BY Domains, DomainsPrimed DEF Grown
<1>2. \A k \in DOMAIN Upward : k \in DOMAIN Upward'
  BY <1>1
<1>. QED
  BY <1>1, <1>2 DEF InUp, Answers

LEMMA InDownGrown ==
    ASSUME TypeOK, TypeOK', NEW r, NEW m, Grown(d2h', d2h, m), InDown(r) \/ Carries(r, m)
    PROVE  InDown(r)'
<1>1. /\ DOMAIN d2h' = 1 .. Len(d2h) + 1 /\ Len(d2h) \in Nat
      /\ DOMAIN d2h = 1 .. Len(d2h) /\ d2h'[Len(d2h) + 1] = m
      /\ \A k \in 1 .. Len(d2h) : d2h'[k] = d2h[k]
  BY Domains, DomainsPrimed DEF Grown
<1>2. \A k \in DOMAIN d2h : k \in DOMAIN d2h'
  BY <1>1
<1>. QED
  BY <1>1, <1>2 DEF InDown, Carries

(* recv turns a chunk into its OKAY; nothing else that an owner does moves  *)
(* one, as long as it does not give its stream up.                          *)
LEMMA OwedOwner ==
    ASSUME FlowInv, TypeOK', NEW u \in Streams, Owner(u), NEW r \in RemoteIds, NEW s \in Streams,
           Serves(r, s), Attached(r, s), Attached(r, s)', OnItsWay(r, s)
    PROVE  OnItsWay(r, s)'
<1>1. TypeOK /\ Phase(s) /\ PeersInv /\ ServicesApart
  BY DEF FlowInv, PeersInv, RoutingInv, Phases, Peers
<1>2. ASSUME life[s] \in {"open", "closed"} PROVE remoteId[s] = r /\ r # 0
  <2>1. remoteId[s] # 0
    BY <1>1, <1>2 DEF Phase
  <2>2. remoteId[s] \in RemoteIds /\ Serves(remoteId[s], s)
    BY <1>1, <2>1, RemoteServes
  <2>. QED
    BY <1>1, <2>1, <2>2 DEF Serves, ServicesApart
<1>3. CASE u = s /\ RecvTake(s)
  <2>1. remoteId[s] # 0 /\ ~closed[s]
    BY <1>2, <1>3 DEF RecvTake, Attached
  <2>2. hand' = [hand EXCEPT ![s] = <<Head(dataQ[s])>>]
    BY <1>3, <2>1 DEF RecvTake
  <2>3. hand'[s] # <<>>
    BY <1>1, <2>2 DEF TypeOK, TypeOKQueues
  <2>. QED
    BY <2>3 DEF OnItsWay
<1>4. CASE u = s /\ RecvOkay(s)
  <2>1. Answers(r, OkayFor(s))
    BY <1>1, <1>2, <1>4 DEF RecvOkay, Phase, Answers, OkayFor, Msg
  <2>2. Post(OkayFor(s))
    BY <1>4 DEF RecvOkay, PostFails, Attached
  <2>3. OkayFor(s) \in HostMessages /\ h2d' = h2d
    BY <1>1, <1>4 DEF OkayFor, Msg, HostMessages, Commands, TypeOK, TypeOKHost, RecvOkay, linkVars
  <2>4. Grown(Upward', Upward, OkayFor(s))
    BY <1>1, <2>2, <2>3, PostGrows DEF TypeOK
  <2>. QED
    BY <1>1, <2>1, <2>4, InUpGrown DEF OnItsWay
<1>5. CASE ~(u = s /\ (RecvTake(u) \/ RecvOkay(u)))
  <2>1. hand'[s] = hand[s] /\ dataQ'[s] = dataQ[s]
    BY <1>1, <1>5, OwnerMoves DEF Attached
  <2>2. InDown(r) => InDown(r)'
    BY <1>1, OwnerPosts DEF InDown, Carries
  <2>3. InUp(r) => InUp(r)'
    <3>1. CASE Upward' = Upward
      BY <3>1 DEF InUp, Answers
    <3>2. CASE \E m : Grown(Upward', Upward, m)
      BY <1>1, <3>2, InUpGrown
    <3>. QED
      BY <1>1, <3>1, <3>2, OwnerPosts
  <2>. QED
    BY <2>1, <2>2, <2>3 DEF OnItsWay
<1>. QED
  BY <1>3, <1>4, <1>5

(* The reader takes a chunk off the link by reading it. *)
LEMMA HeadCarries ==
    ASSUME TypeOK, TypeOK', NEW r, NEW cmd, Recv(cmd), InDown(r), ~InDown(r)'
    PROVE  Carries(r, Head(d2h))
<1>1. PICK k \in DOMAIN d2h : Carries(r, d2h[k])
  BY DEF InDown
<1>2. /\ Head(d2h) = d2h[1] /\ Len(d2h') = Len(d2h) - 1
      /\ \A j \in 1 .. Len(d2h') : d2h'[j] = d2h[j + 1]
  BY RecvTakes
<1>3. ASSUME k # 1 PROVE FALSE
  <2>1. k - 1 \in DOMAIN d2h' /\ (k - 1) + 1 = k
    BY <1>1, <1>2, <1>3, Domains, DomainsPrimed
  <2>2. Carries(r, d2h'[k - 1])
    BY <1>1, <1>2, <2>1, DomainsPrimed
  <2>. QED
    BY <2>1, <2>2 DEF InDown, Carries
<1>. QED
  BY <1>1, <1>2, <1>3

(* The reader queues a chunk for the stream it is addressed to. *)
LEMMA OwedTasks ==
    ASSUME FlowInv, Sending, Receiving, TypeOK', ReaderTask \/ SessionThread,
           NEW r \in RemoteIds, NEW s \in Streams,
           Serves(r, s), Attached(r, s), OnItsWay(r, s)
    PROVE  OnItsWay(r, s)'
<1>1. TypeOK /\ PeersInv /\ s \in Born /\ registry[localId[s]] = s /\ s # NoStream
  BY StreamsAssumption DEF FlowInv, PeersInv, RoutingInv, Serves, Attached
<1>2. InUp(r) => InUp(r)'
  <2>1. CASE Upward' = Upward
    BY <2>1 DEF InUp, Answers
  <2>2. CASE \E m : Grown(Upward', Upward, m)
    BY <1>1, <2>2, InUpGrown
  <2>. QED
    BY <1>1, <2>1, <2>2, TasksPost
<1>3. hand'[s] = hand[s]
  BY TasksMove
<1>4. dataQ[s] # <<>> => dataQ'[s] # <<>>
  <2>1. CASE ~ReaderWrite
    BY <2>1, TasksMove
  <2>2. CASE ReaderWrite
    BY <1>1, <2>2 DEF ReaderWrite, TypeOK, TypeOKQueues
  <2>. QED
    BY <2>1, <2>2
<1>5. CASE InDown(r) /\ ~InDown(r)'
  <2>1. link = "up" /\ d2h' # d2h
    BY <1>5 DEF Attached, InDown, Carries
  <2>2. PICK cmd \in Commands : Recv(cmd)
    BY <2>1, ReaderTakes
  <2>3. Head(d2h).cmd = "WRTE" /\ Head(d2h).arg0 = r
    BY <1>1, <1>5, <2>2, HeadCarries DEF Carries
  <2>4. Addressee = s
    <3>1. FromService(Head(d2h))
      BY <1>1, <2>2, <2>3, ChunkAddressed DEF Recv
    <3>. QED
      BY <1>1, <2>3, <3>1 DEF FromService, Addressee, Serves
  <2>5. ReaderWrite
    BY <2>1, <2>3 DEF ReaderTask, SessionThread, ReaderOkay, AckCount, AckWake, ReaderClose,
       ReaderStray, ReaderFails, ReaderAborts, BeginSessionClose, CloseAll, Drain, Each,
       MarkClosed, TakeAndWake, Recv, linkVars, Attached
  <2>6. Listening(s)
    BY <1>1 DEF Listening, Attached, Sending, Receiving
  <2>7. Head(d2h).arg1 \in LocalIds
    BY <1>1, <2>2, RecvTakes
  <2>. QED
    BY <1>1, <2>4, <2>5, <2>6, <2>7 DEF ReaderWrite, OnItsWay, TypeOK, TypeOKQueues
<1>. QED
  BY <1>2, <1>3, <1>4, <1>5 DEF OnItsWay

(* On a link that is up the writer only hands the messages on. *)
LEMMA HandedOn ==
    ASSUME TypeOKLink, LinkIsEmpty, WriterSends, link = "up", writer' = "run"
    PROVE  Len(Upward') = Len(Upward) /\ \A k \in 1 .. Len(Upward) : Upward'[k] = Upward[k]
<1>1. /\ outbox # <<>> /\ outbox' = Tail(outbox) /\ h2d' = Append(h2d, Head(outbox))
      /\ outbox \in Seq(HostMessages) /\ h2d \in Seq(HostMessages)
  BY DEF WriterSends, TypeOKLink
<1>2. Len(Upward') = Len(Upward) /\ Len(Upward) \in Nat
  <2>1. Len(outbox') = Len(outbox) - 1 /\ Len(h2d') = Len(h2d) + 1
    BY <1>1, HeadTailProperties, AppendProperties
  <2>2. outbox' \in Seq(HostMessages) /\ h2d' \in Seq(HostMessages)
    BY <1>1
  <2>3. Len(Upward') = Len(h2d') + Len(outbox')
    BY <2>2, ConcatProperties DEF Upward
  <2>4. Len(Upward) = Len(h2d) + Len(outbox)
    BY <1>1, ConcatProperties DEF Upward
  <2>5. Len(h2d) \in Nat /\ Len(outbox) \in Nat
    BY <1>1, LenProperties
  <2>. QED
    BY <2>1, <2>3, <2>4, <2>5
<1>3. PICK d \in Nat : /\ Len(Upward') + d <= Len(Upward)
                       /\ \A k \in 1 .. Len(Upward') : Upward'[k] = Upward[k + d]
  BY CarrySlice DEF Slice, WriterTask
<1>4. d = 0
  BY <1>2, <1>3
<1>. QED
  BY <1>2, <1>3, <1>4

LEMMA OwedCarry ==
    ASSUME FlowInv, TypeOK', WriterTask \/ LinkDown, NEW r \in RemoteIds, NEW s \in Streams,
           Attached(r, s), Attached(r, s)', OnItsWay(r, s)
    PROVE  OnItsWay(r, s)'
<1>1. TypeOK /\ TypeOKLink /\ LinkIsEmpty
  BY DEF FlowInv, PeersInv, RoutingInv, Peers, TypeOK
<1>2. d2h' = d2h /\ hand' = hand /\ dataQ' = dataQ
  BY DEF WriterTask, WriterSends, WriterAborts, LinkDown, linkVars, streamVars, ownerVars, recvVars
<1>3. WriterSends /\ link = "up" /\ writer' = "run"
  BY <1>1 DEF WriterTask, WriterAborts, LinkDown, Attached
<1>4. InUp(r) => InUp(r)'
  BY <1>1, <1>3, HandedOn, Domains, DomainsPrimed DEF InUp, Answers
<1>. QED
  BY <1>2, <1>4 DEF OnItsWay, InDown, Carries

(* The device takes r's OKAY and then waits for none. *)
LEMMA OwedDevice ==
    ASSUME FlowInv, TypeOK', Device, NEW r \in RemoteIds, NEW s \in Streams,
           Attached(r, s), Owed(r, s), devInFlight'[r]
    PROVE  OnItsWay(r, s)'
<1>1. TypeOK
  BY DEF FlowInv, PeersInv, RoutingInv
<1>2. hand' = hand /\ dataQ' = dataQ
  BY <1>1, DeviceReads DEF streamVars, ownerVars, recvVars
<1>3. CASE DevOutput(r)
  <2>1. PICK m : m = Msg("WRTE", r, devHost[r], devSent[r] + 1)
    OBVIOUS
  <2>2. m \in DeviceMessages /\ Carries(r, m)
    BY <1>1, <2>1, RemoteIdsAssumption DEF Msg, DeviceMessages, Commands, Carries, TypeOK, TypeOKDevice
  <2>3. Grown(d2h', d2h, m)
    BY <1>1, <1>3, <2>1, <2>2, DeviceSendsDown DEF DevOutput
  <2>. QED
    BY <1>1, <2>2, <2>3, InDownGrown DEF OnItsWay
<1>4. CASE ~DevOutput(r)
  <2>1. OnItsWay(r, s)
    <3>1. DevOkay => devInFlight'[r] \in {devInFlight[r], FALSE}
      BY <1>1 DEF DevOkay, TypeOK, TypeOKDevice
    <3>. QED
      BY <1>1, <1>4, <3>1, DeviceMoves DEF Owed
  <2>2. InDown(r) => InDown(r)'
    <3>1. CASE d2h' = d2h
      BY <3>1 DEF InDown, Carries
    <3>2. CASE \E m : Grown(d2h', d2h, m)
      BY <1>1, <3>2, InDownGrown
    <3>. QED
      BY <1>1, <1>4, <3>1, <3>2, DeviceMoves
  <2>3. InUp(r) => InUp(r)'
    <3>1. SUFFICES ASSUME NEW k \in DOMAIN Upward, Answers(r, Upward[k]) PROVE InUp(r)'
      BY DEF InUp
    <3>2. CASE h2d' = h2d /\ outbox' = outbox
      BY <3>1, <3>2 DEF InUp, Upward, Answers
    <3>3. ASSUME NEW cmd, DeviceGets(cmd), outbox' = outbox, k # 1 PROVE InUp(r)'
      <4>1. /\ Len(Upward') = Len(Upward) - 1
            /\ \A i \in 1 .. Len(Upward') : Upward'[i] = Upward[i + 1]
        BY <1>1, <3>3, GetsSlice DEF TypeOK
      <4>2. k - 1 \in DOMAIN Upward' /\ (k - 1) + 1 = k
        BY <1>1, <3>1, <3>3, <4>1, Domains, DomainsPrimed
      <4>3. Answers(r, Upward'[k - 1])
        BY <3>1, <4>1, <4>2, DomainsPrimed
      <4>. QED
        BY <4>2, <4>3 DEF InUp, Answers
    <3>4. ASSUME NEW cmd \in {"OPEN", "WRTE", "CLSE"}, DeviceGets(cmd), outbox' = outbox
          PROVE  InUp(r)'
      <4>1. Upward[1].cmd # "OKAY"
        BY <1>1, <3>4, GetsSlice DEF TypeOK
      <4>. QED
        BY <3>1, <3>3, <3>4, <4>1 DEF Answers
    <3>5. CASE DevOkay
      <4>1. Head(h2d).arg1 # r
        BY <1>1, <3>5 DEF DevOkay, KnownToDevice, Attached, TypeOK, TypeOKDevice
      <4>2. Upward[1] = Head(h2d) /\ DeviceGets("OKAY") /\ outbox' = outbox
        BY <1>1, <3>5, GetsSlice DEF DevOkay, TypeOK, writerVars
      <4>. QED
        BY <3>1, <3>3, <4>1, <4>2 DEF Answers
    <3>6. CASE DevOpen \/ DevWrite \/ DevClose
      BY <3>4, <3>6 DEF DevOpen, DevWrite, DevClose, writerVars
    <3>7. CASE \/ \E q \in RemoteIds : DevOutput(q) \/ DevFinish(q)
               \/ \E cmd \in Strays : DevStray(cmd)
      BY <3>2, <3>7 DEF DevOutput, DevFinish, DevStray, writerVars
    <3>. QED
      BY <3>5, <3>6, <3>7 DEF Device, DeviceReceives
  <2>. QED
    BY <1>2, <2>1, <2>2, <2>3 DEF OnItsWay
<1>. QED
  BY <1>3, <1>4

LEMMA OwedsStep ==
    ASSUME IdsSuffice, OwedInv, TypeOK', [Next]_vars,
           NEW r \in RemoteIds, NEW s \in Streams, Serves(r, s)'
    PROVE  Owed(r, s)'
<1>1. TypeOK /\ Phases /\ PeersInv /\ FlowInv /\ ServicesKnown /\ Marked
  BY DEF OwedInv, FlowInv, PeersInv, RoutingInv, Peers
<1>2. SUFFICES ASSUME Attached(r, s)', devInFlight'[r] PROVE OnItsWay(r, s)'
  BY DEF Owed
<1>3. ~Starts(r)
  <2>1. SUFFICES ASSUME Starts(r) PROVE FALSE
    OBVIOUS
  <2>2. ~Started(r)
    BY <1>1, <2>1 DEF Starts, ServicesKnown, TypeOK, TypeOKDevice
  <2>3. ~devInFlight[r]
    BY <1>1, <2>2 DEF FlowInv, Unstarted
  <2>. QED
    BY <1>2, <2>1, <2>3 DEF Starts, DevOpen
<1>4. Started(r)' = Started(r) /\ devHost'[r] = devHost[r]
  BY <1>1, <1>3, DeviceStarts, OthersLeaveDevice DEF deviceVars, Started
<1>5. Serves(r, s) /\ Attached(r, s)
  <2>1. Serves(r, s)
    BY <1>1, <1>4, ServesBack
  <2>. QED
    BY <1>1, <1>2, <1>3, <2>1, AttachedBack
<1>6. Owed(r, s)
  BY <1>5 DEF OwedInv
<1>7. ASSUME ~Device PROVE OnItsWay(r, s)
  BY <1>1, <1>2, <1>5, <1>6, <1>7, OthersLeaveDevice DEF Owed, deviceVars
<1>8. CASE Device
  BY <1>1, <1>2, <1>5, <1>6, <1>8, OwedDevice
<1>9. ASSUME ~Device, NEW u \in Streams, Owner(u) PROVE OnItsWay(r, s)'
  BY <1>1, <1>2, <1>5, <1>7, <1>9, OwedOwner
<1>10. CASE ~Device /\ (ReaderTask \/ SessionThread)
  BY <1>1, <1>5, <1>7, <1>10, OwedTasks DEF OwedInv
<1>11. CASE ~Device /\ (WriterTask \/ LinkDown)
  BY <1>1, <1>2, <1>5, <1>7, <1>11, OwedCarry
<1>12. CASE ~Device /\ UNCHANGED vars
  <2>1. UNCHANGED <<d2h, h2d, outbox, hand, dataQ>>
    BY <1>12 DEF vars, streamVars, taskVars, ownerVars, recvVars, writerVars, linkVars
  <2>. QED
    BY <1>7, <1>12, <2>1 DEF OnItsWay, InDown, InUp, Upward, Carries, Answers
<1>. QED
  BY <1>8, <1>9, <1>10, <1>11, <1>12 DEF Next

LEMMA OwedStep == ASSUME IdsSuffice, OwedInv, [Next]_vars PROVE OwedInv'
<1>1. FlowInv /\ FlowInv' /\ TypeOK /\ TypeOK' /\ Phases
  BY FlowStep DEF OwedInv, FlowInv, PeersInv, RoutingInv
<1>2. Sending' /\ Marked' /\ Receiving'
  BY <1>1, SendingStep, MarkedStep, ReceivingStep DEF OwedInv
<1>. QED
  BY <1>1, <1>2, OwedsStep DEF OwedInv

LEMMA OwedInit == ASSUME IdsSuffice, Init PROVE OwedInv
<1>1. FlowInv
  BY FlowInit
<1>. QED
  BY <1>1 DEF OwedInv, Sending, Marked, Receiving, Serves, Started, Born, Closers, Init

-----------------------------------------------------------------------------
(* Counting *)

LEMMA CountOnce ==
    ASSUME NEW S, \A x, y \in S : x = y
    PROVE  Cardinality(S) = IF S = {} THEN 0 ELSE 1
<1>1. CASE S = {}
  BY <1>1, FS_EmptySet
<1>2. CASE S # {}
  <2>1. PICK x \in S : TRUE
    BY <1>2
  <2>2. S = {x}
    BY <2>1
  <2>. QED
    BY <1>2, <2>2, FS_Singleton
<1>. QED
  BY <1>1, <1>2

LEMMA CountDown ==
    ASSUME TypeOK, MessagesMatch, NEW r \in RemoteIds, NEW s \in Streams, Serves(r, s),
           remoteId[s] = r, OnceDown(r)
    PROVE  CountTo(d2h, "WRTE", s) = IF InDown(r) THEN 1 ELSE 0
<1>. DEFINE S == {k \in DOMAIN d2h : IsTo(d2h[k], "WRTE", s)}
<1>1. S = {k \in DOMAIN d2h : Carries(r, d2h[k])}
  BY DEF IsTo, Carries, MessagesMatch, FromService, Serves
<1>2. \A x, y \in S : x = y
  BY <1>1 DEF OnceDown
<1>3. S = {} <=> ~InDown(r)
  BY <1>1 DEF InDown
<1>4. Cardinality(S) = IF S = {} THEN 0 ELSE 1
  BY <1>2, CountOnce
<1>. QED
  BY <1>3, <1>4 DEF CountTo

LEMMA CountUp ==
    ASSUME TypeOK, Allocated, UpwardMatch, PeersInv, NEW r \in RemoteIds, NEW s \in Streams,
           Serves(r, s), remoteId[s] = r, OnceUp(r)
    PROVE  CountFor(outbox, "OKAY", s) + CountFor(h2d, "OKAY", s) = IF InUp(r) THEN 1 ELSE 0
<1>. DEFINE n == Len(h2d)
            S == {k \in DOMAIN h2d : IsFor(h2d[k], "OKAY", s)}
            T == {k \in DOMAIN outbox : IsFor(outbox[k], "OKAY", s)}
<1>1. /\ DOMAIN h2d = 1 .. n /\ n \in Nat
      /\ DOMAIN outbox = 1 .. Len(outbox) /\ Len(outbox) \in Nat
      /\ DOMAIN Upward = 1 .. n + Len(outbox)
      /\ \A k \in DOMAIN Upward : Upward[k] = IF k <= n THEN h2d[k] ELSE outbox[k - n]
  BY UpwardTyped, LenProperties DEF TypeOK, TypeOKLink
<1>2. /\ \A k \in DOMAIN h2d : k \in DOMAIN Upward /\ Upward[k] = h2d[k]
      /\ \A k \in DOMAIN outbox : k + n \in DOMAIN Upward /\ Upward[k + n] = outbox[k]
  <2>1. ASSUME NEW k \in DOMAIN h2d PROVE k \in DOMAIN Upward /\ Upward[k] = h2d[k]
    BY <1>1
  <2>2. ASSUME NEW k \in DOMAIN outbox
        PROVE  k + n \in DOMAIN Upward /\ Upward[k + n] = outbox[k]
    <3>1. k + n \in DOMAIN Upward /\ ~(k + n <= n) /\ (k + n) - n = k
      BY <1>1
    <3>. QED
      BY <1>1, <3>1
  <2>. QED
    BY <2>1, <2>2
<1>3. \A k \in DOMAIN Upward : Answers(r, Upward[k]) <=> IsFor(Upward[k], "OKAY", s)
  <2>1. SUFFICES ASSUME NEW k \in DOMAIN Upward, Answers(r, Upward[k])
                 PROVE  Upward[k].arg0 = localId[s]
    BY DEF IsFor, Answers
  <2>2. PICK t \in Born : Upward[k].arg0 = localId[t] /\ remoteId[t] = r /\ remoteId[t] # 0
    BY <2>1 DEF UpwardMatch, ToService, Answers
  <2>3. Serves(r, t)
    BY <2>2, RemoteServes DEF Born
  <2>. QED
    BY <2>2, <2>3, ServesOne
<1>4. \A x, y \in S : x = y
  BY <1>2, <1>3 DEF OnceUp
<1>5. \A x, y \in T : x = y
  <2>1. ASSUME NEW x \in T, NEW y \in T PROVE x + n = y + n /\ x \in Nat /\ y \in Nat
    BY <1>1, <1>2, <1>3 DEF OnceUp
  <2>. QED
    BY <1>1, <2>1
<1>6. S = {} \/ T = {}
  <2>1. ASSUME NEW x \in S, NEW y \in T PROVE FALSE
    <3>1. x = y + n
      BY <1>2, <1>3 DEF OnceUp
    <3>. QED
      BY <1>1, <3>1
  <2>. QED
    BY <2>1
<1>7. InUp(r) <=> S # {} \/ T # {}
  <2>1. S # {} \/ T # {} => InUp(r)
    BY <1>2, <1>3 DEF InUp
  <2>2. ASSUME NEW k \in DOMAIN Upward, Answers(r, Upward[k]) PROVE S # {} \/ T # {}
    <3>1. CASE k <= n
      BY <1>1, <1>3, <2>2, <3>1
    <3>2. CASE ~(k <= n)
      <4>1. k - n \in DOMAIN outbox
        BY <1>1, <3>2
      <4>. QED
        BY <1>1, <1>3, <2>2, <3>2, <4>1
    <3>. QED
      BY <3>1, <3>2
  <2>. QED
    BY <2>1, <2>2 DEF InUp
<1>8. Cardinality(S) = IF S = {} THEN 0 ELSE 1
  BY <1>4, CountOnce
<1>9. Cardinality(T) = IF T = {} THEN 0 ELSE 1
  BY <1>5, CountOnce
<1>. QED
  BY <1>6, <1>7, <1>8, <1>9 DEF CountFor

(* Flow control closes the circle: as long as a stream and its service are  *)
(* attached to each other, the device waits for exactly one acknowledgement *)
(* per chunk it has sent, and that chunk or its OKAY is in exactly one place*)
(* on the way (stream.rs:17, reader.rs:43).  None is lost in a race of      *)
(* close, open, cancellation or wake-up, and none is sent twice.            *)
THEOREM NoAcknowledgementIsLost ==
    ASSUME IdsSuffice
    PROVE  Spec => []AcknowledgedOnce
<1>1. Init => OwedInv
  BY OwedInit
<1>2. OwedInv /\ [Next]_vars => OwedInv'
  BY OwedStep
<1>3. OwedInv => AcknowledgedOnce
  <2>1. SUFFICES ASSUME OwedInv, NEW s \in Streams, life[s] = "open", ~closed[s],
                        registry[localId[s]] = s, link = "up", writer = "run",
                        devSt[remoteId[s]] = "open"
                 PROVE  CountTo(d2h, "WRTE", s) + Len(dataQ[s]) + Len(hand[s])
                      + CountFor(outbox, "OKAY", s) + CountFor(h2d, "OKAY", s)
                      = IF devInFlight[remoteId[s]] THEN 1 ELSE 0
    BY DEF AcknowledgedOnce
  <2>2. TypeOK /\ Phase(s) /\ PeersInv /\ Allocated /\ MessagesMatch /\ FlowInv
    BY <2>1 DEF OwedInv, FlowInv, PeersInv, RoutingInv, Phases, Peers
  <2>3. PICK r \in RemoteIds : r = remoteId[s] /\ Serves(r, s)
    BY <2>1, <2>2, RemoteServes DEF Phase
  <2>4. Flow(r, s) /\ Owed(r, s) /\ UpwardMatch
    BY <2>1, <2>3 DEF OwedInv, FlowInv, Flows
  <2>5. CountTo(d2h, "WRTE", s) = IF InDown(r) THEN 1 ELSE 0
    BY <2>2, <2>3, <2>4, CountDown DEF Flow
  <2>6. CountFor(outbox, "OKAY", s) + CountFor(h2d, "OKAY", s) = IF InUp(r) THEN 1 ELSE 0
    BY <2>2, <2>3, <2>4, CountUp DEF Flow
  <2>7. /\ Len(dataQ[s]) = IF dataQ[s] = <<>> THEN 0 ELSE 1
        /\ Len(hand[s]) = IF hand[s] = <<>> THEN 0 ELSE 1
    BY <2>4 DEF Flow
  <2>8. CountFor(outbox, "OKAY", s) \in Int /\ CountFor(h2d, "OKAY", s) \in Int
    <3>1. IsFiniteSet(DOMAIN outbox) /\ IsFiniteSet(DOMAIN h2d)
      BY <2>2, LenProperties, FS_Interval DEF TypeOK, TypeOKLink
    <3>. QED
      BY <3>1, FS_Subset, FS_CardinalityType DEF CountFor
  <2>9. devInFlight[r] <=> OnItsWay(r, s)
    <3>1. Attached(r, s)
      BY <2>1, <2>3 DEF Attached
    <3>2. OnItsWay(r, s) => devInFlight[r]
      BY <2>4 DEF Flow, AllButLast, OnItsWay
    <3>. QED
      BY <2>4, <3>1, <3>2 DEF Owed
  <2>10. /\ InDown(r) => hand[s] = <<>> /\ dataQ[s] = <<>> /\ ~InUp(r)
         /\ dataQ[s] # <<>> => hand[s] = <<>> /\ ~InUp(r) /\ ~InDown(r)
         /\ hand[s] # <<>> => ~InUp(r) /\ ~InDown(r) /\ dataQ[s] = <<>>
    BY <2>4 DEF Flow
  <2>11. PICK a, b, c, d, e \in Int :
            /\ a = CountTo(d2h, "WRTE", s) /\ b = Len(dataQ[s]) /\ c = Len(hand[s])
            /\ d = CountFor(outbox, "OKAY", s) /\ e = CountFor(h2d, "OKAY", s)
    BY <2>5, <2>7, <2>8
  <2>12. a + b + c + (d + e) = IF OnItsWay(r, s) THEN 1 ELSE 0
    <3>1. /\ a = IF InDown(r) THEN 1 ELSE 0
          /\ b = IF dataQ[s] = <<>> THEN 0 ELSE 1
          /\ c = IF hand[s] = <<>> THEN 0 ELSE 1
          /\ d + e = IF InUp(r) THEN 1 ELSE 0
      BY <2>5, <2>6, <2>7, <2>11
    <3>2. CASE InDown(r)
      BY <2>10, <3>1, <3>2 DEF OnItsWay
    <3>3. CASE dataQ[s] # <<>>
      BY <2>10, <3>1, <3>3 DEF OnItsWay
    <3>4. CASE hand[s] # <<>>
      BY <2>10, <3>1, <3>4 DEF OnItsWay
    <3>5. CASE ~InDown(r) /\ dataQ[s] = <<>> /\ hand[s] = <<>>
      BY <3>1, <3>5 DEF OnItsWay
    <3>. QED
      BY <3>2, <3>3, <3>4, <3>5
  <2>13. a + b + c + d + e = IF devInFlight[r] THEN 1 ELSE 0
    <3>1. a + b + c + d + e = a + b + c + (d + e)
      BY <2>11
    <3>. QED
      BY <2>9, <2>12, <3>1
  <2>. QED
    BY <2>3, <2>11, <2>13
<1>. QED
  BY <1>1, <1>2, <1>3, PTL DEF Spec

-----------------------------------------------------------------------------
(* What a send that has returned Ok has delivered *)

(* Of s at most one WRTE is on its way to r, or its OKAY on the way back,   *)
(* the OPEN's OKAY being the first.                                         *)
Brings(r, m) == m.cmd = "WRTE" /\ m.arg1 = r

WriteUp(r)  == \E k \in DOMAIN Upward : Brings(r, Upward[k])
OkayDown(r) == \E k \in DOMAIN d2h : Accepts(r, d2h[k])
Counting(s) == apc["reader"] = "count" /\ cur["reader"] = s

OneWriteUp(r) ==
    \A k, j \in DOMAIN Upward : Brings(r, Upward[k]) /\ Brings(r, Upward[j]) => k = j
OneOkayDown(r) ==
    \A k, j \in DOMAIN d2h : Accepts(r, d2h[k]) /\ Accepts(r, d2h[j]) => k = j

Turnaround(r, s) ==
    /\ OneWriteUp(r) /\ OneOkayDown(r)
    /\ WriteUp(r) => ~OkayDown(r) /\ ~Counting(s)
    /\ OkayDown(r) => ~Counting(s)
    /\ acks[s] <= writes[s] + 1
    /\ WriteUp(r) \/ OkayDown(r) \/ Counting(s) => acks[s] <= writes[s]

(* What has been handed to send is at the device, in the WRTE on its way or *)
(* still to be written.                                                     *)
Balanced(r, s) ==
    /\ \A k \in DOMAIN Upward : Brings(r, Upward[k]) =>
          asked[s] = devBytes[r] + rest[s] + Upward[k].data
    /\ OkayDown(r) \/ Counting(s) \/ acks[s] > writes[s] =>
          asked[s] = devBytes[r] + rest[s]

(* It balances until a send fails, after which none can succeed.            *)
Ledger(r, s) ==
    /\ sendRes[s] \in {"none", "ok"} => Balanced(r, s)
    /\ sendRes[s] = "pending" =>
          \/ Balanced(r, s)
          \/ pc[s] = "ids" /\ closed[s]
          \/ pc[s] \in {"ids", "post_write"} /\ writer = "stopped"

SendPhase(s) ==
    /\ sendRes[s] = "pending" <=>
          pc[s] \in {"ids", "post_write"} \/ (pc[s] \in Waiting /\ life[s] = "open")
    /\ sendRes[s] # "pending" => rest[s] = 0
    /\ sendRes[s] = "ok" => acks[s] > writes[s]
    /\ sendRes[s] = "closed" => closed[s]
    /\ sendRes[s] = "disconnected" => writer = "stopped"
    /\ sendRes[s] # "cancelled"
    /\ remoteId[s] = 0 => /\ acks[s] = 0 /\ ~Counting(s) /\ writes[s] = 0
                          /\ asked[s] = 0 /\ sendRes[s] = "none"

Unwritten == \A r \in RemoteIds : ~Started(r) => devBytes[r] = 0

SendInv ==
    /\ FlowInv /\ WindowInv /\ Marked /\ Unwritten
    /\ \A s \in Streams : SendPhase(s)
    /\ \A r \in RemoteIds, s \in Streams : Serves(r, s) => Turnaround(r, s) /\ Ledger(r, s)

(* Steps that put no WRTE of s's stream on its way, and no OKAY of r.       *)
WritesQuiet(r) ==
    \/ Slice(Upward', Upward)
    \/ \E m : ~Brings(r, m) /\ Grown(Upward', Upward, m)

OkaysQuiet(r) ==
    \/ Slice(d2h', d2h)
    \/ \E m : ~Accepts(r, m) /\ Grown(d2h', d2h, m)

LEMMA WritesShrink ==
    ASSUME TypeOK, TypeOK', NEW r, WritesQuiet(r)
    PROVE  /\ OneWriteUp(r) => OneWriteUp(r)'
           /\ \A k \in DOMAIN Upward' : Brings(r, Upward'[k]) =>
                 \E j \in DOMAIN Upward : Upward[j] = Upward'[k]
<1>1. CASE Slice(Upward', Upward)
  <2>1. PICK d \in Nat : /\ Len(Upward') + d <= Len(Upward)
                         /\ \A i \in 1 .. Len(Upward') : Upward'[i] = Upward[i + d]
    BY <1>1 DEF Slice
  <2>2. \A k \in DOMAIN Upward' :
           k + d \in DOMAIN Upward /\ Upward'[k] = Upward[k + d] /\ k \in Nat
    BY <2>1, Domains, DomainsPrimed
  <2>. QED
    BY <2>2 DEF OneWriteUp, Brings
<1>2. ASSUME NEW m, ~Brings(r, m), Grown(Upward', Upward, m)
      PROVE  /\ OneWriteUp(r) => OneWriteUp(r)'
             /\ \A k \in DOMAIN Upward' : Brings(r, Upward'[k]) =>
                   \E j \in DOMAIN Upward : Upward[j] = Upward'[k]
  <2>1. \A k \in DOMAIN Upward' :
           Brings(r, Upward'[k]) => k \in DOMAIN Upward /\ Upward'[k] = Upward[k]
    BY <1>2, Domains, DomainsPrimed DEF Grown
  <2>. QED
    BY <2>1 DEF OneWriteUp, Brings
<1>. QED
  BY <1>1, <1>2 DEF WritesQuiet

LEMMA OkaysShrink ==
    ASSUME TypeOK, TypeOK', NEW r, OkaysQuiet(r)
    PROVE  (OneOkayDown(r) => OneOkayDown(r)') /\ (OkayDown(r)' => OkayDown(r))
<1>1. CASE Slice(d2h', d2h)
  <2>1. PICK d \in Nat : /\ Len(d2h') + d <= Len(d2h)
                         /\ \A i \in 1 .. Len(d2h') : d2h'[i] = d2h[i + d]
    BY <1>1 DEF Slice
  <2>2. \A k \in DOMAIN d2h' : k + d \in DOMAIN d2h /\ d2h'[k] = d2h[k + d] /\ k \in Nat
    BY <2>1, Domains, DomainsPrimed
  <2>. QED
    BY <2>2 DEF OneOkayDown, OkayDown, Accepts
<1>2. ASSUME NEW m, ~Accepts(r, m), Grown(d2h', d2h, m)
      PROVE  (OneOkayDown(r) => OneOkayDown(r)') /\ (OkayDown(r)' => OkayDown(r))
  <2>1. \A k \in DOMAIN d2h' : Accepts(r, d2h'[k]) => k \in DOMAIN d2h /\ d2h'[k] = d2h[k]
    BY <1>2, Domains, DomainsPrimed DEF Grown
  <2>. QED
    BY <2>1 DEF OneOkayDown, OkayDown, Accepts
<1>. QED
  BY <1>1, <1>2 DEF OkaysQuiet

LEMMA TurnaroundFrame ==
    ASSUME TypeOK, TypeOK', NEW r \in RemoteIds, NEW s \in Streams, Turnaround(r, s),
           WritesQuiet(r), OkaysQuiet(r), Counting(s)' => Counting(s),
           acks'[s] = acks[s], writes'[s] = writes[s]
    PROVE  Turnaround(r, s)'
<1>1. OneWriteUp(r)' /\ (WriteUp(r)' => WriteUp(r))
  BY WritesShrink DEF Turnaround, WriteUp, Brings
<1>2. OneOkayDown(r)' /\ (OkayDown(r)' => OkayDown(r))
  BY OkaysShrink DEF Turnaround
<1>. QED
  BY <1>1, <1>2 DEF Turnaround

LEMMA BalancedFrame ==
    ASSUME TypeOK, TypeOK', NEW r \in RemoteIds, NEW s \in Streams, Balanced(r, s),
           WritesQuiet(r), OkaysQuiet(r), Counting(s)' => Counting(s),
           acks'[s] = acks[s], writes'[s] = writes[s], devBytes'[r] = devBytes[r],
           NEW n \in Nat, asked'[s] = asked[s] + n, rest'[s] = rest[s] + n
    PROVE  Balanced(r, s)'
<1>1. \A k \in DOMAIN Upward' : Brings(r, Upward'[k]) =>
         \E j \in DOMAIN Upward : Upward[j] = Upward'[k]
  BY WritesShrink
<1>2. OkayDown(r)' => OkayDown(r)
  BY OkaysShrink
<1>3. /\ asked[s] \in Nat /\ rest[s] \in Nat /\ devBytes[r] \in Nat
      /\ \A k \in DOMAIN Upward : Upward[k].data \in Nat
  <2>1. \A k \in DOMAIN Upward : Upward[k] \in HostMessages
    BY UpwardTyped DEF TypeOK
  <2>. QED
    BY <2>1 DEF TypeOK, TypeOKCounts, TypeOKDevice, HostMessages
<1>4. \A k \in DOMAIN Upward' : Brings(r, Upward'[k]) =>
         asked'[s] = devBytes'[r] + rest'[s] + Upward'[k].data
  BY <1>1, <1>3 DEF Balanced, Brings
<1>5. OkayDown(r)' \/ Counting(s)' \/ acks'[s] > writes'[s] =>
         asked'[s] = devBytes'[r] + rest'[s]
  BY <1>2, <1>3 DEF Balanced
<1>. QED
  BY <1>4, <1>5 DEF Balanced

(* The calls of send on a stream are its owner's. *)
LEMMA OwnerKeepsSends ==
    ASSUME TypeOK, NEW s \in Streams, NEW t \in Streams, s # t, Owner(s)
    PROVE  asked'[t] = asked[t] /\ rest'[t] = rest[t] /\ sendRes'[t] = sendRes[t]
<1>. USE DEF TypeOK, TypeOKCounts, TypeOKCalls, sendVars
<1>1. CASE Register(s) \/ PostOpen(s) \/ Refuse(s) \/ CancelOpen(s) \/ DropStream(s)
  BY <1>1 DEF Register, PostOpen, Refuse, CancelOpen, DropStream
<1>2. CASE Acked(s) \/ NotAcked(s) \/ WaitFails(s) \/ WaitOn(s) \/ Woken(s) \/ CancelSend(s)
  BY <1>2 DEF Acked, NotAcked, WaitFails, WaitOn, Woken, CancelSend
<1>3. CASE (\E n \in SendLens : BeginSend(s, n)) \/ WriteIds(s) \/ PostWrite(s)
  BY <1>3 DEF BeginSend, WriteIds, PostWrite
<1>4. CASE RecvTake(s) \/ RecvOkay(s) \/ RecvEnd(s)
  BY <1>4 DEF RecvTake, RecvOkay, RecvEnd
<1>5. CASE BeginClose(s) \/ CloseMark(s) \/ CloseRemove(s) \/ ClosePost(s)
  BY <1>5 DEF BeginClose, CloseMark, CloseRemove, ClosePost
<1>. QED
  BY <1>1, <1>2, <1>3, <1>4, <1>5 DEF Owner, OwnerStep, OwnerChoice

LEMMA TasksKeepSends ==
    ASSUME TypeOK, ReaderTask \/ SessionThread \/ WriterTask \/ LinkDown \/ Device
    PROVE  UNCHANGED sendVars
<1>. USE DEF streamVars, ownerVars
<1>1. CASE ReaderOkay \/ AckCount \/ AckWake \/ ReaderWrite
  BY <1>1 DEF ReaderOkay, AckCount, AckWake, ReaderWrite
<1>2. CASE ReaderClose \/ ReaderStray \/ ReaderFails \/ ReaderAborts \/ BeginSessionClose
  BY <1>2 DEF ReaderClose, ReaderStray, ReaderFails, ReaderAborts, BeginSessionClose
<1>3. CASE \E a \in Closers : CloseAll(a)
  BY <1>3 DEF CloseAll, Drain, Each, MarkClosed, TakeAndWake
<1>4. CASE WriterTask \/ LinkDown
  BY <1>4 DEF WriterTask, WriterSends, WriterAborts, LinkDown
<1>5. CASE Device
  BY <1>5, DeviceReads
<1>. QED
  BY <1>1, <1>2, <1>3, <1>4, <1>5 DEF ReaderTask, SessionThread, Closers

(* Who but the reader's OKAYs counts, and where. *)
LEMMA CountsOnlyOkays ==
    ASSUME TypeOK, [Next]_vars, ~ReaderOkay, ~AckCount, NEW s \in Streams
    PROVE  (Counting(s)' => Counting(s)) /\ acks'[s] = acks[s]
<1>. USE DEF Counting, TypeOK, TypeOKHost, TypeOKClosers, Closers, stateVars, streamVars,
             closerVars, taskVars
<1>1. ASSUME NEW u \in Streams, Owner(u)
      PROVE  apc' = apc /\ cur' = cur /\ acks' = acks
  <2>1. apc' = apc /\ cur' = cur
    BY <1>1, OwnerKeepsClosers
  <2>2. acks' = acks
    BY <1>1 DEF Owner, OwnerStep, OwnerChoice, Register, PostOpen, Refuse, Acked, NotAcked,
       WaitFails, WaitOn, Woken, CancelOpen, CancelSend, BeginSend, WriteIds,
       PostWrite, RecvTake, RecvOkay, RecvEnd, BeginClose, CloseMark, CloseRemove,
       ClosePost, DropStream
  <2>. QED
    BY <2>1, <2>2
<1>2. CASE AckWake \/ ReaderWrite \/ ReaderClose \/ ReaderStray
  BY <1>2 DEF AckWake, ReaderWrite, ReaderClose, ReaderStray
<1>3. CASE ReaderFails \/ ReaderAborts \/ BeginSessionClose
  BY <1>3 DEF ReaderFails, ReaderAborts, BeginSessionClose
<1>4. ASSUME NEW a \in Closers, CloseAll(a)
      PROVE  (Counting(s)' => Counting(s)) /\ acks'[s] = acks[s]
  BY <1>4 DEF CloseAll, Drain, Each, MarkClosed, TakeAndWake
<1>5. CASE WriterTask \/ LinkDown
  BY <1>5 DEF WriterTask, WriterSends, WriterAborts, LinkDown
<1>6. CASE Device
  BY <1>6, DeviceReads
<1>7. CASE UNCHANGED vars
  BY <1>7 DEF vars
<1>. QED
  BY <1>1, <1>2, <1>3, <1>4, <1>5, <1>6, <1>7 DEF Next, ReaderTask, SessionThread

LEMMA SendPhaseOwner ==
    ASSUME ~CancelSends, TypeOK, TypeOK', NEW s \in Streams, Phase(s), Window(s), SendPhase(s),
           Owner(s)
    PROVE  SendPhase(s)'
<1>1. UNCHANGED <<remoteId, apc, cur>>
  BY OwnerKeepsClosers, OwnerKeepsRemotes
<1>. USE <1>1 DEF SendPhase, Phase, Window, Waiting, Counting, TypeOK, TypeOKHost, TypeOKCalls,
         TypeOKCounts, registryVars, stateVars, recvVars, sendVars, writerVars, taskVars
<1>2. CASE Register(s) \/ PostOpen(s)
  BY <1>2 DEF Register, PostOpen, Post, PostFails
<1>3. CASE Refuse(s) \/ CancelOpen(s) \/ DropStream(s)
  BY <1>3 DEF Refuse, CancelOpen, DropStream
<1>4. CASE Acked(s)
  BY <1>4 DEF Acked, AckArrived
<1>5. CASE NotAcked(s) \/ WaitOn(s) \/ Woken(s)
  BY <1>5 DEF NotAcked, WaitOn, Woken
<1>6. CASE WaitFails(s)
  BY <1>6 DEF WaitFails
<1>7. CASE CancelSend(s)
  BY <1>7 DEF CancelSend
<1>8. CASE \E n \in SendLens : BeginSend(s, n)
  BY <1>8 DEF BeginSend
<1>9. CASE WriteIds(s)
  BY <1>9 DEF WriteIds
<1>10. CASE PostWrite(s)
  BY <1>10 DEF PostWrite, Post, PostFails
<1>11. CASE RecvTake(s) \/ RecvEnd(s)
  BY <1>11 DEF RecvTake, RecvEnd
<1>12. CASE RecvOkay(s)
  BY <1>12 DEF RecvOkay, Post, PostFails
<1>13. CASE BeginClose(s) \/ CloseMark(s) \/ CloseRemove(s)
  BY <1>13 DEF BeginClose, CloseMark, CloseRemove
<1>14. CASE ClosePost(s)
  BY <1>14 DEF ClosePost, Post, PostFails
<1>. QED
  BY <1>2, <1>3, <1>4, <1>5, <1>6, <1>7, <1>8, <1>9, <1>10, <1>11, <1>12, <1>13, <1>14
  DEF Owner, OwnerStep, OwnerChoice

(* A stream that has no remote id is sent no OKAY but the one that tells it.*)
LEMMA OkayTells ==
    ASSUME PeersInv, TypeOK', ReaderOkay, NEW s \in Streams, Counting(s)'
    PROVE  remoteId'[s] # 0 /\ Addressee = s
<1>1. TypeOK /\ Recv("OKAY")
  BY DEF PeersInv, RoutingInv, ReaderOkay
<1>2. Addressee = s /\ Addressee # NoStream
  BY <1>1, StreamsAssumption DEF ReaderOkay, Recv, Counting, TypeOK, TypeOKClosers, Closers
<1>3. Head(d2h).arg0 # 0
  BY <1>1, ChunkAddressed, RemoteIdsAssumption
<1>. QED
  BY <1>1, <1>2, <1>3 DEF ReaderOkay, TypeOK, TypeOKHost

LEMMA SendPhaseTasks ==
    ASSUME PeersInv, TypeOK', Marked, [Next]_vars, NEW s \in Streams, SendPhase(s),
           ReaderTask \/ SessionThread \/ WriterTask \/ LinkDown \/ Device
    PROVE  SendPhase(s)'
<1>1. TypeOK
  BY DEF PeersInv, RoutingInv
<1>2. UNCHANGED sendVars /\ pc'[s] = pc[s] /\ life'[s] = life[s] /\ acks[s] <= acks'[s]
      /\ (closed[s] => closed'[s]) /\ (writer = "stopped" => writer' = "stopped")
  BY <1>1, TasksKeepSends, TasksKeepCalls, EndsBack DEF TypeOK, TypeOKLink
<1>3. remoteId'[s] = 0 => remoteId[s] = 0
  BY <1>1, RemoteKept
<1>4. ASSUME remoteId'[s] = 0 PROVE acks'[s] = 0 /\ ~Counting(s)'
  <2>1. acks[s] = 0 /\ ~Counting(s)
    BY <1>3, <1>4 DEF SendPhase
  <2>2. CASE ReaderOkay
    <3>1. acks' = acks
      BY <2>2 DEF ReaderOkay
    <3>. QED
      BY <1>4, <2>1, <2>2, <3>1, OkayTells
  <2>3. CASE AckCount
    BY <1>1, <2>1, <2>3 DEF AckCount, Counting, TypeOK, TypeOKHost, TypeOKClosers, Closers
  <2>4. CASE ~ReaderOkay /\ ~AckCount
    BY <1>1, <2>1, <2>4, CountsOnlyOkays
  <2>. QED
    BY <2>2, <2>3, <2>4
<1>5. acks[s] \in Nat /\ acks'[s] \in Nat /\ writes[s] \in Nat
  BY <1>1 DEF TypeOK, TypeOKHost, TypeOKCounts
<1>. QED
  BY <1>2, <1>3, <1>4, <1>5 DEF SendPhase, sendVars

LEMMA SendPhasesStep ==
    ASSUME ~CancelSends, SendInv, TypeOK', [Next]_vars, NEW t \in Streams
    PROVE  SendPhase(t)'
<1>1. TypeOK /\ Phase(t) /\ PeersInv /\ Window(t) /\ SendPhase(t) /\ Marked
  BY DEF SendInv, FlowInv, WindowInv, PeersInv, RoutingInv, Phases
<1>2. ASSUME NEW s \in Streams, Owner(s), s # t PROVE SendPhase(t)'
  <2>1. OthersKept(t) /\ asked'[t] = asked[t] /\ rest'[t] = rest[t] /\ sendRes'[t] = sendRes[t]
    BY <1>1, <1>2, OwnerKeepsOthers, OwnerKeepsSends
  <2>2. UNCHANGED <<remoteId, apc, cur>>
    BY <1>2, OwnerKeepsClosers, OwnerKeepsRemotes
  <2>3. writer = "stopped" => writer' = "stopped"
    BY <1>1, EndsBack DEF TypeOK, TypeOKLink
  <2>. QED
    BY <1>1, <2>1, <2>2, <2>3 DEF SendPhase, OthersKept, Counting
<1>3. CASE UNCHANGED vars
  BY <1>1, <1>3 DEF vars, streamVars, taskVars, ownerVars, sendVars, stateVars, closerVars,
     writerVars, SendPhase, Counting
<1>. QED
  BY <1>1, <1>2, <1>3, SendPhaseOwner, SendPhaseTasks DEF Next

(* Only the owner of s writes to its service. *)
LEMMA OwnerWrites ==
    ASSUME PeersInv, NEW u \in Streams, Owner(u), NEW r \in RemoteIds, NEW s \in Streams,
           Serves(r, s), ~(u = s /\ PostWrite(u))
    PROVE  WritesQuiet(r) /\ OkaysQuiet(r)
<1>1. TypeOK /\ Allocated /\ Phase(u)
  BY DEF PeersInv, RoutingInv, Phases
<1>2. OkaysQuiet(r)
  BY <1>1, OwnerPosts, SameSlice DEF OkaysQuiet, TypeOK, TypeOKLink
<1>3. CASE Upward' = Upward
  BY <1>1, <1>2, <1>3, SameSlice, UpwardTyped DEF WritesQuiet, TypeOK
<1>4. ASSUME NEW m, ~Brings(r, m), Grown(Upward', Upward, m) PROVE WritesQuiet(r)
  BY <1>4 DEF WritesQuiet
<1>5. /\ ~Brings(r, OkayFor(u)) /\ ~Brings(r, CloseFor(u))
      /\ ~Brings(r, Msg("OPEN", localId[u], 0, OpenLen))
  BY DEF Brings, Msg, OkayFor, CloseFor
<1>6. ASSUME PostWrite(u) PROVE ~Brings(r, Msg("WRTE", localId[u], remoteId[u], ChunkLen(u)))
  <2>1. remoteId[u] # 0 /\ u # s
    BY <1>1, <1>6 DEF PostWrite, Phase
  <2>2. remoteId[u] # r
    BY <1>1, <2>1, RemoteServes, ServesOne
  <2>. QED
    BY <2>2 DEF Brings, Msg
<1>. QED
  BY <1>1, <1>2, <1>3, <1>4, <1>5, <1>6, OwnerPosts

(* A write is posted when all that was posted before is acknowledged. *)
LEMMA NothingBefore ==
    ASSUME SendInv, NEW s \in Streams, NEW r \in RemoteIds, Serves(r, s), PostWrite(s)
    PROVE  /\ ~WriteUp(r) /\ ~OkayDown(r) /\ ~Counting(s)
           /\ acks[s] = writes[s] + 1 /\ life[s] = "open"
<1>1. TypeOK /\ Phase(s) /\ Window(s) /\ Turnaround(r, s)
  BY DEF SendInv, FlowInv, WindowInv, PeersInv, RoutingInv, Phases
<1>2. acks[s] > writes[s] /\ life[s] = "open"
  BY <1>1 DEF PostWrite, Phase, Window, TypeOK, TypeOKHost, TypeOKCounts
<1>. QED
  BY <1>1, <1>2 DEF Turnaround, TypeOK, TypeOKHost, TypeOKCounts

LEMMA WritePosted ==
    ASSUME SendInv, TypeOK', NEW s \in Streams, NEW r \in RemoteIds, Serves(r, s),
           PostWrite(s), Post(Msg("WRTE", localId[s], remoteId[s], ChunkLen(s)))
    PROVE  Turnaround(r, s)' /\ Ledger(r, s)'
<1>1. /\ TypeOK /\ Phase(s) /\ PeersInv /\ Window(s) /\ SendPhase(s) /\ Allocated
      /\ Turnaround(r, s) /\ Ledger(r, s)
  BY DEF SendInv, FlowInv, WindowInv, PeersInv, RoutingInv, Phases
<1>2. acks[s] > writes[s] /\ life[s] = "open"
  BY <1>1, NothingBefore DEF TypeOK, TypeOKHost, TypeOKCounts
<1>3. acks[s] = writes[s] + 1 /\ ~WriteUp(r) /\ ~OkayDown(r) /\ ~Counting(s)
  BY NothingBefore
<1>4. asked[s] = devBytes[r] + rest[s]
  BY <1>1, <1>2 DEF Ledger, Balanced, SendPhase, PostWrite, Post
<1>5. PICK m : m = Msg("WRTE", localId[s], remoteId[s], ChunkLen(s))
  OBVIOUS
<1>6. m \in HostMessages /\ m.data = ChunkLen(s) /\ h2d' = h2d /\ ChunkLen(s) \in Nat
  BY <1>1, <1>5, ChunkLenTyped
  DEF Msg, HostMessages, Commands, TypeOK, TypeOKHost, TypeOKCounts, PostWrite, linkVars
<1>7. Grown(Upward', Upward, m)
  BY <1>1, <1>5, <1>6, PostGrows DEF TypeOK
<1>8. /\ writes'[s] = writes[s] + 1 /\ rest'[s] = rest[s] - ChunkLen(s)
      /\ pc'[s] = "acks"
      /\ UNCHANGED <<acks, asked, devBytes, d2h, apc, cur, sendRes>>
  <2>1. writer = "run"
    BY DEF Post
  <2>. QED
    BY <1>1, <2>1 DEF PostWrite, PostFails, TypeOK, TypeOKCounts, TypeOKCalls, stateVars, closerVars,
       linkVars, deviceVars
<1>9. \A k \in DOMAIN Upward' : Brings(r, Upward'[k]) =>
         k = Len(Upward) + 1 /\ Upward'[k] = m
  BY <1>1, <1>3, <1>7, Domains, DomainsPrimed DEF Grown, WriteUp
<1>10. ~OkayDown(r)' /\ ~Counting(s)' /\ acks'[s] = writes'[s]
  BY <1>3, <1>8 DEF OkayDown, Counting, Accepts
<1>11. OneOkayDown(r)'
  BY <1>1, <1>8 DEF Turnaround, OneOkayDown, Accepts
<1>12. Turnaround(r, s)'
  BY <1>1, <1>9, <1>10, <1>11 DEF Turnaround, OneWriteUp, Brings, TypeOK, TypeOKHost, TypeOKCounts
<1>13. Balanced(r, s)'
  <2>1. asked'[s] = devBytes'[r] + rest'[s] + m.data
    BY <1>1, <1>4, <1>6, <1>8 DEF TypeOK, TypeOKCounts, TypeOKDevice
  <2>2. ~(acks'[s] > writes'[s])
    BY <1>10 DEF TypeOK, TypeOKHost, TypeOKCounts
  <2>. QED
    BY <1>9, <1>10, <2>1, <2>2 DEF Balanced, Brings
<1>. QED
  BY <1>12, <1>13 DEF Ledger

LEMMA SendsOwner ==
    ASSUME ~CancelSends, SendInv, TypeOK', NEW s \in Streams, NEW r \in RemoteIds, Serves(r, s),
           Owner(s)
    PROVE  Turnaround(r, s)' /\ Ledger(r, s)'
<1>1. /\ TypeOK /\ Phase(s) /\ PeersInv /\ Window(s) /\ SendPhase(s)
      /\ Turnaround(r, s) /\ Ledger(r, s)
  BY DEF SendInv, FlowInv, WindowInv, PeersInv, RoutingInv, Phases
<1>2. CASE PostWrite(s) /\ Post(Msg("WRTE", localId[s], remoteId[s], ChunkLen(s)))
  BY <1>2, WritePosted
<1>3. CASE PostWrite(s) /\ PostFails /\ sendRes'[s] = "disconnected" /\ writes' = writes
  <2>1. WritesQuiet(r) /\ OkaysQuiet(r)
    BY <1>1, <1>3, SameSlice, UpwardTyped
    DEF WritesQuiet, OkaysQuiet, TypeOK, TypeOKLink, PostWrite, PostFails, writerVars, linkVars, Upward
  <2>2. UNCHANGED <<acks, apc, cur>>
    BY <1>3 DEF PostWrite, stateVars, closerVars
  <2>3. Turnaround(r, s)'
    BY <1>1, <1>3, <2>1, <2>2, TurnaroundFrame DEF Counting
  <2>. QED
    BY <1>3, <2>3 DEF Ledger
<1>4. CASE ~PostWrite(s)
  <2>1. WritesQuiet(r) /\ OkaysQuiet(r)
    BY <1>1, <1>4, OwnerWrites
  <2>2. UNCHANGED <<acks, writes, apc, cur, devBytes>>
    <3>1. apc' = apc /\ cur' = cur /\ devBytes' = devBytes
      BY <1>1, OwnerKeepsClosers, OwnerPosts DEF deviceVars
    <3>. QED
      BY <1>4, <3>1 DEF Owner, OwnerStep, OwnerChoice, Register, PostOpen, Refuse, Acked, NotAcked,
       WaitFails, WaitOn, Woken, CancelOpen, CancelSend, BeginSend, WriteIds,
       RecvTake, RecvOkay, RecvEnd, BeginClose, CloseMark, CloseRemove,
       ClosePost, DropStream, sendVars, stateVars
  <2>3. Turnaround(r, s)'
    BY <1>1, <2>1, <2>2, TurnaroundFrame DEF Counting
  <2>4. ASSUME Balanced(r, s), asked' = asked, rest' = rest PROVE Balanced(r, s)'
    <3>1. asked'[s] = asked[s] + 0 /\ rest'[s] = rest[s] + 0
      BY <1>1, <2>4 DEF TypeOK, TypeOKCounts
    <3>. QED
      BY <1>1, <2>1, <2>2, <2>4, <3>1, BalancedFrame DEF Counting
  <2>. USE DEF TypeOK, TypeOKHost, TypeOKCalls, TypeOKCounts
  <2>5. ASSUME NEW n \in SendLens, BeginSend(s, n) PROVE Ledger(r, s)'
    <3>1. /\ sendRes[s] \in {"none", "ok", "closed", "disconnected"} /\ rest[s] = 0
          /\ sendRes'[s] = "pending" /\ pc'[s] = "ids" /\ n \in Nat
          /\ asked'[s] = asked[s] + n /\ rest'[s] = rest[s] + n
      BY <1>1, <2>5, LoadAssumption DEF BeginSend, SendPhase, Waiting
    <3>2. UNCHANGED <<closed, writer>>
      BY <2>5 DEF BeginSend, stateVars, taskVars, writerVars
    <3>3. CASE sendRes[s] \in {"none", "ok"}
      <4>1. Balanced(r, s)'
        BY <1>1, <2>1, <2>2, <3>1, <3>3, BalancedFrame DEF Ledger, Counting
      <4>. QED
        BY <3>1, <4>1 DEF Ledger
    <3>4. CASE sendRes[s] \in {"closed", "disconnected"}
      BY <1>1, <3>1, <3>2, <3>4 DEF Ledger, SendPhase
    <3>. QED
      BY <3>1, <3>3, <3>4
  <2>6. CASE Acked(s)
    BY <1>1, <2>3, <2>4, <2>6 DEF Acked, Ledger, SendPhase, Waiting
  <2>7. CASE NotAcked(s) \/ WaitOn(s) \/ Woken(s)
    BY <1>1, <2>3, <2>4, <2>7 DEF NotAcked, WaitOn, Woken, Ledger, SendPhase, Waiting, sendVars
  <2>8. CASE WaitFails(s)
    BY <1>1, <2>3, <2>4, <2>8 DEF WaitFails, Ledger, SendPhase, Waiting
  <2>9. CASE WriteIds(s)
    BY <1>1, <2>3, <2>4, <2>9 DEF WriteIds, Ledger, SendPhase, taskVars, writerVars
  <2>10. CASE PostOpen(s) \/ Refuse(s) \/ CancelOpen(s) \/ DropStream(s) \/ Register(s)
    BY <1>1, <2>3, <2>4, <2>10 DEF PostOpen, Refuse, CancelOpen, DropStream, Register, Ledger, SendPhase,
       Phase, Waiting, sendVars
  <2>11. CASE RecvTake(s) \/ RecvOkay(s) \/ RecvEnd(s)
    BY <1>1, <2>3, <2>4, <2>11 DEF RecvTake, RecvOkay, RecvEnd, Ledger, SendPhase, Waiting, sendVars
  <2>12. CASE BeginClose(s) \/ CloseMark(s) \/ CloseRemove(s) \/ ClosePost(s)
    BY <1>1, <2>3, <2>4, <2>12 DEF BeginClose, CloseMark, CloseRemove, ClosePost, Ledger, SendPhase,
       Waiting, sendVars
  <2>. QED
    BY <1>4, <2>3, <2>5, <2>6, <2>7, <2>8, <2>9, <2>10, <2>11, <2>12
    DEF Owner, OwnerStep, OwnerChoice, CancelSend
<1>. QED
  BY <1>1, <1>2, <1>3, <1>4 DEF PostWrite, TypeOK, TypeOKCalls

(* The owner of another stream, and everything else that leaves s and r be. *)
LEMMA SendsQuiet ==
    ASSUME SendInv, TypeOK', NEW s \in Streams, NEW r \in RemoteIds, Serves(r, s),
           WritesQuiet(r), OkaysQuiet(r), Counting(s)' => Counting(s),
           acks'[s] = acks[s], writes'[s] = writes[s], devBytes'[r] = devBytes[r],
           asked'[s] = asked[s], rest'[s] = rest[s], sendRes'[s] = sendRes[s],
           pc'[s] = pc[s], closed[s] => closed'[s], writer = "stopped" => writer' = "stopped"
    PROVE  Turnaround(r, s)' /\ Ledger(r, s)'
<1>1. TypeOK /\ Turnaround(r, s) /\ Ledger(r, s)
  BY DEF SendInv, WindowInv
<1>2. asked'[s] = asked[s] + 0 /\ rest'[s] = rest[s] + 0
  BY <1>1 DEF TypeOK, TypeOKCounts
<1>3. Balanced(r, s) => Balanced(r, s)'
  BY <1>1, <1>2, BalancedFrame
<1>4. Turnaround(r, s)'
  BY <1>1, TurnaroundFrame
<1>. QED
  BY <1>1, <1>3, <1>4 DEF Ledger

(* The reader takes the OKAY, and counts it. *)
LEMMA SendsTold ==
    ASSUME SendInv, TypeOK', NEW s \in Streams, NEW r \in RemoteIds, Serves(r, s),
           ReaderOkay, Counting(s)'
    PROVE  Turnaround(r, s)' /\ Ledger(r, s)'
<1>1. TypeOK /\ PeersInv /\ Turnaround(r, s) /\ Ledger(r, s)
  BY DEF SendInv, FlowInv, WindowInv
<1>2. Recv("OKAY") /\ Addressee = s /\ s # NoStream
  BY <1>1, OkayTells, StreamsAssumption DEF ReaderOkay
<1>3. Head(d2h).arg0 = r
  <2>1. Head(d2h).arg0 \in RemoteIds /\ Serves(Head(d2h).arg0, s)
    BY <1>1, <1>2, ChunkAddressed
  <2>. QED
    BY <1>1, <2>1 DEF Serves, PeersInv, Peers, ServicesApart
<1>4. /\ 1 \in DOMAIN d2h /\ Accepts(r, d2h[1]) /\ Len(d2h') = Len(d2h) - 1
      /\ \A k \in 1 .. Len(d2h') : d2h'[k] = d2h[k + 1]
  BY <1>1, <1>2, <1>3, RecvTakes DEF Accepts
<1>5. OkayDown(r)
  BY <1>4 DEF OkayDown
<1>6. ~OkayDown(r)' /\ OneOkayDown(r)'
  <2>1. \A k \in DOMAIN d2h' : k + 1 \in DOMAIN d2h /\ k + 1 # 1 /\ d2h'[k] = d2h[k + 1]
    BY <1>1, <1>4, Domains, DomainsPrimed
  <2>2. \A k \in DOMAIN d2h' : ~Accepts(r, d2h'[k])
    BY <1>1, <1>4, <2>1 DEF Turnaround, OneOkayDown
  <2>. QED
    BY <2>2 DEF OkayDown, OneOkayDown, Accepts
<1>7. /\ UNCHANGED <<acks, writes, asked, rest, sendRes, pc, closed, writer, devBytes>>
      /\ Upward' = Upward
  BY DEF ReaderOkay, Recv, ownerVars, sendVars, writerVars, deviceVars, Upward
<1>8. ~WriteUp(r)' /\ OneWriteUp(r)'
  BY <1>1, <1>5, <1>7 DEF Turnaround, WriteUp, OneWriteUp, Brings
<1>9. Turnaround(r, s)'
  BY <1>1, <1>5, <1>6, <1>7, <1>8 DEF Turnaround
<1>10. Balanced(r, s) => Balanced(r, s)'
  BY <1>5, <1>7, <1>8 DEF Balanced, WriteUp
<1>. QED
  BY <1>1, <1>7, <1>9, <1>10 DEF Ledger

LEMMA SendsCounted ==
    ASSUME SendInv, TypeOK', NEW s \in Streams, NEW r \in RemoteIds, Serves(r, s),
           AckCount, Counting(s)
    PROVE  Turnaround(r, s)' /\ Ledger(r, s)'
<1>1. TypeOK /\ Turnaround(r, s) /\ Ledger(r, s)
  BY DEF SendInv, WindowInv
<1>2. acks'[s] = acks[s] + 1 /\ ~Counting(s)' /\ acks[s] \in Nat /\ writes[s] \in Nat
  BY <1>1 DEF AckCount, Counting, TypeOK, TypeOKHost, TypeOKCounts, TypeOKClosers, Closers
<1>3. /\ UNCHANGED <<writes, asked, rest, sendRes, pc, closed, writer, devBytes, d2h>>
      /\ Upward' = Upward
  BY DEF AckCount, ownerVars, sendVars, writerVars, linkVars, deviceVars, Upward
<1>4. ~WriteUp(r)' /\ OneWriteUp(r)' /\ ~OkayDown(r)' /\ OneOkayDown(r)'
  BY <1>1, <1>3 DEF Turnaround, WriteUp, OneWriteUp, Brings, OkayDown, OneOkayDown, Accepts
<1>5. acks[s] <= writes[s]
  BY <1>1 DEF Turnaround
<1>6. Turnaround(r, s)'
  BY <1>2, <1>3, <1>4, <1>5 DEF Turnaround
<1>7. Balanced(r, s) => Balanced(r, s)'
  BY <1>3, <1>4 DEF Balanced, WriteUp
<1>. QED
  BY <1>1, <1>3, <1>6, <1>7 DEF Ledger

LEMMA SendsTasks ==
    ASSUME SendInv, [Next]_vars, TypeOK', NEW s \in Streams, NEW r \in RemoteIds, Serves(r, s),
           ReaderTask \/ SessionThread
    PROVE  Turnaround(r, s)' /\ Ledger(r, s)'
<1>1. TypeOK
  BY DEF SendInv, WindowInv
<1>2. WritesQuiet(r) /\ OkaysQuiet(r) /\ devBytes' = devBytes
  BY <1>1, TasksPost, SameSlice, UpwardTyped
  DEF WritesQuiet, OkaysQuiet, Brings, TypeOK, deviceVars
<1>3. /\ UNCHANGED sendVars /\ pc'[s] = pc[s]
      /\ (closed[s] => closed'[s]) /\ (writer = "stopped" => writer' = "stopped")
  BY <1>1, TasksKeepSends, TasksKeepCalls, EndsBack DEF TypeOK, TypeOKLink
<1>4. ASSUME Counting(s)' => Counting(s), acks'[s] = acks[s]
      PROVE  Turnaround(r, s)' /\ Ledger(r, s)'
  BY <1>2, <1>3, <1>4, SendsQuiet DEF sendVars
<1>5. CASE ReaderOkay
  <2>1. acks' = acks
    BY <1>5 DEF ReaderOkay
  <2>. QED
    BY <1>4, <1>5, <2>1, SendsTold
<1>6. CASE AckCount
  <2>1. ASSUME ~Counting(s) PROVE acks'[s] = acks[s] /\ ~Counting(s)'
    BY <1>1, <1>6, <2>1 DEF AckCount, Counting, TypeOK, TypeOKHost, TypeOKClosers, Closers
  <2>. QED
    BY <1>4, <1>6, <2>1, SendsCounted
<1>. QED
  BY <1>1, <1>4, <1>5, <1>6, CountsOnlyOkays

LEMMA SendsCarry ==
    ASSUME SendInv, [Next]_vars, TypeOK', NEW s \in Streams, NEW r \in RemoteIds, Serves(r, s),
           WriterTask \/ LinkDown
    PROVE  Turnaround(r, s)' /\ Ledger(r, s)'
<1>1. TypeOK /\ LinkIsEmpty
  BY DEF SendInv, WindowInv, FlowInv, PeersInv, Peers
<1>2. d2h' = d2h /\ UNCHANGED <<deviceVars, closerVars>>
  BY DEF WriterTask, WriterSends, WriterAborts, LinkDown, linkVars
<1>3. WritesQuiet(r) /\ OkaysQuiet(r)
  BY <1>1, <1>2, CarrySlice, SameSlice DEF WritesQuiet, OkaysQuiet, TypeOK, TypeOKLink
<1>4. /\ UNCHANGED sendVars /\ pc'[s] = pc[s]
      /\ (closed[s] => closed'[s]) /\ (writer = "stopped" => writer' = "stopped")
  BY <1>1, TasksKeepSends, TasksKeepCalls, EndsBack DEF TypeOK, TypeOKLink
<1>5. ~ReaderOkay /\ ~AckCount
  BY <1>2 DEF closerVars, ReaderOkay, Recv, AckCount, WriterTask, WriterSends, WriterAborts,
     LinkDown, linkVars, writerVars, TypeOK, TypeOKLink
<1>. QED
  BY <1>1, <1>2, <1>3, <1>4, <1>5, CountsOnlyOkays, SendsQuiet DEF sendVars, deviceVars


(* An OKAY of r comes of its start and of a WRTE that it takes. *)
LEMMA DeviceAnswers ==
    ASSUME TypeOK, Device, NEW r \in RemoteIds, ~Starts(r),
           ~(DevWrite /\ Head(h2d).arg1 = r /\ KnownToDevice(r))
    PROVE  OkaysQuiet(r) /\ devBytes'[r] = devBytes[r]
<1>. DEFINE Down == \/ d2h' = d2h
                    \/ \E m \in DeviceMessages : ~Accepts(r, m) /\ DeviceSends(m)
<1>. USE DEF TypeOK, TypeOKDevice, TypeOKLink, Commands, StrayCommands
<1>a. /\ \A q \in RemoteIds : q \in Nat /\ devHost[q] \in LocalIds /\ devSent[q] + 1 \in Nat
      /\ 0 \in LocalIds
  BY RemoteIdsAssumption, IdSpaceAssumption DEF LocalIds
<1>b. \A cmd \in Commands, q \in Nat, i \in LocalIds, d \in Nat :
         /\ Msg(cmd, q, i, d) \in DeviceMessages
         /\ cmd # "OKAY" \/ q # r => ~Accepts(r, Msg(cmd, q, i, d))
  BY DEF Msg, DeviceMessages, Accepts
<1>c. Down => OkaysQuiet(r)
  BY SameSlice, DeviceSendsDown DEF OkaysQuiet
<1>1. CASE DevOpen
  <2>1. Head(h2d).arg0 \in LocalIds
    BY <1>1, DeviceGetsTyped DEF DevOpen
  <2>2. devNext \in Nat /\ (devNext' = devNext + 1 => devNext # r)
    BY <1>1 DEF Starts
  <2>3. Down
    BY <1>1, <1>a, <1>b, <2>1, <2>2 DEF DevOpen
  <2>. QED
    BY <1>1, <1>c, <2>3 DEF DevOpen
<1>2. CASE DevWrite
  <2>1. Down
    BY <1>2, <1>a, <1>b DEF DevWrite, KnownToDevice
  <2>2. devBytes'[r] = devBytes[r]
    BY <1>2 DEF DevWrite, KnownToDevice
  <2>. QED
    BY <1>c, <2>1, <2>2
<1>3. CASE DevOkay
  BY <1>3, <1>c DEF DevOkay
<1>4. CASE DevClose
  <2>1. Down
    BY <1>4, <1>a, <1>b DEF DevClose, KnownToDevice
  <2>. QED
    BY <1>4, <1>c, <2>1 DEF DevClose
<1>5. ASSUME NEW q \in RemoteIds, DevOutput(q) \/ DevFinish(q)
      PROVE  Down /\ devBytes'[r] = devBytes[r]
  BY <1>5, <1>a, <1>b DEF DevOutput, DevFinish
<1>6. ASSUME NEW cmd \in Strays, DevStray(cmd)
      PROVE  Down /\ devBytes'[r] = devBytes[r]
  BY <1>6, <1>a, <1>b, EnvironmentAssumption DEF DevStray
<1>. QED
  BY <1>1, <1>2, <1>3, <1>4, <1>5, <1>6, <1>c DEF Device, DeviceReceives

(* The service takes the WRTE, and answers it. *)
LEMMA SendsTaken ==
    ASSUME SendInv, TypeOK', NEW s \in Streams, NEW r \in RemoteIds, Serves(r, s),
           DevWrite, Head(h2d).arg1 = r, KnownToDevice(r)
    PROVE  Turnaround(r, s)' /\ Ledger(r, s)'
<1>. DEFINE n == Len(d2h)
<1>1. TypeOK /\ Turnaround(r, s) /\ Ledger(r, s)
  BY DEF SendInv, WindowInv
<1>2. PICK m : m = Msg("OKAY", r, devHost[r], 0)
  OBVIOUS
<1>3. /\ DeviceGets("WRTE") /\ UNCHANGED <<streamVars, closerVars, writerVars>>
      /\ d2h' = Append(d2h, m) /\ d2h \in Seq(DeviceMessages) /\ Accepts(r, m)
      /\ devBytes'[r] = devBytes[r] + Head(h2d).data
  BY <1>1, <1>2 DEF DevWrite, DeviceSends, Accepts, Msg, TypeOK, TypeOKLink, TypeOKDevice
<1>4. /\ 1 \in DOMAIN Upward /\ Brings(r, Upward[1]) /\ Upward[1] = Head(h2d)
      /\ Len(Upward') = Len(Upward) - 1
      /\ \A k \in 1 .. Len(Upward') : Upward'[k] = Upward[k + 1]
  BY <1>1, <1>3, GetsSlice DEF TypeOK, Brings, writerVars
<1>5. WriteUp(r) /\ ~OkayDown(r) /\ ~Counting(s) /\ acks[s] <= writes[s]
  BY <1>1, <1>4 DEF WriteUp, Turnaround
<1>6. \A k \in DOMAIN Upward' : ~Brings(r, Upward'[k])
  <2>1. \A k \in DOMAIN Upward' : k + 1 \in DOMAIN Upward /\ k + 1 # 1 /\ Upward'[k] = Upward[k + 1]
    BY <1>1, <1>4, Domains, DomainsPrimed
  <2>. QED
    BY <1>1, <1>4, <2>1 DEF Turnaround, OneWriteUp
<1>7. /\ DOMAIN d2h = 1 .. n /\ n \in Nat /\ DOMAIN d2h' = 1 .. n + 1
      /\ \A k \in 1 .. n : d2h'[k] = d2h[k]
  BY <1>3
<1>8. \A k \in DOMAIN d2h' : Accepts(r, d2h'[k]) => k = n + 1
  BY <1>5, <1>7 DEF OkayDown
<1>9. UNCHANGED <<acks, writes, asked, rest, sendRes, pc, closed, apc, cur, writer>>
  BY <1>3 DEF streamVars, stateVars, ownerVars, sendVars, closerVars, writerVars
<1>10. ~Counting(s)' /\ ~WriteUp(r)' /\ OneWriteUp(r)' /\ OneOkayDown(r)'
  BY <1>5, <1>6, <1>8, <1>9 DEF Counting, WriteUp, OneWriteUp, OneOkayDown, Brings, Accepts
<1>11. Turnaround(r, s)'
  BY <1>1, <1>5, <1>9, <1>10 DEF Turnaround
<1>12. ASSUME Balanced(r, s) PROVE Balanced(r, s)'
  <2>1. asked[s] = devBytes[r] + rest[s] + Head(h2d).data
    BY <1>4, <1>12 DEF Balanced
  <2>2. /\ asked[s] \in Nat /\ rest[s] \in Nat /\ devBytes[r] \in Nat /\ Head(h2d).data \in Nat
    BY <1>1, <1>3, DeviceGetsTyped DEF TypeOK, TypeOKCounts, TypeOKDevice, TypeOKLink
  <2>3. asked'[s] = devBytes'[r] + rest'[s]
    BY <1>3, <1>9, <2>1, <2>2
  <2>. QED
    BY <1>6, <2>3 DEF Balanced, Brings
<1>. QED
  BY <1>1, <1>9, <1>11, <1>12 DEF Ledger

(* The service starts with an OKAY, and an empty account. *)
LEMMA SendsStart ==
    ASSUME SendInv, TypeOK', NEW s \in Streams, NEW r \in RemoteIds, Starts(r), Serves(r, s)'
    PROVE  Turnaround(r, s)' /\ Ledger(r, s)'
<1>. DEFINE n == Len(d2h)
<1>1. TypeOK /\ FlowInv /\ Peers /\ SendPhase(s)
  BY DEF SendInv, WindowInv, FlowInv, PeersInv
<1>2. ~Started(r) /\ remoteId[s] = 0
  BY <1>1, StartsFresh
<1>3. /\ acks[s] = 0 /\ writes[s] = 0 /\ asked[s] = 0 /\ rest[s] = 0 /\ sendRes[s] = "none"
      /\ ~Counting(s) /\ devBytes[r] = 0
  BY <1>1, <1>2 DEF SendPhase, SendInv, Unwritten
<1>4. PICK m : m = Msg("OKAY", r, Head(h2d).arg0, 0)
  OBVIOUS
<1>5. /\ DeviceGets("OPEN") /\ UNCHANGED <<streamVars, closerVars, writerVars, devBytes>>
      /\ d2h' = Append(d2h, m) /\ d2h \in Seq(DeviceMessages)
  BY <1>1, <1>4 DEF Starts, DevOpen, DeviceSends, TypeOK, TypeOKDevice, TypeOKLink
<1>6. UNCHANGED <<acks, writes, asked, rest, sendRes, apc, cur>>
  BY <1>5 DEF streamVars, stateVars, ownerVars, sendVars, closerVars
<1>7. \A k \in DOMAIN Upward' : ~Brings(r, Upward'[k])
  <2>1. /\ Len(Upward') = Len(Upward) - 1
        /\ \A k \in 1 .. Len(Upward') : Upward'[k] = Upward[k + 1]
    BY <1>1, <1>5, GetsSlice DEF TypeOK, writerVars
  <2>2. \A k \in DOMAIN Upward' : k + 1 \in DOMAIN Upward /\ Upward'[k] = Upward[k + 1]
    BY <1>1, <2>1, Domains, DomainsPrimed
  <2>. QED
    BY <1>1, <2>2, StartsFresh DEF Brings
<1>8. /\ DOMAIN d2h = 1 .. n /\ n \in Nat /\ DOMAIN d2h' = 1 .. n + 1
      /\ \A k \in 1 .. n : d2h'[k] = d2h[k]
  BY <1>5
<1>9. \A k \in DOMAIN d2h' : Accepts(r, d2h'[k]) => k = n + 1
  BY <1>1, <1>2, <1>8 DEF Peers, MessagesMatch, FromService, Accepts
<1>10. ~WriteUp(r)' /\ OneWriteUp(r)' /\ OneOkayDown(r)' /\ ~Counting(s)'
  BY <1>3, <1>6, <1>7, <1>9 DEF WriteUp, OneWriteUp, OneOkayDown, Counting, Brings, Accepts
<1>11. Turnaround(r, s)'
  BY <1>3, <1>6, <1>10 DEF Turnaround
<1>12. Balanced(r, s)'
  <2>1. asked'[s] = devBytes'[r] + rest'[s]
    BY <1>3, <1>5, <1>6
  <2>. QED
    BY <1>7, <2>1 DEF Balanced, Brings
<1>. QED
  BY <1>3, <1>6, <1>11, <1>12 DEF Ledger

LEMMA SendsDevice ==
    ASSUME SendInv, [Next]_vars, TypeOK', NEW s \in Streams, NEW r \in RemoteIds, Serves(r, s),
           Device, ~Starts(r)
    PROVE  Turnaround(r, s)' /\ Ledger(r, s)'
<1>1. TypeOK
  BY DEF SendInv, WindowInv
<1>2. CASE DevWrite /\ Head(h2d).arg1 = r /\ KnownToDevice(r)
  BY <1>2, SendsTaken
<1>3. CASE ~(DevWrite /\ Head(h2d).arg1 = r /\ KnownToDevice(r))
  <2>1. OkaysQuiet(r) /\ devBytes'[r] = devBytes[r]
    BY <1>1, <1>3, DeviceAnswers
  <2>2. UNCHANGED <<streamVars, closerVars, writerVars>> /\ WritesQuiet(r)
    BY <1>1, DeviceReads DEF WritesQuiet
  <2>3. UNCHANGED <<acks, writes, asked, rest, sendRes, pc, closed, writer, apc, cur>>
    BY <2>2 DEF streamVars, stateVars, ownerVars, sendVars, closerVars, writerVars
  <2>. QED
    BY <2>1, <2>2, <2>3, SendsQuiet DEF Counting
<1>. QED
  BY <1>2, <1>3


LEMMA SendsStep ==
    ASSUME ~CancelSends, IdsSuffice, SendInv, [Next]_vars, TypeOK',
           NEW s \in Streams, NEW r \in RemoteIds, Serves(r, s)'
    PROVE  Turnaround(r, s)' /\ Ledger(r, s)'
<1>1. TypeOK /\ PeersInv
  BY DEF SendInv, WindowInv, FlowInv
<1>2. CASE Device /\ Starts(r)
  BY <1>2, SendsStart
<1>3. CASE ~(Device /\ Starts(r))
  <2>1. Serves(r, s)
    <3>1. Started(r)' = Started(r) /\ devHost'[r] = devHost[r]
      BY <1>1, <1>3, DeviceStarts, OthersLeaveDevice DEF deviceVars, Started
    <3>. QED
      BY <1>1, <3>1, ServesBack
  <2>2. ASSUME NEW u \in Streams, Owner(u), u # s PROVE Turnaround(r, s)' /\ Ledger(r, s)'
    <3>1. WritesQuiet(r) /\ OkaysQuiet(r)
      BY <1>1, <2>1, <2>2, OwnerWrites
    <3>2. OthersKept(s) /\ asked'[s] = asked[s] /\ rest'[s] = rest[s] /\ sendRes'[s] = sendRes[s]
      BY <1>1, <2>2, OwnerKeepsOthers, OwnerKeepsSends
    <3>3. UNCHANGED <<apc, cur, deviceVars>>
      BY <1>1, <2>2, OwnerKeepsClosers, OwnerPosts
    <3>4. writer = "stopped" => writer' = "stopped"
      BY <1>1, EndsBack DEF TypeOK, TypeOKLink
    <3>. QED
      BY <2>1, <3>1, <3>2, <3>3, <3>4, SendsQuiet DEF OthersKept, Counting, deviceVars
  <2>3. CASE UNCHANGED vars
    <3>1. UNCHANGED <<acks, writes, asked, rest, sendRes, pc, closed, writer, apc, cur, devBytes,
                      d2h, h2d, outbox>> /\ Upward' = Upward
      BY <2>3 DEF vars, streamVars, taskVars, stateVars, ownerVars, sendVars, closerVars,
         writerVars, linkVars, deviceVars, Upward
    <3>2. WritesQuiet(r) /\ OkaysQuiet(r)
      BY <1>1, <3>1, SameSlice, UpwardTyped DEF WritesQuiet, OkaysQuiet, TypeOK, TypeOKLink
    <3>. QED
      BY <2>1, <3>1, <3>2, SendsQuiet DEF Counting
  <2>. QED
    BY <1>3, <2>1, <2>2, <2>3, SendsOwner, SendsTasks, SendsCarry, SendsDevice DEF Next
<1>. QED
  BY <1>2, <1>3

LEMMA UnwrittenStep ==
    ASSUME TypeOK, Unwritten, [Next]_vars PROVE Unwritten'
<1>1. CASE ~Device
  BY <1>1, OthersLeaveDevice DEF deviceVars, Unwritten, Started
<1>2. ASSUME Device, NEW r \in RemoteIds, ~Started(r)' PROVE devBytes'[r] = 0
  <2>1. ~Starts(r)
    BY <1>2 DEF Starts, DevOpen, Started, TypeOK, TypeOKDevice
  <2>2. ~Started(r) /\ ~KnownToDevice(r)
    BY <1>2, <2>1, DeviceStarts DEF KnownToDevice, Started
  <2>. QED
    BY <1>2, <2>1, <2>2, DeviceAnswers DEF Unwritten
<1>. QED
  BY <1>1, <1>2 DEF Unwritten

LEMMA SendStep ==
    ASSUME ~CancelSends, IdsSuffice, SendInv, [Next]_vars
    PROVE  SendInv'
<1>1. TypeOK /\ Phases /\ PeersInv
  BY DEF SendInv, FlowInv, PeersInv, RoutingInv
<1>2. FlowInv' /\ WindowInv' /\ TypeOK'
  BY FlowStep, WindowStep DEF SendInv, WindowInv
<1>3. Marked' /\ Unwritten'
  BY <1>1, MarkedStep, UnwrittenStep DEF SendInv
<1>. QED
  BY <1>2, <1>3, SendPhasesStep, SendsStep DEF SendInv

LEMMA SendInit == ASSUME IdsSuffice, Init PROVE SendInv
<1>1. FlowInv /\ TypeOK
  BY FlowInit, TypeInit
<1>2. WindowInv
  BY <1>1 DEF Init, WindowInv, Window
<1>3. Marked /\ Unwritten /\ \A r \in RemoteIds : ~Started(r)
  BY DEF Init, Marked, Unwritten, Started
<1>4. \A s \in Streams : SendPhase(s)
  BY DEF Init, SendPhase, Waiting, Counting, Closers
<1>. QED
  BY <1>1, <1>2, <1>3, <1>4 DEF SendInv, Serves

(* A send that returned Ok has delivered: as long as no caller drops the    *)
(* future of a send before it is done, every byte handed to send is at the  *)
(* service when its acknowledgement ends the call (stream.rs: send and      *)
(* write_chunk, StreamState::wait_ack and ack).                             *)
THEOREM SendsAreDelivered ==
    ASSUME IdsSuffice, ~CancelSends
    PROVE  Spec => []SentMeansDelivered
<1>1. Init => SendInv
  BY SendInit
<1>2. SendInv /\ [Next]_vars => SendInv'
  BY SendStep
<1>3. SendInv => SentMeansDelivered
  <2>1. SUFFICES ASSUME SendInv, NEW s \in Streams, sendRes[s] = "ok"
                 PROVE  devBytes[remoteId[s]] = asked[s]
    BY DEF SentMeansDelivered
  <2>2. SendPhase(s) /\ PeersInv /\ TypeOK
    BY <2>1 DEF SendInv, FlowInv, WindowInv
  <2>3. acks[s] > writes[s] /\ rest[s] = 0 /\ remoteId[s] # 0
    BY <2>1, <2>2 DEF SendPhase
  <2>4. remoteId[s] \in RemoteIds /\ Serves(remoteId[s], s)
    BY <2>2, <2>3, RemoteServes
  <2>5. Balanced(remoteId[s], s)
    BY <2>1, <2>4 DEF SendInv, Ledger
  <2>. QED
    BY <2>2, <2>3, <2>4, <2>5 DEF Balanced, TypeOK, TypeOKDevice, TypeOKCounts
<1>. QED
  BY <1>1, <1>2, <1>3, PTL DEF Spec

-----------------------------------------------------------------------------
(* The end of a stream *)

(* As long as the transport holds, nobody has called Session::close and no  *)
(* message has ended the reader, the reader reads on and the writer writes. *)
Undisturbed ==
    /\ ~Lost /\ writer = "run" /\ ~aborted
    /\ apc["reader"] \notin {"drain", "each", "stopped"}
    /\ \A a \in Closers : todo[a] = {}

(* The session ends no stream by itself: the transport cannot fail, nobody  *)
(* calls Session::close, and the device sends nothing that ends the reader. *)
Enders == {"STLS", "OPEN"}

Peaceful == ~LinkFaults /\ ~WriterFaults /\ ~SessionCloses /\ Strays \cap Enders = {}
NoEnder == \A k \in DOMAIN d2h : d2h[k].cmd \notin Enders

(* The caller has not closed the stream, nor given it up. *)
Live(s) == life[s] \in {"opening", "open"} /\ pc[s] \notin {"close_remove", "close_post"}

(* What the reader is about to close, it has taken out of the map. *)
TakenOut == apc["reader"] \in {"mark", "take"} =>
    cur["reader"] \in Born /\ registry[localId[cur["reader"]]] # cur["reader"]

Ended(s) == eof[s] =>
    /\ closed[s] /\ ~dataTx[s] /\ dataQ[s] = <<>> /\ hand[s] = <<>>
    /\ life[s] \in {"open", "closed", "dropped"}
    /\ pc[s] \notin {"okay", "close_mark", "close_remove", "close_post"}

OpenIn(i) == \E k \in DOMAIN Upward : Opens(i, Upward[k])

(* A CLSE from r to i: the service of that stream has ended or was told to, *)
(* or the device has refused the OPEN, and then there is no service.        *)
Closing(r, i) ==
    \/ r \in RemoteIds /\ devSt[r] \in {"finished", "dropped"} /\ devHost[r] = i
    \/ /\ HasPosted(i) /\ ~OpenIn(i)
       /\ \A q \in RemoteIds : Started(q) => devHost[q] # i

(* The service r may be told to go: nobody wants its stream any more. *)
Released(r) ==
    /\ r \in RemoteIds /\ Started(r)
    /\ \A s \in Streams : Serves(r, s) => ~Live(s)

(* The OPEN of s is not yet at the device. *)
Unopened(s) == pc[s] = "post_open" \/ OpenIn(localId[s])

Awaited(s) == Live(s) /\ Unopened(s) => dataTx[s] /\ registry[localId[s]] = s

(* The CLSE of r comes after its chunks. *)
LastDown(r, i) ==
    \A k \in DOMAIN d2h : d2h[k].cmd = "CLSE" /\ d2h[k].arg1 = i =>
        /\ devSt[r] = "finished"
        /\ \A j \in DOMAIN d2h : Carries(r, d2h[j]) => j < k

(* Every chunk is in the link, in the channel, in recv's hand or returned.  *)
Accounted(r, s) ==
    InDown(r) \/ hand[s] # <<>> \/ dataQ[s] # <<>> \/ Len(got[s]) = devSent[r]

(* Once the CLSE has been read, no chunk is left in the link. *)
Passed(r, s) ==
    /\ devSt[r] \in {"open", "finished"}
    /\ ~dataTx[s] \/ registry[localId[s]] # s => devSt[r] = "finished" /\ ~InDown(r)
    /\ LastDown(r, localId[s])
    /\ Accounted(r, s)

Closings == \A k \in DOMAIN d2h : d2h[k].cmd = "CLSE" => Closing(d2h[k].arg0, d2h[k].arg1)
LetGo == \A k \in DOMAIN Upward : Upward[k].cmd = "CLSE" => Released(Upward[k].arg1)
Passings == \A r \in RemoteIds, s \in Streams : Serves(r, s) /\ Live(s) => Passed(r, s)

EndInv ==
    /\ FlowInv /\ Marked /\ Sending /\ Receiving
    /\ Undisturbed /\ TakenOut /\ Closings /\ LetGo /\ Passings
    /\ \A s \in Streams : Ended(s) /\ Awaited(s)

-----------------------------------------------------------------------------
(* What the steps put into the queues *)

CloseFrom(r) == Msg("CLSE", r, devHost[r], 0)
Refusal(i) == Msg("CLSE", 0, i, 0)

LEMMA DeviceCloses ==
    ASSUME TypeOK, Device
    PROVE  \/ d2h' = d2h
           \/ \E m : /\ m.cmd # "CLSE" /\ (m.cmd \in Enders => m.cmd \in Strays)
                    /\ Grown(d2h', d2h, m)
           \/ \E r \in RemoteIds : DevFinish(r) /\ Grown(d2h', d2h, CloseFrom(r))
           \/ \E r \in RemoteIds :
                 DevClose /\ r = Head(h2d).arg1 /\ devSt[r] = "open" /\ Grown(d2h', d2h, CloseFrom(r))
           \/ DevOpen /\ UNCHANGED <<devSt, devHost>> /\ Grown(d2h', d2h, Refusal(Head(h2d).arg0))
<1>. DEFINE Harmless(m) == m.cmd # "CLSE" /\ (m.cmd \in Enders => m.cmd \in Strays)
<1>. DEFINE Kind(m) == m \in DeviceMessages /\ Harmless(m)
<1>. USE DEF Enders, TypeOK, TypeOKDevice, TypeOKLink
<1>1. /\ \A r \in RemoteIds : r \in Nat /\ devHost[r] \in LocalIds /\ devSent[r] + 1 \in Nat
      /\ 0 \in LocalIds
  BY RemoteIdsAssumption, IdSpaceAssumption DEF LocalIds
<1>2. \A cmd \in Commands, r \in Nat, i \in LocalIds, n \in Nat :
         Msg(cmd, r, i, n) \in DeviceMessages /\ Msg(cmd, r, i, n).cmd = cmd
  BY DEF Msg, DeviceMessages
<1>3. {"OKAY", "WRTE", "CLSE"} \subseteq Commands
  BY DEF Commands
<1>4. ASSUME NEW m, Kind(m), DeviceSends(m)
      PROVE  \E x : Harmless(x) /\ Grown(d2h', d2h, x)
  BY <1>4, DeviceSendsDown
<1>5. \A r \in RemoteIds : CloseFrom(r) \in DeviceMessages
  BY <1>1, <1>2, <1>3 DEF CloseFrom
<1>6. CASE DevOpen
  <2>1. Head(h2d).arg0 \in LocalIds
    BY <1>6, DeviceGetsTyped DEF DevOpen
  <2>2. Refusal(Head(h2d).arg0) \in DeviceMessages
    BY <1>2, <1>3, <2>1 DEF Refusal
  <2>3. CASE DeviceSends(Msg("OKAY", devNext, Head(h2d).arg0, 0)) /\ devNext \in RemoteIds
    BY <1>1, <1>2, <1>3, <1>4, <2>1, <2>3
  <2>4. CASE DeviceSends(Refusal(Head(h2d).arg0)) /\ UNCHANGED <<devSt, devHost>>
    BY <1>6, <2>2, <2>4, DeviceSendsDown
  <2>. QED
    BY <1>6, <2>3, <2>4 DEF DevOpen, Refusal
<1>7. CASE DevWrite
  <2>1. CASE d2h' = d2h
    BY <2>1
  <2>2. ASSUME NEW r \in RemoteIds, DeviceSends(Msg("OKAY", r, devHost[r], 0))
        PROVE  \E x : Harmless(x) /\ Grown(d2h', d2h, x)
    BY <1>1, <1>2, <1>3, <1>4, <2>2
  <2>. QED
    BY <1>7, <2>1, <2>2 DEF DevWrite, KnownToDevice
<1>8. CASE DevOkay
  BY <1>8 DEF DevOkay
<1>9. CASE DevClose
  <2>1. CASE d2h' = d2h
    BY <2>1
  <2>2. CASE d2h' # d2h
    <3>1. PICK r \in RemoteIds : r = Head(h2d).arg1 /\ devSt[r] = "open" /\ DeviceSends(CloseFrom(r))
      BY <1>9, <2>2 DEF DevClose, KnownToDevice, CloseFrom
    <3>. QED
      BY <1>5, <1>9, <3>1, DeviceSendsDown
  <2>. QED
    BY <2>1, <2>2
<1>10. ASSUME NEW r \in RemoteIds, DevOutput(r)
       PROVE  \E x : Harmless(x) /\ Grown(d2h', d2h, x)
  <2>1. Kind(Msg("WRTE", r, devHost[r], devSent[r] + 1))
    BY <1>1, <1>2, <1>3
  <2>. QED
    BY <1>4, <1>10, <2>1 DEF DevOutput
<1>11. ASSUME NEW r \in RemoteIds, DevFinish(r) PROVE Grown(d2h', d2h, CloseFrom(r))
  BY <1>5, <1>11, DeviceSendsDown DEF DevFinish, CloseFrom
<1>12. ASSUME NEW cmd \in Strays, DevStray(cmd)
       PROVE  \E x : Harmless(x) /\ Grown(d2h', d2h, x)
  <2>1. cmd \in Commands /\ cmd # "CLSE"
    BY EnvironmentAssumption DEF Commands, StrayCommands
  <2>2. Kind(Msg(cmd, 0, 0, 0))
    BY <1>1, <1>2, <2>1
  <2>. QED
    BY <1>4, <1>12, <2>2 DEF DevStray
<1>. QED
  BY <1>6, <1>7, <1>8, <1>9, <1>10, <1>11, <1>12 DEF Device, DeviceReceives

(* Only the device adds to what comes down. *)
LEMMA DownStep ==
    ASSUME TypeOK, [Next]_vars, ~Device
    PROVE  Slice(d2h', d2h)
<1>. USE SameSlice DEF TypeOK, TypeOKLink
<1>1. CASE \E s \in Streams : Owner(s)
  BY <1>1, OwnerPosts
<1>2. CASE ReaderTask \/ SessionThread
  BY <1>2, TasksPost
<1>3. CASE WriterTask \/ LinkDown
  BY <1>3 DEF WriterTask, WriterSends, WriterAborts, LinkDown, linkVars
<1>4. CASE UNCHANGED vars
  BY <1>4 DEF vars, taskVars, linkVars
<1>. QED
  BY <1>1, <1>2, <1>3, <1>4 DEF Next

(* The reader answers a chunk that nobody listens for. *)
Unwanted == /\ ReaderWrite /\ ~Listening(Addressee)
            /\ Grown(Upward', Upward, Msg("CLSE", Head(d2h).arg1, Head(d2h).arg0, 0))

LEMMA UpStep ==
    ASSUME TypeOK, LinkIsEmpty, [Next]_vars
    PROVE  \/ Slice(Upward', Upward)
           \/ \E m : m.cmd \notin {"OPEN", "CLSE"} /\ Grown(Upward', Upward, m)
           \/ \E s \in Streams :
                 PostOpen(s) /\ Grown(Upward', Upward, Msg("OPEN", localId[s], 0, OpenLen))
           \/ \E s \in Streams : ClosePost(s) /\ Grown(Upward', Upward, CloseFor(s))
           \/ Unwanted
<1>1. Slice(Upward, Upward)
  BY SameSlice, UpwardTyped DEF TypeOK
<1>2. ASSUME NEW s \in Streams
      PROVE  /\ Msg("WRTE", localId[s], remoteId[s], ChunkLen(s)).cmd = "WRTE"
             /\ OkayFor(s).cmd = "OKAY"
  BY DEF Msg, OkayFor
<1>3. CASE \E s \in Streams : Owner(s)
  BY <1>1, <1>2, <1>3, OwnerPosts
<1>4. CASE ReaderTask \/ SessionThread
  <2>1. CASE Upward' = Upward
    BY <1>1, <2>1
  <2>2. CASE ~ReaderWrite
    <3>1. UNCHANGED <<h2d, outbox>>
      BY <1>4, <2>2 DEF ReaderTask, SessionThread, ReaderOkay, AckCount, AckWake,
         ReaderClose, ReaderStray, ReaderFails, ReaderAborts, BeginSessionClose, CloseAll,
         Drain, Each, MarkClosed, TakeAndWake, Recv, writerVars, linkVars
    <3>. QED
      BY <2>1, <3>1 DEF Upward
  <2>3. CASE ReaderWrite /\ Upward' # Upward
    <3>1. PICK m : m = Msg("CLSE", Head(d2h).arg1, Head(d2h).arg0, 0)
      OBVIOUS
    <3>2. ~Listening(Addressee) /\ Post(m) /\ h2d' = h2d
      BY <2>3, <3>1 DEF ReaderWrite, PostFails, writerVars, Upward, Recv
    <3>3. m \in HostMessages
      BY <2>3, <3>1, RecvTyped DEF ReaderWrite, TypeOK, TypeOKLink, Msg, HostMessages, Commands
    <3>. QED
      BY <2>3, <3>1, <3>2, <3>3, PostGrows DEF TypeOK, Unwanted
  <2>. QED
    BY <2>1, <2>2, <2>3
<1>5. CASE WriterTask \/ LinkDown
  BY <1>5, CarrySlice DEF TypeOK
<1>6. CASE Device
  BY <1>6, DeviceReads
<1>7. CASE UNCHANGED vars
  BY <1>1, <1>7 DEF vars, taskVars, writerVars, linkVars, Upward
<1>. QED
  BY <1>3, <1>4, <1>5, <1>6, <1>7 DEF Next

-----------------------------------------------------------------------------
(* The parts of the invariant that concern the host *)

(* What is given up stays so. *)
LEMMA LiveBack ==
    ASSUME TypeOK, Phases, [Next]_vars, NEW s \in Born, Live(s)'
    PROVE  Live(s)
<1>. USE DEF Live, TypeOK, TypeOKCalls
<1>1. s \in Streams /\ life[s] # "unborn"
  BY DEF Born
<1>2. CASE \E u \in Streams : Owner(u) /\ u # s
  BY <1>1, <1>2, OwnerKeepsOthers DEF OthersKept
<1>3. CASE Register(s) \/ PostOpen(s) \/ Refuse(s) \/ CancelOpen(s) \/ CancelSend(s)
  BY <1>1, <1>3 DEF Register, PostOpen, Refuse, CancelOpen, CancelSend, Phases, Phase
<1>4. CASE Acked(s) \/ NotAcked(s) \/ WaitFails(s) \/ WaitOn(s) \/ Woken(s)
  BY <1>1, <1>4 DEF Acked, NotAcked, WaitFails, WaitOn, Woken
<1>5. CASE (\E n \in SendLens : BeginSend(s, n)) \/ WriteIds(s) \/ PostWrite(s)
  BY <1>1, <1>5 DEF BeginSend, WriteIds, PostWrite
<1>6. CASE RecvTake(s) \/ RecvOkay(s) \/ RecvEnd(s)
  BY <1>1, <1>6 DEF RecvTake, RecvOkay, RecvEnd
<1>7. CASE BeginClose(s) \/ CloseMark(s) \/ CloseRemove(s) \/ ClosePost(s) \/ DropStream(s)
  BY <1>1, <1>7 DEF BeginClose, CloseMark, CloseRemove, ClosePost, DropStream
<1>8. CASE ReaderTask \/ SessionThread \/ WriterTask \/ LinkDown \/ Device
  BY <1>1, <1>8, TasksKeepCalls
<1>9. CASE UNCHANGED vars
  BY <1>9 DEF vars, streamVars, ownerVars
<1>. QED
  BY <1>2, <1>3, <1>4, <1>5, <1>6, <1>7, <1>8, <1>9 DEF Next, Owner, OwnerStep, OwnerChoice

LEMMA OwnerKeepsErr ==
    ASSUME NEW s \in Streams, Owner(s)
    PROVE  UNCHANGED <<readerErr, aborted, writer>>
BY DEF Post, PostFails, writerVars, Owner, OwnerStep, OwnerChoice, Register, PostOpen, Refuse, Acked, NotAcked,
       WaitFails, WaitOn, Woken, CancelOpen, CancelSend, BeginSend, WriteIds,
       PostWrite, RecvTake, RecvOkay, RecvEnd, BeginClose, CloseMark, CloseRemove,
       ClosePost, DropStream, closerVars, taskVars

(* What is lost stays lost. *)
LEMMA LostKept ==
    ASSUME TypeOK, Lost, [Next]_vars
    PROVE  Lost'
<1>. USE DEF Lost, TypeOK, TypeOKClosers, Closers, linkVars, closerVars, writerVars, Post, PostFails
<1>1. CASE \E s \in Streams : Owner(s)
  <2>1. UNCHANGED <<apc, link, readerErr, writer>>
    BY <1>1, OwnerKeepsClosers, OwnerKeepsErr, OwnerPosts
  <2>. QED
    BY <2>1
<1>2. CASE ReaderOkay \/ AckCount \/ AckWake \/ ReaderClose
  BY <1>2 DEF ReaderOkay, AckCount, AckWake, ReaderClose, Recv
<1>3. CASE ReaderWrite \/ ReaderStray \/ ReaderFails \/ ReaderAborts \/ BeginSessionClose
  BY <1>3 DEF ReaderWrite, ReaderStray, ReaderFails, ReaderAborts, BeginSessionClose, Recv
<1>4. ASSUME NEW a \in Closers, CloseAll(a) PROVE Lost'
  BY <1>4 DEF CloseAll, Drain, Each, MarkClosed, TakeAndWake
<1>5. CASE WriterTask \/ LinkDown
  BY <1>5 DEF WriterTask, WriterSends, WriterAborts, LinkDown
<1>6. CASE Device
  BY <1>6, DeviceReads
<1>7. CASE UNCHANGED vars
  BY <1>7 DEF vars, taskVars
<1>. QED
  BY <1>1, <1>2, <1>3, <1>4, <1>5, <1>6, <1>7 DEF Next, ReaderTask, SessionThread

(* Nothing else ends the reader or the writer. *)
LEMMA UndisturbedStep ==
    ASSUME TypeOK, Undisturbed, [Next]_vars, ~Lost'
    PROVE  Undisturbed'
<1>. USE DEF TypeOK, TypeOKClosers, Closers, Undisturbed, Lost, linkVars, writerVars, closerVars
<1>1. ASSUME NEW s \in Streams, Owner(s) PROVE Undisturbed'
  <2>1. UNCHANGED <<apc, todo, link, readerErr, aborted>>
    BY <1>1, OwnerKeepsClosers, OwnerKeepsTodo, OwnerKeepsErr, OwnerPosts
  <2>2. writer' = "run"
    BY <1>1 DEF Owner, OwnerStep, OwnerChoice, Register, PostOpen, Refuse, Acked, NotAcked,
       WaitFails, WaitOn, Woken, CancelOpen, CancelSend, BeginSend, WriteIds,
       PostWrite, RecvTake, RecvOkay, RecvEnd, BeginClose, CloseMark, CloseRemove,
       ClosePost, DropStream, Post, PostFails, taskVars
  <2>. QED
    BY <2>1, <2>2
<1>2. CASE ReaderOkay \/ AckCount \/ AckWake \/ ReaderClose
  BY <1>2 DEF ReaderOkay, AckCount, AckWake, ReaderClose, Recv
<1>3. CASE ReaderWrite
  BY <1>3 DEF ReaderWrite, Recv, Post, PostFails
<1>4. CASE ReaderStray
  BY <1>4 DEF ReaderStray, Recv
<1>5. CASE ReaderFails \/ ReaderAborts \/ BeginSessionClose
  BY <1>5 DEF ReaderFails, ReaderAborts, BeginSessionClose
<1>6. ASSUME NEW a \in Closers, CloseAll(a) PROVE Undisturbed'
  <2>1. CASE Drain(a) \/ Each(a)
    BY <2>1 DEF Drain, Each
  <2>2. CASE MarkClosed(a)
    BY <2>2 DEF MarkClosed
  <2>3. CASE TakeAndWake(a)
    BY <2>3 DEF TakeAndWake
  <2>. QED
    BY <1>6, <2>1, <2>2, <2>3 DEF CloseAll
<1>7. CASE WriterTask \/ LinkDown
  BY <1>7 DEF WriterTask, WriterSends, WriterAborts, LinkDown
<1>8. CASE Device
  BY <1>8, DeviceReads
<1>9. CASE UNCHANGED vars
  BY <1>9 DEF vars, taskVars
<1>. QED
  BY <1>1, <1>2, <1>3, <1>4, <1>5, <1>6, <1>7, <1>8, <1>9 DEF Next, ReaderTask, SessionThread

(* In a peaceful session nothing is ever lost. *)
LEMMA PeaceKept ==
    ASSUME TypeOK, TypeOK', Peaceful, Undisturbed, NoEnder, [Next]_vars
    PROVE  ~Lost' /\ NoEnder'
<1>1. NoEnder'
  <2>1. CASE Slice(d2h', d2h)
    BY <2>1, Domains, DomainsPrimed DEF Slice, NoEnder
  <2>2. ASSUME NEW m, Grown(d2h', d2h, m), m.cmd \notin Enders
        PROVE  NoEnder'
    BY <2>2, Domains, DomainsPrimed DEF Grown, NoEnder
  <2>3. /\ \A r \in RemoteIds : CloseFrom(r).cmd = "CLSE"
        /\ Refusal(Head(h2d).arg0).cmd = "CLSE" /\ "CLSE" \notin Enders
    BY DEF CloseFrom, Refusal, Msg, Enders
  <2>4. \A cmd \in Enders : cmd \notin Strays
    BY DEF Peaceful
  <2>5. CASE d2h' = d2h
    BY <2>5 DEF NoEnder
  <2>. QED
    BY <2>1, <2>2, <2>3, <2>4, <2>5, DownStep, DeviceCloses
<1>2. ~Lost'
  <2>. USE DEF TypeOK, TypeOKClosers, Closers, Undisturbed, Lost, linkVars, closerVars, writerVars, Post, PostFails
  <2>1. CASE \E s \in Streams : Owner(s)
    <3>1. UNCHANGED <<apc, link, readerErr, writer>>
      BY <2>1, OwnerKeepsClosers, OwnerKeepsErr, OwnerPosts
    <3>. QED
      BY <3>1
  <2>2. CASE ReaderOkay \/ AckCount \/ AckWake \/ ReaderClose
    BY <2>2 DEF ReaderOkay, AckCount, AckWake, ReaderClose, Recv
  <2>3. CASE ReaderWrite
    BY <2>3 DEF ReaderWrite, Recv
  <2>4. CASE ReaderStray
    <3>1. d2h # <<>> => Head(d2h).cmd \notin Enders
      <4>1. d2h # <<>> => Head(d2h) = d2h[1] /\ 1 \in DOMAIN d2h
        BY EmptySeq, LenProperties DEF TypeOKLink
      <4>. QED
        BY <4>1 DEF NoEnder
    <3>. QED
      BY <2>4, <3>1 DEF ReaderStray, Recv, Enders
  <2>5. CASE ReaderFails \/ ReaderAborts \/ BeginSessionClose
    BY <2>5 DEF ReaderFails, ReaderAborts, BeginSessionClose, Peaceful
  <2>6. ASSUME NEW a \in Closers, CloseAll(a) PROVE ~Lost'
    BY <2>6 DEF CloseAll, Drain, Each, MarkClosed, TakeAndWake
  <2>7. CASE WriterTask \/ LinkDown
    BY <2>7 DEF WriterTask, WriterSends, WriterAborts, LinkDown, Peaceful
  <2>8. CASE Device
    BY <2>8, DeviceReads
  <2>9. CASE UNCHANGED vars
    BY <2>9 DEF vars, taskVars
  <2>. QED
    BY <2>1, <2>2, <2>3, <2>4, <2>5, <2>6, <2>7, <2>8, <2>9 DEF Next, ReaderTask, SessionThread
<1>. QED
  BY <1>1, <1>2

LEMMA TakenOutStep ==
    ASSUME TypeOK, Allocated, Phases, Undisturbed, TakenOut, [Next]_vars
    PROVE  TakenOut'
<1>. DEFINE t == cur["reader"]
<1>. USE DEF TypeOK, TypeOKHost, TypeOKClosers, Closers
<1>1. CASE ReaderClose
  <2>1. Head(d2h).arg1 \in LocalIds
    BY <1>1, RecvTakes DEF ReaderClose
  <2>2. registry' = [registry EXCEPT ![Head(d2h).arg1] = NoStream] /\ UNCHANGED <<localId, life>>
    BY <1>1 DEF ReaderClose, registryVars, ownerVars
  <2>3. CASE Addressee # NoStream /\ cur' = [cur EXCEPT !["reader"] = Addressee]
    <3>1. Addressee \in Born /\ localId[Addressee] = Head(d2h).arg1
      BY <2>1, <2>3 DEF Addressee, Allocated
    <3>. QED
      BY <2>1, <2>2, <2>3, <3>1 DEF TakenOut, Born
  <2>4. CASE Addressee = NoStream /\ apc' = apc
    BY <1>1, <2>4 DEF TakenOut, ReaderClose, Recv
  <2>. QED
    BY <1>1, <2>3, <2>4 DEF ReaderClose
<1>2. ASSUME apc'["reader"] \in {"mark", "take"}, ~ReaderClose
      PROVE  apc["reader"] \in {"mark", "take"} /\ cur'["reader"] = t
  <2>. USE DEF closerVars
  <2>1. CASE \E s \in Streams : Owner(s)
    BY <1>2, <2>1, OwnerKeepsClosers
  <2>2. CASE ReaderOkay \/ AckCount \/ AckWake \/ ReaderWrite
    BY <1>2, <2>2 DEF ReaderOkay, AckCount, AckWake, ReaderWrite, Recv
  <2>3. CASE ReaderStray \/ ReaderFails \/ ReaderAborts \/ BeginSessionClose
    BY <1>2, <2>3 DEF ReaderStray, ReaderFails, ReaderAborts, BeginSessionClose, Recv
  <2>4. ASSUME NEW a \in Closers, CloseAll(a)
        PROVE  apc["reader"] \in {"mark", "take"} /\ cur'["reader"] = t
    BY <1>2, <2>4 DEF CloseAll, Drain, Each, MarkClosed, TakeAndWake, Undisturbed
  <2>5. CASE WriterTask \/ LinkDown
    BY <1>2, <2>5 DEF WriterTask, WriterSends, WriterAborts, LinkDown
  <2>6. CASE Device
    BY <1>2, <2>6, DeviceReads
  <2>7. CASE UNCHANGED vars
    BY <1>2, <2>7 DEF vars, taskVars
  <2>. QED
    BY <1>2, <2>1, <2>2, <2>3, <2>4, <2>5, <2>6, <2>7 DEF Next, ReaderTask, SessionThread
<1>3. ASSUME ~ReaderClose, apc'["reader"] \in {"mark", "take"}
      PROVE  cur'["reader"] \in Born' /\ registry'[localId'[cur'["reader"]]] # cur'["reader"]
  <2>1. cur'["reader"] = t /\ t \in Born /\ registry[localId[t]] # t
    BY <1>2, <1>3 DEF TakenOut
  <2>. QED
    BY <2>1, RegisteredBack, StreamsKeptStep DEF StreamsKept
<1>. QED
  BY <1>1, <1>3 DEF TakenOut

(* A stream that has ended stays ended: it is closed and empty. *)
LEMMA EndedStep ==
    ASSUME TypeOK, Phases, Sending, Marked, [Next]_vars, NEW s \in Streams, HandFull(s), Ended(s)
    PROVE  Ended(s)'
<1>. USE DEF TypeOK, TypeOKHost, TypeOKCalls, TypeOKQueues, TypeOKClosers
<1>1. CASE RecvEnd(s)
  <2>1. /\ life[s] \in {"open", "closed"} /\ pc[s] = "idle" /\ dataQ[s] = <<>> /\ ~dataTx[s]
        /\ UNCHANGED <<life, pc, dataQ, dataTx, closed, hand>>
    BY <1>1 DEF RecvEnd, EndsWhenDrained, stateVars
  <2>2. closed[s] /\ hand[s] = <<>>
    BY <2>1 DEF Sending, Born, HandFull
  <2>. QED
    BY <2>1, <2>2 DEF Ended
<1>2. ASSUME eof'[s], ~RecvEnd(s) PROVE eof[s]
  <2>1. ASSUME NEW u \in Streams, Owner(u) PROVE eof[s]
    <3>1. CASE RecvEnd(u)
      BY <1>2, <3>1 DEF RecvEnd
    <3>2. CASE ~RecvEnd(u)
      BY <1>2, <2>1, <3>2 DEF Owner, OwnerStep, OwnerChoice, Register, PostOpen, Refuse, Acked,
         NotAcked, WaitFails, WaitOn, Woken, CancelOpen, CancelSend, BeginSend, WriteIds,
         PostWrite, RecvTake, RecvOkay, BeginClose, CloseMark, CloseRemove,
         ClosePost, DropStream, recvVars
    <3>. QED
      BY <3>1, <3>2
  <2>. USE DEF streamVars, ownerVars, recvVars
  <2>2. CASE ReaderTask \/ SessionThread
    BY <1>2, <2>2 DEF ReaderTask, SessionThread, ReaderOkay, AckCount, AckWake, ReaderWrite,
       ReaderClose, ReaderStray, ReaderFails, ReaderAborts, BeginSessionClose, CloseAll,
       Drain, Each, MarkClosed, TakeAndWake
  <2>3. CASE WriterTask \/ LinkDown
    BY <1>2, <2>3 DEF WriterTask, WriterSends, WriterAborts, LinkDown
  <2>4. CASE Device
    BY <1>2, <2>4, DeviceReads
  <2>5. CASE UNCHANGED vars
    BY <1>2, <2>5 DEF vars
  <2>. QED
    BY <2>1, <2>2, <2>3, <2>4, <2>5 DEF Next
<1>3. CASE eof[s] /\ ~RecvEnd(s)
  <2>. DEFINE Over == /\ dataQ[s] = <<>> /\ hand[s] = <<>> /\ life[s] \in {"open", "closed", "dropped"}
                      /\ pc[s] \notin {"okay", "close_mark", "close_remove", "close_post"}
  <2>1. closed[s] /\ ~dataTx[s] /\ Over
    BY <1>3 DEF Ended
  <2>2. closed'[s]
    BY <2>1, ClosedKept
  <2>3. ~dataTx'[s] /\ Over'
    <3>. USE DEF registryVars, stateVars, recvVars, sendVars
    <3>1. ASSUME NEW u \in Streams, Owner(u), u # s PROVE ~dataTx'[s] /\ Over'
      <4>1. OthersKept(s) /\ hand'[s] = hand[s] /\ dataQ'[s] \in {dataQ[s], <<>>}
        BY <3>1, OwnerKeepsOthers, OwnerMoves
      <4>2. dataTx'[s] = dataTx[s]
        BY <3>1 DEF Owner, OwnerStep, OwnerChoice, Register, PostOpen, Refuse, Acked,
         NotAcked, WaitFails, WaitOn, Woken, CancelOpen, CancelSend, BeginSend, WriteIds,
         PostWrite, RecvTake, RecvOkay, RecvEnd, BeginClose, CloseMark, CloseRemove,
         ClosePost, DropStream
      <4>. QED
        BY <2>1, <4>1, <4>2 DEF OthersKept
    <3>2. CASE Register(s) \/ PostOpen(s) \/ Refuse(s) \/ CancelOpen(s) \/ CancelSend(s)
      BY <2>1, <3>2 DEF Register, PostOpen, Refuse, CancelOpen, CancelSend, Phases, Phase
    <3>3. CASE Acked(s) \/ NotAcked(s) \/ WaitFails(s) \/ WaitOn(s) \/ Woken(s)
      BY <2>1, <3>3 DEF Acked, NotAcked, WaitFails, WaitOn, Woken
    <3>4. CASE (\E n \in SendLens : BeginSend(s, n)) \/ WriteIds(s) \/ PostWrite(s)
      BY <2>1, <3>4 DEF BeginSend, WriteIds, PostWrite
    <3>5. CASE RecvTake(s) \/ RecvOkay(s) \/ CloseMark(s) \/ CloseRemove(s) \/ ClosePost(s)
      BY <2>1, <3>5 DEF RecvTake, RecvOkay, CloseMark, CloseRemove, ClosePost
    <3>6. CASE BeginClose(s) \/ DropStream(s)
      BY <2>1, <3>6 DEF BeginClose, DropStream
    <3>7. CASE ReaderTask \/ SessionThread
      <4>1. pc'[s] = pc[s] /\ life'[s] = life[s] /\ hand' = hand
        BY <3>7, TasksKeepCalls, TasksMove
      <4>2. ~dataTx'[s]
        BY <2>1, <3>7 DEF ReaderTask, SessionThread, ReaderOkay, AckCount, AckWake, ReaderWrite,
           ReaderClose, ReaderStray, ReaderFails, ReaderAborts, BeginSessionClose, CloseAll,
           Drain, Each, MarkClosed, TakeAndWake, Closers, streamVars
      <4>3. dataQ'[s] = dataQ[s]
        BY <2>1, <3>7, TasksMove DEF ReaderWrite, Listening
      <4>. QED
        BY <2>1, <4>1, <4>2, <4>3
    <3>8. CASE WriterTask \/ LinkDown \/ Device
      <4>1. UNCHANGED streamVars
        BY <3>8, DeviceReads DEF WriterTask, WriterSends, WriterAborts, LinkDown
      <4>. QED
        BY <2>1, <4>1 DEF streamVars, ownerVars
    <3>9. CASE UNCHANGED vars
      BY <2>1, <3>9 DEF vars, streamVars, ownerVars
    <3>. QED
      BY <1>3, <3>1, <3>2, <3>3, <3>4, <3>5, <3>6, <3>7, <3>8, <3>9
      DEF Next, Owner, OwnerStep, OwnerChoice
  <2>. QED
    BY <2>2, <2>3 DEF Ended
<1>. QED
  BY <1>1, <1>2, <1>3 DEF Ended

-----------------------------------------------------------------------------
(* The parts that concern the queues *)

LEMMA StartedKept ==
    ASSUME PeersInv, [Next]_vars, NEW r \in RemoteIds, Started(r)
    PROVE  ~Starts(r) /\ Started(r)' /\ devHost'[r] = devHost[r]
<1>1. TypeOK /\ ServicesKnown
  BY DEF PeersInv, RoutingInv, Peers
<1>2. ~Starts(r)
  BY <1>1 DEF Starts, ServicesKnown, TypeOK, TypeOKDevice
<1>. QED
  BY <1>1, <1>2, DeviceStarts, OthersLeaveDevice DEF deviceVars, Started

(* A service goes on until it finishes or is closed. *)
LEMMA ServiceMoves ==
    ASSUME TypeOK, [Next]_vars, NEW r \in RemoteIds, ~Starts(r)
    PROVE  \/ devSt'[r] = devSt[r]
           \/ DevFinish(r) /\ devSt[r] = "open" /\ devSt'[r] = "finished"
           \/ /\ DevClose /\ Head(h2d).arg1 = r
              /\ devSt[r] = "open" /\ devSt'[r] = "dropped"
<1>. USE DEF TypeOK, TypeOKDevice
<1>1. CASE ~Device
  BY <1>1, OthersLeaveDevice DEF deviceVars
<1>2. CASE DevOpen
  BY <1>2 DEF DevOpen, Starts
<1>3. CASE DevWrite \/ DevOkay
  BY <1>3 DEF DevWrite, DevOkay
<1>4. CASE DevClose
  BY <1>4 DEF DevClose, KnownToDevice
<1>5. ASSUME NEW q \in RemoteIds, DevOutput(q) \/ DevFinish(q)
      PROVE  devSt'[r] = devSt[r] \/ (DevFinish(r) /\ devSt[r] = "open" /\ devSt'[r] = "finished")
  BY <1>5 DEF DevOutput, DevFinish
<1>6. ASSUME NEW cmd \in Strays, DevStray(cmd) PROVE devSt'[r] = devSt[r]
  BY <1>6 DEF DevStray
<1>. QED
  BY <1>1, <1>2, <1>3, <1>4, <1>5, <1>6 DEF Device, DeviceReceives

(* The OPENs on their way are old ones, or the one just posted. *)
LEMMA OpensBack ==
    ASSUME TypeOK, TypeOK', LinkIsEmpty, [Next]_vars, NEW i, OpenIn(i)'
    PROVE  OpenIn(i) \/ \E s \in Streams : PostOpen(s) /\ localId[s] = i
<1>1. PICK k \in DOMAIN Upward' : Opens(i, Upward'[k])
  BY DEF OpenIn, Opens
<1>2. CASE Slice(Upward', Upward)
  <2>1. PICK d \in Nat : /\ Len(Upward') + d <= Len(Upward)
                         /\ \A j \in 1 .. Len(Upward') : Upward'[j] = Upward[j + d]
    BY <1>2 DEF Slice
  <2>2. k + d \in DOMAIN Upward /\ Upward'[k] = Upward[k + d]
    BY <1>1, <2>1, Domains, DomainsPrimed
  <2>. QED
    BY <1>1, <2>2 DEF OpenIn
<1>3. ASSUME NEW m, Grown(Upward', Upward, m)
      PROVE  (k \in DOMAIN Upward /\ Upward'[k] = Upward[k]) \/ Upward'[k] = m
  BY <1>1, <1>3, Domains, DomainsPrimed DEF Grown
<1>4. ASSUME NEW m, Grown(Upward', Upward, m), m.cmd # "OPEN" PROVE OpenIn(i)
  BY <1>1, <1>3, <1>4 DEF OpenIn, Opens
<1>5. ASSUME NEW s \in Streams, Grown(Upward', Upward, Msg("OPEN", localId[s], 0, OpenLen)),
             ~OpenIn(i)
      PROVE  localId[s] = i
  <2>1. Upward'[k] = Msg("OPEN", localId[s], 0, OpenLen)
    BY <1>1, <1>3, <1>5 DEF OpenIn
  <2>. QED
    BY <1>1, <2>1 DEF Opens, Msg
<1>6. /\ \A s \in Streams : CloseFor(s).cmd # "OPEN"
      /\ Msg("CLSE", Head(d2h).arg1, Head(d2h).arg0, 0).cmd # "OPEN"
  BY DEF CloseFor, Msg
<1>. QED
  BY <1>2, <1>4, <1>5, <1>6, UpStep DEF Unwanted

(* A service starts with the OPEN of its stream. *)
LEMMA StartedFrom ==
    ASSUME TypeOK, [Next]_vars, NEW r \in RemoteIds, Started(r)'
    PROVE  \/ Started(r) /\ ~Starts(r)
           \/ Starts(r) /\ OpenIn(devHost'[r])
<1>1. CASE Starts(r)
  <2>1. DeviceGets("OPEN") /\ UNCHANGED outbox /\ devHost'[r] = Head(h2d).arg0
    BY <1>1 DEF Starts, DevOpen, writerVars, TypeOK, TypeOKDevice
  <2>2. 1 \in DOMAIN Upward /\ Upward[1] = Head(h2d) /\ Head(h2d).cmd = "OPEN"
    BY <2>1, GetsSlice DEF TypeOK
  <2>. QED
    BY <1>1, <2>1, <2>2 DEF OpenIn, Opens
<1>2. CASE ~Starts(r)
  BY <1>2, DeviceStarts, OthersLeaveDevice DEF deviceVars, Started
<1>. QED
  BY <1>1, <1>2

LEMMA ClosingKept ==
    ASSUME PeersInv, TypeOK', [Next]_vars, NEW r, NEW i, Closing(r, i)
    PROVE  Closing(r, i)'
<1>1. TypeOK /\ Allocated /\ Phases /\ LinkIsEmpty /\ StreamsKept
  BY StreamsKeptStep DEF PeersInv, RoutingInv, Peers
<1>2. CASE r \in RemoteIds /\ devSt[r] \in {"finished", "dropped"} /\ devHost[r] = i
  <2>1. devSt'[r] = devSt[r] /\ devHost'[r] = i
    BY <1>1, <1>2, StartedKept, ServiceMoves DEF Started
  <2>. QED
    BY <1>2, <2>1 DEF Closing
<1>3. CASE /\ HasPosted(i) /\ ~OpenIn(i)
           /\ \A q \in RemoteIds : Started(q) => devHost[q] # i
  <2>1. HasPosted(i)'
    BY <1>1, <1>3, HasPostedKept
  <2>2. ~OpenIn(i)'
    <3>1. ASSUME NEW s \in Streams, PostOpen(s) PROVE localId[s] # i
      <4>1. s \in Born /\ pc[s] = "post_open"
        BY <1>1, <3>1 DEF PostOpen, Phases, Phase, Born
      <4>. QED
        BY <1>1, <1>3, <4>1 DEF HasPosted, Allocated
    <3>. QED
      BY <1>1, <1>3, <3>1, OpensBack
  <2>3. ASSUME NEW q \in RemoteIds, Started(q)' PROVE devHost'[q] # i
    BY <1>1, <1>3, <2>3, StartedFrom, StartedKept
  <2>. QED
    BY <2>1, <2>2, <2>3 DEF Closing, HasPosted, OpenIn, Started
<1>. QED
  BY <1>2, <1>3 DEF Closing

(* What refuses an OPEN, closes no service. *)
LEMMA Refused ==
    ASSUME PeersInv, TypeOK', [Next]_vars, DevOpen, UNCHANGED <<devSt, devHost>>,
           NEW i, i = Head(h2d).arg0
    PROVE  Closing(0, i)'
<1>1. TypeOK /\ Phases /\ StreamsKept /\ OpensPending
  BY StreamsKeptStep DEF PeersInv, RoutingInv, Peers
<1>2. DeviceGets("OPEN") /\ UNCHANGED outbox
  BY DEF DevOpen, writerVars
<1>3. /\ 1 \in DOMAIN Upward /\ Opens(i, Upward[1]) /\ Len(Upward') = Len(Upward) - 1
      /\ \A k \in 1 .. Len(Upward') : Upward'[k] = Upward[k + 1]
  BY <1>1, <1>2, GetsSlice DEF TypeOK, Opens
<1>4. /\ HasPosted(i) /\ \A q \in RemoteIds : Started(q) => devHost[q] # i
      /\ \A j \in DOMAIN Upward : Opens(i, Upward[j]) => j = 1
  BY <1>1, <1>3 DEF OpensPending, Opens
<1>5. HasPosted(i)'
  BY <1>1, <1>4, HasPostedKept
<1>6. ASSUME NEW k \in DOMAIN Upward', Opens(i, Upward'[k]) PROVE FALSE
  <2>1. k + 1 \in DOMAIN Upward /\ k + 1 # 1 /\ Upward'[k] = Upward[k + 1]
    BY <1>1, <1>3, Domains, DomainsPrimed
  <2>. QED
    BY <1>4, <1>6, <2>1
<1>7. \A q \in RemoteIds : Started(q)' => devHost'[q] # i
  BY <1>4 DEF Started
<1>. QED
  BY <1>5, <1>6, <1>7 DEF Closing, OpenIn, HasPosted, Started, Opens

LEMMA ClosingsStep ==
    ASSUME PeersInv, TypeOK', Closings, [Next]_vars
    PROVE  Closings'
<1>1. TypeOK /\ Phases
  BY DEF PeersInv, RoutingInv
<1>2. SUFFICES ASSUME NEW k \in DOMAIN d2h', d2h'[k].cmd = "CLSE",
                      NEW r, NEW i, r = d2h'[k].arg0, i = d2h'[k].arg1
               PROVE  Closing(r, i)'
  BY DEF Closings, Closing, OpenIn, HasPosted, Started, Opens
<1>3. ASSUME NEW j \in DOMAIN d2h, d2h'[k] = d2h[j] PROVE Closing(r, i)'
  BY <1>2, <1>3, ClosingKept DEF Closings
<1>4. CASE Slice(d2h', d2h)
  <2>1. PICK d \in Nat : /\ Len(d2h') + d <= Len(d2h)
                         /\ \A j \in 1 .. Len(d2h') : d2h'[j] = d2h[j + d]
    BY <1>4 DEF Slice
  <2>2. k + d \in DOMAIN d2h /\ d2h'[k] = d2h[k + d]
    BY <1>1, <2>1, Domains, DomainsPrimed
  <2>. QED
    BY <1>3, <2>2
<1>5. ASSUME NEW m, Grown(d2h', d2h, m)
      PROVE  (k \in DOMAIN d2h /\ d2h'[k] = d2h[k]) \/ d2h'[k] = m
  BY <1>1, <1>5, Domains, DomainsPrimed DEF Grown
<1>6. CASE Device
  <2>1. ASSUME NEW m, Grown(d2h', d2h, m), m.cmd # "CLSE" PROVE Closing(r, i)'
    BY <1>2, <1>3, <1>5, <2>1
  <2>2. ASSUME NEW q \in RemoteIds, Grown(d2h', d2h, CloseFrom(q)),
               devSt'[q] \in {"finished", "dropped"}, devHost' = devHost
        PROVE  Closing(r, i)'
    <3>1. CASE d2h'[k] = CloseFrom(q)
      <4>1. r = q /\ i = devHost[q]
        BY <1>2, <3>1 DEF CloseFrom, Msg
      <4>. QED
        BY <2>2, <4>1 DEF Closing
    <3>. QED
      BY <1>3, <1>5, <2>2, <3>1
  <2>3. ASSUME NEW q \in RemoteIds, DevFinish(q), Grown(d2h', d2h, CloseFrom(q))
        PROVE  Closing(r, i)'
    BY <1>1, <2>2, <2>3 DEF DevFinish, TypeOK, TypeOKDevice
  <2>4. ASSUME NEW q \in RemoteIds, DevClose, q = Head(h2d).arg1, devSt[q] = "open",
               Grown(d2h', d2h, CloseFrom(q))
        PROVE  Closing(r, i)'
    BY <1>1, <2>2, <2>4 DEF DevClose, KnownToDevice, TypeOK, TypeOKDevice
  <2>5. CASE DevOpen /\ UNCHANGED <<devSt, devHost>> /\ Grown(d2h', d2h, Refusal(Head(h2d).arg0))
    <3>1. CASE d2h'[k] = Refusal(Head(h2d).arg0)
      <4>1. r = 0 /\ i = Head(h2d).arg0
        BY <1>2, <3>1 DEF Refusal, Msg
      <4>2. Closing(0, i)'
        BY <2>5, <4>1, Refused
      <4>. QED
        BY <4>1, <4>2
    <3>. QED
      BY <1>3, <1>5, <2>5, <3>1
  <2>6. CASE d2h' = d2h
    BY <1>3, <2>6
  <2>. QED
    BY <1>1, <1>6, <2>1, <2>3, <2>4, <2>5, <2>6, DeviceCloses
<1>. QED
  BY <1>1, <1>4, <1>6, DownStep

LEMMA ReleasedKept ==
    ASSUME IdsSuffice, PeersInv, TypeOK', [Next]_vars, NEW r, Released(r)
    PROVE  Released(r)'
<1>1. TypeOK /\ Phases /\ Started(r)' /\ devHost'[r] = devHost[r] /\ r \in RemoteIds
  BY StartedKept DEF PeersInv, RoutingInv, Released
<1>2. ASSUME NEW s \in Streams, Serves(r, s)' PROVE ~Live(s)'
  <2>1. Serves(r, s)
    BY <1>1, <1>2, ServesBack DEF Released
  <2>. QED
    BY <1>1, <2>1, LiveBack DEF Released, Serves
<1>. QED
  BY <1>1, <1>2 DEF Released

(* A chunk for a stream that is not given up finds its reader. *)
LEMMA Wanted ==
    ASSUME PeersInv, Receiving, Passings, Recv("WRTE"), NEW s \in Streams,
           Serves(Head(d2h).arg0, s), Live(s)
    PROVE  Addressee = s /\ Listening(s)
<1>. DEFINE r == Head(d2h).arg0
<1>1. TypeOK /\ FromService(Head(d2h)) /\ r \in RemoteIds
  BY ChunkAddressed DEF PeersInv, RoutingInv
<1>2. InDown(r)
  <2>1. 1 \in DOMAIN d2h /\ Head(d2h) = d2h[1] /\ Head(d2h).cmd = "WRTE"
    BY <1>1, RecvTakes
  <2>. QED
    BY <2>1 DEF InDown, Carries
<1>3. dataTx[s] /\ registry[localId[s]] = s
  BY <1>1, <1>2 DEF Passings, Passed, TypeOK, TypeOKHost
<1>4. s # NoStream /\ rxLive[s]
  BY StreamsAssumption DEF Receiving, Live
<1>. QED
  BY <1>1, <1>3, <1>4 DEF Addressee, Listening, FromService, Serves

LEMMA LetGoStep ==
    ASSUME IdsSuffice, PeersInv, TypeOK', Receiving, Passings, LetGo, [Next]_vars
    PROVE  LetGo'
<1>1. TypeOK /\ Allocated /\ Phases /\ LinkIsEmpty
  BY DEF PeersInv, RoutingInv, Peers
<1>2. SUFFICES ASSUME NEW k \in DOMAIN Upward', Upward'[k].cmd = "CLSE",
                      NEW r, r = Upward'[k].arg1
               PROVE  Released(r)'
  BY DEF LetGo, Released, Serves, Started, Live, Born
<1>3. ASSUME NEW j \in DOMAIN Upward, Upward'[k] = Upward[j] PROVE Released(r)'
  BY <1>2, <1>3, ReleasedKept DEF LetGo
<1>4. CASE Slice(Upward', Upward)
  <2>1. PICK d \in Nat : /\ Len(Upward') + d <= Len(Upward)
                         /\ \A j \in 1 .. Len(Upward') : Upward'[j] = Upward[j + d]
    BY <1>4 DEF Slice
  <2>2. k + d \in DOMAIN Upward /\ Upward'[k] = Upward[k + d]
    BY <1>1, <2>1, Domains, DomainsPrimed
  <2>. QED
    BY <1>3, <2>2
<1>5. ASSUME NEW m, Grown(Upward', Upward, m)
      PROVE  (k \in DOMAIN Upward /\ Upward'[k] = Upward[k]) \/ Upward'[k] = m
  BY <1>1, <1>5, Domains, DomainsPrimed DEF Grown
<1>6. ASSUME NEW m, Grown(Upward', Upward, m), m.cmd # "CLSE" PROVE Released(r)'
  BY <1>2, <1>3, <1>5, <1>6
<1>7. ASSUME NEW s \in Streams, ClosePost(s), Grown(Upward', Upward, CloseFor(s))
      PROVE  Released(r)'
  <2>1. CASE Upward'[k] = CloseFor(s)
    <3>1. r = remoteId[s]
      BY <1>2, <2>1 DEF CloseFor, Msg
    <3>2. remoteId[s] # 0 /\ ~Live(s)
      BY <1>1, <1>7 DEF ClosePost, Phases, Phase, Live
    <3>3. r \in RemoteIds /\ Serves(r, s)
      BY <3>1, <3>2, RemoteServes
    <3>4. Released(r)
      BY <1>1, <3>2, <3>3, ServesOne DEF Released, Serves
    <3>. QED
      BY <3>4, ReleasedKept
  <2>. QED
    BY <1>3, <1>5, <1>7, <2>1
<1>8. CASE Unwanted
  <2>. DEFINE m == Msg("CLSE", Head(d2h).arg1, Head(d2h).arg0, 0)
  <2>1. Recv("WRTE") /\ ~Listening(Addressee) /\ Grown(Upward', Upward, m)
    BY <1>8 DEF Unwanted, ReaderWrite
  <2>2. CASE Upward'[k] = m
    <3>1. r = Head(d2h).arg0
      BY <1>2, <2>2 DEF Msg
    <3>2. r \in RemoteIds /\ Started(r)
      BY <2>1, <3>1, ChunkAddressed DEF FromService
    <3>3. \A s \in Streams : Serves(r, s) => ~Live(s)
      BY <2>1, <3>1, Wanted
    <3>. QED
      BY <3>2, <3>3, ReleasedKept DEF Released
  <2>. QED
    BY <1>3, <1>5, <2>1, <2>2
<1>9. \A s \in Streams : Msg("OPEN", localId[s], 0, OpenLen).cmd # "CLSE"
  BY DEF Msg
<1>. QED
  BY <1>1, <1>4, <1>6, <1>7, <1>8, <1>9, UpStep

-----------------------------------------------------------------------------
(* What the stream loses only by a CLSE *)

LEMMA EntryStays ==
    ASSUME IdsSuffice, TypeOK, Allocated, Phases, Undisturbed, [Next]_vars, NEW s \in Born,
           Live(s)', registry[localId[s]] = s, ReaderClose => Head(d2h).arg1 # localId[s]
    PROVE  registry'[localId[s]] = s
<1>. USE DEF TypeOK, TypeOKHost, TypeOKCalls, registryVars
<1>1. s \in Streams /\ life[s] # "unborn"
  BY DEF Born
<1>2. ASSUME NEW u \in Streams, Owner(u), u # s PROVE registry'[localId[s]] = s
  BY <1>1, <1>2, OwnerKeepsEntries
<1>3. CASE Register(s) \/ Refuse(s) \/ CloseRemove(s)
  BY <1>1, <1>3 DEF Register, Refuse, CloseRemove, Live
<1>4. CASE Owner(s) /\ ~Register(s) /\ ~Refuse(s) /\ ~CloseRemove(s)
  BY <1>4 DEF Owner, OwnerStep, OwnerChoice, PostOpen, Acked, NotAcked,
       WaitFails, WaitOn, Woken, CancelOpen, CancelSend, BeginSend, WriteIds,
       PostWrite, RecvTake, RecvOkay, RecvEnd, BeginClose, CloseMark,
       ClosePost, DropStream
<1>. USE DEF streamVars
<1>5. CASE ReaderClose
  BY <1>5 DEF ReaderClose
<1>6. CASE ReaderOkay \/ AckCount \/ AckWake \/ ReaderWrite \/ ReaderStray
  BY <1>6 DEF ReaderOkay, AckCount, AckWake, ReaderWrite, ReaderStray
<1>7. CASE ReaderFails \/ ReaderAborts \/ BeginSessionClose
  BY <1>7 DEF ReaderFails, ReaderAborts, BeginSessionClose
<1>8. ASSUME NEW a \in Closers, CloseAll(a) PROVE registry' = registry
  BY <1>8 DEF CloseAll, Drain, Each, MarkClosed, TakeAndWake, Closers, Undisturbed, Lost
<1>9. CASE WriterTask \/ LinkDown
  BY <1>9 DEF WriterTask, WriterSends, WriterAborts, LinkDown
<1>10. CASE Device
  BY <1>10, DeviceReads
<1>11. CASE UNCHANGED vars
  BY <1>11 DEF vars
<1>. QED
  BY <1>2, <1>3, <1>4, <1>5, <1>6, <1>7, <1>8, <1>9, <1>10, <1>11
  DEF Next, ReaderTask, SessionThread, Closers

LEMMA SenderStays ==
    ASSUME TypeOK, Undisturbed, TakenOut, [Next]_vars, NEW s \in Born,
           Live(s)', registry[localId[s]] = s, dataTx[s]
    PROVE  dataTx'[s]
<1>. USE DEF TypeOK, TypeOKHost, TypeOKCalls, TypeOKClosers, Closers, stateVars
<1>1. s \in Streams /\ life[s] # "unborn"
  BY DEF Born
<1>2. ASSUME NEW u \in Streams, Register(u) \/ CloseMark(u) PROVE dataTx'[s]
  BY <1>1, <1>2 DEF Register, CloseMark, Live
<1>3. ASSUME NEW u \in Streams, Owner(u), ~Register(u), ~CloseMark(u) PROVE dataTx' = dataTx
  BY <1>3 DEF Owner, OwnerStep, OwnerChoice, PostOpen, Refuse, Acked, NotAcked,
       WaitFails, WaitOn, Woken, CancelOpen, CancelSend, BeginSend, WriteIds,
       PostWrite, RecvTake, RecvOkay, RecvEnd, BeginClose, CloseRemove,
       ClosePost, DropStream
<1>. USE DEF streamVars
<1>4. CASE ReaderOkay \/ AckCount \/ AckWake \/ ReaderWrite \/ ReaderStray
  BY <1>4 DEF ReaderOkay, AckCount, AckWake, ReaderWrite, ReaderStray
<1>5. CASE ReaderClose \/ ReaderFails \/ ReaderAborts \/ BeginSessionClose
  BY <1>5 DEF ReaderClose, ReaderFails, ReaderAborts, BeginSessionClose
<1>6. ASSUME NEW a \in Closers, Drain(a) \/ Each(a) \/ MarkClosed(a) PROVE dataTx' = dataTx
  BY <1>6 DEF Drain, Each, MarkClosed
<1>7. ASSUME NEW a \in Closers, TakeAndWake(a) PROVE dataTx'[s]
  <2>1. a = "reader" /\ apc[a] = "take"
    BY <1>7 DEF TakeAndWake, Undisturbed, Lost
  <2>2. cur[a] # s
    BY <2>1 DEF TakenOut
  <2>. QED
    BY <1>1, <1>7, <2>2 DEF TakeAndWake
<1>8. CASE WriterTask \/ LinkDown
  BY <1>8 DEF WriterTask, WriterSends, WriterAborts, LinkDown
<1>9. CASE Device
  BY <1>9, DeviceReads
<1>10. CASE UNCHANGED vars
  BY <1>10 DEF vars
<1>. QED
  BY <1>2, <1>3, <1>4, <1>5, <1>6, <1>7, <1>8, <1>9, <1>10
  DEF Next, ReaderTask, SessionThread, CloseAll

(* As long as the OPEN is on its way there is no CLSE for the stream.       *)
LEMMA NoneClosing ==
    ASSUME PeersInv, Closings, NEW s \in Born, Unopened(s), NEW k \in DOMAIN d2h,
           d2h[k].cmd = "CLSE"
    PROVE  d2h[k].arg1 # localId[s]
<1>1. Allocated /\ ServicesKnown /\ OpensPending
  BY DEF PeersInv, RoutingInv, Peers
<1>2. SUFFICES ASSUME d2h[k].arg1 = localId[s] PROVE FALSE
  OBVIOUS
<1>3. Closing(d2h[k].arg0, localId[s])
  BY <1>2 DEF Closings
<1>4. CASE OpenIn(localId[s])
  BY <1>1, <1>3, <1>4 DEF Closing, OpensPending, OpenIn, Opens, Started
<1>5. CASE pc[s] = "post_open"
  BY <1>1, <1>3, <1>5 DEF Closing, HasPosted, Allocated, ServicesKnown, Started
<1>. QED
  BY <1>4, <1>5 DEF Unopened

LEMMA AwaitedStep ==
    ASSUME IdsSuffice, PeersInv, TypeOK', Undisturbed, TakenOut, Closings, [Next]_vars,
           NEW s \in Streams, Awaited(s)
    PROVE  Awaited(s)'
<1>1. TypeOK /\ Allocated /\ Phases /\ LinkIsEmpty /\ StreamsKept
  BY StreamsKeptStep DEF PeersInv, RoutingInv, Peers
<1>2. CASE s \in Born
  <2>1. SUFFICES ASSUME Live(s)', Unopened(s)' PROVE dataTx'[s] /\ registry'[localId'[s]] = s
    BY DEF Awaited
  <2>2. localId'[s] = localId[s] /\ Live(s)
    BY <1>1, <1>2, <2>1, LiveBack DEF StreamsKept
  <2>3. Unopened(s)
    <3>1. CASE pc'[s] = "post_open"
      BY <1>1, <1>2, <3>1 DEF StreamsKept, Unopened
    <3>2. CASE OpenIn(localId[s])'
      <4>1. ASSUME NEW u \in Streams, PostOpen(u), localId[u] = localId[s] PROVE pc[s] = "post_open"
        <5>1. u \in Born /\ pc[u] = "post_open"
          BY <1>1, <4>1 DEF PostOpen, Phases, Phase, Born
        <5>. QED
          BY <1>1, <1>2, <4>1, <5>1 DEF Allocated
      <4>2. PICK i : i = localId[s]
        OBVIOUS
      <4>3. OpenIn(i)'
        BY <2>2, <3>2, <4>2 DEF OpenIn, Opens
      <4>. QED
        BY <1>1, <4>1, <4>2, <4>3, OpensBack DEF Unopened
    <3>. QED
      BY <2>1, <2>2, <3>1, <3>2 DEF Unopened, OpenIn, Opens
  <2>4. dataTx[s] /\ registry[localId[s]] = s
    BY <2>2, <2>3 DEF Awaited
  <2>5. ReaderClose => Head(d2h).arg1 # localId[s]
    BY <1>1, <1>2, <2>3, NoneClosing, RecvTakes DEF ReaderClose
  <2>. QED
    BY <1>1, <1>2, <2>1, <2>2, <2>4, <2>5, EntryStays, SenderStays
<1>3. CASE s \notin Born
  <2>1. CASE RegistryKept
    BY <1>3, <2>1 DEF RegistryKept, Awaited, Live, Born
  <2>2. ASSUME NEW u \in Streams, Register(u) PROVE Awaited(s)'
    <3>1. CASE u = s
      BY <1>1, <2>2, <3>1, FreshIdNotZero DEF Register, Awaited, TypeOK, TypeOKHost
    <3>2. CASE u # s
      BY <1>1, <1>3, <2>2, <3>2 DEF Register, Awaited, Live, Born, TypeOK, TypeOKCalls
    <3>. QED
      BY <3>1, <3>2
  <2>. QED
    BY <1>1, <2>1, <2>2, RegistryStep
<1>. QED
  BY <1>2, <1>3

-----------------------------------------------------------------------------
(* What keeps the chunks ahead of the CLSE *)

(* Nobody tells the service of a live stream to go; it only finishes.       *)
LEMMA ServiceHeld ==
    ASSUME PeersInv, LetGo, [Next]_vars, NEW r \in RemoteIds, NEW s \in Streams,
           Serves(r, s), Live(s)
    PROVE  /\ ~(DevClose /\ Head(h2d).arg1 = r)
           /\ \/ devSt'[r] = devSt[r]
              \/ DevFinish(r) /\ devSt[r] = "open" /\ devSt'[r] = "finished"
<1>1. TypeOK /\ ~Starts(r)
  BY StartedKept DEF PeersInv, RoutingInv, Serves
<1>2. ASSUME DevClose, Head(h2d).arg1 = r PROVE FALSE
  <2>1. DeviceGets("CLSE") /\ UNCHANGED outbox
    BY <1>2 DEF DevClose, writerVars
  <2>2. 1 \in DOMAIN Upward /\ Upward[1] = Head(h2d) /\ Upward[1].cmd = "CLSE"
    BY <1>1, <2>1, GetsSlice DEF TypeOK
  <2>3. Released(r)
    BY <1>2, <2>2 DEF LetGo
  <2>. QED
    BY <2>3 DEF Released
<1>. QED
  BY <1>1, <1>2, ServiceMoves

(* What the device appends while r does not write. *)
LEMMA DeviceAppends ==
    ASSUME PeersInv, TypeOK', LetGo, Device, [Next]_vars,
           NEW r \in RemoteIds, NEW s \in Streams, Serves(r, s), Live(s), ~DevOutput(r)
    PROVE  \/ d2h' = d2h
           \/ \E m : /\ Grown(d2h', d2h, m) /\ ~Carries(r, m)
                     /\ m.cmd = "CLSE" /\ m.arg1 = localId[s] => devSt'[r] = "finished"
<1>1. TypeOK /\ OpensPending /\ ServicesApart /\ Started(r) /\ localId[s] = devHost[r]
  BY DEF PeersInv, RoutingInv, Peers, Serves
<1>2. SUFFICES ASSUME d2h' # d2h
               PROVE  \E m : /\ Grown(d2h', d2h, m) /\ ~Carries(r, m)
                             /\ m.cmd = "CLSE" /\ m.arg1 = localId[s] => devSt'[r] = "finished"
  OBVIOUS
<1>3. PICK m : Grown(d2h', d2h, m) /\ ~Carries(r, m)
  BY <1>1, <1>2, DeviceMoves
<1>4. \A x : Grown(d2h', d2h, x) => x = m
  BY <1>3 DEF Grown
<1>5. SUFFICES ASSUME m.cmd = "CLSE", m.arg1 = localId[s] PROVE devSt'[r] = "finished"
  BY <1>3
<1>6. ASSUME NEW q \in RemoteIds, m = CloseFrom(q), devSt[q] = "open" PROVE q = r
  BY <1>1, <1>5, <1>6 DEF CloseFrom, Msg, ServicesApart, Started
<1>7. ASSUME NEW q \in RemoteIds, DevFinish(q), m = CloseFrom(q) PROVE devSt'[r] = "finished"
  BY <1>1, <1>6, <1>7 DEF DevFinish, TypeOK, TypeOKDevice
<1>8. ASSUME NEW q \in RemoteIds, DevClose, q = Head(h2d).arg1, devSt[q] = "open",
             m = CloseFrom(q)
      PROVE  FALSE
  BY <1>6, <1>8, ServiceHeld
<1>9. ASSUME DevOpen, m = Refusal(Head(h2d).arg0) PROVE FALSE
  <2>1. DeviceGets("OPEN") /\ UNCHANGED outbox
    BY <1>9 DEF DevOpen, writerVars
  <2>2. 1 \in DOMAIN Upward /\ Upward[1] = Head(h2d) /\ Upward[1].cmd = "OPEN"
    BY <1>1, <2>1, GetsSlice DEF TypeOK
  <2>3. Upward[1].arg0 = devHost[r]
    BY <1>1, <1>5, <1>9, <2>2 DEF Refusal, Msg
  <2>. QED
    BY <1>1, <2>2, <2>3 DEF OpensPending
<1>. QED
  BY <1>1, <1>2, <1>4, <1>5, <1>7, <1>8, <1>9, DeviceCloses

LEMMA LastDownStep ==
    ASSUME PeersInv, TypeOK', LetGo, [Next]_vars, NEW r \in RemoteIds,
           NEW s \in Streams, Serves(r, s), Live(s), NEW i, i = localId[s], LastDown(r, i)
    PROVE  LastDown(r, i)'
<1>1. TypeOK
  BY DEF PeersInv, RoutingInv
<1>2. devSt[r] = "finished" => devSt'[r] = "finished"
  BY ServiceHeld
<1>3. SUFFICES ASSUME NEW k \in DOMAIN d2h', d2h'[k].cmd = "CLSE", d2h'[k].arg1 = i
               PROVE  /\ devSt'[r] = "finished"
                      /\ \A j \in DOMAIN d2h' : Carries(r, d2h'[j]) => j < k
  BY DEF LastDown, Carries
<1>4. CASE Slice(d2h', d2h)
  <2>1. PICK d \in Nat : /\ Len(d2h') + d <= Len(d2h)
                         /\ \A j \in 1 .. Len(d2h') : d2h'[j] = d2h[j + d]
    BY <1>4 DEF Slice
  <2>2. \A j \in DOMAIN d2h' : j \in Nat /\ j + d \in DOMAIN d2h /\ d2h'[j] = d2h[j + d]
    BY <1>1, <2>1, Domains, DomainsPrimed
  <2>3. devSt[r] = "finished" /\ \A j \in DOMAIN d2h : Carries(r, d2h[j]) => j < k + d
    BY <1>3, <2>2 DEF LastDown
  <2>4. \A j \in DOMAIN d2h' : Carries(r, d2h'[j]) => j + d < k + d
    BY <2>2, <2>3
  <2>5. \A j \in DOMAIN d2h' : j + d < k + d => j < k
    BY <2>2
  <2>. QED
    BY <1>2, <2>3, <2>4, <2>5
<1>5. ASSUME NEW m, Grown(d2h', d2h, m)
      PROVE  /\ \A j \in DOMAIN d2h' : (j \in DOMAIN d2h /\ d2h'[j] = d2h[j]) \/ d2h'[j] = m
             /\ \A j \in DOMAIN d2h : j \in Nat /\ j < Len(d2h) + 1
             /\ \A j \in DOMAIN d2h' : j \notin DOMAIN d2h => j = Len(d2h) + 1
             /\ d2h'[Len(d2h) + 1] = m
  BY <1>1, <1>5, Domains, DomainsPrimed DEF Grown
<1>6. CASE DevOutput(r)
  <2>1. PICK m : m = Msg("WRTE", r, devHost[r], devSent[r] + 1)
    OBVIOUS
  <2>2. m \in DeviceMessages
    BY <1>1, <2>1, RemoteIdsAssumption DEF Msg, DeviceMessages, Commands, TypeOK, TypeOKDevice
  <2>3. Grown(d2h', d2h, m) /\ devSt[r] = "open"
    BY <1>1, <1>6, <2>1, <2>2, DeviceSendsDown DEF DevOutput
  <2>4. k \in DOMAIN d2h /\ d2h'[k] = d2h[k]
    BY <1>3, <1>5, <2>1, <2>3 DEF Msg
  <2>. QED
    BY <1>3, <2>3, <2>4 DEF LastDown
<1>7. ASSUME NEW m, Grown(d2h', d2h, m), ~Carries(r, m),
             m.cmd = "CLSE" /\ m.arg1 = localId[s] => devSt'[r] = "finished"
      PROVE  /\ devSt'[r] = "finished"
             /\ \A j \in DOMAIN d2h' : Carries(r, d2h'[j]) => j < k
  <2>1. \A j \in DOMAIN d2h' : Carries(r, d2h'[j]) => j \in DOMAIN d2h /\ Carries(r, d2h[j])
    BY <1>5, <1>7
  <2>2. CASE k \in DOMAIN d2h
    <3>1. d2h'[k] = d2h[k]
      BY <1>1, <1>7, <2>2, Domains DEF Grown
    <3>. QED
      BY <1>2, <1>3, <2>1, <2>2, <3>1 DEF LastDown
  <2>3. CASE k \notin DOMAIN d2h
    BY <1>3, <1>5, <1>7, <2>1, <2>3
  <2>. QED
    BY <2>2, <2>3
<1>8. CASE d2h' = d2h
  BY <1>2, <1>3, <1>8 DEF LastDown
<1>. QED
  BY <1>1, <1>4, <1>6, <1>7, <1>8, DeviceAppends, DownStep

(* Only the CLSE of its service takes a live stream out of the map, or its  *)
(* sender away, and then the chunks are through.                            *)
LEMMA ClosedBehind ==
    ASSUME IdsSuffice, EndInv, TypeOK', [Next]_vars, NEW r \in RemoteIds,
           NEW s \in Streams, Serves(r, s), Live(s), Live(s)', Passed(r, s),
           ~dataTx'[s] \/ registry'[localId[s]] # s
    PROVE  devSt'[r] = "finished" /\ ~InDown(r)'
<1>1. /\ TypeOK /\ Allocated /\ Phases /\ PeersInv /\ Flow(r, s) /\ LetGo /\ Undisturbed
      /\ TakenOut /\ s \in Born
  BY DEF EndInv, FlowInv, Flows, PeersInv, RoutingInv, Serves
<1>2. devSt[r] = "finished" /\ ~InDown(r)
  <2>1. CASE ~dataTx[s] \/ registry[localId[s]] # s
    BY <2>1 DEF Passed
  <2>2. CASE dataTx[s] /\ registry[localId[s]] = s
    <3>1. registry'[localId[s]] # s
      BY <1>1, <2>2, SenderStays
    <3>2. ReaderClose /\ Head(d2h).arg1 = localId[s]
      BY <1>1, <2>2, <3>1, EntryStays
    <3>3. 1 \in DOMAIN d2h /\ d2h[1].cmd = "CLSE" /\ d2h[1].arg1 = localId[s]
      BY <1>1, <3>2, RecvTakes DEF ReaderClose
    <3>4. devSt[r] = "finished" /\ \A j \in DOMAIN d2h : Carries(r, d2h[j]) => j < 1
      BY <3>3 DEF Passed, LastDown
    <3>5. \A j \in DOMAIN d2h : ~(j < 1)
      BY <1>1, Domains
    <3>. QED
      BY <3>4, <3>5 DEF InDown
  <2>. QED
    BY <2>1, <2>2
<1>3. devSt'[r] = "finished" /\ ~DevOutput(r)
  BY <1>1, <1>2, ServiceHeld DEF DevOutput
<1>4. DownQuiet(r) /\ devSent'[r] = devSent[r]
  <2>1. CASE Device
    BY <1>1, <1>3, <2>1, DeviceMoves, SameSlice DEF DownQuiet, TypeOK, TypeOKLink
  <2>2. CASE ~Device
    BY <1>1, <2>2, DownStep, OthersLeaveDevice DEF DownQuiet, deviceVars
  <2>. QED
    BY <2>1, <2>2
<1>5. InDown(r)' => InDown(r)
  BY <1>1, <1>4, DownShrinks DEF Flow
<1>. QED
  BY <1>2, <1>3, <1>5

LEMMA AccountedOwner ==
    ASSUME EndInv, TypeOK', NEW u \in Streams, Owner(u), NEW r \in RemoteIds,
           NEW s \in Streams, Serves(r, s), Live(s)', Accounted(r, s)
    PROVE  Accounted(r, s)'
<1>1. TypeOK /\ Phase(s) /\ Flow(r, s) /\ HandFull(s) /\ writer = "run"
  BY DEF EndInv, FlowInv, Flows, PeersInv, RoutingInv, Phases, Undisturbed
<1>2. UNCHANGED <<d2h, deviceVars>>
  BY <1>1, OwnerPosts
<1>3. devSent'[r] = devSent[r] /\ (InDown(r) => InDown(r)')
  BY <1>2 DEF deviceVars, InDown, Carries
<1>4. CASE u = s /\ RecvTake(s)
  <2>1. Len(got[s]) + 1 = devSent[r] /\ got[s] \in Seq(ChunkType)
    BY <1>1, <1>4 DEF RecvTake, Flow, AllButLast, TypeOK, TypeOKQueues
  <2>2. CASE hand' = [hand EXCEPT ![s] = <<Head(dataQ[s])>>]
    <3>1. hand'[s] # <<>>
      BY <1>1, <2>2 DEF TypeOK, TypeOKQueues
    <3>. QED
      BY <3>1 DEF Accounted
  <2>3. CASE got' = [got EXCEPT ![s] = Append(@, Head(dataQ[s]))]
    <3>1. Len(got'[s]) = Len(got[s]) + 1
      BY <1>1, <2>1, <2>3 DEF TypeOK, TypeOKQueues
    <3>. QED
      BY <1>3, <2>1, <3>1 DEF Accounted
  <2>. QED
    BY <1>4, <2>2, <2>3 DEF RecvTake
<1>5. CASE u = s /\ RecvOkay(s)
  <2>1. /\ hand[s] = << <<r, devSent[r]>> >> /\ Len(got[s]) + 1 = devSent[r]
        /\ got[s] \in Seq(ChunkType) /\ hand[s] \in Seq(ChunkType)
    BY <1>1, <1>5 DEF RecvOkay, HandFull, Flow, AllButLast, TypeOK, TypeOKQueues
  <2>2. got'[s] = got[s] \o hand[s]
    BY <1>1, <1>5 DEF RecvOkay, PostFails, TypeOK, TypeOKQueues
  <2>3. Len(got'[s]) = Len(got[s]) + Len(hand[s])
    BY <2>1, <2>2, ConcatProperties
  <2>4. Len(hand[s]) = 1
    BY <2>1
  <2>. QED
    BY <1>3, <2>1, <2>3, <2>4 DEF Accounted
<1>6. CASE ~(u = s /\ (RecvTake(u) \/ RecvOkay(u)))
  <2>1. got'[s] = got[s] /\ hand'[s] = hand[s] /\ dataQ'[s] = dataQ[s]
    BY <1>1, <1>6, OwnerMoves DEF Live
  <2>. QED
    BY <1>3, <2>1 DEF Accounted
<1>. QED
  BY <1>4, <1>5, <1>6

LEMMA AccountedTasks ==
    ASSUME EndInv, TypeOK', ReaderTask \/ SessionThread, NEW r \in RemoteIds,
           NEW s \in Streams, Serves(r, s), Live(s), Accounted(r, s)
    PROVE  Accounted(r, s)'
<1>1. TypeOK /\ PeersInv /\ Receiving /\ Passings /\ Undisturbed /\ s # NoStream
  BY StreamsAssumption DEF EndInv, FlowInv, PeersInv, RoutingInv
<1>2. hand' = hand /\ got' = got /\ devSent' = devSent
  BY <1>1, TasksMove, TasksPost DEF deviceVars
<1>3. dataQ[s] # <<>> => dataQ'[s] # <<>>
  <2>1. CASE ~ReaderWrite
    BY <2>1, TasksMove
  <2>2. CASE ReaderWrite
    BY <1>1, <2>2 DEF ReaderWrite, TypeOK, TypeOKQueues
  <2>. QED
    BY <2>1, <2>2
<1>4. CASE InDown(r) /\ ~InDown(r)'
  <2>1. PICK k \in DOMAIN d2h : Carries(r, d2h[k])
    BY <1>4 DEF InDown
  <2>2. link = "up" /\ d2h' # d2h
    BY <1>1, <1>4 DEF Undisturbed, Lost, InDown, Carries, TypeOK, TypeOKLink
  <2>3. PICK cmd \in Commands : Recv(cmd)
    BY <2>2, ReaderTakes
  <2>4. /\ Head(d2h) = d2h[1] /\ Head(d2h).cmd = cmd
        /\ Len(d2h') = Len(d2h) - 1 /\ \A j \in 1 .. Len(d2h') : d2h'[j] = d2h[j + 1]
    BY <1>1, <2>3, RecvTakes
  <2>5. k = 1
    <3>1. SUFFICES ASSUME k # 1 PROVE FALSE
      OBVIOUS
    <3>2. k - 1 \in DOMAIN d2h' /\ (k - 1) + 1 = k
      BY <1>1, <2>1, <2>4, <3>1, Domains, DomainsPrimed
    <3>3. Carries(r, d2h'[k - 1])
      BY <1>1, <2>1, <2>4, <3>2, DomainsPrimed
    <3>. QED
      BY <1>4, <3>2, <3>3 DEF InDown, Carries
  <2>6. Head(d2h).arg0 = r /\ Recv("WRTE")
    BY <2>1, <2>3, <2>4, <2>5 DEF Carries
  <2>7. Addressee = s /\ Listening(s)
    BY <1>1, <2>6, Wanted
  <2>8. ReaderWrite
    BY <2>2, <2>6 DEF ReaderTask, SessionThread, ReaderOkay, AckCount, AckWake, ReaderClose,
       ReaderStray, ReaderFails, ReaderAborts, BeginSessionClose, CloseAll, Drain, Each,
       MarkClosed, TakeAndWake, Recv, linkVars
  <2>. QED
    BY <1>1, <2>7, <2>8 DEF ReaderWrite, Accounted, TypeOK, TypeOKQueues
<1>. QED
  BY <1>2, <1>3, <1>4 DEF Accounted

LEMMA AccountedDevice ==
    ASSUME TypeOK, TypeOK', Device, NEW r \in RemoteIds, NEW s \in Streams, Accounted(r, s)
    PROVE  Accounted(r, s)'
<1>1. hand' = hand /\ dataQ' = dataQ /\ got' = got
  BY DeviceReads DEF streamVars, ownerVars, recvVars
<1>2. CASE DevOutput(r)
  <2>1. PICK m : m = Msg("WRTE", r, devHost[r], devSent[r] + 1)
    OBVIOUS
  <2>2. m \in DeviceMessages /\ Carries(r, m)
    BY <2>1, RemoteIdsAssumption DEF Msg, DeviceMessages, Commands, Carries, TypeOK, TypeOKDevice
  <2>3. Grown(d2h', d2h, m)
    BY <1>2, <2>1, <2>2, DeviceSendsDown DEF DevOutput
  <2>. QED
    BY <2>2, <2>3, InDownGrown DEF Accounted
<1>3. CASE ~DevOutput(r)
  <2>1. InDown(r) => InDown(r)'
    <3>1. CASE d2h' = d2h
      BY <3>1 DEF InDown, Carries
    <3>2. CASE \E m : Grown(d2h', d2h, m)
      BY <3>2, InDownGrown
    <3>. QED
      BY <1>3, <3>1, <3>2, DeviceMoves
  <2>. QED
    BY <1>1, <1>3, <2>1, DeviceMoves DEF Accounted
<1>. QED
  BY <1>2, <1>3

LEMMA AccountedStep ==
    ASSUME EndInv, TypeOK', [Next]_vars, NEW r \in RemoteIds, NEW s \in Streams,
           Serves(r, s), Live(s), Live(s)', Accounted(r, s)
    PROVE  Accounted(r, s)'
<1>1. TypeOK
  BY DEF EndInv, FlowInv, PeersInv, RoutingInv
<1>2. CASE WriterTask \/ LinkDown
  BY <1>2 DEF WriterTask, WriterSends, WriterAborts, LinkDown, linkVars, streamVars, ownerVars,
     recvVars, deviceVars, Accounted, InDown, Carries
<1>3. CASE UNCHANGED vars
  BY <1>3 DEF vars, streamVars, ownerVars, recvVars, taskVars, linkVars, deviceVars,
     Accounted, InDown, Carries
<1>. QED
  BY <1>1, <1>2, <1>3, AccountedOwner, AccountedTasks, AccountedDevice DEF Next

-----------------------------------------------------------------------------
(* The end of a live stream *)

LEMMA PassedStarts ==
    ASSUME EndInv, TypeOK', [Next]_vars, NEW r \in RemoteIds, NEW s \in Streams,
           Starts(r), Serves(r, s)', Live(s)'
    PROVE  Passed(r, s)'
<1>1. /\ TypeOK /\ FlowInv /\ PeersInv /\ Closings /\ Unstarted /\ Unaddressed /\ Awaited(s)
  BY DEF EndInv, FlowInv, PeersInv, RoutingInv
<1>2. ~Started(r) /\ remoteId[s] = 0
  BY <1>1, StartsFresh
<1>3. /\ DeviceGets("OPEN") /\ UNCHANGED <<streamVars, writerVars, devSent>>
      /\ devSt'[r] = "open" /\ devHost'[r] = Head(h2d).arg0
      /\ d2h' = Append(d2h, Msg("OKAY", r, Head(h2d).arg0, 0)) /\ d2h \in Seq(DeviceMessages)
  BY <1>1, <1>2 DEF Starts, DevOpen, DeviceSends, Started, TypeOK, TypeOKDevice, TypeOKLink
<1>4. UNCHANGED <<registry, localId, dataTx, dataQ, got, hand, life, pc>>
  BY <1>3 DEF streamVars, registryVars, stateVars, ownerVars, recvVars
<1>5. s \in Born /\ Live(s) /\ localId[s] = Head(h2d).arg0
  BY <1>3, <1>4 DEF Serves, Born, Live
<1>6. 1 \in DOMAIN Upward /\ Opens(localId[s], Upward[1])
  BY <1>1, <1>3, <1>5, GetsSlice DEF TypeOK, Opens, writerVars
<1>7. Unopened(s) /\ dataTx[s] /\ registry[localId[s]] = s
  BY <1>1, <1>5, <1>6 DEF Unopened, OpenIn, Awaited
<1>8. got[s] = <<>> /\ devSent[r] = 0
  BY <1>1, <1>2 DEF Unstarted, Unaddressed, NothingYet
<1>9. PICK m, i : m = Msg("OKAY", r, Head(h2d).arg0, 0) /\ i = localId[s]
  OBVIOUS
<1>10. LastDown(r, i)'
  <2>1. SUFFICES ASSUME NEW k \in DOMAIN d2h', d2h'[k].cmd = "CLSE", d2h'[k].arg1 = i PROVE FALSE
    BY DEF LastDown
  <2>2. d2h'[k] # m
    BY <1>9, <2>1 DEF Msg
  <2>3. k \in DOMAIN d2h /\ d2h'[k] = d2h[k]
    BY <1>3, <1>9, <2>1, <2>2
  <2>. QED
    BY <1>1, <1>5, <1>7, <1>9, <2>1, <2>3, NoneClosing
<1>11. i = localId'[s]
  BY <1>4, <1>9
<1>. QED
  BY <1>3, <1>4, <1>7, <1>8, <1>10, <1>11 DEF Passed, Accounted, LastDown

LEMMA PassedStep ==
    ASSUME IdsSuffice, EndInv, TypeOK', [Next]_vars, NEW r \in RemoteIds,
           NEW s \in Streams, Serves(r, s)', Live(s)'
    PROVE  Passed(r, s)'
<1>1. TypeOK /\ PeersInv /\ Phases /\ LetGo
  BY DEF EndInv, FlowInv, PeersInv, RoutingInv
<1>2. CASE ~Starts(r)
  <2>1. Started(r)' = Started(r) /\ devHost'[r] = devHost[r]
    BY <1>1, <1>2, DeviceStarts, OthersLeaveDevice DEF deviceVars, Started
  <2>2. Serves(r, s) /\ s \in Born
    BY <1>1, <2>1, ServesBack DEF Serves
  <2>3. Live(s) /\ Passed(r, s)
    BY <1>1, <2>2, LiveBack DEF EndInv, Passings
  <2>4. PICK i : i = localId[s] /\ i = localId'[s]
    BY <1>1, <2>2, StreamsKeptStep DEF StreamsKept
  <2>5. devSt'[r] \in {"open", "finished"}
    BY <1>1, <2>2, <2>3, ServiceHeld DEF Passed
  <2>6. ~dataTx'[s] \/ registry'[localId'[s]] # s => devSt'[r] = "finished" /\ ~InDown(r)'
    BY <2>2, <2>3, <2>4, ClosedBehind
  <2>7. LastDown(r, i)'
    BY <1>1, <2>2, <2>3, <2>4, LastDownStep DEF Passed
  <2>8. Accounted(r, s)'
    BY <2>2, <2>3, AccountedStep DEF Passed
  <2>. QED
    BY <2>4, <2>5, <2>6, <2>7, <2>8 DEF Passed, LastDown
<1>. QED
  BY <1>2, PassedStarts

LEMMA EndStep == ASSUME IdsSuffice, EndInv, [Next]_vars, ~Lost' PROVE EndInv'
<1>1. /\ FlowInv /\ FlowInv' /\ PeersInv /\ TypeOK /\ TypeOK' /\ Allocated /\ Phases
      /\ Marked /\ Sending /\ Receiving /\ Undisturbed /\ TakenOut /\ Closings /\ LetGo /\ Passings
  BY FlowStep DEF EndInv, FlowInv, PeersInv, RoutingInv
<1>2. Sending' /\ Marked' /\ Receiving'
  BY <1>1, SendingStep, MarkedStep, ReceivingStep
<1>3. Undisturbed' /\ TakenOut'
  BY <1>1, UndisturbedStep, TakenOutStep
<1>4. Closings' /\ LetGo'
  BY <1>1, ClosingsStep, LetGoStep
<1>5. Passings'
  BY <1>1, PassedStep DEF Passings
<1>6. ASSUME NEW s \in Streams PROVE Ended(s)' /\ Awaited(s)'
  BY <1>1, EndedStep, AwaitedStep DEF EndInv, FlowInv
<1>. QED
  BY <1>1, <1>2, <1>3, <1>4, <1>5, <1>6 DEF EndInv

LEMMA EndInit == ASSUME IdsSuffice, Init PROVE EndInv /\ NoEnder
<1>1. FlowInv
  BY FlowInit
<1>2. DOMAIN d2h = {} /\ DOMAIN Upward = {}
  BY DEF Init, Upward
<1>3. Undisturbed /\ TakenOut
  BY DEF Undisturbed, Lost, TakenOut, Closers, Init
<1>4. Closings /\ LetGo /\ Passings
  BY <1>2 DEF Closings, LetGo, Passings, Serves, Started, Init
<1>. QED
  BY <1>1, <1>2, <1>3, <1>4 DEF EndInv, NoEnder, Sending, Marked, Receiving, Ended, Awaited,
     Live, Born, Closers, Init

(* End of stream after an orderly close (channel.rs:13): when recv returns  *)
(* None on a stream its owner has not closed, the service has finished, and *)
(* every chunk it wrote has been returned, the ones included that were in   *)
(* the link, in the channel or in recv's hand when its CLSE was read.       *)
THEOREM NothingAfterTheEnd ==
    ASSUME IdsSuffice, Peaceful
    PROVE  Spec => []EndOfStreamIsComplete
<1>1. Init => EndInv /\ NoEnder
  BY EndInit
<1>2. EndInv /\ NoEnder /\ [Next]_vars => EndInv' /\ NoEnder'
  <2>1. SUFFICES ASSUME EndInv, NoEnder, [Next]_vars PROVE EndInv' /\ NoEnder'
    OBVIOUS
  <2>2. TypeOK /\ TypeOK' /\ Undisturbed
    BY <2>1, TypeStep DEF EndInv, FlowInv, PeersInv, RoutingInv
  <2>. QED
    BY <2>1, <2>2, PeaceKept, EndStep
<1>3. EndInv => EndOfStreamIsComplete
  <2>1. SUFFICES ASSUME EndInv, NEW s \in Streams, life[s] = "open", eof[s],
                        NEW r, r = remoteId[s]
                 PROVE  devSt[r] = "finished" /\ got[s] = Chunks(r, devSent[r])
    BY DEF EndOfStreamIsComplete
  <2>2. TypeOK /\ PeersInv /\ Phase(s) /\ Ended(s) /\ Passings /\ Flows
    BY <2>1 DEF EndInv, FlowInv, PeersInv, RoutingInv, Phases
  <2>3. Live(s) /\ ~dataTx[s] /\ dataQ[s] = <<>> /\ hand[s] = <<>> /\ r # 0
    BY <2>1, <2>2 DEF Ended, Live, Phase
  <2>4. r \in RemoteIds /\ Serves(r, s)
    BY <2>1, <2>2, <2>3, RemoteServes
  <2>5. devSt[r] = "finished" /\ Len(got[s]) = devSent[r] /\ Flow(r, s)
    BY <2>2, <2>3, <2>4 DEF Passings, Passed, Accounted, Flows
  <2>6. got[s] \in Seq(ChunkType) /\ \A k \in DOMAIN got[s] : got[s][k] = <<r, k>>
    BY <2>2, <2>5 DEF Flow, TypeOK, TypeOKQueues
  <2>7. DOMAIN got[s] = 1 .. devSent[r] /\ got[s] = [k \in DOMAIN got[s] |-> got[s][k]]
    BY <2>5, <2>6, LenProperties
  <2>. QED
    BY <2>5, <2>6, <2>7 DEF Chunks
<1>. QED
  BY <1>1, <1>2, <1>3, PTL DEF Spec

-----------------------------------------------------------------------------
(* Every stream is a channel: what the channel of a stream holds, which     *)
(* SessionChannel reads off the queues, in the terms of the invariants.     *)

LEMMA AscendingFew ==
    ASSUME NEW k
    PROVE  Ascending({}) = <<>> /\ Ascending({k}) = <<k>>
<1>1. Cardinality({}) = 0 /\ Cardinality({k}) = 1
  BY FS_EmptySet, FS_Singleton
<1>2. Ascending({}) = <<>>
  BY <1>1 DEF Ascending
<1>3. Ascending({k}) = <<k>>
  <2>. DEFINE P(p) == \A i, j \in 1 .. 1 : i < j => p[i] < p[j]
  <2>1. <<k>> \in [1 .. 1 -> {k}] /\ P(<<k>>)
    OBVIOUS
  <2>2. Ascending({k}) = CHOOSE p \in [1 .. 1 -> {k}] : P(p)
    BY <1>1 DEF Ascending
  <2>. HIDE DEF P
  <2>3. Ascending({k}) \in [1 .. 1 -> {k}]
    BY <2>1, <2>2
  <2>. QED
    BY <2>3
<1>. QED
  BY <1>2, <1>3

PayloadOf(s, m) == m.cmd = "WRTE" /\ m.arg0 = localId[s]
ChunkOf(s, m)   == m.cmd = "WRTE" /\ m.arg1 = localId[s]

LEMMA UpFew ==
    ASSUME NEW s
    PROVE  /\ (\A k \in DOMAIN Upward : ~PayloadOf(s, Upward[k])) => UpOf(s) = <<>>
           /\ \A k \in DOMAIN Upward :
                 /\ PayloadOf(s, Upward[k])
                 /\ \A j \in DOMAIN Upward : PayloadOf(s, Upward[j]) => j = k
                 => UpOf(s) = <<Upward[k].data>>
<1>. DEFINE K == {k \in DOMAIN Upward : PayloadOf(s, Upward[k])}
            Data(p) == [i \in DOMAIN p |-> Upward[p[i]].data]
<1>1. UpOf(s) = Data(Ascending(K))
  BY DEF UpOf, Upward, PayloadOf
<1>2. Data(<<>>) = <<>> /\ \A k : Data(<<k>>) = <<Upward[k].data>>
  OBVIOUS
<1>3. (\A k \in DOMAIN Upward : ~PayloadOf(s, Upward[k])) => K = {}
  OBVIOUS
<1>4. \A k \in DOMAIN Upward :
         /\ PayloadOf(s, Upward[k])
         /\ \A j \in DOMAIN Upward : PayloadOf(s, Upward[j]) => j = k
         => K = {k}
  OBVIOUS
<1>. HIDE DEF K, Data
<1>. QED
  BY <1>1, <1>2, <1>3, <1>4, AscendingFew

LEMMA DownFew ==
    ASSUME NEW s
    PROVE  /\ (\A k \in DOMAIN d2h : ~ChunkOf(s, d2h[k])) => ChunksDown(s) = <<>>
           /\ \A k \in DOMAIN d2h :
                 /\ ChunkOf(s, d2h[k])
                 /\ \A j \in DOMAIN d2h : ChunkOf(s, d2h[j]) => j = k
                 => ChunksDown(s) = << <<d2h[k].arg0, d2h[k].data>> >>
<1>. DEFINE K == {k \in DOMAIN d2h : ChunkOf(s, d2h[k])}
            Data(p) == [i \in DOMAIN p |-> <<d2h[p[i]].arg0, d2h[p[i]].data>>]
<1>1. ChunksDown(s) = Data(Ascending(K))
  BY DEF ChunksDown, ChunkOf
<1>2. Data(<<>>) = <<>> /\ \A k : Data(<<k>>) = << <<d2h[k].arg0, d2h[k].data>> >>
  OBVIOUS
<1>3. (\A k \in DOMAIN d2h : ~ChunkOf(s, d2h[k])) => K = {}
  OBVIOUS
<1>4. \A k \in DOMAIN d2h :
         /\ ChunkOf(s, d2h[k])
         /\ \A j \in DOMAIN d2h : ChunkOf(s, d2h[j]) => j = k
         => K = {k}
  OBVIOUS
<1>. HIDE DEF K, Data
<1>. QED
  BY <1>1, <1>2, <1>3, <1>4, AscendingFew

(* Before it is registered a stream has the id zero, which addresses none. *)
Newborn == \A s \in Streams : s \notin Born => localId[s] = 0

PromiseInv == SendInv /\ Newborn /\ (Lost \/ EndInv)

(* A chunk of r is on its way to s. *)
Coming(r, s) == InDown(r) \/ hand[s] # <<>> \/ dataQ[s] # <<>>

Served(s) == \E r \in RemoteIds : Serves(r, s)

(* The channel of a stream with a service: at most one payload, at most one *)
(* chunk; and of a stream without.                                          *)
View(r, s) ==
    /\ ~WriteUp(r) => UpOf(s) = <<>>
    /\ \A k \in DOMAIN Upward : Brings(r, Upward[k]) => UpOf(s) = <<Upward[k].data>>
    /\ DownOf(s) = IF Coming(r, s) THEN << <<r, devSent[r]>> >> ELSE <<>>
    /\ PeerOf(s) = IF devSt[r] = "open" THEN "open" ELSE "finished"

NoView(s) == UpOf(s) = <<>> /\ DownOf(s) = <<>> /\ PeerOf(s) = "none"

LEMMA PromiseParts ==
    ASSUME PromiseInv
    PROVE  /\ SendInv /\ FlowInv /\ PeersInv /\ Peers /\ TypeOK /\ Allocated /\ Phases
           /\ UpwardMatch /\ Unaddressed /\ Newborn /\ \A s \in Streams : HandFull(s)
BY DEF PromiseInv, SendInv, FlowInv, PeersInv, RoutingInv

LEMMA PayloadsServed ==
    ASSUME PromiseInv, NEW r \in RemoteIds, NEW s \in Streams, Serves(r, s),
           NEW k \in DOMAIN Upward
    PROVE  PayloadOf(s, Upward[k]) <=> Brings(r, Upward[k])
<1>1. PeersInv /\ Allocated /\ UpwardMatch /\ ServicesApart /\ Started(r) /\ s \in Born
      /\ localId[s] = devHost[r]
  BY PromiseParts DEF Peers, Serves
<1>2. SUFFICES ASSUME Upward[k].cmd = "WRTE"
               PROVE  Upward[k].arg0 = localId[s] <=> Upward[k].arg1 = r
  BY DEF PayloadOf, Brings
<1>3. PICK t \in Born : /\ Upward[k].arg0 = localId[t] /\ Upward[k].arg1 = remoteId[t]
                        /\ remoteId[t] # 0
  BY <1>1, <1>2 DEF UpwardMatch, ToService
<1>4. t \in Streams /\ remoteId[t] \in RemoteIds /\ Serves(remoteId[t], t)
  BY <1>1, <1>3, RemoteServes DEF Born
<1>5. ASSUME localId[t] = localId[s] PROVE remoteId[t] = r
  BY <1>1, <1>4, <1>5 DEF Serves, ServicesApart
<1>6. ASSUME remoteId[t] = r PROVE t = s
  BY <1>1, <1>4, <1>6, ServesOne
<1>. QED
  BY <1>3, <1>5, <1>6

LEMMA ChunksServed ==
    ASSUME PromiseInv, NEW r \in RemoteIds, NEW s \in Streams, Serves(r, s),
           NEW k \in DOMAIN d2h
    PROVE  ChunkOf(s, d2h[k]) <=> Carries(r, d2h[k])
<1>1. MessagesMatch /\ ServicesApart /\ Started(r) /\ localId[s] = devHost[r]
  BY PromiseParts DEF Peers, Serves
<1>. QED
  BY <1>1 DEF ChunkOf, Carries, MessagesMatch, FromService, ServicesApart

LEMMA Viewed ==
    ASSUME PromiseInv, NEW r \in RemoteIds, NEW s \in Streams, Serves(r, s)
    PROVE  View(r, s)
<1>1. Flow(r, s) /\ OneWriteUp(r) /\ OnceDown(r) /\ TypeOK
  BY PromiseParts DEF SendInv, FlowInv, Flows, Flow, Turnaround
<1>2. ~WriteUp(r) => UpOf(s) = <<>>
  BY PayloadsServed, UpFew DEF WriteUp
<1>3. \A k \in DOMAIN Upward : Brings(r, Upward[k]) => UpOf(s) = <<Upward[k].data>>
  BY <1>1, PayloadsServed, UpFew DEF OneWriteUp
<1>4. DownOf(s) = IF Coming(r, s) THEN << <<r, devSent[r]>> >> ELSE <<>>
  <2>1. CASE InDown(r)
    <3>1. PICK k \in DOMAIN d2h : Carries(r, d2h[k])
      BY <2>1 DEF InDown
    <3>2. ChunksDown(s) = << <<d2h[k].arg0, d2h[k].data>> >>
      BY <1>1, <3>1, ChunksServed, DownFew DEF OnceDown
    <3>3. d2h[k].arg0 = r /\ d2h[k].data = devSent[r] /\ hand[s] = <<>> /\ dataQ[s] = <<>>
      BY <1>1, <2>1, <3>1 DEF Flow, OnceDown, Carries
    <3>. QED
      BY <2>1, <3>2, <3>3 DEF DownOf, Coming
  <2>2. CASE ~InDown(r)
    <3>1. ChunksDown(s) = <<>>
      BY <2>2, ChunksServed, DownFew DEF InDown
    <3>2. DownOf(s) = hand[s] \o dataQ[s] \o <<>>
      BY <3>1 DEF DownOf
    <3>3. hand[s] # <<>> => dataQ[s] = <<>>
      BY <1>1 DEF Flow
    <3>4. hand[s] # <<>> => hand[s] = << <<r, devSent[r]>> >>
      BY <1>1 DEF Flow
    <3>5. dataQ[s] # <<>> => dataQ[s] = << <<r, devSent[r]>> >>
      BY <1>1 DEF Flow
    <3>6. PICK x : x = <<r, devSent[r]>>
      OBVIOUS
    <3>7. <<x>> \o <<>> \o <<>> = <<x>> /\ <<>> \o <<x>> \o <<>> = <<x>> /\ <<>> \o <<>> \o <<>> = <<>>
      OBVIOUS
    <3>8. CASE hand[s] # <<>>
      BY <3>2, <3>3, <3>4, <3>6, <3>7, <3>8 DEF Coming
    <3>9. CASE hand[s] = <<>> /\ dataQ[s] # <<>>
      BY <3>2, <3>5, <3>6, <3>7, <3>9 DEF Coming
    <3>10. CASE hand[s] = <<>> /\ dataQ[s] = <<>>
      BY <2>2, <3>2, <3>7, <3>10 DEF Coming
    <3>. QED
      BY <3>8, <3>9, <3>10
  <2>. QED
    BY <2>1, <2>2
<1>5. PeerOf(s) = IF devSt[r] = "open" THEN "open" ELSE "finished"
  <2>1. ServicesApart /\ Started(r) /\ localId[s] = devHost[r]
    BY PromiseParts DEF Peers, Serves
  <2>2. Serving(s) = {r}
    BY <2>1 DEF Serving, ServicesApart, Started
  <2>. QED
    BY <2>2 DEF PeerOf
<1>. QED
  BY <1>2, <1>3, <1>4, <1>5 DEF View

LEMMA Unviewed ==
    ASSUME PromiseInv, NEW s \in Streams, ~Served(s)
    PROVE  NoView(s) /\ remoteId[s] = 0
<1>1. PeersInv /\ Allocated /\ UpwardMatch /\ Unaddressed /\ Newborn /\ ServicesKnown /\ MessagesMatch
  BY PromiseParts DEF Peers
<1>2. \A t \in Born : localId[t] = localId[s] => t = s /\ s \in Born
  BY <1>1 DEF Allocated, Newborn
<1>3. remoteId[s] = 0
  BY <1>1, RemoteServes DEF Served
<1>4. hand[s] = <<>> /\ dataQ[s] = <<>>
  BY <1>1, <1>3 DEF Unaddressed, NothingYet
<1>5. ASSUME NEW r \in RemoteIds, Started(r) PROVE devHost[r] # localId[s]
  <2>1. PICK t \in Born : localId[t] = devHost[r]
    BY <1>1, <1>5 DEF ServicesKnown, HasPosted
  <2>. QED
    BY <1>2, <1>5, <2>1 DEF Served, Serves
<1>6. UpOf(s) = <<>>
  <2>1. ASSUME NEW k \in DOMAIN Upward, PayloadOf(s, Upward[k]) PROVE FALSE
    <3>1. PICK t \in Born : Upward[k].arg0 = localId[t] /\ remoteId[t] # 0
      BY <1>1, <2>1 DEF UpwardMatch, ToService, PayloadOf
    <3>. QED
      BY <1>2, <1>3, <2>1, <3>1 DEF PayloadOf
  <2>. QED
    BY <2>1, UpFew
<1>7. DownOf(s) = <<>>
  <2>1. ASSUME NEW k \in DOMAIN d2h, ChunkOf(s, d2h[k]) PROVE FALSE
    BY <1>1, <1>5, <2>1 DEF MessagesMatch, FromService, ChunkOf
  <2>2. ChunksDown(s) = <<>>
    BY <2>1, DownFew
  <2>. QED
    BY <1>4, <2>2 DEF DownOf
<1>8. PeerOf(s) = "none"
  <2>1. Serving(s) = {}
    BY <1>5 DEF Serving, Started
  <2>. QED
    BY <2>1 DEF PeerOf
<1>. QED
  BY <1>3, <1>6, <1>7, <1>8 DEF NoView


LEMMA NewbornStep ==
    ASSUME TypeOK, Phases, Newborn, [Next]_vars PROVE Newborn'
<1>1. CASE RegistryKept
  BY <1>1 DEF RegistryKept, Newborn
<1>2. ASSUME NEW u \in Streams, Register(u) PROVE Newborn'
  BY <1>2 DEF Register, Newborn, Born, TypeOK, TypeOKHost, TypeOKCalls
<1>. QED
  BY <1>1, <1>2, RegistryStep

LEMMA PromiseStep ==
    ASSUME ~CancelSends, IdsSuffice, PromiseInv, [Next]_vars PROVE PromiseInv'
<1>1. SendInv' /\ Newborn'
  BY PromiseParts, SendStep, NewbornStep DEF RoutingInv, FlowInv, PeersInv
<1>2. Lost' \/ EndInv'
  BY PromiseParts, LostKept, EndStep DEF PromiseInv
<1>. QED
  BY <1>1, <1>2 DEF PromiseInv

LEMMA PromiseInit == ASSUME IdsSuffice, Init PROVE PromiseInv
BY SendInit, EndInit DEF PromiseInv, Newborn, Init

LEMMA ViewedNext ==
    ASSUME NEW r \in RemoteIds, NEW s \in Streams
    PROVE  (PromiseInv /\ Serves(r, s) => View(r, s))'
<1>1. PromiseInv /\ Serves(r, s) => View(r, s)
  BY Viewed
<1>. QED
  BY <1>1, PTL

LEMMA UnviewedNext ==
    ASSUME NEW s \in Streams
    PROVE  (PromiseInv /\ ~Served(s) => NoView(s) /\ remoteId[s] = 0)'
<1>1. PromiseInv /\ ~Served(s) => NoView(s) /\ remoteId[s] = 0
  BY Unviewed
<1>. QED
  BY <1>1, PTL

-----------------------------------------------------------------------------
(* The steps of a channel, and what in a step of the session makes them.    *)

Promised(s) == [ChannelOf(s)!ChannelNext]_(ChannelOf(s)!channelVars)

EndsStill(s) == OwnOf(s)' = OwnOf(s) /\ Lost' = Lost /\ eof'[s] = eof[s]

LEMMA Stutters ==
    ASSUME NEW s, UpOf(s)' = UpOf(s), DownOf(s)' = DownOf(s), PeerOf(s)' = PeerOf(s), EndsStill(s)
    PROVE  Promised(s)
BY DEF Promised, EndsStill, ChannelOf!channelVars

LEMMA Begins ==
    ASSUME NEW s, UpOf(s)' = UpOf(s), DownOf(s)' = DownOf(s), PeerOf(s) = "none",
           PeerOf(s)' = "open", EndsStill(s)
    PROVE  Promised(s)
BY DEF Promised, EndsStill, ChannelOf!ChannelNext, ChannelOf!Start

LEMMA Sends ==
    ASSUME NEW s, NEW x, UpOf(s) = <<>>, UpOf(s)' = <<x>>, DownOf(s)' = DownOf(s),
           PeerOf(s) # "none", PeerOf(s)' = PeerOf(s), OwnOf(s) = "open", EndsStill(s)
    PROVE  Promised(s)
<1>1. Len(<<>>) = 0 /\ Append(<<>>, x) = <<x>> /\ <<x>> # <<>> /\ <<x>>[Len(<<x>>)] = x
  OBVIOUS
<1>. QED
  BY <1>1 DEF Promised, EndsStill, ChannelOf!ChannelNext, ChannelOf!SendSome, ChannelOf!Send

LEMMA Arrives ==
    ASSUME NEW s, NEW x, UpOf(s) = <<x>>, UpOf(s)' = <<>>, DownOf(s)' = DownOf(s),
           PeerOf(s) = "open", PeerOf(s)' = PeerOf(s), EndsStill(s)
    PROVE  Promised(s)
<1>1. Tail(<<x>>) = <<>> /\ <<x>> # <<>>
  OBVIOUS
<1>. QED
  BY <1>1 DEF Promised, EndsStill, ChannelOf!ChannelNext, ChannelOf!Arrive

LEMMA Writes ==
    ASSUME NEW s, NEW x, DownOf(s) = <<>>, DownOf(s)' = <<x>>, UpOf(s)' = UpOf(s),
           PeerOf(s) = "open", PeerOf(s)' = PeerOf(s), EndsStill(s)
    PROVE  Promised(s)
<1>1. Len(<<>>) = 0 /\ Append(<<>>, x) = <<x>> /\ <<x>> # <<>> /\ <<x>>[Len(<<x>>)] = x
  OBVIOUS
<1>. QED
  BY <1>1 DEF Promised, EndsStill, ChannelOf!ChannelNext, ChannelOf!WriteSome, ChannelOf!Write

LEMMA Returns ==
    ASSUME NEW s, NEW x, DownOf(s) = <<x>>, DownOf(s)' = <<>>, UpOf(s)' = UpOf(s),
           PeerOf(s)' = PeerOf(s), EndsStill(s)
    PROVE  Promised(s)
<1>1. SubSeq(<<x>>, 1 + 1, Len(<<x>>)) = <<>> /\ 1 \in 1 .. Len(<<x>>)
  OBVIOUS
<1>. QED
  BY <1>1 DEF Promised, EndsStill, ChannelOf!ChannelNext, ChannelOf!RecvSome

LEMMA Finishes ==
    ASSUME NEW s, UpOf(s)' = UpOf(s), DownOf(s)' = DownOf(s),
           PeerOf(s) = "open", PeerOf(s)' = "finished", EndsStill(s)
    PROVE  Promised(s)
BY DEF Promised, EndsStill, ChannelOf!ChannelNext, ChannelOf!Finish

LEMMA Ends ==
    ASSUME NEW s, UpOf(s)' = UpOf(s), DownOf(s)' = DownOf(s), PeerOf(s)' = PeerOf(s),
           OwnOf(s)' = OwnOf(s), Lost' = Lost, ~eof[s], eof'[s],
           (PeerOf(s) = "finished" /\ DownOf(s) = <<>>) \/ Lost \/ GivenUp(s)
    PROVE  Promised(s)
<1>1. GivenUp(s) => OwnOf(s) = "closed"
  BY DEF OwnOf
<1>. QED
  BY <1>1 DEF Promised, ChannelOf!ChannelNext, ChannelOf!End, ChannelOf!Dead

LEMMA Closes ==
    ASSUME NEW s, UpOf(s)' = UpOf(s), DownOf(s)' \in {DownOf(s), <<>>}, PeerOf(s)' = PeerOf(s),
           ~GivenUp(s), GivenUp(s)', Lost' = Lost, eof'[s] = eof[s]
    PROVE  Promised(s)
BY DEF Promised, OwnOf, ChannelOf!ChannelNext, ChannelOf!Close

LEMMA Loses ==
    ASSUME NEW s, UpOf(s)' \in {UpOf(s), <<>>}, DownOf(s)' = DownOf(s), PeerOf(s)' = PeerOf(s),
           OwnOf(s)' = OwnOf(s), ~Lost, Lost', eof'[s] = eof[s]
    PROVE  Promised(s)
BY DEF Promised, ChannelOf!ChannelNext, ChannelOf!Lose

LEMMA Drops ==
    ASSUME NEW s, UpOf(s)' \in {UpOf(s), <<>>}, DownOf(s)' \in {DownOf(s), <<>>},
           PeerOf(s)' = PeerOf(s), EndsStill(s),
           Lost \/ GivenUp(s)
    PROVE  Promised(s)
<1>1. GivenUp(s) => OwnOf(s) = "closed"
  BY DEF OwnOf
<1>. QED
  BY <1>1 DEF Promised, EndsStill, ChannelOf!ChannelNext, ChannelOf!Drop, ChannelOf!Dead

LEMMA DropsUnread ==
    ASSUME NEW s, UpOf(s)' = <<>>, DownOf(s)' = DownOf(s), PeerOf(s) = "finished",
           PeerOf(s)' = PeerOf(s), EndsStill(s)
    PROVE  Promised(s)
BY DEF Promised, EndsStill, ChannelOf!ChannelNext, ChannelOf!Drop

LEMMA UpMoves ==
    ASSUME TypeOK, TypeOK', NEW r, NEW s, View(r, s), View(r, s)', WritesQuiet(r)
    PROVE  /\ UpOf(s)' \in {UpOf(s), <<>>}
           /\ (WriteUp(r) => WriteUp(r)') => UpOf(s)' = UpOf(s)
<1>1. CASE ~WriteUp(r)'
  BY <1>1 DEF View
<1>2. ASSUME WriteUp(r)' PROVE UpOf(s)' = UpOf(s)
  <2>1. PICK k \in DOMAIN Upward' : Brings(r, Upward'[k])
    BY <1>2 DEF WriteUp, Brings
  <2>2. PICK j \in DOMAIN Upward : Upward[j] = Upward'[k]
    BY <2>1, WritesShrink
  <2>3. UpOf(s)' = <<Upward'[k].data>>
    BY <2>1 DEF View, Brings
  <2>. QED
    BY <2>1, <2>2, <2>3 DEF View
<1>. QED
  BY <1>1, <1>2 DEF View

LEMMA DownMoves ==
    ASSUME NEW r, NEW s, View(r, s), View(r, s)', devSent'[r] = devSent[r],
           Coming(r, s)' => Coming(r, s)
    PROVE  /\ DownOf(s)' \in {DownOf(s), <<>>}
           /\ (Coming(r, s) => Coming(r, s)') => DownOf(s)' = DownOf(s)
BY DEF View

LEMMA WriteUpGrown ==
    ASSUME TypeOK, TypeOK', NEW r, NEW m, Grown(Upward', Upward, m), WriteUp(r) \/ Brings(r, m)
    PROVE  WriteUp(r)'
<1>1. DOMAIN Upward' = 1 .. Len(Upward) + 1 /\ DOMAIN Upward = 1 .. Len(Upward) /\ Len(Upward) \in Nat
  BY Domains, DomainsPrimed DEF Grown
<1>2. CASE WriteUp(r)
  BY <1>1, <1>2 DEF Grown, WriteUp, Brings
<1>3. CASE Brings(r, m)
  BY <1>1, <1>3 DEF Grown, WriteUp, Brings
<1>. QED
  BY <1>2, <1>3

(* Without a change of what is on its way a stream can only be lost. *)
LEMMA Loosens ==
    ASSUME NEW s, UpOf(s)' = UpOf(s), DownOf(s)' = DownOf(s), PeerOf(s)' = PeerOf(s),
           OwnOf(s)' = OwnOf(s), eof'[s] = eof[s], Lost => Lost'
    PROVE  Promised(s)
<1>1. CASE ~Lost /\ Lost'
  BY <1>1, Loses
<1>2. CASE ~(~Lost /\ Lost')
  <2>1. Lost' = Lost
    BY <1>2 DEF Lost
  <2>. QED
    BY <2>1, Stutters DEF EndsStill
<1>. QED
  BY <1>1, <1>2

LEMMA GivenUpKept ==
    ASSUME TypeOK, Phases, [Next]_vars, NEW s \in Streams, GivenUp(s)
    PROVE  GivenUp(s)'
<1>1. CASE Owner(s)
  <2>1. Phase(s) /\ TypeOK
    BY DEF Phases
  <2>. QED
    BY <1>1, <2>1
    DEF GivenUp, Phase, TypeOK, TypeOKHost, TypeOKCalls, Waiting, Owner, OwnerStep, OwnerChoice, Register,
        PostOpen, Refuse, Acked, NotAcked, WaitFails, WaitOn, Woken, WriteIds, PostWrite, RecvOkay,
        CloseMark, CloseRemove, ClosePost, BeginSend, RecvTake, RecvEnd, BeginClose, DropStream,
        CancelOpen, CancelSend
<1>2. CASE ~Owner(s)
  <2>1. pc'[s] = pc[s] /\ life'[s] = life[s]
    BY <1>2, OwnerKeepsOthers, TasksKeepCalls
    DEF Next, OthersKept, vars, streamVars, ownerVars
  <2>. QED
    BY <2>1 DEF GivenUp
<1>. QED
  BY <1>1, <1>2

LEMMA OwnKept ==
    ASSUME TypeOK, [Next]_vars, NEW s \in Streams, ~Owner(s)
    PROVE  OwnOf(s)' = OwnOf(s) /\ (GivenUp(s)' <=> GivenUp(s))
<1>1. pc'[s] = pc[s] /\ life'[s] = life[s]
  BY OwnerKeepsOthers, TasksKeepCalls DEF Next, OthersKept, vars, streamVars, ownerVars
<1>. QED
  BY <1>1 DEF GivenUp, OwnOf

LEMMA OwnerKeepsLost ==
    ASSUME TypeOK, NEW u \in Streams, Owner(u)
    PROVE  Lost' = Lost
BY OwnerPosts, OwnerKeepsErr, OwnerKeepsClosers DEF Lost

LEMMA TasksKeepEof ==
    ASSUME ReaderTask \/ SessionThread \/ WriterTask \/ LinkDown \/ Device
    PROVE  eof' = eof /\ life' = life
<1>. USE DEF streamVars, ownerVars, recvVars
<1>1. CASE ReaderOkay \/ AckCount \/ AckWake \/ ReaderWrite
  BY <1>1 DEF ReaderOkay, AckCount, AckWake, ReaderWrite
<1>2. CASE ReaderClose \/ ReaderStray \/ ReaderFails \/ ReaderAborts
  BY <1>2 DEF ReaderClose, ReaderStray, ReaderFails, ReaderAborts
<1>3. CASE BeginSessionClose \/ (\E a \in Closers : CloseAll(a))
  BY <1>3 DEF BeginSessionClose, CloseAll, Drain, Each, MarkClosed, TakeAndWake
<1>4. CASE WriterTask \/ LinkDown
  BY <1>4 DEF WriterTask, WriterSends, WriterAborts, LinkDown
<1>5. CASE Device
  BY <1>5 DEF Device, DeviceReceives, DevOpen, DevWrite, DevOkay, DevClose, DevOutput, DevFinish,
              DevStray
<1>. QED
  BY <1>1, <1>2, <1>3, <1>4, <1>5 DEF ReaderTask, SessionThread, Closers

LEMMA EofKept ==
    ASSUME TypeOK, [Next]_vars, NEW s \in Streams, ~RecvEnd(s)
    PROVE  eof'[s] = eof[s]
<1>1. ASSUME NEW u \in Streams, Owner(u) PROVE eof'[s] = eof[s]
  <2>1. CASE RecvEnd(u)
    BY <2>1 DEF RecvEnd, TypeOK, TypeOKCalls
  <2>2. CASE ~RecvEnd(u)
    BY <1>1, <2>2
    DEF Owner, OwnerStep, OwnerChoice, Register, PostOpen, Refuse, Acked, NotAcked, WaitFails, WaitOn,
        Woken, WriteIds, PostWrite, RecvOkay, CloseMark, CloseRemove, ClosePost, BeginSend, RecvTake,
        BeginClose, DropStream, CancelOpen, CancelSend, recvVars
  <2>. QED
    BY <2>1, <2>2
<1>2. CASE ReaderTask \/ SessionThread \/ WriterTask \/ LinkDown \/ Device
  BY <1>2, TasksKeepEof
<1>3. CASE UNCHANGED vars
  BY <1>3 DEF vars, streamVars, ownerVars, recvVars
<1>. QED
  BY <1>1, <1>2, <1>3 DEF Next

-----------------------------------------------------------------------------
(* The steps of a stream that has a service *)

LEMMA PromisedOwner ==
    ASSUME PromiseInv, PromiseInv', [Next]_vars, NEW r \in RemoteIds, NEW s \in Streams,
           Serves(r, s), Serves(r, s)', NEW u \in Streams, Owner(u)
    PROVE  Promised(s)
<1>1. /\ TypeOK /\ TypeOK' /\ PeersInv /\ SendInv /\ Phases /\ Phase(s) /\ HandFull(s)
      /\ Flow(r, s) /\ s \in Born
  BY PromiseParts DEF PromiseInv, SendInv, WindowInv, FlowInv, Flows, PeersInv, RoutingInv, Phases, Serves
<1>2. View(r, s) /\ View(r, s)'
  BY Viewed, ViewedNext
<1>3. UNCHANGED <<link, h2d, d2h, deviceVars>>
  BY <1>1, OwnerPosts
<1>4. Lost' = Lost
  BY <1>1, OwnerKeepsLost
<1>5. PeerOf(s)' = PeerOf(s) /\ devSent' = devSent /\ (InDown(r)' <=> InDown(r))
  BY <1>2, <1>3 DEF View, deviceVars, InDown, Carries
<1>6. ASSUME ~(u = s /\ PostWrite(s) /\ Upward' # Upward) PROVE UpOf(s)' = UpOf(s)
  <2>1. WritesQuiet(r)
    BY <1>1, <1>6, OwnerWrites, SameSlice, UpwardTyped DEF WritesQuiet, TypeOK
  <2>2. WriteUp(r) => WriteUp(r)'
    BY <1>1, OwnerPosts, WriteUpGrown DEF WriteUp, Brings
  <2>. QED
    BY <1>1, <1>2, <2>1, <2>2, UpMoves
<1>7. CASE u = s /\ PostWrite(s) /\ Upward' # Upward
  <2>1. Post(Msg("WRTE", localId[s], remoteId[s], ChunkLen(s)))
    BY <1>3, <1>7 DEF PostWrite, PostFails, writerVars, Upward
  <2>2. ~WriteUp(r) /\ life[s] = "open"
    BY <1>1, <1>7, NothingBefore
  <2>3. UpOf(s) = <<>> /\ PeerOf(s) # "none"
    BY <1>2, <2>2 DEF View
  <2>4. remoteId[s] = r
    <3>1. remoteId[s] # 0
      BY <1>1, <2>2 DEF Phase
    <3>. QED
      BY <1>1, <3>1, RemoteServes DEF Serves, PeersInv, Peers, ServicesApart
  <2>5. PICK m : m = Msg("WRTE", localId[s], remoteId[s], ChunkLen(s))
    OBVIOUS
  <2>6. Grown(Upward', Upward, m) /\ Brings(r, m)
    <3>1. m \in HostMessages
      BY <1>1, <2>5, ChunkLenTyped DEF Msg, HostMessages, Commands, TypeOK, TypeOKHost, TypeOKCounts
    <3>2. Brings(r, m)
      BY <2>4, <2>5 DEF Brings, Msg
    <3>. QED
      BY <1>1, <1>3, <2>1, <2>5, <3>1, <3>2, PostGrows DEF TypeOK
  <2>7. PICK k \in DOMAIN Upward' : Brings(r, Upward'[k])
    BY <1>1, <2>6, WriteUpGrown DEF WriteUp, Brings
  <2>8. UpOf(s)' = <<Upward'[k].data>>
    BY <1>2, <2>7 DEF View, Brings
  <2>9. UNCHANGED <<hand, dataQ, life, eof>> /\ pc[s] = "post_write" /\ pc'[s] = "acks"
    BY <1>1, <1>7, <2>1 DEF PostWrite, Post, PostFails, recvVars, TypeOK, TypeOKCalls
  <2>10. DownOf(s)' = DownOf(s)
    BY <1>2, <1>5, <2>9, DownMoves DEF Coming
  <2>11. OwnOf(s) = "open" /\ EndsStill(s)
    BY <1>4, <2>2, <2>9 DEF OwnOf, GivenUp, EndsStill
  <2>. QED
    BY <1>5, <2>3, <2>8, <2>10, <2>11, Sends
<1>8. CASE RecvTake(s)
  <2>1. /\ dataQ[s] = << <<r, devSent[r]>> >> /\ hand[s] = <<>> /\ ~InDown(r) /\ dataQ'[s] = <<>>
    <3>1. dataQ[s] # <<>> /\ dataQ'[s] = Tail(dataQ[s])
      BY <1>1, <1>8 DEF RecvTake, PoppedQ, TypeOK, TypeOKQueues
    <3>2. dataQ[s] = << <<r, devSent[r]>> >> /\ hand[s] = <<>> /\ ~InDown(r)
      BY <1>1, <3>1 DEF Flow
    <3>. QED
      BY <3>1, <3>2
  <2>2. UNCHANGED <<life, eof, writerVars>> /\ pc[s] = "idle" /\ pc'[s] \in {"idle", "okay"}
    BY <1>1, <1>8 DEF RecvTake, TypeOK, TypeOKCalls, taskVars
  <2>3. UpOf(s)' = UpOf(s)
    BY <1>3, <1>6, <2>2 DEF Upward, writerVars
  <2>4. EndsStill(s)
    BY <1>4, <2>2 DEF EndsStill, OwnOf, GivenUp
  <2>5. Coming(r, s)
    BY <2>1 DEF Coming
  <2>6. CASE hand'[s] = <<>>
    <3>1. ~Coming(r, s)'
      BY <1>5, <2>1, <2>6 DEF Coming
    <3>. QED
      BY <1>2, <1>5, <2>3, <2>4, <2>5, <3>1, Returns DEF View
  <2>7. CASE hand'[s] # <<>>
    <3>1. Coming(r, s)'
      BY <2>7 DEF Coming
    <3>. QED
      BY <1>2, <1>5, <2>3, <2>4, <2>5, <3>1, DownMoves, Stutters
  <2>. QED
    BY <2>6, <2>7
<1>9. CASE RecvOkay(s)
  <2>1. hand[s] # <<>> /\ dataQ[s] = <<>> /\ ~InDown(r) /\ hand'[s] = <<>> /\ dataQ' = dataQ
    BY <1>1, <1>9 DEF Flow, RecvOkay, HandFull, TypeOK, TypeOKQueues
  <2>2. UNCHANGED <<life, eof>> /\ pc[s] = "okay" /\ pc'[s] = "idle"
    BY <1>1, <1>9 DEF RecvOkay, TypeOK, TypeOKCalls
  <2>3. UpOf(s)' = UpOf(s)
    BY <1>6, <2>2 DEF PostWrite
  <2>4. EndsStill(s)
    BY <1>4, <2>2 DEF EndsStill, OwnOf, GivenUp
  <2>5. Coming(r, s) /\ ~Coming(r, s)'
    BY <1>5, <2>1 DEF Coming
  <2>. QED
    BY <1>2, <1>5, <2>3, <2>4, <2>5, Returns DEF View
<1>10. CASE RecvEnd(s)
  <2>1. /\ UNCHANGED <<hand, dataQ, life, pc, outbox>> /\ pc[s] = "idle" /\ dataQ[s] = <<>> /\ ~dataTx[s]
        /\ ~eof[s] /\ eof'[s] /\ life[s] \in {"open", "closed"}
    BY <1>1, <1>10 DEF RecvEnd, EndsWhenDrained, TypeOK, TypeOKCalls, taskVars, writerVars
  <2>2. hand[s] = <<>>
    BY <1>1, <2>1 DEF HandFull
  <2>3. UpOf(s)' = UpOf(s) /\ DownOf(s)' = DownOf(s) /\ OwnOf(s)' = OwnOf(s)
    BY <1>2, <1>3, <1>5, <1>6, <2>1, DownMoves DEF Upward, Coming, OwnOf, GivenUp
  <2>4. CASE ~Lost /\ ~GivenUp(s)
    <3>1. Live(s) /\ EndInv
      BY <2>1, <2>4 DEF Live, GivenUp, PromiseInv
    <3>2. devSt[r] = "finished" /\ ~InDown(r)
      BY <2>1, <3>1 DEF EndInv, Passings, Passed
    <3>3. PeerOf(s) = "finished" /\ DownOf(s) = <<>>
      BY <1>2, <2>1, <2>2, <3>2 DEF View, Coming
    <3>. QED
      BY <1>4, <1>5, <2>1, <2>3, <3>3, Ends
  <2>. QED
    BY <1>4, <1>5, <2>1, <2>3, <2>4, Ends
<1>11. CASE ~RecvTake(s) /\ ~RecvOkay(s) /\ ~RecvEnd(s) /\ ~(u = s /\ PostWrite(s) /\ Upward' # Upward)
  <2>1. /\ hand'[s] = hand[s] /\ dataQ'[s] \in {dataQ[s], <<>>}
        /\ life'[s] \in {"opening", "open"} => dataQ'[s] = dataQ[s]
    BY <1>1, <1>11, OwnerMoves
  <2>2. UpOf(s)' = UpOf(s) /\ eof'[s] = eof[s]
    BY <1>1, <1>6, <1>11, EofKept
  <2>3. Coming(r, s)' => Coming(r, s)
    BY <1>5, <2>1 DEF Coming
  <2>4. DownOf(s)' \in {DownOf(s), <<>>}
    BY <1>2, <1>5, <2>3, DownMoves
  <2>5. CASE GivenUp(s)
    <3>1. EndsStill(s)
      BY <1>1, <1>4, <2>2, <2>5, GivenUpKept DEF EndsStill, OwnOf
    <3>. QED
      BY <1>5, <2>2, <2>4, <2>5, <3>1, Drops
  <2>6. CASE ~GivenUp(s) /\ GivenUp(s)'
    BY <1>4, <1>5, <2>2, <2>4, <2>6, Closes
  <2>7. CASE ~GivenUp(s) /\ ~GivenUp(s)'
    <3>1. life'[s] \in {"opening", "open"}
      BY <1>1, <2>7 DEF GivenUp, Serves, Born, TypeOK, TypeOKCalls, LifeStates
    <3>2. DownOf(s)' = DownOf(s)
      BY <1>2, <1>5, <2>1, <3>1, DownMoves DEF Coming
    <3>. QED
      BY <1>4, <1>5, <2>2, <2>7, <3>2, Stutters DEF EndsStill, OwnOf
  <2>. QED
    BY <2>5, <2>6, <2>7
<1>. QED
  BY <1>7, <1>8, <1>9, <1>10, <1>11

LEMMA PromisedTasks ==
    ASSUME PromiseInv, PromiseInv', [Next]_vars, NEW r \in RemoteIds, NEW s \in Streams,
           Serves(r, s), Serves(r, s)', ReaderTask \/ SessionThread
    PROVE  Promised(s)
<1>1. /\ TypeOK /\ TypeOK' /\ PeersInv /\ Flow(r, s) /\ s \in Born /\ OnceDown(r)
      /\ Allocated /\ Peers /\ Phases
  BY PromiseParts DEF PromiseInv, SendInv, WindowInv, FlowInv, Flows, Flow, PeersInv, RoutingInv, Serves
<1>2. View(r, s) /\ View(r, s)'
  BY Viewed, ViewedNext
<1>3. UNCHANGED <<link, deviceVars, hand, pc>> /\ Slice(d2h', d2h)
  BY <1>1, TasksPost, TasksMove
<1>4. PeerOf(s)' = PeerOf(s) /\ devSent' = devSent
  BY <1>2, <1>3 DEF View, deviceVars
<1>5. UpOf(s)' = UpOf(s)
  <2>1. WritesQuiet(r)
    BY <1>1, TasksPost, SameSlice, UpwardTyped DEF WritesQuiet, Brings, TypeOK
  <2>2. WriteUp(r) => WriteUp(r)'
    BY <1>1, TasksPost, WriteUpGrown DEF WriteUp, Brings
  <2>. QED
    BY <1>1, <1>2, <2>1, <2>2, UpMoves
<1>6. OwnOf(s)' = OwnOf(s) /\ eof'[s] = eof[s] /\ (Lost => Lost')
  BY <1>1, <1>3, TasksKeepEof, LostKept DEF OwnOf, GivenUp
<1>7. InDown(r)' => InDown(r)
  BY <1>1, <1>3, <1>4, DownShrinks DEF DownQuiet
<1>8. ASSUME InDown(r), ~InDown(r)', ~Lost PROVE ReaderWrite /\ Carries(r, Head(d2h))
  <2>1. link = "up" /\ d2h' # d2h
    BY <1>1, <1>8 DEF Lost, InDown, Carries, TypeOK, TypeOKLink
  <2>2. PICK cmd \in Commands : Recv(cmd)
    BY <2>1, ReaderTakes
  <2>3. Carries(r, Head(d2h))
    BY <1>1, <1>8, <2>2, HeadCarries
  <2>. QED
    BY <2>1, <2>3 DEF Carries, ReaderTask, SessionThread, ReaderOkay, AckCount, AckWake, ReaderClose,
       ReaderStray, ReaderFails, ReaderAborts, BeginSessionClose, CloseAll, Drain, Each,
       MarkClosed, TakeAndWake, Recv, linkVars
<1>9. CASE dataQ'[s] # dataQ[s]
  <2>1. ReaderWrite
    BY <1>9, TasksMove
  <2>2. /\ Recv("WRTE") /\ Listening(Addressee)
        /\ dataQ' = [dataQ EXCEPT ![Addressee] = Append(@, <<Head(d2h).arg0, Head(d2h).data>>)]
    BY <1>9, <2>1 DEF ReaderWrite
  <2>3. Addressee = s
    BY <1>1, <1>9, <2>2 DEF TypeOK, TypeOKQueues
  <2>4. dataQ'[s] # <<>>
    BY <1>1, <2>2, <2>3 DEF TypeOK, TypeOKQueues
  <2>5. Serves(Head(d2h).arg0, s) /\ Head(d2h).arg0 \in RemoteIds
    BY <1>1, <2>2, <2>3, ChunkAddressed DEF Listening
  <2>6. Head(d2h).arg0 = r
    BY <1>1, <2>5 DEF Peers, ServicesApart, Serves
  <2>7. InDown(r)
    BY <1>1, <2>2, <2>6, RecvTakes DEF InDown, Carries
  <2>8. DownOf(s)' = DownOf(s)
    BY <1>2, <1>4, <2>4, <2>7, DownMoves DEF Coming
  <2>. QED
    BY <1>4, <1>5, <1>6, <2>8, Loosens
<1>10. CASE dataQ'[s] = dataQ[s]
  <2>1. Coming(r, s)' => Coming(r, s)
    BY <1>3, <1>7, <1>10 DEF Coming
  <2>2. CASE Coming(r, s) => Coming(r, s)'
    BY <1>2, <1>4, <1>5, <1>6, <2>1, <2>2, DownMoves, Loosens
  <2>3. CASE Coming(r, s) /\ ~Coming(r, s)' /\ Lost
    BY <1>2, <1>4, <1>5, <1>6, <2>1, <2>3, DownMoves, Drops DEF EndsStill, Lost
  <2>4. CASE Coming(r, s) /\ ~Coming(r, s)' /\ ~Lost
    <3>1. ReaderWrite /\ Carries(r, Head(d2h))
      BY <1>3, <1>8, <1>10, <2>4 DEF Coming
    <3>2. EndInv /\ writer = "run"
      BY <2>4 DEF PromiseInv, EndInv, Undisturbed
    <3>3. Lost' = Lost
      BY <1>3, <3>1, <3>2 DEF ReaderWrite, Post, PostFails, writerVars, Lost
    <3>4. GivenUp(s)
      <4>1. SUFFICES ASSUME ~GivenUp(s) PROVE FALSE
        OBVIOUS
      <4>2. Live(s)
        BY <1>1, <4>1 DEF Live, GivenUp, Born, TypeOK, TypeOKCalls, LifeStates
      <4>3. Recv("WRTE") /\ Head(d2h).arg0 = r
        BY <3>1 DEF ReaderWrite, Carries
      <4>4. Addressee = s /\ Listening(s)
        BY <1>1, <3>2, <4>2, <4>3, Wanted DEF EndInv
      <4>. QED
        BY <1>1, <1>10, <3>1, <4>4 DEF ReaderWrite, TypeOK, TypeOKQueues
    <3>. QED
      BY <1>2, <1>4, <1>5, <1>6, <2>1, <3>3, <3>4, DownMoves, Drops DEF EndsStill
  <2>. QED
    BY <2>2, <2>3, <2>4
<1>. QED
  BY <1>9, <1>10

LEMMA PromisedCarry ==
    ASSUME PromiseInv, PromiseInv', [Next]_vars, NEW r \in RemoteIds, NEW s \in Streams,
           Serves(r, s), Serves(r, s)', WriterTask \/ LinkDown
    PROVE  Promised(s)
<1>1. TypeOK /\ TypeOK' /\ TypeOKLink /\ LinkIsEmpty /\ Phases
  BY PromiseParts DEF PromiseInv, SendInv, WindowInv, PeersInv, RoutingInv, Peers, TypeOK
<1>2. View(r, s) /\ View(r, s)'
  BY Viewed, ViewedNext
<1>3. UNCHANGED <<d2h, hand, dataQ, pc, life, eof, devSt, devSent>>
  BY DEF WriterTask, WriterSends, WriterAborts, LinkDown, linkVars, deviceVars, streamVars, ownerVars,
     recvVars
<1>4. PeerOf(s)' = PeerOf(s) /\ OwnOf(s)' = OwnOf(s) /\ DownOf(s)' = DownOf(s) /\ (Lost => Lost')
  BY <1>1, <1>2, <1>3, DownMoves, LostKept DEF View, OwnOf, GivenUp, Coming, InDown, Carries
<1>5. WritesQuiet(r)
  BY <1>1, CarrySlice DEF WritesQuiet
<1>6. UpOf(s)' \in {UpOf(s), <<>>}
  BY <1>1, <1>2, <1>5, UpMoves
<1>7. CASE Lost
  BY <1>3, <1>4, <1>6, <1>7, Drops DEF EndsStill, Lost
<1>8. CASE ~Lost /\ Lost'
  BY <1>3, <1>4, <1>6, <1>8, Loses
<1>9. CASE ~Lost /\ ~Lost'
  <2>1. link = "up" /\ ~aborted
    BY <1>1, <1>9 DEF PromiseInv, EndInv, Undisturbed, Lost, TypeOKLink
  <2>2. WriterSends /\ writer' = "run"
    BY <1>1, <1>9, <2>1 DEF WriterTask, WriterSends, WriterAborts, LinkDown, Lost, TypeOK, TypeOKLink
  <2>3. WriteUp(r) => WriteUp(r)'
    BY <1>1, <2>1, <2>2, HandedOn, Domains, DomainsPrimed DEF WriteUp, Brings
  <2>. QED
    BY <1>1, <1>2, <1>3, <1>4, <1>5, <2>3, UpMoves, Loosens
<1>. QED
  BY <1>7, <1>8, <1>9

LEMMA PromisedDevice ==
    ASSUME PromiseInv, PromiseInv', [Next]_vars, NEW r \in RemoteIds, NEW s \in Streams,
           Serves(r, s), Serves(r, s)', Device
    PROVE  Promised(s)
<1>1. /\ TypeOK /\ TypeOK' /\ TypeOKLink /\ PeersInv /\ Flow(r, s) /\ OnceDown(r) /\ Turnaround(r, s)
      /\ ~Starts(r) /\ OneWriteUp(r)
  BY PromiseParts, StartedKept
  DEF PromiseInv, SendInv, WindowInv, FlowInv, Flows, Flow, Turnaround, TypeOK, Serves
<1>2. View(r, s) /\ View(r, s)'
  BY Viewed, ViewedNext
<1>3. UNCHANGED <<streamVars, closerVars, writerVars, link>> /\ Slice(Upward', Upward)
  BY <1>1, DeviceReads
<1>4. UNCHANGED <<hand, dataQ, outbox>> /\ EndsStill(s)
  BY <1>3 DEF streamVars, ownerVars, recvVars, closerVars, writerVars, EndsStill, OwnOf, GivenUp, Lost
<1>5. WritesQuiet(r)
  BY <1>3 DEF WritesQuiet
<1>6. ASSUME h2d' = h2d \/ \E cmd : DeviceGets(cmd) /\ ~Brings(r, Head(h2d))
      PROVE  UpOf(s)' = UpOf(s)
  <2>1. CASE h2d' = h2d
    BY <1>1, <1>2, <1>4, <1>5, <2>1, UpMoves DEF Upward, WriteUp, Brings
  <2>2. ASSUME NEW cmd, DeviceGets(cmd), ~Brings(r, Head(h2d)) PROVE UpOf(s)' = UpOf(s)
    <3>1. /\ Upward[1] = Head(h2d) /\ Len(Upward') = Len(Upward) - 1
          /\ \A i \in 1 .. Len(Upward') : Upward'[i] = Upward[i + 1]
      BY <1>1, <1>4, <2>2, GetsSlice
    <3>2. ASSUME NEW k \in DOMAIN Upward, Brings(r, Upward[k]) PROVE WriteUp(r)'
      <4>1. k - 1 \in DOMAIN Upward' /\ (k - 1) + 1 = k
        BY <1>1, <2>2, <3>1, <3>2, Domains, DomainsPrimed
      <4>. QED
        BY <1>1, <3>1, <3>2, <4>1, DomainsPrimed DEF WriteUp, Brings
    <3>. QED
      BY <1>1, <1>2, <1>5, <3>2, UpMoves DEF WriteUp
  <2>. QED
    BY <1>6, <2>1, <2>2
<1>7. ASSUME ~DevOutput(r)
      PROVE  devSent'[r] = devSent[r] /\ DownOf(s)' = DownOf(s)
  <2>1. devSent'[r] = devSent[r] /\ (d2h' = d2h \/ \E m : ~Carries(r, m) /\ Grown(d2h', d2h, m))
    BY <1>1, <1>7, DeviceMoves
  <2>2. InDown(r)' => InDown(r)
    BY <1>1, <2>1, DownShrinks, SameSlice DEF DownQuiet, TypeOKLink
  <2>3. InDown(r) => InDown(r)'
    BY <1>1, <2>1, InDownGrown DEF InDown, Carries
  <2>. QED
    BY <1>2, <1>4, <2>1, <2>2, <2>3, DownMoves DEF Coming
<1>8. CASE DevOutput(r)
  <2>1. UNCHANGED <<h2d, devSt>> /\ devSt[r] = "open" /\ ~devInFlight[r]
    BY <1>8 DEF DevOutput
  <2>2. UpOf(s)' = UpOf(s)
    BY <1>6, <2>1
  <2>3. ~Coming(r, s)
    BY <1>1, <2>1 DEF Flow, AllButLast, Coming
  <2>4. InDown(r)'
    <3>1. PICK m : m = Msg("WRTE", r, devHost[r], devSent[r] + 1)
      OBVIOUS
    <3>2. m \in DeviceMessages /\ Carries(r, m)
      BY <1>1, <3>1, RemoteIdsAssumption
      DEF Msg, DeviceMessages, Commands, Carries, TypeOK, TypeOKDevice, Serves
    <3>3. Grown(d2h', d2h, m)
      BY <1>1, <1>8, <3>1, <3>2, DeviceSendsDown DEF DevOutput
    <3>. QED
      BY <1>1, <3>2, <3>3, InDownGrown
  <2>5. DownOf(s) = <<>> /\ DownOf(s)' = << <<r, devSent'[r]>> >> /\ PeerOf(s) = "open" /\ PeerOf(s)' = "open"
    BY <1>2, <2>1, <2>3, <2>4 DEF View, Coming
  <2>. QED
    BY <1>4, <2>2, <2>5, Writes
<1>9. CASE DevWrite /\ Head(h2d).arg1 = r
  <2>1. DeviceGets("WRTE") /\ UNCHANGED <<devSt, devSent>>
    BY <1>9 DEF DevWrite
  <2>2. /\ 1 \in DOMAIN Upward /\ Upward[1] = Head(h2d) /\ Brings(r, Upward[1])
        /\ Len(Upward') = Len(Upward) - 1
        /\ \A i \in 1 .. Len(Upward') : Upward'[i] = Upward[i + 1]
    BY <1>1, <1>4, <1>9, <2>1, GetsSlice DEF Brings
  <2>3. ~WriteUp(r)'
    <3>1. ASSUME NEW k \in DOMAIN Upward', Brings(r, Upward'[k]) PROVE FALSE
      <4>1. k + 1 \in DOMAIN Upward /\ k + 1 # 1 /\ Upward'[k] = Upward[k + 1]
        BY <1>1, <2>2, <3>1, Domains, DomainsPrimed
      <4>. QED
        BY <1>1, <2>2, <3>1, <4>1 DEF OneWriteUp
    <3>. QED
      BY <3>1 DEF WriteUp, Brings
  <2>4. UpOf(s) = <<Upward[1].data>> /\ UpOf(s)' = <<>>
    BY <1>2, <2>2, <2>3 DEF View
  <2>5. DownOf(s)' = DownOf(s)
    BY <1>1, <1>7, <2>1 DEF DevOutput, TypeOK, TypeOKDevice
  <2>6. PeerOf(s)' = PeerOf(s) /\ PeerOf(s) \in {"open", "finished"}
    BY <1>2, <2>1 DEF View
  <2>. QED
    BY <1>4, <2>4, <2>5, <2>6, Arrives, DropsUnread
<1>10. CASE ~DevOutput(r) /\ ~(DevWrite /\ Head(h2d).arg1 = r)
  <2>1. h2d' = h2d \/ \E cmd : DeviceGets(cmd) /\ ~Brings(r, Head(h2d))
    BY <1>10 DEF Device, DeviceReceives, DevOpen, DevWrite, DevOkay, DevClose, DevOutput, DevFinish, DevStray,
                DeviceGets, Brings
  <2>2. UpOf(s)' = UpOf(s) /\ DownOf(s)' = DownOf(s)
    BY <1>6, <1>7, <1>10, <2>1
  <2>3. CASE devSt'[r] = devSt[r]
    BY <1>2, <1>4, <2>2, <2>3, Stutters DEF View
  <2>4. CASE devSt[r] = "open" /\ devSt'[r] \in {"finished", "dropped"}
    BY <1>2, <1>4, <2>2, <2>4, Finishes DEF View
  <2>. QED
    BY <1>1, <2>3, <2>4, ServiceMoves
<1>. QED
  BY <1>8, <1>9, <1>10

-----------------------------------------------------------------------------
(* The steps of a stream that has no service                                *)

(* Only the device's start of a service lets a stream have one. *)
LEMMA ServedBy ==
    ASSUME IdsSuffice, PromiseInv, [Next]_vars, NEW q \in RemoteIds, NEW s \in Streams,
           ~Served(s), Serves(q, s)'
    PROVE  Starts(q)
<1>1. TypeOK /\ PeersInv
  BY PromiseParts
<1>2. SUFFICES ASSUME ~Starts(q) PROVE FALSE
  OBVIOUS
<1>3. Started(q)' = Started(q) /\ devHost'[q] = devHost[q]
  BY <1>1, <1>2, DeviceStarts, OthersLeaveDevice DEF Started, deviceVars
<1>. QED
  BY <1>1, <1>3, ServesBack DEF Served

LEMMA PromisedStart ==
    ASSUME PromiseInv, PromiseInv', [Next]_vars, NEW q \in RemoteIds, NEW s \in Streams,
           ~Served(s), Starts(q), Serves(q, s)'
    PROVE  Promised(s)
<1>1. /\ FlowInv /\ PeersInv /\ TypeOK /\ TypeOK' /\ TypeOKLink /\ NoView(s) /\ Unaddressed /\ remoteId[s] = 0
      /\ Unstarted
  BY PromiseParts, Unviewed DEF PromiseInv, SendInv, WindowInv, FlowInv, TypeOK
<1>2. View(q, s)'
  BY ViewedNext
<1>3. /\ UNCHANGED <<streamVars, closerVars, writerVars, link, devInFlight>>
      /\ devSt'[q] = "open" /\ DeviceGets("OPEN")
  BY <1>1 DEF Starts, DevOpen, DeviceGets, TypeOK, TypeOKDevice
<1>4. UNCHANGED <<hand, dataQ, outbox>> /\ EndsStill(s)
  BY <1>3 DEF streamVars, ownerVars, recvVars, closerVars, writerVars, EndsStill, OwnOf, GivenUp, Lost
<1>5. UpOf(s)' = <<>>
  <2>1. /\ Len(Upward') = Len(Upward) - 1
        /\ \A i \in 1 .. Len(Upward') : Upward'[i] = Upward[i + 1]
    BY <1>1, <1>3, <1>4, GetsSlice
  <2>2. \A k \in DOMAIN Upward : ~Brings(q, Upward[k])
    BY <1>1, StartsFresh DEF Brings
  <2>3. ASSUME NEW k \in DOMAIN Upward', Brings(q, Upward'[k]) PROVE FALSE
    <3>1. k + 1 \in DOMAIN Upward /\ Upward'[k] = Upward[k + 1]
      BY <1>1, <2>1, Domains, DomainsPrimed
    <3>. QED
      BY <2>2, <2>3, <3>1
  <2>4. ~WriteUp(q)'
    BY <2>3 DEF WriteUp, Brings
  <2>. QED
    BY <1>2, <2>4 DEF View
<1>6. DownOf(s)' = <<>>
  <2>1. hand'[s] = <<>> /\ dataQ'[s] = <<>>
    BY <1>1, <1>4 DEF Unaddressed, NothingYet
  <2>2. ~devInFlight'[q]
    BY <1>1, <1>3, StartsFresh DEF Unstarted
  <2>3. ~InDown(q)'
    BY <1>1, <2>2, FlowStarts DEF Flow, AllButLast
  <2>. QED
    BY <1>2, <2>1, <2>3 DEF View, Coming
<1>7. PeerOf(s)' = "open"
  BY <1>2, <1>3 DEF View
<1>. QED
  BY <1>1, <1>4, <1>5, <1>6, <1>7, Begins DEF NoView

LEMMA PromisedUnserved ==
    ASSUME PromiseInv, PromiseInv', [Next]_vars, NEW s \in Streams, ~Served(s), ~Served(s)'
    PROVE  Promised(s)
<1>1. TypeOK /\ Phases /\ Phase(s) /\ NoView(s) /\ remoteId[s] = 0
  BY PromiseParts, Unviewed DEF Phases
<1>2. NoView(s)'
  BY UnviewedNext
<1>3. UpOf(s)' = UpOf(s) /\ DownOf(s)' = DownOf(s) /\ PeerOf(s)' = PeerOf(s)
  BY <1>1, <1>2 DEF NoView
<1>4. eof'[s] = eof[s]
  BY <1>1, EofKept DEF RecvEnd, Phase
<1>5. CASE Owner(s)
  <2>1. Lost' = Lost
    BY <1>1, <1>5, OwnerKeepsLost
  <2>2. CASE ~GivenUp(s) /\ GivenUp(s)'
    BY <1>3, <1>4, <2>1, <2>2, Closes
  <2>3. CASE ~(~GivenUp(s) /\ GivenUp(s)')
    BY <1>1, <1>3, <1>4, <2>1, <2>3, GivenUpKept, Stutters DEF EndsStill, OwnOf
  <2>. QED
    BY <2>2, <2>3
<1>6. CASE ~Owner(s)
  BY <1>1, <1>3, <1>4, <1>6, OwnKept, LostKept, Loosens
<1>. QED
  BY <1>5, <1>6

LEMMA PromisedIdle ==
    ASSUME NEW s \in Streams, UNCHANGED vars
    PROVE  Promised(s)
<1>1. UNCHANGED <<h2d, outbox, d2h, hand, dataQ, localId, devSt, devHost, life, pc, link, readerErr,
                  writer, apc, eof>>
  BY DEF vars, streamVars, taskVars, registryVars, ownerVars, recvVars, closerVars, writerVars, linkVars,
         deviceVars
<1>2. UpOf(s)' = UpOf(s)
  BY <1>1 DEF UpOf
<1>3. DownOf(s)' = DownOf(s)
  BY <1>1 DEF DownOf, ChunksDown
<1>4. PeerOf(s)' = PeerOf(s)
  BY <1>1 DEF PeerOf, Serving
<1>5. EndsStill(s)
  BY <1>1 DEF EndsStill, OwnOf, GivenUp, Lost
<1>. QED
  BY <1>2, <1>3, <1>4, <1>5, Stutters

-----------------------------------------------------------------------------

LEMMA PromisedStep ==
    ASSUME IdsSuffice, PromiseInv, PromiseInv', [Next]_vars, NEW s \in Streams
    PROVE  Promised(s)
<1>1. CASE UNCHANGED vars
  BY <1>1, PromisedIdle
<1>2. ASSUME Next, NEW r \in RemoteIds, Serves(r, s) PROVE Promised(s)
  <2>1. PeersInv /\ TypeOK /\ Phases
    BY PromiseParts
  <2>2. Serves(r, s)'
    BY <1>2, <2>1, StartedKept, StreamsKeptStep, ServesKept DEF Serves
  <2>. QED
    BY <1>2, <2>2, PromisedOwner, PromisedTasks, PromisedCarry, PromisedDevice DEF Next
<1>3. ASSUME ~Served(s), NEW q \in RemoteIds, Serves(q, s)' PROVE Promised(s)
  BY <1>3, ServedBy, PromisedStart
<1>4. CASE ~Served(s) /\ ~Served(s)'
  BY <1>4, PromisedUnserved
<1>. QED
  BY <1>1, <1>2, <1>3, <1>4 DEF Served

(* A stream is a channel to whoever uses it (channel.rs, stream.rs): in any *)
(* interleaving of any number of streams, through closes, refusals, faults  *)
(* of the link and the end of the session, what is handed to send reaches   *)
(* the service and what the service writes is returned by recv, in order,   *)
(* once and one piece at a time; None comes after the last of it; and only  *)
(* a stream that is given up or lost drops anything.  A send that its       *)
(* caller has dropped may leave its write on the way when the next one      *)
(* posts another, hence ~CancelSends.                                       *)
THEOREM StreamsAreChannels ==
    ASSUME IdsSuffice, ~CancelSends
    PROVE  Spec => KeepsPromise
<1>1. Init => PromiseInv /\ \A s \in Streams : ChannelOf(s)!ChannelInit
  <2>1. SUFFICES ASSUME Init PROVE PromiseInv /\ \A s \in Streams : ChannelOf(s)!ChannelInit
    OBVIOUS
  <2>2. PromiseInv
    BY <2>1, PromiseInit
  <2>3. ASSUME NEW s \in Streams PROVE ChannelOf(s)!ChannelInit
    <3>1. ~Served(s) /\ OwnOf(s) = "open" /\ Lost = FALSE /\ eof[s] = FALSE
      BY <2>1 DEF Init, Served, Serves, Started, OwnOf, GivenUp, Lost, Closers
    <3>. QED
      BY <2>2, <3>1, Unviewed DEF NoView, ChannelOf!ChannelInit
  <2>. QED
    BY <2>2, <2>3
<1>2. PromiseInv /\ [Next]_vars => PromiseInv'
  BY PromiseStep
<1>3. PromiseInv /\ PromiseInv' /\ [Next]_vars =>
        [\A s \in Streams : [ChannelOf(s)!ChannelNext]_(ChannelOf(s)!channelVars)]_vars
  BY PromisedStep DEF Promised
<1>. QED
  BY <1>1, <1>2, <1>3, PTL DEF Spec, KeepsPromise

=============================================================================
