--------------------------- MODULE SessionProofs ---------------------------
(***************************************************************************)
(* Theorems about the established session, for any number of streams, any  *)
(* payload limit, any sizes and any environment: the typing invariant, the *)
(* window of one unacknowledged write, and the absence of lost wake-ups;   *)
(* and who a message belongs to, in the second part.                       *)
(***************************************************************************)
EXTENDS SessionProps, FiniteSetTheorems, SequenceTheorems, TLAPS

-----------------------------------------------------------------------------
(* Typing *)

(* Registry::register skips the zero and wraps without leaving the u32s. *)
LEMMA FreshIdTyped ==
    ASSUME nextId \in LocalIds
    PROVE  /\ FreshId \in LocalIds
           /\ NextId \in LocalIds
BY IdSpaceAssumption DEF FreshId, NextId, LocalIds

(* The piece that send splits off is never longer than what is left. *)
LEMMA ChunkLenTyped ==
    ASSUME NEW s \in Streams, rest[s] \in Nat
    PROVE  ChunkLen(s) \in Nat /\ rest[s] - ChunkLen(s) \in Nat
BY PayloadAssumption DEF ChunkLen

(* Queueing a host's message, or failing to, keeps outbox and writer typed. *)
LEMMA PostTyped ==
    ASSUME outbox \in Seq(HostMessages), writer \in {"run", "stopped"},
           NEW cmd \in Commands, NEW i \in LocalIds, NEW r \in Nat, NEW d \in Nat,
           Post(Msg(cmd, i, r, d)) \/ PostFails
    PROVE  outbox' \in Seq(HostMessages) /\ writer' \in {"run", "stopped"}
<1>1. Msg(cmd, i, r, d) \in HostMessages
  BY DEF Msg, HostMessages
<1>. QED
  BY <1>1 DEF Post, PostFails, writerVars

(* Sending a message of the device keeps the inbound link typed. *)
LEMMA DeviceSendsTyped ==
    ASSUME d2h \in Seq(DeviceMessages),
           NEW cmd \in Commands, NEW r \in Nat, NEW i \in LocalIds, NEW d \in Nat,
           DeviceSends(Msg(cmd, r, i, d))
    PROVE  d2h' \in Seq(DeviceMessages)
<1>1. Msg(cmd, r, i, d) \in DeviceMessages
  BY DEF Msg, DeviceMessages
<1>. QED
  BY <1>1 DEF DeviceSends

(* What the reader takes off the link addresses a local id. *)
LEMMA RecvTyped ==
    ASSUME TypeOKHost, d2h \in Seq(DeviceMessages), link \in {"up", "down"},
           h2d \in Seq(HostMessages), NEW cmd, Recv(cmd)
    PROVE  /\ d2h' \in Seq(DeviceMessages) /\ link' = link /\ h2d' = h2d
           /\ Head(d2h) \in DeviceMessages
           /\ Head(d2h).arg0 \in Nat /\ Head(d2h).data \in Nat
           /\ Head(d2h).arg1 \in LocalIds
           /\ Addressee \in Streams \cup {NoStream}
<1>1. Head(d2h) \in DeviceMessages /\ d2h' \in Seq(DeviceMessages)
  BY DEF Recv
<1>. QED
  BY <1>1 DEF Recv, DeviceMessages, TypeOKHost, Addressee

(* What the device takes off the link carries a local id. *)
LEMMA DeviceGetsTyped ==
    ASSUME h2d \in Seq(HostMessages), NEW cmd, DeviceGets(cmd)
    PROVE  /\ h2d' \in Seq(HostMessages) /\ link' = link
           /\ Head(h2d).arg0 \in LocalIds /\ Head(h2d).arg1 \in Nat
           /\ Head(h2d).data \in Nat
<1>1. Head(h2d) \in HostMessages /\ h2d' \in Seq(HostMessages)
  BY DEF DeviceGets
<1>. QED
  BY <1>1 DEF DeviceGets, HostMessages

(* Every step keeps every variable typed. *)
LEMMA TypeStep ==
    ASSUME TypeOK, [Next]_vars
    PROVE  TypeOK'
<1>. USE DEF TypeOK, registryVars, stateVars, recvVars, sendVars, ownerVars,
             closerVars, writerVars, linkVars, deviceVars, streamVars, taskVars,
             Notified, SeenBefore, PoppedQ, OkayFor, CloseFor
<1>1. ASSUME NEW s \in Streams, Register(s)  PROVE TypeOK'
  <2>1. FreshId \in LocalIds /\ NextId \in LocalIds
    BY FreshIdTyped DEF TypeOKHost
  <2>2. TypeOKHost'
    BY <1>1, <2>1 DEF TypeOKHost, Register
  <2>3. TypeOKCalls'
    BY <1>1 DEF TypeOKCalls, PcStates, LifeStates, Register
  <2>4. TypeOKQueues'
    BY <1>1 DEF TypeOKQueues, Register
  <2>5. TypeOKCounts'
    BY <1>1 DEF TypeOKCounts, Register
  <2>6. TypeOKClosers'
    BY <1>1 DEF TypeOKClosers, Closers, CloserStates, Register
  <2>7. TypeOKLink'
    BY <1>1 DEF TypeOKLink, Register
  <2>8. TypeOKDevice'
    BY <1>1 DEF TypeOKDevice, Register
  <2>. QED BY <2>2, <2>3, <2>4, <2>5, <2>6, <2>7, <2>8
<1>2. ASSUME NEW s \in Streams, PostOpen(s)  PROVE TypeOK'
  <2>1. localId[s] \in LocalIds
    BY DEF TypeOKHost
  <2>2. outbox' \in Seq(HostMessages) /\ writer' \in {"run", "stopped"}
    BY <1>2, <2>1, PostTyped, PayloadAssumption DEF PostOpen, TypeOKLink, Commands, StrayCommands
  <2>3. TypeOKHost'
    BY <1>2 DEF TypeOKHost, PostOpen
  <2>4. TypeOKCalls'
    BY <1>2 DEF TypeOKCalls, PcStates, LifeStates, PostOpen
  <2>5. TypeOKQueues'
    BY <1>2 DEF TypeOKQueues, PostOpen
  <2>6. TypeOKCounts'
    BY <1>2 DEF TypeOKCounts, PostOpen
  <2>7. TypeOKClosers'
    BY <1>2 DEF TypeOKClosers, Closers, CloserStates, PostOpen
  <2>8. TypeOKLink'
    BY <1>2, <2>2 DEF TypeOKLink, PostOpen
  <2>9. TypeOKDevice'
    BY <1>2 DEF TypeOKDevice, PostOpen
  <2>. QED BY <2>3, <2>4, <2>5, <2>6, <2>7, <2>8, <2>9
<1>3. ASSUME NEW s \in Streams, Refuse(s)  PROVE TypeOK'
  <2>1. TypeOKHost'
    BY <1>3 DEF TypeOKHost, Refuse
  <2>2. TypeOKCalls'
    BY <1>3 DEF TypeOKCalls, PcStates, LifeStates, Refuse
  <2>3. TypeOKQueues'
    BY <1>3 DEF TypeOKQueues, Refuse
  <2>4. TypeOKCounts'
    BY <1>3 DEF TypeOKCounts, Refuse
  <2>5. TypeOKClosers'
    BY <1>3 DEF TypeOKClosers, Closers, CloserStates, Refuse
  <2>6. TypeOKLink'
    BY <1>3 DEF TypeOKLink, Refuse
  <2>7. TypeOKDevice'
    BY <1>3 DEF TypeOKDevice, Refuse
  <2>. QED BY <2>1, <2>2, <2>3, <2>4, <2>5, <2>6, <2>7
<1>4. ASSUME NEW s \in Streams, Acked(s)  PROVE TypeOK'
  <2>1. TypeOKHost'
    BY <1>4 DEF TypeOKHost, Acked
  <2>2. TypeOKCalls'
    BY <1>4 DEF TypeOKCalls, PcStates, LifeStates, Acked
  <2>3. TypeOKQueues'
    BY <1>4 DEF TypeOKQueues, Acked
  <2>4. TypeOKCounts'
    BY <1>4 DEF TypeOKCounts, Acked
  <2>5. TypeOKClosers'
    BY <1>4 DEF TypeOKClosers, Closers, CloserStates, Acked
  <2>6. TypeOKLink'
    BY <1>4 DEF TypeOKLink, Acked
  <2>7. TypeOKDevice'
    BY <1>4 DEF TypeOKDevice, Acked
  <2>. QED BY <2>1, <2>2, <2>3, <2>4, <2>5, <2>6, <2>7
<1>5. ASSUME NEW s \in Streams, NotAcked(s)  PROVE TypeOK'
  <2>1. TypeOKHost'
    BY <1>5 DEF TypeOKHost, NotAcked
  <2>2. TypeOKCalls'
    BY <1>5 DEF TypeOKCalls, PcStates, LifeStates, NotAcked
  <2>3. TypeOKQueues'
    BY <1>5 DEF TypeOKQueues, NotAcked
  <2>4. TypeOKCounts'
    BY <1>5 DEF TypeOKCounts, NotAcked
  <2>5. TypeOKClosers'
    BY <1>5 DEF TypeOKClosers, Closers, CloserStates, NotAcked
  <2>6. TypeOKLink'
    BY <1>5 DEF TypeOKLink, NotAcked
  <2>7. TypeOKDevice'
    BY <1>5 DEF TypeOKDevice, NotAcked
  <2>. QED BY <2>1, <2>2, <2>3, <2>4, <2>5, <2>6, <2>7
<1>6. ASSUME NEW s \in Streams, WaitFails(s)  PROVE TypeOK'
  <2>1. TypeOKHost'
    BY <1>6 DEF TypeOKHost, WaitFails
  <2>2. TypeOKCalls'
    BY <1>6 DEF TypeOKCalls, PcStates, LifeStates, WaitFails
  <2>3. TypeOKQueues'
    BY <1>6 DEF TypeOKQueues, WaitFails
  <2>4. TypeOKCounts'
    BY <1>6 DEF TypeOKCounts, WaitFails
  <2>5. TypeOKClosers'
    BY <1>6 DEF TypeOKClosers, Closers, CloserStates, WaitFails
  <2>6. TypeOKLink'
    BY <1>6 DEF TypeOKLink, WaitFails
  <2>7. TypeOKDevice'
    BY <1>6 DEF TypeOKDevice, WaitFails
  <2>. QED BY <2>1, <2>2, <2>3, <2>4, <2>5, <2>6, <2>7
<1>7. ASSUME NEW s \in Streams, WaitOn(s)  PROVE TypeOK'
  <2>1. TypeOKHost'
    BY <1>7 DEF TypeOKHost, WaitOn
  <2>2. TypeOKCalls'
    BY <1>7 DEF TypeOKCalls, PcStates, LifeStates, WaitOn
  <2>3. TypeOKQueues'
    BY <1>7 DEF TypeOKQueues, WaitOn
  <2>4. TypeOKCounts'
    BY <1>7 DEF TypeOKCounts, WaitOn
  <2>5. TypeOKClosers'
    BY <1>7 DEF TypeOKClosers, Closers, CloserStates, WaitOn
  <2>6. TypeOKLink'
    BY <1>7 DEF TypeOKLink, WaitOn
  <2>7. TypeOKDevice'
    BY <1>7 DEF TypeOKDevice, WaitOn
  <2>. QED BY <2>1, <2>2, <2>3, <2>4, <2>5, <2>6, <2>7
<1>8. ASSUME NEW s \in Streams, Woken(s)  PROVE TypeOK'
  <2>1. TypeOKHost'
    BY <1>8 DEF TypeOKHost, Woken
  <2>2. TypeOKCalls'
    BY <1>8 DEF TypeOKCalls, PcStates, LifeStates, Woken
  <2>3. TypeOKQueues'
    BY <1>8 DEF TypeOKQueues, Woken
  <2>4. TypeOKCounts'
    BY <1>8 DEF TypeOKCounts, Woken
  <2>5. TypeOKClosers'
    BY <1>8 DEF TypeOKClosers, Closers, CloserStates, Woken
  <2>6. TypeOKLink'
    BY <1>8 DEF TypeOKLink, Woken
  <2>7. TypeOKDevice'
    BY <1>8 DEF TypeOKDevice, Woken
  <2>. QED BY <2>1, <2>2, <2>3, <2>4, <2>5, <2>6, <2>7
<1>9. ASSUME NEW s \in Streams, CancelOpen(s)  PROVE TypeOK'
  <2>1. TypeOKHost'
    BY <1>9 DEF TypeOKHost, CancelOpen
  <2>2. TypeOKCalls'
    BY <1>9 DEF TypeOKCalls, PcStates, LifeStates, CancelOpen
  <2>3. TypeOKQueues'
    BY <1>9 DEF TypeOKQueues, CancelOpen
  <2>4. TypeOKCounts'
    BY <1>9 DEF TypeOKCounts, CancelOpen
  <2>5. TypeOKClosers'
    BY <1>9 DEF TypeOKClosers, Closers, CloserStates, CancelOpen
  <2>6. TypeOKLink'
    BY <1>9 DEF TypeOKLink, CancelOpen
  <2>7. TypeOKDevice'
    BY <1>9 DEF TypeOKDevice, CancelOpen
  <2>. QED BY <2>1, <2>2, <2>3, <2>4, <2>5, <2>6, <2>7
<1>10. ASSUME NEW s \in Streams, CancelSend(s)  PROVE TypeOK'
  <2>1. TypeOKHost'
    BY <1>10 DEF TypeOKHost, CancelSend
  <2>2. TypeOKCalls'
    BY <1>10 DEF TypeOKCalls, PcStates, LifeStates, CancelSend
  <2>3. TypeOKQueues'
    BY <1>10 DEF TypeOKQueues, CancelSend
  <2>4. TypeOKCounts'
    BY <1>10 DEF TypeOKCounts, CancelSend
  <2>5. TypeOKClosers'
    BY <1>10 DEF TypeOKClosers, Closers, CloserStates, CancelSend
  <2>6. TypeOKLink'
    BY <1>10 DEF TypeOKLink, CancelSend
  <2>7. TypeOKDevice'
    BY <1>10 DEF TypeOKDevice, CancelSend
  <2>. QED BY <2>1, <2>2, <2>3, <2>4, <2>5, <2>6, <2>7
<1>11. ASSUME NEW s \in Streams, WriteIds(s)  PROVE TypeOK'
  <2>1. TypeOKHost'
    BY <1>11 DEF TypeOKHost, WriteIds
  <2>2. TypeOKCalls'
    BY <1>11 DEF TypeOKCalls, PcStates, LifeStates, WriteIds
  <2>3. TypeOKQueues'
    BY <1>11 DEF TypeOKQueues, WriteIds
  <2>4. TypeOKCounts'
    BY <1>11 DEF TypeOKCounts, TypeOKHost, WriteIds
  <2>5. TypeOKClosers'
    BY <1>11 DEF TypeOKClosers, Closers, CloserStates, WriteIds
  <2>6. TypeOKLink'
    BY <1>11 DEF TypeOKLink, WriteIds
  <2>7. TypeOKDevice'
    BY <1>11 DEF TypeOKDevice, WriteIds
  <2>. QED BY <2>1, <2>2, <2>3, <2>4, <2>5, <2>6, <2>7
<1>12. ASSUME NEW s \in Streams, PostWrite(s)  PROVE TypeOK'
  <2>1. localId[s] \in LocalIds /\ remoteId[s] \in Nat
    BY DEF TypeOKHost
  <2>2. ChunkLen(s) \in Nat /\ rest[s] - ChunkLen(s) \in Nat
    BY ChunkLenTyped DEF TypeOKCounts
  <2>3. outbox' \in Seq(HostMessages) /\ writer' \in {"run", "stopped"}
    BY <1>12, <2>1, <2>2, PostTyped DEF PostWrite, TypeOKLink, Commands
  <2>4. TypeOKHost'
    BY <1>12 DEF TypeOKHost, PostWrite
  <2>5. TypeOKCalls'
    BY <1>12 DEF TypeOKCalls, PcStates, LifeStates, PostWrite
  <2>6. TypeOKQueues'
    BY <1>12 DEF TypeOKQueues, PostWrite
  <2>7. TypeOKCounts'
    BY <1>12, <2>2 DEF TypeOKCounts, PostWrite
  <2>8. TypeOKClosers'
    BY <1>12 DEF TypeOKClosers, Closers, CloserStates, PostWrite
  <2>9. TypeOKLink'
    BY <1>12, <2>3 DEF TypeOKLink, PostWrite
  <2>10. TypeOKDevice'
    BY <1>12 DEF TypeOKDevice, PostWrite
  <2>. QED BY <2>4, <2>5, <2>6, <2>7, <2>8, <2>9, <2>10
<1>13. ASSUME NEW s \in Streams, RecvTake(s)  PROVE TypeOK'
  <2>1. dataQ[s] # <<>> => /\ Head(dataQ[s]) \in ChunkType
                            /\ Tail(dataQ[s]) \in Seq(ChunkType)
                            /\ <<Head(dataQ[s])>> \in Seq(ChunkType)
                            /\ Append(got[s], Head(dataQ[s])) \in Seq(ChunkType)
    BY DEF TypeOKQueues
  <2>2. dataQ' \in [Streams -> Seq(ChunkType)]
    BY <1>13, <2>1 DEF TypeOKQueues, RecvTake
  <2>3. hand' \in [Streams -> Seq(ChunkType)]
    BY <1>13, <2>1 DEF TypeOKQueues, RecvTake
  <2>4. got' \in [Streams -> Seq(ChunkType)]
    BY <1>13, <2>1 DEF TypeOKQueues, RecvTake
  <2>5. TypeOKHost'
    BY <1>13 DEF TypeOKHost, RecvTake
  <2>6. TypeOKCalls'
    BY <1>13 DEF TypeOKCalls, PcStates, LifeStates, RecvTake
  <2>7. TypeOKQueues'
    BY <2>2, <2>3, <2>4 DEF TypeOKQueues
  <2>8. TypeOKCounts'
    BY <1>13 DEF TypeOKCounts, RecvTake
  <2>9. TypeOKClosers'
    BY <1>13 DEF TypeOKClosers, Closers, CloserStates, RecvTake
  <2>10. TypeOKLink'
    BY <1>13 DEF TypeOKLink, RecvTake
  <2>11. TypeOKDevice'
    BY <1>13 DEF TypeOKDevice, RecvTake
  <2>. QED BY <2>5, <2>6, <2>7, <2>8, <2>9, <2>10, <2>11
<1>14. ASSUME NEW s \in Streams, RecvOkay(s)  PROVE TypeOK'
  <2>1. localId[s] \in LocalIds /\ remoteId[s] \in Nat
    BY DEF TypeOKHost
  <2>2. outbox' \in Seq(HostMessages) /\ writer' \in {"run", "stopped"}
    BY <1>14, <2>1, PostTyped DEF RecvOkay, TypeOKLink, Commands
  <2>3. <<>> \in Seq(ChunkType) /\ got[s] \o hand[s] \in Seq(ChunkType)
    BY DEF TypeOKQueues
  <2>4. TypeOKHost'
    BY <1>14 DEF TypeOKHost, RecvOkay
  <2>5. TypeOKCalls'
    BY <1>14 DEF TypeOKCalls, PcStates, LifeStates, RecvOkay
  <2>6. TypeOKQueues'
    BY <1>14, <2>3 DEF TypeOKQueues, RecvOkay
  <2>7. TypeOKCounts'
    BY <1>14 DEF TypeOKCounts, RecvOkay
  <2>8. TypeOKClosers'
    BY <1>14 DEF TypeOKClosers, Closers, CloserStates, RecvOkay
  <2>9. TypeOKLink'
    BY <1>14, <2>2 DEF TypeOKLink, RecvOkay
  <2>10. TypeOKDevice'
    BY <1>14 DEF TypeOKDevice, RecvOkay
  <2>. QED BY <2>4, <2>5, <2>6, <2>7, <2>8, <2>9, <2>10
<1>15. ASSUME NEW s \in Streams, RecvEnd(s)  PROVE TypeOK'
  <2>1. TypeOKHost'
    BY <1>15 DEF TypeOKHost, RecvEnd
  <2>2. TypeOKCalls'
    BY <1>15 DEF TypeOKCalls, PcStates, LifeStates, RecvEnd
  <2>3. TypeOKQueues'
    BY <1>15 DEF TypeOKQueues, RecvEnd
  <2>4. TypeOKCounts'
    BY <1>15 DEF TypeOKCounts, RecvEnd
  <2>5. TypeOKClosers'
    BY <1>15 DEF TypeOKClosers, Closers, CloserStates, RecvEnd
  <2>6. TypeOKLink'
    BY <1>15 DEF TypeOKLink, RecvEnd
  <2>7. TypeOKDevice'
    BY <1>15 DEF TypeOKDevice, RecvEnd
  <2>. QED BY <2>1, <2>2, <2>3, <2>4, <2>5, <2>6, <2>7
<1>16. ASSUME NEW s \in Streams, BeginClose(s)  PROVE TypeOK'
  <2>1. TypeOKHost'
    BY <1>16 DEF TypeOKHost, BeginClose
  <2>2. TypeOKCalls'
    BY <1>16 DEF TypeOKCalls, PcStates, LifeStates, BeginClose
  <2>3. TypeOKQueues'
    BY <1>16 DEF TypeOKQueues, BeginClose
  <2>4. TypeOKCounts'
    BY <1>16 DEF TypeOKCounts, BeginClose
  <2>5. TypeOKClosers'
    BY <1>16 DEF TypeOKClosers, Closers, CloserStates, BeginClose
  <2>6. TypeOKLink'
    BY <1>16 DEF TypeOKLink, BeginClose
  <2>7. TypeOKDevice'
    BY <1>16 DEF TypeOKDevice, BeginClose
  <2>. QED BY <2>1, <2>2, <2>3, <2>4, <2>5, <2>6, <2>7
<1>17. ASSUME NEW s \in Streams, CloseMark(s)  PROVE TypeOK'
  <2>1. TypeOKHost'
    BY <1>17 DEF TypeOKHost, CloseMark
  <2>2. TypeOKCalls'
    BY <1>17 DEF TypeOKCalls, PcStates, LifeStates, CloseMark
  <2>3. TypeOKQueues'
    BY <1>17 DEF TypeOKQueues, CloseMark
  <2>4. TypeOKCounts'
    BY <1>17 DEF TypeOKCounts, CloseMark
  <2>5. TypeOKClosers'
    BY <1>17 DEF TypeOKClosers, Closers, CloserStates, CloseMark
  <2>6. TypeOKLink'
    BY <1>17 DEF TypeOKLink, CloseMark
  <2>7. TypeOKDevice'
    BY <1>17 DEF TypeOKDevice, CloseMark
  <2>. QED BY <2>1, <2>2, <2>3, <2>4, <2>5, <2>6, <2>7
<1>18. ASSUME NEW s \in Streams, CloseRemove(s)  PROVE TypeOK'
  <2>1. TypeOKHost'
    BY <1>18 DEF TypeOKHost, CloseRemove
  <2>2. TypeOKCalls'
    BY <1>18 DEF TypeOKCalls, PcStates, LifeStates, CloseRemove
  <2>3. TypeOKQueues'
    BY <1>18 DEF TypeOKQueues, CloseRemove
  <2>4. TypeOKCounts'
    BY <1>18 DEF TypeOKCounts, CloseRemove
  <2>5. TypeOKClosers'
    BY <1>18 DEF TypeOKClosers, Closers, CloserStates, CloseRemove
  <2>6. TypeOKLink'
    BY <1>18 DEF TypeOKLink, CloseRemove
  <2>7. TypeOKDevice'
    BY <1>18 DEF TypeOKDevice, CloseRemove
  <2>. QED BY <2>1, <2>2, <2>3, <2>4, <2>5, <2>6, <2>7
<1>19. ASSUME NEW s \in Streams, ClosePost(s)  PROVE TypeOK'
  <2>1. localId[s] \in LocalIds /\ remoteId[s] \in Nat
    BY DEF TypeOKHost
  <2>2. outbox' \in Seq(HostMessages) /\ writer' \in {"run", "stopped"}
    BY <1>19, <2>1, PostTyped DEF ClosePost, TypeOKLink, Commands
  <2>3. TypeOKHost'
    BY <1>19 DEF TypeOKHost, ClosePost
  <2>4. TypeOKCalls'
    BY <1>19 DEF TypeOKCalls, PcStates, LifeStates, ClosePost
  <2>5. TypeOKQueues'
    BY <1>19 DEF TypeOKQueues, ClosePost
  <2>6. TypeOKCounts'
    BY <1>19 DEF TypeOKCounts, ClosePost
  <2>7. TypeOKClosers'
    BY <1>19 DEF TypeOKClosers, Closers, CloserStates, ClosePost
  <2>8. TypeOKLink'
    BY <1>19, <2>2 DEF TypeOKLink, ClosePost
  <2>9. TypeOKDevice'
    BY <1>19 DEF TypeOKDevice, ClosePost
  <2>. QED BY <2>3, <2>4, <2>5, <2>6, <2>7, <2>8, <2>9
<1>20. ASSUME NEW s \in Streams, DropStream(s)  PROVE TypeOK'
  <2>1. TypeOKHost'
    BY <1>20 DEF TypeOKHost, DropStream
  <2>2. TypeOKCalls'
    BY <1>20 DEF TypeOKCalls, PcStates, LifeStates, DropStream
  <2>3. TypeOKQueues'
    BY <1>20 DEF TypeOKQueues, DropStream
  <2>4. TypeOKCounts'
    BY <1>20 DEF TypeOKCounts, DropStream
  <2>5. TypeOKClosers'
    BY <1>20 DEF TypeOKClosers, Closers, CloserStates, DropStream
  <2>6. TypeOKLink'
    BY <1>20 DEF TypeOKLink, DropStream
  <2>7. TypeOKDevice'
    BY <1>20 DEF TypeOKDevice, DropStream
  <2>. QED BY <2>1, <2>2, <2>3, <2>4, <2>5, <2>6, <2>7
<1>21. ASSUME NEW s \in Streams, NEW n \in SendLens, BeginSend(s, n)  PROVE TypeOK'
  <2>1. TypeOKHost'
    BY <1>21 DEF TypeOKHost, BeginSend
  <2>2. TypeOKCalls'
    BY <1>21 DEF TypeOKCalls, PcStates, LifeStates, BeginSend
  <2>3. TypeOKQueues'
    BY <1>21 DEF TypeOKQueues, BeginSend
  <2>4. TypeOKCounts'
    BY <1>21, LoadAssumption DEF TypeOKCounts, BeginSend
  <2>5. TypeOKClosers'
    BY <1>21 DEF TypeOKClosers, Closers, CloserStates, BeginSend
  <2>6. TypeOKLink'
    BY <1>21 DEF TypeOKLink, BeginSend
  <2>7. TypeOKDevice'
    BY <1>21 DEF TypeOKDevice, BeginSend
  <2>. QED BY <2>1, <2>2, <2>3, <2>4, <2>5, <2>6, <2>7
<1>22. ASSUME ReaderOkay  PROVE TypeOK'
  <2>1. /\ d2h' \in Seq(DeviceMessages) /\ link' = link /\ h2d' = h2d
        /\ Head(d2h).arg0 \in Nat /\ Head(d2h).data \in Nat
        /\ Head(d2h).arg1 \in LocalIds
        /\ Addressee \in Streams \cup {NoStream}
    BY <1>22, RecvTyped DEF ReaderOkay, TypeOKLink
  <2>2. TypeOKHost'
    BY <1>22, <2>1 DEF TypeOKHost, ReaderOkay
  <2>3. TypeOKCalls'
    BY <1>22 DEF TypeOKCalls, PcStates, LifeStates, ReaderOkay
  <2>4. TypeOKQueues'
    BY <1>22, <2>1 DEF TypeOKQueues, ReaderOkay
  <2>5. TypeOKCounts'
    BY <1>22 DEF TypeOKCounts, ReaderOkay
  <2>6. TypeOKClosers'
    BY <1>22, <2>1 DEF TypeOKClosers, Closers, CloserStates, ReaderOkay
  <2>7. TypeOKLink'
    BY <1>22, <2>1 DEF TypeOKLink, ReaderOkay
  <2>8. TypeOKDevice'
    BY <1>22 DEF TypeOKDevice, ReaderOkay
  <2>. QED BY <2>2, <2>3, <2>4, <2>5, <2>6, <2>7, <2>8
<1>23. ASSUME AckCount  PROVE TypeOK'
  <2>1. TypeOKHost'
    BY <1>23 DEF TypeOKHost, TypeOKClosers, Closers, AckCount
  <2>2. TypeOKCalls'
    BY <1>23 DEF TypeOKCalls, PcStates, LifeStates, AckCount
  <2>3. TypeOKQueues'
    BY <1>23 DEF TypeOKQueues, AckCount
  <2>4. TypeOKCounts'
    BY <1>23 DEF TypeOKCounts, AckCount
  <2>5. TypeOKClosers'
    BY <1>23 DEF TypeOKClosers, Closers, CloserStates, AckCount
  <2>6. TypeOKLink'
    BY <1>23 DEF TypeOKLink, AckCount
  <2>7. TypeOKDevice'
    BY <1>23 DEF TypeOKDevice, AckCount
  <2>. QED BY <2>1, <2>2, <2>3, <2>4, <2>5, <2>6, <2>7
<1>24. ASSUME AckWake  PROVE TypeOK'
  <2>1. TypeOKHost'
    BY <1>24 DEF TypeOKHost, AckWake
  <2>2. TypeOKCalls'
    BY <1>24 DEF TypeOKCalls, PcStates, LifeStates, AckWake
  <2>3. TypeOKQueues'
    BY <1>24 DEF TypeOKQueues, AckWake
  <2>4. TypeOKCounts'
    BY <1>24 DEF TypeOKCounts, AckWake
  <2>5. TypeOKClosers'
    BY <1>24 DEF TypeOKClosers, Closers, CloserStates, AckWake
  <2>6. TypeOKLink'
    BY <1>24 DEF TypeOKLink, AckWake
  <2>7. TypeOKDevice'
    BY <1>24 DEF TypeOKDevice, AckWake
  <2>. QED BY <2>1, <2>2, <2>3, <2>4, <2>5, <2>6, <2>7
<1>25. ASSUME ReaderWrite  PROVE TypeOK'
  <2>1. /\ d2h' \in Seq(DeviceMessages) /\ link' = link /\ h2d' = h2d
        /\ Head(d2h).arg0 \in Nat /\ Head(d2h).data \in Nat
        /\ Head(d2h).arg1 \in LocalIds
        /\ Addressee \in Streams \cup {NoStream}
    BY <1>25, RecvTyped DEF ReaderWrite, TypeOKLink
  <2>2. outbox' \in Seq(HostMessages) /\ writer' \in {"run", "stopped"}
    BY <1>25, <2>1, PostTyped DEF ReaderWrite, TypeOKLink, Commands
  <2>3. <<Head(d2h).arg0, Head(d2h).data>> \in ChunkType
    BY <2>1 DEF ChunkType
  <2>4. \A s \in Streams :
            Append(dataQ[s], <<Head(d2h).arg0, Head(d2h).data>>) \in Seq(ChunkType)
    BY <2>3 DEF TypeOKQueues
  <2>5. TypeOKHost'
    BY <1>25, <2>1 DEF TypeOKHost, ReaderWrite
  <2>6. TypeOKCalls'
    BY <1>25 DEF TypeOKCalls, PcStates, LifeStates, ReaderWrite
  <2>7. TypeOKQueues'
    BY <1>25, <2>1, <2>4 DEF TypeOKQueues, ReaderWrite, Listening
  <2>8. TypeOKCounts'
    BY <1>25 DEF TypeOKCounts, ReaderWrite
  <2>9. TypeOKClosers'
    BY <1>25, <2>1 DEF TypeOKClosers, Closers, CloserStates, ReaderWrite
  <2>10. TypeOKLink'
    BY <1>25, <2>1, <2>2 DEF TypeOKLink, ReaderWrite
  <2>11. TypeOKDevice'
    BY <1>25 DEF TypeOKDevice, ReaderWrite
  <2>. QED BY <2>5, <2>6, <2>7, <2>8, <2>9, <2>10, <2>11
<1>26. ASSUME ReaderClose  PROVE TypeOK'
  <2>1. /\ d2h' \in Seq(DeviceMessages) /\ link' = link /\ h2d' = h2d
        /\ Head(d2h).arg0 \in Nat /\ Head(d2h).data \in Nat
        /\ Head(d2h).arg1 \in LocalIds
        /\ Addressee \in Streams \cup {NoStream}
    BY <1>26, RecvTyped DEF ReaderClose, TypeOKLink
  <2>2. TypeOKHost'
    BY <1>26, <2>1, StreamsAssumption DEF TypeOKHost, ReaderClose
  <2>3. TypeOKCalls'
    BY <1>26 DEF TypeOKCalls, PcStates, LifeStates, ReaderClose
  <2>4. TypeOKQueues'
    BY <1>26, <2>1 DEF TypeOKQueues, ReaderClose
  <2>5. TypeOKCounts'
    BY <1>26 DEF TypeOKCounts, ReaderClose
  <2>6. TypeOKClosers'
    BY <1>26, <2>1 DEF TypeOKClosers, Closers, CloserStates, ReaderClose
  <2>7. TypeOKLink'
    BY <1>26, <2>1 DEF TypeOKLink, ReaderClose
  <2>8. TypeOKDevice'
    BY <1>26 DEF TypeOKDevice, ReaderClose
  <2>. QED BY <2>2, <2>3, <2>4, <2>5, <2>6, <2>7, <2>8
<1>27. ASSUME ReaderStray  PROVE TypeOK'
  <2>1. /\ d2h' \in Seq(DeviceMessages) /\ link' = link /\ h2d' = h2d
        /\ Head(d2h).arg0 \in Nat /\ Head(d2h).data \in Nat
        /\ Head(d2h).arg1 \in LocalIds
        /\ Addressee \in Streams \cup {NoStream}
    BY <1>27, RecvTyped DEF ReaderStray, TypeOKLink
  <2>2. TypeOKHost'
    BY <1>27, <2>1 DEF TypeOKHost, ReaderStray
  <2>3. TypeOKCalls'
    BY <1>27 DEF TypeOKCalls, PcStates, LifeStates, ReaderStray
  <2>4. TypeOKQueues'
    BY <1>27, <2>1 DEF TypeOKQueues, ReaderStray
  <2>5. TypeOKCounts'
    BY <1>27 DEF TypeOKCounts, ReaderStray
  <2>6. TypeOKClosers'
    BY <1>27, <2>1 DEF TypeOKClosers, Closers, CloserStates, ReaderStray
  <2>7. TypeOKLink'
    BY <1>27, <2>1 DEF TypeOKLink, ReaderStray
  <2>8. TypeOKDevice'
    BY <1>27 DEF TypeOKDevice, ReaderStray
  <2>. QED BY <2>2, <2>3, <2>4, <2>5, <2>6, <2>7, <2>8
<1>28. ASSUME ReaderFails  PROVE TypeOK'
  <2>1. TypeOKHost'
    BY <1>28 DEF TypeOKHost, ReaderFails
  <2>2. TypeOKCalls'
    BY <1>28 DEF TypeOKCalls, PcStates, LifeStates, ReaderFails
  <2>3. TypeOKQueues'
    BY <1>28 DEF TypeOKQueues, ReaderFails
  <2>4. TypeOKCounts'
    BY <1>28 DEF TypeOKCounts, ReaderFails
  <2>5. TypeOKClosers'
    BY <1>28 DEF TypeOKClosers, Closers, CloserStates, ReaderFails
  <2>6. TypeOKLink'
    BY <1>28 DEF TypeOKLink, ReaderFails
  <2>7. TypeOKDevice'
    BY <1>28 DEF TypeOKDevice, ReaderFails
  <2>. QED BY <2>1, <2>2, <2>3, <2>4, <2>5, <2>6, <2>7
<1>29. ASSUME ReaderAborts  PROVE TypeOK'
  <2>1. TypeOKHost'
    BY <1>29 DEF TypeOKHost, ReaderAborts
  <2>2. TypeOKCalls'
    BY <1>29 DEF TypeOKCalls, PcStates, LifeStates, ReaderAborts
  <2>3. TypeOKQueues'
    BY <1>29 DEF TypeOKQueues, ReaderAborts
  <2>4. TypeOKCounts'
    BY <1>29 DEF TypeOKCounts, ReaderAborts
  <2>5. TypeOKClosers'
    BY <1>29 DEF TypeOKClosers, Closers, CloserStates, ReaderAborts
  <2>6. TypeOKLink'
    BY <1>29 DEF TypeOKLink, ReaderAborts
  <2>7. TypeOKDevice'
    BY <1>29 DEF TypeOKDevice, ReaderAborts
  <2>. QED BY <2>1, <2>2, <2>3, <2>4, <2>5, <2>6, <2>7
<1>30. ASSUME BeginSessionClose  PROVE TypeOK'
  <2>1. TypeOKHost'
    BY <1>30 DEF TypeOKHost, BeginSessionClose
  <2>2. TypeOKCalls'
    BY <1>30 DEF TypeOKCalls, PcStates, LifeStates, BeginSessionClose
  <2>3. TypeOKQueues'
    BY <1>30 DEF TypeOKQueues, BeginSessionClose
  <2>4. TypeOKCounts'
    BY <1>30 DEF TypeOKCounts, BeginSessionClose
  <2>5. TypeOKClosers'
    BY <1>30 DEF TypeOKClosers, Closers, CloserStates, BeginSessionClose
  <2>6. TypeOKLink'
    BY <1>30 DEF TypeOKLink, BeginSessionClose
  <2>7. TypeOKDevice'
    BY <1>30 DEF TypeOKDevice, BeginSessionClose
  <2>. QED BY <2>1, <2>2, <2>3, <2>4, <2>5, <2>6, <2>7
<1>31. ASSUME WriterSends  PROVE TypeOK'
  <2>1. /\ Head(outbox) \in HostMessages /\ Tail(outbox) \in Seq(HostMessages)
        /\ Append(h2d, Head(outbox)) \in Seq(HostMessages)
    BY <1>31 DEF TypeOKLink, WriterSends
  <2>2. <<>> \in Seq(HostMessages)
    OBVIOUS
  <2>3. TypeOKHost'
    BY <1>31 DEF TypeOKHost, WriterSends
  <2>4. TypeOKCalls'
    BY <1>31 DEF TypeOKCalls, PcStates, LifeStates, WriterSends
  <2>5. TypeOKQueues'
    BY <1>31 DEF TypeOKQueues, WriterSends
  <2>6. TypeOKCounts'
    BY <1>31 DEF TypeOKCounts, WriterSends
  <2>7. TypeOKClosers'
    BY <1>31 DEF TypeOKClosers, Closers, CloserStates, WriterSends
  <2>8. TypeOKLink'
    BY <1>31, <2>1, <2>2 DEF TypeOKLink, WriterSends
  <2>9. TypeOKDevice'
    BY <1>31 DEF TypeOKDevice, WriterSends
  <2>. QED BY <2>3, <2>4, <2>5, <2>6, <2>7, <2>8, <2>9
<1>32. ASSUME WriterAborts  PROVE TypeOK'
  <2>1. TypeOKHost'
    BY <1>32 DEF TypeOKHost, WriterAborts
  <2>2. TypeOKCalls'
    BY <1>32 DEF TypeOKCalls, PcStates, LifeStates, WriterAborts
  <2>3. TypeOKQueues'
    BY <1>32 DEF TypeOKQueues, WriterAborts
  <2>4. TypeOKCounts'
    BY <1>32 DEF TypeOKCounts, WriterAborts
  <2>5. TypeOKClosers'
    BY <1>32 DEF TypeOKClosers, Closers, CloserStates, WriterAborts
  <2>6. TypeOKLink'
    BY <1>32 DEF TypeOKLink, WriterAborts
  <2>7. TypeOKDevice'
    BY <1>32 DEF TypeOKDevice, WriterAborts
  <2>. QED BY <2>1, <2>2, <2>3, <2>4, <2>5, <2>6, <2>7
<1>33. ASSUME LinkDown  PROVE TypeOK'
  <2>1. TypeOKHost'
    BY <1>33 DEF TypeOKHost, LinkDown
  <2>2. TypeOKCalls'
    BY <1>33 DEF TypeOKCalls, PcStates, LifeStates, LinkDown
  <2>3. TypeOKQueues'
    BY <1>33 DEF TypeOKQueues, LinkDown
  <2>4. TypeOKCounts'
    BY <1>33 DEF TypeOKCounts, LinkDown
  <2>5. TypeOKClosers'
    BY <1>33 DEF TypeOKClosers, Closers, CloserStates, LinkDown
  <2>6. TypeOKLink'
    BY <1>33 DEF TypeOKLink, LinkDown
  <2>7. TypeOKDevice'
    BY <1>33 DEF TypeOKDevice, LinkDown
  <2>. QED BY <2>1, <2>2, <2>3, <2>4, <2>5, <2>6, <2>7
<1>34. ASSUME DevOpen  PROVE TypeOK'
  <2>1. /\ h2d' \in Seq(HostMessages) /\ link' = link
        /\ Head(h2d).arg0 \in LocalIds /\ Head(h2d).arg1 \in Nat
        /\ Head(h2d).data \in Nat
    BY <1>34, DeviceGetsTyped DEF DevOpen, TypeOKLink
  <2>2. d2h' \in Seq(DeviceMessages)
    BY <1>34, <2>1, DeviceSendsTyped DEF DevOpen, TypeOKLink, TypeOKDevice, Commands
  <2>3. TypeOKHost'
    BY <1>34 DEF TypeOKHost, DevOpen
  <2>4. TypeOKCalls'
    BY <1>34 DEF TypeOKCalls, PcStates, LifeStates, DevOpen
  <2>5. TypeOKQueues'
    BY <1>34 DEF TypeOKQueues, DevOpen
  <2>6. TypeOKCounts'
    BY <1>34 DEF TypeOKCounts, DevOpen
  <2>7. TypeOKClosers'
    BY <1>34 DEF TypeOKClosers, Closers, CloserStates, DevOpen
  <2>8. TypeOKLink'
    BY <1>34, <2>1, <2>2 DEF TypeOKLink, DevOpen
  <2>9. TypeOKDevice'
    <3>1. CASE UNCHANGED <<devNext, devSt, devHost>>
      <4>1. devRefused' \subseteq LocalIds
        BY <1>34, <2>1 DEF TypeOKDevice, DevOpen
      <4>. QED
        BY <1>34, <3>1, <4>1 DEF TypeOKDevice, DevOpen
    <3>2. CASE /\ devNext \in RemoteIds /\ devNext' = devNext + 1
               /\ devSt' = [devSt EXCEPT ![devNext] = "open"]
               /\ devHost' = [devHost EXCEPT ![devNext] = Head(h2d).arg0]
               /\ UNCHANGED devRefused
      <4>1. devNext' \in Nat \ {0}
        BY <3>2, RemoteIdsAssumption
      <4>2. /\ devSt' \in [RemoteIds -> {"free", "open", "finished", "dropped"}]
            /\ devHost' \in [RemoteIds -> LocalIds]
        BY <3>2, <2>1 DEF TypeOKDevice
      <4>. QED
        BY <1>34, <3>2, <4>1, <4>2 DEF TypeOKDevice, DevOpen
    <3>. QED
      BY <1>34, <3>1, <3>2 DEF DevOpen
  <2>. QED BY <2>3, <2>4, <2>5, <2>6, <2>7, <2>8, <2>9
<1>35. ASSUME DevWrite  PROVE TypeOK'
  <2>1. /\ h2d' \in Seq(HostMessages) /\ link' = link
        /\ Head(h2d).arg0 \in LocalIds /\ Head(h2d).arg1 \in Nat
        /\ Head(h2d).data \in Nat
    BY <1>35, DeviceGetsTyped DEF DevWrite, TypeOKLink
  <2>2. d2h' \in Seq(DeviceMessages)
    BY <1>35, <2>1, DeviceSendsTyped
    DEF DevWrite, KnownToDevice, TypeOKLink, TypeOKDevice, Commands
  <2>3. \A r \in RemoteIds : devBytes[r] + Head(h2d).data \in Nat
    BY <2>1 DEF TypeOKDevice
  <2>4. devBytes' \in [RemoteIds -> Nat]
    BY <1>35, <2>1, <2>3 DEF TypeOKDevice, DevWrite, KnownToDevice
  <2>5. TypeOKHost'
    BY <1>35 DEF TypeOKHost, DevWrite
  <2>6. TypeOKCalls'
    BY <1>35 DEF TypeOKCalls, PcStates, LifeStates, DevWrite
  <2>7. TypeOKQueues'
    BY <1>35 DEF TypeOKQueues, DevWrite
  <2>8. TypeOKCounts'
    BY <1>35 DEF TypeOKCounts, DevWrite
  <2>9. TypeOKClosers'
    BY <1>35 DEF TypeOKClosers, Closers, CloserStates, DevWrite
  <2>10. TypeOKLink'
    BY <1>35, <2>1, <2>2 DEF TypeOKLink, DevWrite
  <2>11. TypeOKDevice'
    BY <1>35, <2>4 DEF TypeOKDevice, DevWrite
  <2>. QED BY <2>5, <2>6, <2>7, <2>8, <2>9, <2>10, <2>11
<1>36. ASSUME DevOkay  PROVE TypeOK'
  <2>1. h2d' \in Seq(HostMessages) /\ link' = link
    BY <1>36, DeviceGetsTyped DEF DevOkay, TypeOKLink
  <2>2. TypeOKHost'
    BY <1>36 DEF TypeOKHost, DevOkay
  <2>3. TypeOKCalls'
    BY <1>36 DEF TypeOKCalls, PcStates, LifeStates, DevOkay
  <2>4. TypeOKQueues'
    BY <1>36 DEF TypeOKQueues, DevOkay
  <2>5. TypeOKCounts'
    BY <1>36 DEF TypeOKCounts, DevOkay
  <2>6. TypeOKClosers'
    BY <1>36 DEF TypeOKClosers, Closers, CloserStates, DevOkay
  <2>7. TypeOKLink'
    BY <1>36, <2>1 DEF TypeOKLink, DevOkay
  <2>8. TypeOKDevice'
    BY <1>36 DEF TypeOKDevice, DevOkay
  <2>. QED BY <2>2, <2>3, <2>4, <2>5, <2>6, <2>7, <2>8
<1>37. ASSUME DevClose  PROVE TypeOK'
  <2>1. /\ h2d' \in Seq(HostMessages) /\ link' = link
        /\ Head(h2d).arg0 \in LocalIds /\ Head(h2d).arg1 \in Nat
        /\ Head(h2d).data \in Nat
    BY <1>37, DeviceGetsTyped DEF DevClose, TypeOKLink
  <2>2. d2h' \in Seq(DeviceMessages)
    BY <1>37, <2>1, DeviceSendsTyped
    DEF DevClose, KnownToDevice, TypeOKLink, TypeOKDevice, Commands
  <2>3. TypeOKHost'
    BY <1>37 DEF TypeOKHost, DevClose
  <2>4. TypeOKCalls'
    BY <1>37 DEF TypeOKCalls, PcStates, LifeStates, DevClose
  <2>5. TypeOKQueues'
    BY <1>37 DEF TypeOKQueues, DevClose
  <2>6. TypeOKCounts'
    BY <1>37 DEF TypeOKCounts, DevClose
  <2>7. TypeOKClosers'
    BY <1>37 DEF TypeOKClosers, Closers, CloserStates, DevClose
  <2>8. TypeOKLink'
    BY <1>37, <2>1, <2>2 DEF TypeOKLink, DevClose
  <2>9. TypeOKDevice'
    BY <1>37, <2>1 DEF TypeOKDevice, DevClose, KnownToDevice
  <2>. QED BY <2>3, <2>4, <2>5, <2>6, <2>7, <2>8, <2>9
<1>38. ASSUME NEW a \in Closers, Drain(a)  PROVE TypeOK'
  <2>1. TypeOKHost'
    BY <1>38 DEF TypeOKHost, Drain
  <2>2. TypeOKCalls'
    BY <1>38 DEF TypeOKCalls, PcStates, LifeStates, Drain
  <2>3. TypeOKQueues'
    BY <1>38 DEF TypeOKQueues, Drain
  <2>4. TypeOKCounts'
    BY <1>38 DEF TypeOKCounts, Drain
  <2>5. TypeOKClosers'
    BY <1>38 DEF TypeOKClosers, TypeOKHost, Closers, CloserStates, Drain, Registered
  <2>6. TypeOKLink'
    BY <1>38 DEF TypeOKLink, Drain
  <2>7. TypeOKDevice'
    BY <1>38 DEF TypeOKDevice, Drain
  <2>. QED BY <2>1, <2>2, <2>3, <2>4, <2>5, <2>6, <2>7
<1>39. ASSUME NEW a \in Closers, Each(a)  PROVE TypeOK'
  <2>1. todo[a] \subseteq Streams
    BY DEF TypeOKClosers
  <2>2. apc' \in [Closers -> CloserStates]
    BY <1>39 DEF TypeOKClosers, CloserStates, Each
  <2>3. /\ cur' \in [Closers -> Streams \cup {NoStream}]
        /\ todo' \in [Closers -> SUBSET Streams]
    BY <1>39, <2>1 DEF TypeOKClosers, Each
  <2>4. ASSUME NEW b \in Closers, apc'[b] \in {"count", "wake", "mark", "take"}
        PROVE  cur'[b] \in Streams
    BY <1>39, <2>1, <2>4 DEF TypeOKClosers, Each
  <2>5. aborted' \in BOOLEAN
    BY <1>39 DEF TypeOKClosers, Each
  <2>6. TypeOKHost'
    BY <1>39 DEF TypeOKHost, Each
  <2>7. TypeOKCalls'
    BY <1>39 DEF TypeOKCalls, PcStates, LifeStates, Each
  <2>8. TypeOKQueues'
    BY <1>39 DEF TypeOKQueues, Each
  <2>9. TypeOKCounts'
    BY <1>39 DEF TypeOKCounts, Each
  <2>10. TypeOKClosers'
    BY <1>39, <2>2, <2>3, <2>4, <2>5 DEF TypeOKClosers, Each
  <2>11. TypeOKLink'
    BY <1>39 DEF TypeOKLink, Each
  <2>12. TypeOKDevice'
    BY <1>39 DEF TypeOKDevice, Each
  <2>. QED BY <2>6, <2>7, <2>8, <2>9, <2>10, <2>11, <2>12
<1>40. ASSUME NEW a \in Closers, MarkClosed(a)  PROVE TypeOK'
  <2>1. TypeOKHost'
    BY <1>40 DEF TypeOKHost, MarkClosed
  <2>2. TypeOKCalls'
    BY <1>40 DEF TypeOKCalls, PcStates, LifeStates, MarkClosed
  <2>3. TypeOKQueues'
    BY <1>40 DEF TypeOKQueues, MarkClosed
  <2>4. TypeOKCounts'
    BY <1>40 DEF TypeOKCounts, MarkClosed
  <2>5. TypeOKClosers'
    BY <1>40 DEF TypeOKClosers, Closers, CloserStates, MarkClosed
  <2>6. TypeOKLink'
    BY <1>40 DEF TypeOKLink, MarkClosed
  <2>7. TypeOKDevice'
    BY <1>40 DEF TypeOKDevice, MarkClosed
  <2>. QED BY <2>1, <2>2, <2>3, <2>4, <2>5, <2>6, <2>7
<1>41. ASSUME NEW a \in Closers, TakeAndWake(a)  PROVE TypeOK'
  <2>1. TypeOKHost'
    BY <1>41 DEF TypeOKHost, TakeAndWake
  <2>2. TypeOKCalls'
    BY <1>41 DEF TypeOKCalls, PcStates, LifeStates, TakeAndWake
  <2>3. TypeOKQueues'
    BY <1>41 DEF TypeOKQueues, TakeAndWake
  <2>4. TypeOKCounts'
    BY <1>41 DEF TypeOKCounts, TakeAndWake
  <2>5. TypeOKClosers'
    BY <1>41 DEF TypeOKClosers, Closers, CloserStates, TakeAndWake
  <2>6. TypeOKLink'
    BY <1>41 DEF TypeOKLink, TakeAndWake
  <2>7. TypeOKDevice'
    BY <1>41 DEF TypeOKDevice, TakeAndWake
  <2>. QED BY <2>1, <2>2, <2>3, <2>4, <2>5, <2>6, <2>7
<1>42. ASSUME NEW r \in RemoteIds, DevOutput(r)  PROVE TypeOK'
  <2>1. d2h' \in Seq(DeviceMessages)
    BY <1>42, DeviceSendsTyped, RemoteIdsAssumption
    DEF DevOutput, TypeOKLink, TypeOKDevice, Commands
  <2>2. TypeOKHost'
    BY <1>42 DEF TypeOKHost, DevOutput
  <2>3. TypeOKCalls'
    BY <1>42 DEF TypeOKCalls, PcStates, LifeStates, DevOutput
  <2>4. TypeOKQueues'
    BY <1>42 DEF TypeOKQueues, DevOutput
  <2>5. TypeOKCounts'
    BY <1>42 DEF TypeOKCounts, DevOutput
  <2>6. TypeOKClosers'
    BY <1>42 DEF TypeOKClosers, Closers, CloserStates, DevOutput
  <2>7. TypeOKLink'
    BY <1>42, <2>1 DEF TypeOKLink, DevOutput
  <2>8. TypeOKDevice'
    BY <1>42 DEF TypeOKDevice, DevOutput
  <2>. QED BY <2>2, <2>3, <2>4, <2>5, <2>6, <2>7, <2>8
<1>43. ASSUME NEW r \in RemoteIds, DevFinish(r)  PROVE TypeOK'
  <2>1. d2h' \in Seq(DeviceMessages)
    BY <1>43, DeviceSendsTyped, RemoteIdsAssumption
    DEF DevFinish, TypeOKLink, TypeOKDevice, Commands
  <2>2. TypeOKHost'
    BY <1>43 DEF TypeOKHost, DevFinish
  <2>3. TypeOKCalls'
    BY <1>43 DEF TypeOKCalls, PcStates, LifeStates, DevFinish
  <2>4. TypeOKQueues'
    BY <1>43 DEF TypeOKQueues, DevFinish
  <2>5. TypeOKCounts'
    BY <1>43 DEF TypeOKCounts, DevFinish
  <2>6. TypeOKClosers'
    BY <1>43 DEF TypeOKClosers, Closers, CloserStates, DevFinish
  <2>7. TypeOKLink'
    BY <1>43, <2>1 DEF TypeOKLink, DevFinish
  <2>8. TypeOKDevice'
    BY <1>43 DEF TypeOKDevice, DevFinish
  <2>. QED BY <2>2, <2>3, <2>4, <2>5, <2>6, <2>7, <2>8
<1>44. ASSUME NEW cmd \in Strays, DevStray(cmd)  PROVE TypeOK'
  <2>1. cmd \in Commands /\ 0 \in LocalIds
    BY EnvironmentAssumption, IdSpaceAssumption DEF Commands, LocalIds
  <2>2. d2h' \in Seq(DeviceMessages)
    BY <1>44, <2>1, DeviceSendsTyped DEF DevStray, TypeOKLink
  <2>3. TypeOKHost'
    BY <1>44 DEF TypeOKHost, DevStray
  <2>4. TypeOKCalls'
    BY <1>44 DEF TypeOKCalls, PcStates, LifeStates, DevStray
  <2>5. TypeOKQueues'
    BY <1>44 DEF TypeOKQueues, DevStray
  <2>6. TypeOKCounts'
    BY <1>44 DEF TypeOKCounts, DevStray
  <2>7. TypeOKClosers'
    BY <1>44 DEF TypeOKClosers, Closers, CloserStates, DevStray
  <2>8. TypeOKLink'
    BY <1>44, <2>2 DEF TypeOKLink, DevStray
  <2>9. TypeOKDevice'
    BY <1>44 DEF TypeOKDevice, DevStray
  <2>. QED BY <2>3, <2>4, <2>5, <2>6, <2>7, <2>8, <2>9
<1>45. CASE UNCHANGED vars
  BY <1>45 DEF vars, TypeOKHost, TypeOKCalls, TypeOKQueues, TypeOKCounts,
              TypeOKClosers, TypeOKLink, TypeOKDevice
<1>. QED
  BY <1>1, <1>2, <1>3, <1>4, <1>5, <1>6, <1>7, <1>8, <1>9, <1>10, <1>11,
     <1>12, <1>13, <1>14, <1>15, <1>16, <1>17, <1>18, <1>19, <1>20,
     <1>21, <1>22, <1>23, <1>24, <1>25, <1>26, <1>27, <1>28, <1>29,
     <1>30, <1>31, <1>32, <1>33, <1>34, <1>35, <1>36, <1>37, <1>38,
     <1>39, <1>40, <1>41, <1>42, <1>43, <1>44, <1>45
     DEF Next, Owner, OwnerStep, OwnerChoice, ReaderTask, SessionThread,
         WriterTask, Device, DeviceReceives, CloseAll, Closers

LEMMA TypeInit == Init => TypeOK
<1>. SUFFICES ASSUME Init PROVE TypeOK
  OBVIOUS
<1>. USE DEF Init
<1>1. TypeOKHost
  BY IdSpaceAssumption, StreamsAssumption DEF TypeOKHost, LocalIds
<1>2. TypeOKCalls /\ TypeOKQueues /\ TypeOKCounts
  BY DEF TypeOKCalls, TypeOKQueues, TypeOKCounts, PcStates, LifeStates
<1>3. TypeOKClosers
  BY DEF TypeOKClosers, Closers, CloserStates
<1>4. TypeOKLink
  BY DEF TypeOKLink
<1>5. devNext \in Nat \ {0}
  BY RemoteIdsAssumption
<1>6. 0 \in LocalIds
  BY IdSpaceAssumption DEF LocalIds
<1>7. TypeOKDevice
  BY <1>5, <1>6 DEF TypeOKDevice
<1>. QED
  BY <1>1, <1>2, <1>3, <1>4, <1>7 DEF TypeOK

(* Every reachable state of a session is well typed: in particular a task   *)
(* that has taken a stream off the registry still holds it, every id the    *)
(* host sends or receives as its own is a u32 of next_id, and what is left  *)
(* of a buffer in send never drops below zero.                              *)
THEOREM TypeCorrect == Spec => []TypeOK
<1>. QED
  BY TypeInit, TypeStep, PTL DEF Spec

-----------------------------------------------------------------------------
(* One unacknowledged write *)

Waiting == {"acks", "closed", "park"}

(* The inductive invariant behind OneWriteInFlight.  Between two writes     *)
(* every one is acknowledged, unless the stream is closed and no other will *)
(* follow; from the load of acks to the end of the wait, the number loaded  *)
(* bounds the writes.                                                       *)
Window(s) ==
    /\ pc[s] \in {"post_open", "refuse"} => life[s] = "opening"
    /\ life[s] \in {"unborn", "opening"} =>
          writes[s] = 0 /\ pc[s] \in Waiting \cup {"idle", "post_open", "refuse"}
    /\ life[s] = "open" =>
          /\ writes[s] <= acks[s]
          /\ pc[s] \in Waiting => writes[s] <= seen[s]
          /\ pc[s] = "post_write" => writes[s] < seen[s]
          /\ pc[s] \in Waiting \cup {"post_write"} => seen[s] <= acks[s]
          /\ pc[s] \notin Waiting \cup {"post_write"} => writes[s] < acks[s] \/ closed[s]

(* A step that leaves the calls on s alone can only count an OKAY or close. *)
LEMMA WindowFrame ==
    ASSUME NEW s \in Streams, TypeOK, TypeOK', Window(s),
           pc'[s] = pc[s], life'[s] = life[s], writes'[s] = writes[s],
           seen'[s] = seen[s], closed[s] => closed'[s], acks[s] <= acks'[s]
    PROVE  Window(s)'
BY DEF Window, Waiting, TypeOK, TypeOKHost, TypeOKCounts

(* The owner's own steps. *)
LEMMA WindowOwner ==
    ASSUME ~CancelSends, TypeOK, TypeOK', NEW s \in Streams, Window(s), Owner(s)
    PROVE  Window(s)'
<1>. USE DEF Window, Waiting, TypeOK, TypeOKHost, TypeOKCalls, TypeOKCounts,
             registryVars, stateVars, recvVars, sendVars, Notified
<1>1. CASE Register(s)
  BY <1>1 DEF Register
<1>2. CASE PostOpen(s)
  BY <1>2 DEF PostOpen
<1>3. CASE Refuse(s)
  BY <1>3 DEF Refuse
<1>4. CASE Acked(s)
  BY <1>4 DEF Acked, AckArrived
<1>5. CASE NotAcked(s)
  BY <1>5 DEF NotAcked
<1>6. CASE WaitFails(s)
  BY <1>6 DEF WaitFails
<1>7. CASE WaitOn(s)
  BY <1>7 DEF WaitOn
<1>8. CASE Woken(s)
  BY <1>8 DEF Woken
<1>9. CASE CancelOpen(s)
  BY <1>9 DEF CancelOpen
<1>10. CASE CancelSend(s)
  BY <1>10 DEF CancelSend
<1>11. CASE \E n \in SendLens : BeginSend(s, n)
  BY <1>11 DEF BeginSend
<1>12. CASE WriteIds(s)
  BY <1>12 DEF WriteIds, SeenBefore
<1>13. CASE PostWrite(s)
  BY <1>13 DEF PostWrite
<1>14. CASE RecvTake(s)
  BY <1>14 DEF RecvTake
<1>15. CASE RecvOkay(s) \/ RecvEnd(s)
  BY <1>15 DEF RecvOkay, RecvEnd
<1>16. CASE BeginClose(s) \/ CloseMark(s)
  BY <1>16 DEF BeginClose, CloseMark
<1>17. CASE CloseRemove(s)
  BY <1>17 DEF CloseRemove
<1>18. CASE ClosePost(s)
  BY <1>18 DEF ClosePost
<1>19. CASE DropStream(s)
  BY <1>19 DEF DropStream
<1>. QED
  BY <1>1, <1>2, <1>3, <1>4, <1>5, <1>6, <1>7, <1>8, <1>9, <1>10, <1>11, <1>12,
     <1>13, <1>14, <1>15, <1>16, <1>17, <1>18, <1>19 DEF Owner, OwnerStep, OwnerChoice

(* What an owner's step leaves of another stream. *)
OthersKept(t) ==
    /\ pc'[t] = pc[t] /\ life'[t] = life[t] /\ writes'[t] = writes[t]
    /\ seen'[t] = seen[t] /\ closed'[t] = closed[t] /\ acks'[t] = acks[t]
    /\ permit'[t] = permit[t]

LEMMA OwnerKeepsOthers ==
    ASSUME TypeOK, NEW s \in Streams, NEW t \in Streams, s # t, Owner(s)
    PROVE  OthersKept(t)
<1>. USE DEF OthersKept, TypeOK, TypeOKHost, TypeOKCalls, TypeOKCounts,
             registryVars, stateVars, recvVars, sendVars, Notified
<1>1. CASE Register(s) \/ PostOpen(s) \/ Refuse(s)
  BY <1>1 DEF Register, PostOpen, Refuse
<1>2. CASE Acked(s) \/ NotAcked(s)
  BY <1>2 DEF Acked, NotAcked
<1>3. CASE WaitFails(s) \/ WaitOn(s) \/ Woken(s)
  BY <1>3 DEF WaitFails, WaitOn, Woken
<1>4. CASE CancelOpen(s) \/ CancelSend(s)
  BY <1>4 DEF CancelOpen, CancelSend
<1>5. CASE (\E n \in SendLens : BeginSend(s, n)) \/ WriteIds(s)
  BY <1>5 DEF BeginSend, WriteIds
<1>6. CASE PostWrite(s)
  BY <1>6 DEF PostWrite
<1>7. CASE RecvTake(s) \/ RecvOkay(s) \/ RecvEnd(s)
  BY <1>7 DEF RecvTake, RecvOkay, RecvEnd
<1>8. CASE BeginClose(s) \/ CloseMark(s) \/ CloseRemove(s)
  BY <1>8 DEF BeginClose, CloseMark, CloseRemove
<1>9. CASE ClosePost(s) \/ DropStream(s)
  BY <1>9 DEF ClosePost, DropStream
<1>. QED
  BY <1>1, <1>2, <1>3, <1>4, <1>5, <1>6, <1>7, <1>8, <1>9
  DEF Owner, OwnerStep, OwnerChoice

(* The tasks, the link and the device run no call of an owner; to a stream  *)
(* they can only add an acknowledgement, a closing or a permit.             *)
LEMMA TasksKeepCalls ==
    ASSUME TypeOK, NEW t \in Streams,
           ReaderTask \/ SessionThread \/ WriterTask \/ LinkDown \/ Device
    PROVE  /\ pc'[t] = pc[t] /\ life'[t] = life[t] /\ writes'[t] = writes[t]
           /\ seen'[t] = seen[t]
           /\ closed[t] => closed'[t]
           /\ acks[t] <= acks'[t]
           /\ permit[t] => permit'[t]
<1>. USE DEF TypeOK, TypeOKHost, TypeOKCounts, registryVars, stateVars, recvVars,
             sendVars, ownerVars, closerVars, deviceVars, streamVars, taskVars,
             Notified
<1>1. CASE ReaderOkay \/ AckCount \/ AckWake
  BY <1>1 DEF ReaderOkay, AckCount, AckWake, TypeOKClosers, Closers
<1>2. CASE ReaderWrite \/ ReaderClose \/ ReaderStray \/ ReaderFails \/ ReaderAborts
  BY <1>2 DEF ReaderWrite, ReaderClose, ReaderStray, ReaderFails, ReaderAborts
<1>3. CASE BeginSessionClose \/ (\E a \in Closers : CloseAll(a))
  BY <1>3 DEF BeginSessionClose, CloseAll, Drain, Each, MarkClosed, TakeAndWake
<1>4. CASE WriterTask \/ LinkDown
  BY <1>4 DEF WriterTask, WriterSends, WriterAborts, LinkDown
<1>5. CASE Device
  BY <1>5 DEF Device, DeviceReceives, DevOpen, DevWrite, DevOkay, DevClose,
              DevOutput, DevFinish, DevStray
<1>. QED
  BY <1>1, <1>2, <1>3, <1>4, <1>5 DEF ReaderTask, SessionThread, Closers

WindowInv == TypeOK /\ \A s \in Streams : Window(s)

LEMMA WindowStep ==
    ASSUME ~CancelSends, WindowInv, [Next]_vars
    PROVE  WindowInv'
<1>1. TypeOK /\ TypeOK'
  BY TypeStep DEF WindowInv
<1>2. SUFFICES ASSUME NEW t \in Streams PROVE Window(t)'
  BY <1>1 DEF WindowInv
<1>3. Window(t)
  BY DEF WindowInv
<1>4. ASSUME NEW s \in Streams, Owner(s) PROVE Window(t)'
  <2>1. CASE s = t
    BY <1>1, <1>3, <1>4, <2>1, WindowOwner
  <2>2. CASE s # t
    <3>1. OthersKept(t)
      BY <1>1, <1>4, <2>2, OwnerKeepsOthers
    <3>2. acks[t] \in Nat
      BY <1>1 DEF TypeOK, TypeOKHost
    <3>. QED
      BY <1>1, <1>3, <3>1, <3>2, WindowFrame DEF OthersKept
  <2>. QED
    BY <2>1, <2>2
<1>5. CASE ReaderTask \/ SessionThread \/ WriterTask \/ LinkDown \/ Device
  BY <1>1, <1>3, <1>5, TasksKeepCalls, WindowFrame
<1>6. CASE UNCHANGED vars
  <2>1. acks[t] \in Nat
    BY <1>1 DEF TypeOK, TypeOKHost
  <2>. QED
    BY <1>1, <1>3, <1>6, <2>1, WindowFrame
    DEF vars, streamVars, stateVars, ownerVars, sendVars
<1>. QED
  BY <1>4, <1>5, <1>6 DEF Next

(* While no caller drops the future of a send, a stream never has more than *)
(* one WRTE without its OKAY, whatever the link, the device and the other   *)
(* streams do: send's wait_ack counts the acknowledgements it was promised  *)
(* by stream.rs:16.                                                         *)
THEOREM WriteWindow ==
    ASSUME ~CancelSends
    PROVE  Spec => []OneWriteInFlight
<1>1. Init => WindowInv
  BY TypeInit DEF Init, WindowInv, Window, Waiting
<1>2. WindowInv /\ [Next]_vars => WindowInv'
  BY WindowStep
<1>3. WindowInv => OneWriteInFlight
  BY DEF WindowInv, Window, OneWriteInFlight
<1>. QED
  BY <1>1, <1>2, <1>3, PTL DEF Spec

-----------------------------------------------------------------------------
(* No lost wake-up *)

Awake(s) ==
    /\ pc[s] \in {"closed", "park"} /\ acks[s] > seen[s] => permit[s] \/ WakeDue(s)
    /\ pc[s] = "park" /\ closed[s] => permit[s] \/ WakeDue(s)

(* The owner of s consumes a permit only to load acks again, and begins to  *)
(* wait only on a stream it has just found open.                            *)
LEMMA AwakeOwner ==
    ASSUME TypeOK, TypeOK', NEW s \in Streams, Awake(s), Owner(s)
    PROVE  Awake(s)'
<1>. USE DEF Awake, WakeDue, TypeOK, TypeOKHost, TypeOKCalls, TypeOKCounts,
             registryVars, stateVars, recvVars, sendVars, closerVars, taskVars,
             Notified
<1>1. CASE Register(s) \/ PostOpen(s) \/ Refuse(s)
  BY <1>1 DEF Register, PostOpen, Refuse
<1>2. CASE Acked(s)
  BY <1>2 DEF Acked
<1>3. CASE NotAcked(s)
  BY <1>3 DEF NotAcked, AckArrived
<1>4. CASE WaitFails(s)
  BY <1>4 DEF WaitFails
<1>5. CASE WaitOn(s)
  BY <1>5 DEF WaitOn
<1>6. CASE Woken(s)
  BY <1>6 DEF Woken
<1>7. CASE CancelOpen(s) \/ CancelSend(s)
  BY <1>7 DEF CancelOpen, CancelSend
<1>8. CASE (\E n \in SendLens : BeginSend(s, n)) \/ WriteIds(s)
  BY <1>8 DEF BeginSend, WriteIds
<1>9. CASE PostWrite(s)
  BY <1>9 DEF PostWrite
<1>10. CASE RecvTake(s)
  BY <1>10 DEF RecvTake
<1>11. CASE RecvOkay(s) \/ RecvEnd(s)
  BY <1>11 DEF RecvOkay, RecvEnd
<1>12. CASE BeginClose(s) \/ CloseMark(s)
  BY <1>12 DEF BeginClose, CloseMark
<1>13. CASE CloseRemove(s) \/ ClosePost(s) \/ DropStream(s)
  BY <1>13 DEF CloseRemove, ClosePost, DropStream
<1>. QED
  BY <1>1, <1>2, <1>3, <1>4, <1>5, <1>6, <1>7, <1>8, <1>9, <1>10, <1>11, <1>12,
     <1>13 DEF Owner, OwnerStep, OwnerChoice

LEMMA OwnerKeepsClosers ==
    ASSUME NEW s \in Streams, Owner(s)
    PROVE  cur' = cur /\ apc' = apc
BY DEF Owner, OwnerStep, OwnerChoice, Register, PostOpen, Refuse, Acked, NotAcked,
       WaitFails, WaitOn, Woken, CancelOpen, CancelSend, BeginSend, WriteIds,
       PostWrite, RecvTake, RecvOkay, RecvEnd, BeginClose, CloseMark, CloseRemove,
       ClosePost, DropStream, closerVars, taskVars

(* What the reader and the closers do to a stream they are waking: a store  *)
(* of acks or closed makes the wake-up due, and a wake-up that was due is   *)
(* still due or has left its permit.                                        *)
LEMMA TasksWake ==
    ASSUME TypeOK, NEW t \in Streams,
           ReaderTask \/ SessionThread \/ WriterTask \/ LinkDown \/ Device
    PROVE  /\ WakeDue(t) => permit'[t] \/ WakeDue(t)'
           /\ acks'[t] # acks[t] \/ closed'[t] # closed[t]
                 => permit'[t] \/ WakeDue(t)'
<1>. USE DEF WakeDue, TypeOK, TypeOKHost, TypeOKClosers, Closers, registryVars,
             stateVars, recvVars, sendVars, ownerVars, closerVars, deviceVars,
             streamVars, taskVars, Notified
<1>1. CASE ReaderOkay
  BY <1>1 DEF ReaderOkay, Recv
<1>2. CASE AckCount
  BY <1>2 DEF AckCount
<1>3. CASE AckWake
  BY <1>3 DEF AckWake
<1>4. CASE ReaderWrite
  BY <1>4 DEF ReaderWrite, Recv
<1>5. CASE ReaderClose
  BY <1>5 DEF ReaderClose, Recv
<1>6. CASE ReaderStray \/ ReaderFails \/ ReaderAborts
  BY <1>6 DEF ReaderStray, ReaderFails, ReaderAborts, Recv
<1>7. CASE BeginSessionClose
  BY <1>7 DEF BeginSessionClose
<1>8. ASSUME NEW a \in Closers, Drain(a) \/ Each(a)
      PROVE  /\ WakeDue(t) => permit'[t] \/ WakeDue(t)'
             /\ acks'[t] # acks[t] \/ closed'[t] # closed[t]
                   => permit'[t] \/ WakeDue(t)'
  BY <1>8 DEF Drain, Each
<1>9. ASSUME NEW a \in Closers, MarkClosed(a)
      PROVE  /\ WakeDue(t) => permit'[t] \/ WakeDue(t)'
             /\ acks'[t] # acks[t] \/ closed'[t] # closed[t]
                   => permit'[t] \/ WakeDue(t)'
  BY <1>9 DEF MarkClosed
<1>10. ASSUME NEW a \in Closers, TakeAndWake(a)
       PROVE  /\ WakeDue(t) => permit'[t] \/ WakeDue(t)'
              /\ acks'[t] # acks[t] \/ closed'[t] # closed[t]
                    => permit'[t] \/ WakeDue(t)'
  BY <1>10 DEF TakeAndWake
<1>11. CASE WriterTask \/ LinkDown
  BY <1>11 DEF WriterTask, WriterSends, WriterAborts, LinkDown
<1>12. CASE Device
  BY <1>12 DEF Device, DeviceReceives, DevOpen, DevWrite, DevOkay, DevClose,
               DevOutput, DevFinish, DevStray
<1>. QED
  BY <1>1, <1>2, <1>3, <1>4, <1>5, <1>6, <1>7, <1>8, <1>9, <1>10, <1>11, <1>12
  DEF ReaderTask, SessionThread, CloseAll

AwakeInv == TypeOK /\ \A s \in Streams : Awake(s)

LEMMA AwakeStep ==
    ASSUME AwakeInv, [Next]_vars
    PROVE  AwakeInv'
<1>1. TypeOK /\ TypeOK'
  BY TypeStep DEF AwakeInv
<1>2. SUFFICES ASSUME NEW t \in Streams PROVE Awake(t)'
  BY <1>1 DEF AwakeInv
<1>3. Awake(t)
  BY DEF AwakeInv
<1>4. ASSUME NEW s \in Streams, Owner(s) PROVE Awake(t)'
  <2>1. CASE s = t
    BY <1>1, <1>3, <1>4, <2>1, AwakeOwner
  <2>2. CASE s # t
    BY <1>1, <1>3, <1>4, <2>2, OwnerKeepsOthers, OwnerKeepsClosers
    DEF OthersKept, Awake, WakeDue
  <2>. QED
    BY <2>1, <2>2
<1>5. CASE ReaderTask \/ SessionThread \/ WriterTask \/ LinkDown \/ Device
  BY <1>1, <1>3, <1>5, TasksKeepCalls, TasksWake DEF Awake
<1>6. CASE UNCHANGED vars
  BY <1>3, <1>6 DEF Awake, WakeDue, vars, streamVars, taskVars, stateVars,
                    ownerVars, sendVars, closerVars
<1>. QED
  BY <1>4, <1>5, <1>6 DEF Next

(* No owner sleeps through what it waits for, in any interleaving of any    *)
(* number of streams, closers, cancellations and failures: wait_ack may     *)
(* look at acks and closed before it waits because Notify keeps a permit.   *)
THEOREM WakeupsArrive == Spec => []NoLostWakeup
<1>1. Init => AwakeInv
  BY TypeInit DEF Init, AwakeInv, Awake
<1>2. AwakeInv /\ [Next]_vars => AwakeInv'
  BY AwakeStep
<1>3. AwakeInv => NoLostWakeup
  BY DEF AwakeInv, Awake, NoLostWakeup
<1>. QED
  BY <1>1, <1>2, <1>3, PTL DEF Spec

-----------------------------------------------------------------------------
(* The local ids of the registry, the streams they lead to, and the         *)
(* services of the device at the other end.  What follows holds for as long *)
(* as the ids do not come round: it assumes IdsSuffice, which 2^32 - 1      *)
(* calls of open_stream in one session satisfy (beyond it, registry.rs:118  *)
(* may hand out an id in use, and Reachable is false).                      *)

IdsSuffice == IsFiniteSet(Streams) /\ Cardinality(Streams) < IdSpace

-----------------------------------------------------------------------------
(* The inductive invariants *)

Born == {s \in Streams : life[s] # "unborn"}

(* The ids 1 .. IdSpace - 1 are handed out in turn, from the first one on,  *)
(* past the end and past zero.                                              *)
FirstFresh == IF FirstId = 0 THEN 1 ELSE FirstId
Turn(i) == IF i >= FirstFresh THEN i - FirstFresh ELSE i - FirstFresh + (IdSpace - 1)

(* Every stream was given a turn of its own, the next one is next, and the  *)
(* map leads from an id to the stream it was given to.                      *)
Allocated ==
    /\ \A s \in Born : localId[s] # 0 /\ Turn(localId[s]) < Cardinality(Born)
    /\ \A s, t \in Born : localId[s] = localId[t] => s = t
    /\ Cardinality(Born) < IdSpace - 1 => Turn(FreshId) = Cardinality(Born)
    /\ \A i \in LocalIds : registry[i] # NoStream =>
          registry[i] \in Born /\ localId[registry[i]] = i

(* Where in its life a stream is, by the call its owner is in. *)
Phase(s) ==
    /\ pc[s] \in {"post_open", "refuse"} => life[s] = "opening"
    /\ life[s] = "opening" => pc[s] \in Waiting \cup {"post_open", "refuse"}
    /\ pc[s] \in Waiting => life[s] \in {"opening", "open"}
    /\ pc[s] = "ids" => life[s] \in {"open", "closed"}
    /\ pc[s] \in {"post_write", "okay", "close_mark", "close_remove", "close_post"}
          => life[s] = "open"
    /\ pc[s] \in {"close_remove", "close_post"} => closed[s]
    /\ life[s] \in {"closed", "dropped"} => closed[s]
    /\ life[s] \in {"open", "closed", "dropped"} => remoteId[s] # 0
    /\ life[s] \notin {"opening", "open", "closed"} => pc[s] = "idle"

(* A closer or the reader has taken s out of the map and will close it. *)
Doomed(s) == \E a \in Closers : s \in todo[a] \/ (cur[a] = s /\ apc[a] = "mark")

(* close_all is run once by each thread, by the reader only after an error. *)
ClosesOnce ==
    /\ \A a \in Closers : todo[a] # {} => apc[a] \in {"each", "mark", "take"}
    /\ apc["reader"] \in {"drain", "each"} \/ todo["reader"] # {} => readerErr

Reach(s) ==
    life[s] \in {"opening", "open", "orphan"} /\ ~closed[s] /\ pc[s] # "refuse"
        => registry[localId[s]] = s \/ Doomed(s)

Phases == \A s \in Streams : Phase(s)

RoutingInv == /\ TypeOK /\ Allocated /\ Phases /\ ClosesOnce
              /\ \A s \in Streams : Reach(s)

-----------------------------------------------------------------------------
(* The far end *)

(* All that the host has sent and the device has not read. *)
Upward == h2d \o outbox

Started(r) == devSt[r] # "free"

(* The service of r was started for the stream of s. *)
Serves(r, s) == Started(r) /\ s \in Born /\ localId[s] = devHost[r]

FromService(m) == m.arg0 \in RemoteIds /\ Started(m.arg0) /\ m.arg1 = devHost[m.arg0]
HasPosted(i) == \E s \in Born : localId[s] = i /\ pc[s] # "post_open"

Opens(i, m) == m.cmd = "OPEN" /\ m.arg0 = i

LinkIsEmpty == link = "down" => h2d = <<>>

ServicesKnown == \A r \in RemoteIds : Started(r) => r < devNext /\ HasPosted(devHost[r])

(* An OPEN on its way is the only one of its stream, and nothing was        *)
(* started for it.                                                          *)
OpensPending ==
    \A k \in DOMAIN Upward : Upward[k].cmd = "OPEN" =>
        /\ HasPosted(Upward[k].arg0)
        /\ \A r \in RemoteIds : Started(r) => devHost[r] # Upward[k].arg0
        /\ \A j \in DOMAIN Upward : Opens(Upward[k].arg0, Upward[j]) => j = k

(* A service is started once, for the stream whose OPEN the device has read.*)
ServicesApart ==
    \A r, q \in RemoteIds :
        Started(r) /\ Started(q) /\ devHost[r] = devHost[q] => r = q

(* A message of a service is addressed to its stream, so that the id the    *)
(* stream learns from it is that of its service.                            *)
MessagesMatch ==
    \A k \in DOMAIN d2h : d2h[k].cmd \in {"OKAY", "WRTE"} => FromService(d2h[k])

RemotesMatch ==
    \A s \in Streams : remoteId[s] # 0 =>
        remoteId[s] \in RemoteIds /\ Serves(remoteId[s], s)

Peers == /\ LinkIsEmpty /\ ServicesKnown /\ OpensPending /\ ServicesApart
         /\ MessagesMatch /\ RemotesMatch

PeersInv == RoutingInv /\ Peers

-----------------------------------------------------------------------------
(* Ids *)

LEMMA FirstFreshTyped == FirstFresh \in LocalIds \ {0}
BY IdSpaceAssumption DEF FirstFresh, LocalIds

LEMMA TurnTyped ==
    ASSUME NEW i \in LocalIds \ {0}
    PROVE  Turn(i) \in 0 .. IdSpace - 2
BY FirstFreshTyped, IdSpaceAssumption DEF Turn, LocalIds

(* No two ids share a turn. *)
LEMMA TurnInjective ==
    ASSUME NEW i \in LocalIds \ {0}, NEW j \in LocalIds \ {0}, Turn(i) = Turn(j)
    PROVE  i = j
BY FirstFreshTyped, IdSpaceAssumption DEF Turn, LocalIds

(* fetch_add wraps at the end of the u32s. *)
LEMMA NextIdWraps ==
    ASSUME nextId \in LocalIds
    PROVE  NextId = IF FreshId + 1 = IdSpace THEN 0 ELSE FreshId + 1
BY IdSpaceAssumption DEF NextId, FreshId, LocalIds

LEMMA FreshIdNotZero ==
    ASSUME nextId \in LocalIds
    PROVE  FreshId \in LocalIds \ {0}
BY IdSpaceAssumption DEF FreshId, LocalIds

(* After Register the id that is next has the next turn, until all have     *)
(* had theirs.                                                              *)
LEMMA NextTurn ==
    ASSUME nextId \in LocalIds, nextId' = NextId, Turn(FreshId) < IdSpace - 2
    PROVE  Turn(FreshId') = Turn(FreshId) + 1
<1>1. FreshId \in LocalIds \ {0}
  BY FreshIdNotZero
<1>2. FreshId' = IF NextId = 0 THEN 1 ELSE NextId
  BY DEF FreshId
<1>3. FreshId' = IF FreshId + 1 = IdSpace THEN 1 ELSE FreshId + 1
  <2>1. NextId = IF FreshId + 1 = IdSpace THEN 0 ELSE FreshId + 1
    BY NextIdWraps
  <2>. QED
    BY <1>1, <1>2, <2>1 DEF LocalIds
<1>. QED
  BY <1>1, <1>3, FirstFreshTyped, IdSpaceAssumption DEF Turn, LocalIds

(* While a stream is unborn there is an id left for it. *)
LEMMA RoomLeft ==
    ASSUME IdsSuffice, NEW s \in Streams, life[s] = "unborn"
    PROVE  /\ Cardinality(Born) \in Nat /\ Cardinality(Born) < IdSpace - 1
           /\ Cardinality(Born \cup {s}) = Cardinality(Born) + 1
<1>1. IsFiniteSet(Born) /\ s \notin Born /\ Born \cup {s} \subseteq Streams
  BY FS_Subset DEF IdsSuffice, Born
<1>2. /\ Cardinality(Born) \in Nat
      /\ Cardinality(Born \cup {s}) = Cardinality(Born) + 1
  BY <1>1, FS_AddElement, FS_CardinalityType
<1>3. Cardinality(Born \cup {s}) <= Cardinality(Streams) /\ Cardinality(Streams) \in Nat
  BY <1>1, FS_Subset, FS_CardinalityType DEF IdsSuffice
<1>. QED
  BY <1>2, <1>3, IdSpaceAssumption DEF IdsSuffice

-----------------------------------------------------------------------------
(* The registry *)

(* What every step but Register leaves: the streams with their ids, and of  *)
(* the map all that it has not taken out.                                   *)
RegistryKept ==
    /\ nextId' = nextId /\ localId' = localId /\ Born' = Born
    /\ \A i \in LocalIds : registry'[i] \in {registry[i], NoStream}

LEMMA RegistryStep ==
    ASSUME TypeOK, Phases, [Next]_vars
    PROVE  RegistryKept \/ \E s \in Streams : Register(s)
<1>. USE DEF TypeOK, TypeOKHost, TypeOKCalls, TypeOKClosers, RegistryKept, Born,
             registryVars, stateVars, recvVars, sendVars, ownerVars, closerVars,
             streamVars, taskVars
<1>1. ASSUME NEW s \in Streams, PostOpen(s) \/ Refuse(s) PROVE RegistryKept
  BY <1>1 DEF PostOpen, Refuse, Phases, Phase
<1>2. ASSUME NEW s \in Streams, Acked(s) \/ NotAcked(s) \/ WaitFails(s) \/ WaitOn(s) \/ Woken(s)
      PROVE  RegistryKept
  BY <1>2 DEF Acked, NotAcked, WaitFails, WaitOn, Woken
<1>3. ASSUME NEW s \in Streams, CancelOpen(s) \/ CancelSend(s) PROVE RegistryKept
  BY <1>3 DEF CancelOpen, CancelSend
<1>4. ASSUME NEW s \in Streams, (\E n \in SendLens : BeginSend(s, n)) \/ WriteIds(s) \/ PostWrite(s)
      PROVE  RegistryKept
  BY <1>4 DEF BeginSend, WriteIds, PostWrite
<1>5. ASSUME NEW s \in Streams, RecvTake(s) \/ RecvOkay(s) \/ RecvEnd(s) PROVE RegistryKept
  BY <1>5 DEF RecvTake, RecvOkay, RecvEnd
<1>6. ASSUME NEW s \in Streams,
             BeginClose(s) \/ CloseMark(s) \/ CloseRemove(s) \/ ClosePost(s) \/ DropStream(s)
      PROVE  RegistryKept
  BY <1>6 DEF BeginClose, CloseMark, CloseRemove, ClosePost, DropStream, Phases, Phase
<1>7. CASE ReaderOkay \/ AckCount \/ AckWake \/ ReaderWrite
  BY <1>7 DEF ReaderOkay, AckCount, AckWake, ReaderWrite
<1>8. CASE ReaderClose
  BY <1>8 DEF ReaderClose
<1>9. CASE ReaderStray \/ ReaderFails \/ ReaderAborts \/ BeginSessionClose
  BY <1>9 DEF ReaderStray, ReaderFails, ReaderAborts, BeginSessionClose
<1>10. ASSUME NEW a \in Closers, CloseAll(a) PROVE RegistryKept
  BY <1>10 DEF CloseAll, Drain, Each, MarkClosed, TakeAndWake
<1>11. CASE WriterTask \/ LinkDown
  BY <1>11 DEF WriterTask, WriterSends, WriterAborts, LinkDown
<1>12. CASE Device
  BY <1>12 DEF Device, DeviceReceives, DevOpen, DevWrite, DevOkay, DevClose,
               DevOutput, DevFinish, DevStray
<1>13. CASE UNCHANGED vars
  BY <1>13 DEF vars
<1>. QED
  BY <1>1, <1>2, <1>3, <1>4, <1>5, <1>6, <1>7, <1>8, <1>9, <1>10, <1>11, <1>12, <1>13
  DEF Next, Owner, OwnerStep, OwnerChoice, ReaderTask, SessionThread, Closers

(* The id given next is no born stream's. *)
LEMMA FreshIdFree ==
    ASSUME IdsSuffice, TypeOK, Allocated, NEW s \in Streams, life[s] = "unborn"
    PROVE  \A t \in Born : localId[t] # FreshId
<1>1. FreshId \in LocalIds \ {0}
  BY FreshIdNotZero DEF TypeOK, TypeOKHost
<1>2. Turn(FreshId) = Cardinality(Born) /\ Cardinality(Born) \in Nat
  BY RoomLeft DEF Allocated
<1>. QED
  BY <1>1, <1>2 DEF Allocated

(* Registering s makes it born, with an id and a turn of its own. *)
LEMMA RegisterAllocates ==
    ASSUME IdsSuffice, TypeOK, Allocated, NEW s \in Streams, Register(s)
    PROVE  Allocated'
<1>. DEFINE n == Cardinality(Born)
<1>1. life[s] = "unborn" /\ nextId \in LocalIds /\ nextId' = NextId
  BY DEF Register, TypeOK, TypeOKHost
<1>2. FreshId \in LocalIds \ {0}
  BY <1>1, FreshIdNotZero
<1>3. Born' = Born \cup {s} /\ s \notin Born
  BY <1>1 DEF Register, Born, TypeOK, TypeOKCalls
<1>4. n \in Nat /\ n < IdSpace - 1 /\ Cardinality(Born') = n + 1 /\ Turn(FreshId) = n
  BY <1>1, <1>3, RoomLeft DEF Allocated
<1>5. localId'[s] = FreshId /\ \A t \in Born : localId'[t] = localId[t] /\ t # s
  BY <1>3 DEF Register, Born, TypeOK, TypeOKHost
<1>6. \A t \in Born : localId[t] \in LocalIds \ {0} /\ Turn(localId[t]) < n
  BY DEF Allocated, Born, TypeOK, TypeOKHost
<1>7. \A t \in Born : localId[t] # FreshId /\ Turn(localId[t]) \in Nat
  BY <1>1, <1>6, FreshIdFree, TurnTyped
<1>8. \A t \in Born' : localId'[t] # 0 /\ Turn(localId[t])' < n + 1
  <2>1. ASSUME NEW t \in Born PROVE localId'[t] # 0 /\ Turn(localId[t])' < n + 1
    BY <1>4, <1>5, <1>6, <1>7 DEF Turn
  <2>2. localId'[s] # 0 /\ Turn(localId[s])' < n + 1
    BY <1>2, <1>4, <1>5 DEF Turn
  <2>. QED
    BY <1>3, <2>1, <2>2
<1>9. \A t, u \in Born' : localId'[t] = localId'[u] => t = u
  BY <1>3, <1>5, <1>7 DEF Allocated
<1>10. n + 1 < IdSpace - 1 => Turn(FreshId)' = n + 1
  <2>1. HAVE n + 1 < IdSpace - 1
  <2>2. Turn(FreshId') = n + 1
    BY <1>1, <1>4, <2>1, NextTurn, IdSpaceAssumption
  <2>. QED
    BY <2>2 DEF Turn
<1>11. ASSUME NEW i \in LocalIds, registry'[i] # NoStream
       PROVE  registry'[i] \in Born' /\ localId'[registry'[i]] = i
  BY <1>2, <1>3, <1>5, <1>11 DEF Register, Allocated, TypeOK, TypeOKHost
<1>. QED
  BY <1>4, <1>8, <1>9, <1>10, <1>11 DEF Allocated

LEMMA AllocatedStep ==
    ASSUME IdsSuffice, TypeOK, Allocated, Phases, [Next]_vars
    PROVE  Allocated'
<1>1. CASE \E s \in Streams : Register(s)
  BY <1>1, RegisterAllocates
<1>2. CASE RegistryKept
  BY <1>2 DEF RegistryKept, Allocated, Turn, FreshId
<1>. QED
  BY <1>1, <1>2, RegistryStep

-----------------------------------------------------------------------------
(* Phases *)

(* Only the reader learns remote ids, and it never replaces one. *)
LEMMA OwnerKeepsRemotes ==
    ASSUME NEW s \in Streams, Owner(s)
    PROVE  remoteId' = remoteId
BY DEF Owner, OwnerStep, OwnerChoice, Register, PostOpen, Refuse, Acked, NotAcked,
       WaitFails, WaitOn, Woken, CancelOpen, CancelSend, BeginSend, WriteIds,
       PostWrite, RecvTake, RecvOkay, RecvEnd, BeginClose, CloseMark, CloseRemove,
       ClosePost, DropStream, stateVars

LEMMA TasksKeepRemotes ==
    ASSUME TypeOK, NEW t \in Streams, remoteId[t] # 0,
           ReaderTask \/ SessionThread \/ WriterTask \/ LinkDown \/ Device
    PROVE  remoteId'[t] = remoteId[t]
<1>. USE DEF TypeOK, TypeOKHost, stateVars, streamVars
<1>1. CASE ReaderOkay \/ AckCount \/ AckWake
  BY <1>1 DEF ReaderOkay, AckCount, AckWake
<1>2. CASE ReaderWrite \/ ReaderClose \/ ReaderStray \/ ReaderFails \/ ReaderAborts
  BY <1>2 DEF ReaderWrite, ReaderClose, ReaderStray, ReaderFails, ReaderAborts
<1>3. CASE BeginSessionClose \/ (\E a \in Closers : CloseAll(a))
  BY <1>3 DEF BeginSessionClose, CloseAll, Drain, Each, MarkClosed, TakeAndWake
<1>4. CASE WriterTask \/ LinkDown
  BY <1>4 DEF WriterTask, WriterSends, WriterAborts, LinkDown
<1>5. CASE Device
  BY <1>5 DEF Device, DeviceReceives, DevOpen, DevWrite, DevOkay, DevClose,
              DevOutput, DevFinish, DevStray
<1>. QED
  BY <1>1, <1>2, <1>3, <1>4, <1>5 DEF ReaderTask, SessionThread, Closers

LEMMA PhaseOwner ==
    ASSUME TypeOK, NEW s \in Streams, Phase(s), Owner(s)
    PROVE  Phase(s)'
<1>. USE DEF Phase, Waiting, TypeOK, TypeOKHost, TypeOKCalls,
             registryVars, stateVars, recvVars, sendVars
<1>1. CASE Register(s) \/ PostOpen(s) \/ Refuse(s)
  BY <1>1 DEF Register, PostOpen, Refuse
<1>2. CASE Acked(s) \/ NotAcked(s)
  BY <1>2 DEF Acked, NotAcked
<1>3. CASE WaitFails(s) \/ WaitOn(s) \/ Woken(s)
  BY <1>3 DEF WaitFails, WaitOn, Woken
<1>4. CASE CancelOpen(s) \/ CancelSend(s)
  BY <1>4 DEF CancelOpen, CancelSend
<1>5. CASE (\E n \in SendLens : BeginSend(s, n)) \/ WriteIds(s)
  BY <1>5 DEF BeginSend, WriteIds
<1>6. CASE PostWrite(s)
  BY <1>6 DEF PostWrite
<1>7. CASE RecvTake(s) \/ RecvOkay(s) \/ RecvEnd(s)
  BY <1>7 DEF RecvTake, RecvOkay, RecvEnd
<1>8. CASE BeginClose(s) \/ CloseMark(s) \/ CloseRemove(s)
  BY <1>8 DEF BeginClose, CloseMark, CloseRemove
<1>9. CASE ClosePost(s) \/ DropStream(s)
  BY <1>9 DEF ClosePost, DropStream
<1>. QED
  BY <1>1, <1>2, <1>3, <1>4, <1>5, <1>6, <1>7, <1>8, <1>9
  DEF Owner, OwnerStep, OwnerChoice

LEMMA PhasesStep ==
    ASSUME TypeOK, Phases, [Next]_vars
    PROVE  Phases'
<1>1. SUFFICES ASSUME NEW t \in Streams PROVE Phase(t)'
  BY DEF Phases
<1>2. Phase(t)
  BY DEF Phases
<1>3. ASSUME NEW s \in Streams, Owner(s) PROVE Phase(t)'
  <2>1. CASE s = t
    BY <1>2, <1>3, <2>1, PhaseOwner
  <2>2. CASE s # t
    BY <1>2, <1>3, <2>2, OwnerKeepsOthers, OwnerKeepsRemotes DEF OthersKept, Phase
  <2>. QED
    BY <2>1, <2>2
<1>4. CASE ReaderTask \/ SessionThread \/ WriterTask \/ LinkDown \/ Device
  BY <1>2, <1>4, TasksKeepCalls, TasksKeepRemotes DEF Phase
<1>5. CASE UNCHANGED vars
  BY <1>2, <1>5 DEF Phase, vars, streamVars, stateVars, ownerVars
<1>. QED
  BY <1>3, <1>4, <1>5 DEF Next

-----------------------------------------------------------------------------
(* Reachability *)

(* The owner of s takes no other stream's entry out of the map. *)
LEMMA OwnerKeepsEntries ==
    ASSUME IdsSuffice, TypeOK, Allocated, Phases, NEW s \in Streams,
           NEW t \in Streams, s # t, Owner(s), t \in Born, registry[localId[t]] = t
    PROVE  localId'[t] = localId[t] /\ registry'[localId[t]] = t
<1>. USE DEF TypeOK, TypeOKHost, registryVars
<1>1. CASE Register(s)
  <2>1. FreshId # localId[t]
    BY <1>1, FreshIdFree DEF Register
  <2>. QED
    BY <1>1, <2>1 DEF Register
<1>2. CASE Refuse(s) \/ CloseRemove(s)
  <2>1. s \in Born
    BY <1>2 DEF Refuse, CloseRemove, Phases, Phase, Born
  <2>2. localId[s] # localId[t]
    BY <2>1 DEF Allocated
  <2>. QED
    BY <1>2, <2>2 DEF Refuse, CloseRemove
<1>3. CASE ~Register(s) /\ ~Refuse(s) /\ ~CloseRemove(s)
  BY <1>3 DEF Owner, OwnerStep, OwnerChoice, PostOpen, Acked, NotAcked,
       WaitFails, WaitOn, Woken, CancelOpen, CancelSend, BeginSend, WriteIds,
       PostWrite, RecvTake, RecvOkay, RecvEnd, BeginClose, CloseMark,
       ClosePost, DropStream
<1>. QED
  BY <1>1, <1>2, <1>3
LEMMA OwnerKeepsTodo ==
    ASSUME NEW s \in Streams, Owner(s)
    PROVE  todo' = todo
BY DEF Owner, OwnerStep, OwnerChoice, Register, PostOpen, Refuse, Acked, NotAcked,
       WaitFails, WaitOn, Woken, CancelOpen, CancelSend, BeginSend, WriteIds,
       PostWrite, RecvTake, RecvOkay, RecvEnd, BeginClose, CloseMark, CloseRemove,
       ClosePost, DropStream, closerVars, taskVars

(* The owner's own steps: it takes its stream out of the map only to refuse *)
(* or to close it.                                                          *)
LEMMA ReachOwner ==
    ASSUME IdsSuffice, TypeOK, Allocated, Phases, NEW s \in Streams, Reach(s), Owner(s)
    PROVE  Reach(s)'
<1>1. cur' = cur /\ apc' = apc /\ todo' = todo
  BY OwnerKeepsClosers, OwnerKeepsTodo
<1>2. Phase(s)
  BY DEF Phases
<1>. USE DEF TypeOK, TypeOKHost, TypeOKCalls, registryVars, stateVars, recvVars, sendVars
<1>3. CASE Register(s)
  BY <1>3, FreshIdNotZero DEF Register, Reach
<1>4. CASE PostOpen(s) \/ Refuse(s)
  BY <1>1, <1>4 DEF PostOpen, Refuse, Reach, Doomed
<1>5. CASE Acked(s) \/ NotAcked(s) \/ WaitFails(s)
  BY <1>1, <1>5 DEF Acked, NotAcked, WaitFails, Reach, Doomed
<1>6. CASE WaitOn(s) \/ Woken(s) \/ CancelOpen(s) \/ CancelSend(s)
  BY <1>1, <1>6 DEF WaitOn, Woken, CancelOpen, CancelSend, Reach, Doomed
<1>7. CASE (\E n \in SendLens : BeginSend(s, n)) \/ WriteIds(s) \/ PostWrite(s)
  BY <1>1, <1>7 DEF BeginSend, WriteIds, PostWrite, Reach, Doomed
<1>8. CASE RecvTake(s) \/ RecvOkay(s) \/ RecvEnd(s)
  BY <1>1, <1>8 DEF RecvTake, RecvOkay, RecvEnd, Reach, Doomed
<1>9. CASE BeginClose(s) \/ CloseMark(s) \/ CloseRemove(s)
  BY <1>1, <1>2, <1>9 DEF BeginClose, CloseMark, CloseRemove, Reach, Doomed, Phase
<1>10. CASE ClosePost(s) \/ DropStream(s)
  BY <1>1, <1>10 DEF ClosePost, DropStream, Reach, Doomed
<1>. QED
  BY <1>3, <1>4, <1>5, <1>6, <1>7, <1>8, <1>9, <1>10 DEF Owner, OwnerStep, OwnerChoice

(* Who takes t out of the map for somebody else keeps it, and closes it.    *)
LEMMA TasksReach ==
    ASSUME TypeOK, Allocated, ClosesOnce, NEW t \in Streams, t \in Born, ~closed'[t],
           registry[localId[t]] = t \/ Doomed(t),
           ReaderTask \/ SessionThread \/ WriterTask \/ LinkDown \/ Device
    PROVE  localId' = localId /\ (registry'[localId[t]] = t \/ Doomed(t)')
<1>. USE DEF Doomed, TypeOK, TypeOKHost, TypeOKClosers, Closers, registryVars,
             stateVars, closerVars, streamVars, taskVars
<1>1. CASE ReaderOkay \/ AckCount \/ AckWake
  BY <1>1 DEF ReaderOkay, AckCount, AckWake, Recv
<1>2. CASE ReaderWrite \/ ReaderStray \/ ReaderFails \/ ReaderAborts
  BY <1>2 DEF ReaderWrite, ReaderStray, ReaderFails, ReaderAborts, Recv
<1>3. CASE ReaderClose
  BY <1>3 DEF ReaderClose, Recv, Addressee
<1>4. CASE BeginSessionClose
  BY <1>4 DEF BeginSessionClose
<1>5. ASSUME NEW a \in Closers, Drain(a)
      PROVE  localId' = localId /\ (registry'[localId[t]] = t \/ Doomed(t)')
  <2>1. registry[localId[t]] = t => t \in Registered
    BY StreamsAssumption DEF Registered
  <2>. QED
    BY <1>5, <2>1 DEF Drain, ClosesOnce
<1>6. ASSUME NEW a \in Closers, Each(a)
      PROVE  localId' = localId /\ (registry'[localId[t]] = t \/ Doomed(t)')
  BY <1>6 DEF Each
<1>7. ASSUME NEW a \in Closers, MarkClosed(a) \/ TakeAndWake(a)
      PROVE  localId' = localId /\ (registry'[localId[t]] = t \/ Doomed(t)')
  BY <1>7 DEF MarkClosed, TakeAndWake
<1>8. CASE WriterTask \/ LinkDown
  BY <1>8 DEF WriterTask, WriterSends, WriterAborts, LinkDown
<1>9. CASE Device
  BY <1>9 DEF Device, DeviceReceives, DevOpen, DevWrite, DevOkay, DevClose,
              DevOutput, DevFinish, DevStray
<1>. QED
  BY <1>1, <1>2, <1>3, <1>4, <1>5, <1>6, <1>7, <1>8, <1>9
  DEF ReaderTask, SessionThread, CloseAll

LEMMA ClosesOnceStep ==
    ASSUME TypeOK, ClosesOnce, [Next]_vars
    PROVE  ClosesOnce'
<1>. USE DEF ClosesOnce, TypeOK, TypeOKClosers, Closers, closerVars, streamVars, taskVars
<1>1. ASSUME NEW s \in Streams, Owner(s) PROVE ClosesOnce'
  <2>1. readerErr' = readerErr
    BY <1>1 DEF Owner, OwnerStep, OwnerChoice, Register, PostOpen, Refuse, Acked,
         NotAcked, WaitFails, WaitOn, Woken, CancelOpen, CancelSend, BeginSend,
         WriteIds, PostWrite, RecvTake, RecvOkay, RecvEnd, BeginClose, CloseMark,
         CloseRemove, ClosePost, DropStream
  <2>. QED
    BY <1>1, <2>1, OwnerKeepsClosers, OwnerKeepsTodo
<1>2. CASE ReaderOkay \/ AckCount \/ AckWake
  BY <1>2 DEF ReaderOkay, AckCount, AckWake, Recv
<1>3. CASE ReaderWrite \/ ReaderClose
  BY <1>3 DEF ReaderWrite, ReaderClose, Recv
<1>4. CASE ReaderStray \/ ReaderFails \/ ReaderAborts
  BY <1>4 DEF ReaderStray, ReaderFails, ReaderAborts, Recv
<1>5. CASE BeginSessionClose
  BY <1>5 DEF BeginSessionClose
<1>6. ASSUME NEW a \in Closers, Drain(a) PROVE ClosesOnce'
  BY <1>6 DEF Drain
<1>7. ASSUME NEW a \in Closers, Each(a) PROVE ClosesOnce'
  BY <1>7 DEF Each
<1>8. ASSUME NEW a \in Closers, MarkClosed(a) \/ TakeAndWake(a) PROVE ClosesOnce'
  BY <1>8 DEF MarkClosed, TakeAndWake
<1>9. CASE WriterTask \/ LinkDown
  BY <1>9 DEF WriterTask, WriterSends, WriterAborts, LinkDown
<1>10. CASE Device
  BY <1>10 DEF Device, DeviceReceives, DevOpen, DevWrite, DevOkay, DevClose,
               DevOutput, DevFinish, DevStray
<1>11. CASE UNCHANGED vars
  BY <1>11 DEF vars
<1>. QED
  BY <1>1, <1>2, <1>3, <1>4, <1>5, <1>6, <1>7, <1>8, <1>9, <1>10, <1>11
  DEF Next, ReaderTask, SessionThread, CloseAll

LEMMA ReachStep ==
    ASSUME IdsSuffice, TypeOK, Allocated, Phases, ClosesOnce, [Next]_vars,
           NEW t \in Streams, Reach(t)
    PROVE  Reach(t)'
<1>1. ASSUME NEW s \in Streams, Owner(s), s # t PROVE Reach(t)'
  <2>1. OthersKept(t)
    BY <1>1, OwnerKeepsOthers
  <2>2. Doomed(t)' = Doomed(t)
    BY <1>1, OwnerKeepsClosers, OwnerKeepsTodo DEF Doomed
  <2>. QED
    BY <1>1, <2>1, <2>2, OwnerKeepsEntries DEF OthersKept, Reach, Born
<1>2. CASE Owner(t)
  BY <1>2, ReachOwner
<1>3. CASE ReaderTask \/ SessionThread \/ WriterTask \/ LinkDown \/ Device
  <2>1. /\ pc'[t] = pc[t] /\ life'[t] = life[t]
        /\ closed[t] => closed'[t]
    BY <1>3, TasksKeepCalls
  <2>. QED
    BY <1>3, <2>1, TasksReach DEF Reach, Born, TypeOK, TypeOKHost
<1>4. CASE UNCHANGED vars
  BY <1>4 DEF Reach, Doomed, vars, streamVars, taskVars, registryVars, stateVars,
              ownerVars, closerVars
<1>. QED
  BY <1>1, <1>2, <1>3, <1>4 DEF Next

LEMMA RoutingInit == ASSUME IdsSuffice, Init PROVE RoutingInv
<1>1. TypeOK
  BY TypeInit
<1>2. Born = {} /\ Cardinality(Born) = 0
  BY FS_EmptySet DEF Init, Born
<1>3. FreshId = FirstFresh
  BY DEF Init, FreshId, FirstFresh
<1>4. Turn(FreshId) = 0
  BY <1>3, FirstFreshTyped DEF Turn, LocalIds
<1>5. Allocated
  BY <1>2, <1>4 DEF Allocated, Init
<1>. QED
  BY <1>1, <1>5 DEF RoutingInv, Init, Phases, Phase, Reach, ClosesOnce, Waiting, Closers

LEMMA RoutingStep == ASSUME IdsSuffice, RoutingInv, [Next]_vars PROVE RoutingInv'
BY TypeStep, AllocatedStep, PhasesStep, ClosesOnceStep, ReachStep DEF RoutingInv

(* As long as ids do not come round, no open stream is lost: whatever opens,*)
(* closes, refusals, cancelled calls and drains happen at once, the map has *)
(* it under its id, or who took it out is about to close it.                *)
THEOREM NoStreamIsLost ==
    ASSUME IdsSuffice
    PROVE  Spec => []Reachable
<1>1. Init => RoutingInv
  BY RoutingInit
<1>2. RoutingInv /\ [Next]_vars => RoutingInv'
  BY RoutingStep
<1>3. RoutingInv => Reachable
  BY DEF RoutingInv, Reach, Doomed, Reachable
<1>. QED
  BY <1>1, <1>2, <1>3, PTL DEF Spec

-----------------------------------------------------------------------------
(* Queues *)

(* p is a stretch of q, or q with m at its end. *)
Slice(p, q) ==
    \E k \in Nat : Len(p) + k <= Len(q) /\ \A i \in 1 .. Len(p) : p[i] = q[i + k]

Grown(p, q, m) ==
    Len(p) = Len(q) + 1 /\ p[Len(p)] = m /\ \A i \in 1 .. Len(q) : p[i] = q[i]

LEMMA SameSlice == ASSUME NEW S, NEW q \in Seq(S) PROVE Slice(q, q)
BY LenProperties DEF Slice

LEMMA TailSlice == ASSUME NEW S, NEW q \in Seq(S), q # <<>> PROVE Slice(Tail(q), q)
BY HeadTailProperties, LenProperties DEF Slice

LEMMA EmptySlice == ASSUME NEW S, NEW q \in Seq(S) PROVE Slice(<<>>, q)
BY LenProperties DEF Slice

LEMMA AppendGrown ==
    ASSUME NEW S, NEW q \in Seq(S), NEW m \in S
    PROVE  Grown(Append(q, m), q, m)
BY AppendProperties, LenProperties DEF Grown

LEMMA UpwardTyped ==
    ASSUME TypeOKLink
    PROVE  /\ Upward \in Seq(HostMessages) /\ Len(Upward) = Len(h2d) + Len(outbox)
           /\ Len(h2d) \in Nat /\ Len(outbox) \in Nat
           /\ \A i \in 1 .. Len(Upward) : Upward[i] =
                 IF i <= Len(h2d) THEN h2d[i] ELSE outbox[i - Len(h2d)]
BY ConcatProperties, LenProperties DEF TypeOKLink, Upward

(* What is posted comes after all that was posted before. *)
LEMMA PostGrows ==
    ASSUME TypeOKLink, NEW m \in HostMessages, Post(m), h2d' = h2d
    PROVE  Grown(Upward', Upward, m)
<1>1. /\ outbox \in Seq(HostMessages) /\ h2d \in Seq(HostMessages)
      /\ outbox' = Append(outbox, m)
  BY DEF TypeOKLink, Post
<1>2. Grown(outbox', outbox, m) /\ outbox' \in Seq(HostMessages)
  BY <1>1, AppendGrown, AppendProperties
<1>3. /\ Len(Upward') = Len(h2d) + Len(outbox')
      /\ \A i \in 1 .. Len(Upward') : Upward'[i] =
            IF i <= Len(h2d) THEN h2d[i] ELSE outbox'[i - Len(h2d)]
  BY <1>1, <1>2, ConcatProperties, LenProperties DEF Upward
<1>4. /\ Len(h2d) \in Nat /\ Len(outbox) \in Nat
      /\ Len(outbox') = Len(outbox) + 1 /\ outbox'[Len(outbox) + 1] = m
      /\ \A i \in 1 .. Len(outbox) : outbox'[i] = outbox[i]
  BY <1>1, <1>2, LenProperties DEF Grown
<1>5. Len(Upward) = Len(h2d) + Len(outbox)
  BY UpwardTyped
<1>6. Len(Upward') = Len(Upward) + 1 /\ Upward'[Len(Upward')] = m
  <2>1. Len(Upward') = Len(h2d) + (Len(outbox) + 1)
    BY <1>3, <1>4
  <2>2. Len(Upward') \in 1 .. Len(Upward') /\ ~(Len(Upward') <= Len(h2d))
        /\ Len(Upward') - Len(h2d) = Len(outbox) + 1
    BY <1>4, <2>1
  <2>3. Upward'[Len(Upward')] = outbox'[Len(Upward') - Len(h2d)]
    BY <1>3, <2>2
  <2>. QED
    BY <1>5, <1>4, <2>1, <2>2, <2>3
<1>7. ASSUME NEW i \in 1 .. Len(Upward) PROVE Upward'[i] = Upward[i]
  <2>1. i \in 1 .. Len(h2d) + Len(outbox) /\ i \in 1 .. Len(Upward')
    BY <1>5, <1>4, <1>6, <1>7
  <2>2. Upward[i] = IF i <= Len(h2d) THEN h2d[i] ELSE outbox[i - Len(h2d)]
    BY <1>7, UpwardTyped
  <2>3. Upward'[i] = IF i <= Len(h2d) THEN h2d[i] ELSE outbox'[i - Len(h2d)]
    BY <1>3, <2>1
  <2>. QED
    BY <1>4, <2>1, <2>2, <2>3
<1>. QED
  BY <1>6, <1>7 DEF Grown

(* The device takes the oldest. *)
LEMMA GetsSlice ==
    ASSUME TypeOKLink, NEW cmd, DeviceGets(cmd), outbox' = outbox
    PROVE  /\ Upward # <<>> /\ 1 \in DOMAIN Upward /\ Upward[1] = Head(h2d)
           /\ Head(h2d).cmd = cmd
           /\ Len(Upward') = Len(Upward) - 1
           /\ \A i \in 1 .. Len(Upward') : Upward'[i] = Upward[i + 1]
<1>1. /\ outbox \in Seq(HostMessages) /\ h2d \in Seq(HostMessages) /\ h2d # <<>>
      /\ h2d' = Tail(h2d) /\ outbox' = outbox /\ Head(h2d).cmd = cmd
  BY DEF TypeOKLink, DeviceGets
<1>2. /\ h2d' \in Seq(HostMessages) /\ Len(h2d') = Len(h2d) - 1
      /\ \A i \in 1 .. Len(h2d') : h2d'[i] = h2d[i + 1]
  BY <1>1, HeadTailProperties
<1>3. /\ Len(Upward') = Len(h2d') + Len(outbox)
      /\ \A i \in 1 .. Len(Upward') : Upward'[i] =
            IF i <= Len(h2d') THEN h2d'[i] ELSE outbox[i - Len(h2d')]
  BY <1>1, <1>2, ConcatProperties, LenProperties DEF Upward
<1>4. Len(h2d) \in Nat /\ Len(outbox) \in Nat /\ Len(h2d) # 0
  BY <1>1, LenProperties, EmptySeq
<1>5. Head(h2d) = h2d[1]
  BY <1>1, <1>4
<1>6. Len(Upward) = Len(h2d) + Len(outbox) /\ Len(Upward') = Len(Upward) - 1
  BY <1>2, <1>3, <1>4, UpwardTyped
<1>7. 1 \in DOMAIN Upward /\ Upward[1] = Head(h2d) /\ Upward # <<>>
  BY <1>4, <1>5, <1>6, UpwardTyped, LenProperties, EmptySeq
<1>8. ASSUME NEW i \in 1 .. Len(Upward') PROVE Upward'[i] = Upward[i + 1]
  <2>1. /\ i \in Nat /\ i + 1 \in 1 .. Len(Upward)
        /\ i <= Len(h2d') <=> i + 1 <= Len(h2d)
        /\ i - Len(h2d') = (i + 1) - Len(h2d)
        /\ i <= Len(h2d') => i \in 1 .. Len(h2d')
    BY <1>2, <1>4, <1>6, <1>8
  <2>2. Upward[i + 1] = IF i + 1 <= Len(h2d) THEN h2d[i + 1] ELSE outbox[(i + 1) - Len(h2d)]
    BY <2>1, UpwardTyped
  <2>3. Upward'[i] = IF i <= Len(h2d') THEN h2d'[i] ELSE outbox[i - Len(h2d')]
    BY <1>3, <1>8
  <2>. QED
    BY <1>2, <2>1, <2>2, <2>3
<1>. QED
  BY <1>1, <1>6, <1>7, <1>8

(* Between outbox and link nothing is reordered, and what an end of the     *)
(* writer or of the link loses is at either end.                            *)
LEMMA CarrySlice ==
    ASSUME TypeOKLink, LinkIsEmpty, WriterTask \/ LinkDown
    PROVE  Slice(Upward', Upward)
<1>1. outbox \in Seq(HostMessages) /\ h2d \in Seq(HostMessages)
  BY DEF TypeOKLink
<1>2. Len(h2d) \in Nat /\ Len(outbox) \in Nat
  BY <1>1, LenProperties
<1>3. CASE /\ writer = "run" /\ outbox # <<>> /\ outbox' = Tail(outbox)
           /\ h2d' = Append(h2d, Head(outbox))
  <2>1. h2d' = h2d \o <<Head(outbox)>> /\ outbox = <<Head(outbox)>> \o Tail(outbox)
    BY <1>1, <1>3
  <2>2. <<Head(outbox)>> \in Seq(HostMessages) /\ Tail(outbox) \in Seq(HostMessages)
    BY <1>1, <1>3
  <2>3. Upward' = Upward
    BY <1>1, <1>3, <2>1, <2>2, ConcatAssociative DEF Upward
  <2>. QED
    BY <2>3, SameSlice, UpwardTyped
<1>4. CASE h2d = <<>> /\ h2d' = h2d /\ outbox # <<>> /\ outbox' = Tail(outbox)
  <2>1. Upward = outbox /\ Upward' = Tail(outbox)
    BY <1>1, <1>4, ConcatEmptySeq DEF Upward
  <2>. QED
    BY <1>1, <1>4, <2>1, TailSlice
<1>5. CASE h2d' = h2d /\ outbox' = <<>>
  <2>1. Upward' = h2d
    BY <1>1, <1>5, ConcatEmptySeq DEF Upward
  <2>2. /\ 0 \in Nat /\ Len(h2d) + 0 <= Len(Upward)
        /\ \A i \in 1 .. Len(h2d) : h2d[i] = Upward[i + 0]
    BY <1>2, UpwardTyped
  <2>. QED
    BY <2>1, <2>2 DEF Slice
<1>6. CASE h2d' = <<>> /\ outbox' = outbox
  <2>1. Upward' = outbox
    BY <1>1, <1>6, ConcatEmptySeq DEF Upward
  <2>. QED
    BY <1>2, <2>1, UpwardTyped DEF Slice
<1>. QED
  BY <1>3, <1>4, <1>5, <1>6
  DEF WriterTask, WriterSends, WriterAborts, LinkDown, LinkIsEmpty, linkVars, writerVars

-----------------------------------------------------------------------------
(* Services and streams *)

(* A stream keeps its id, and once its OPEN is posted it stays so. *)
StreamsKept ==
    \A s \in Born : /\ s \in Born' /\ localId'[s] = localId[s]
                    /\ pc[s] # "post_open" => pc'[s] # "post_open"

LEMMA StreamsKeptStep ==
    ASSUME TypeOK, Phases, [Next]_vars
    PROVE  StreamsKept
<1>1. ASSUME NEW t \in Born, NEW s \in Streams, Owner(s), pc[t] # "post_open"
      PROVE  pc'[t] # "post_open"
  <2>1. CASE Register(s)
    BY <1>1, <2>1 DEF Register, Born, TypeOK, TypeOKCalls
  <2>2. CASE ~Register(s) /\ s = t
    BY <1>1, <2>2 DEF Owner, OwnerStep, OwnerChoice, PostOpen, Refuse, Acked,
       NotAcked, WaitFails, WaitOn, Woken, CancelOpen, CancelSend, BeginSend,
       WriteIds, PostWrite, RecvTake, RecvOkay, RecvEnd, BeginClose, CloseMark,
       CloseRemove, ClosePost, DropStream, TypeOK, TypeOKCalls
  <2>3. CASE s # t
    BY <1>1, <2>3, OwnerKeepsOthers DEF OthersKept, Born
  <2>. QED
    BY <2>1, <2>2, <2>3
<1>2. ASSUME NEW t \in Born, pc[t] # "post_open" PROVE pc'[t] # "post_open"
  <2>1. CASE \E s \in Streams : Owner(s)
    BY <1>1, <1>2, <2>1
  <2>2. CASE ReaderTask \/ SessionThread \/ WriterTask \/ LinkDown \/ Device
    BY <1>2, <2>2, TasksKeepCalls DEF Born
  <2>3. CASE UNCHANGED vars
    BY <1>2, <2>3 DEF vars, streamVars, ownerVars
  <2>. QED
    BY <2>1, <2>2, <2>3 DEF Next
<1>3. CASE RegistryKept
  BY <1>2, <1>3 DEF RegistryKept, StreamsKept
<1>4. ASSUME NEW s \in Streams, Register(s) PROVE StreamsKept
  BY <1>2, <1>4 DEF StreamsKept, Register, Born, TypeOK, TypeOKHost, TypeOKCalls
<1>. QED
  BY <1>3, <1>4, RegistryStep

(* What an owner's step puts on the way to the device. *)
LEMMA OwnerPosts ==
    ASSUME TypeOK, NEW s \in Streams, Owner(s)
    PROVE  /\ UNCHANGED <<link, h2d, d2h, deviceVars>>
           /\ \/ Upward' = Upward
              \/ PostOpen(s) /\ Grown(Upward', Upward, Msg("OPEN", localId[s], 0, OpenLen))
              \/ PostWrite(s) /\ Grown(Upward', Upward, Msg("WRTE", localId[s], remoteId[s], ChunkLen(s)))
              \/ RecvOkay(s) /\ Grown(Upward', Upward, OkayFor(s))
              \/ ClosePost(s) /\ Grown(Upward', Upward, CloseFor(s))
<1>. USE DEF linkVars
<1>1. localId[s] \in LocalIds /\ remoteId[s] \in Nat /\ ChunkLen(s) \in Nat /\ OpenLen \in Nat
  BY ChunkLenTyped, PayloadAssumption DEF TypeOK, TypeOKHost, TypeOKCounts
<1>2. /\ Msg("OPEN", localId[s], 0, OpenLen) \in HostMessages
      /\ Msg("WRTE", localId[s], remoteId[s], ChunkLen(s)) \in HostMessages
      /\ OkayFor(s) \in HostMessages /\ CloseFor(s) \in HostMessages
  BY <1>1 DEF Msg, HostMessages, Commands, StrayCommands, OkayFor, CloseFor
<1>3. CASE PostOpen(s)
  BY <1>2, <1>3, PostGrows DEF PostOpen, PostFails, writerVars, Upward, TypeOK
<1>4. CASE PostWrite(s)
  BY <1>2, <1>4, PostGrows DEF PostWrite, PostFails, writerVars, Upward, TypeOK
<1>5. CASE RecvOkay(s)
  BY <1>2, <1>5, PostGrows DEF RecvOkay, PostFails, writerVars, Upward, TypeOK
<1>6. CASE ClosePost(s)
  BY <1>2, <1>6, PostGrows DEF ClosePost, PostFails, writerVars, Upward, TypeOK
<1>7. CASE ~(PostOpen(s) \/ PostWrite(s) \/ RecvOkay(s) \/ ClosePost(s))
  BY <1>7 DEF Owner, OwnerStep, OwnerChoice, Register, Refuse, Acked, NotAcked,
       WaitFails, WaitOn, Woken, CancelOpen, CancelSend, BeginSend, WriteIds,
       RecvTake, RecvEnd, BeginClose, CloseMark, CloseRemove, DropStream,
       Upward, taskVars, writerVars
<1>. QED
  BY <1>3, <1>4, <1>5, <1>6, <1>7

(* What the reader and a closing session do to the queues. *)
LEMMA TasksPost ==
    ASSUME TypeOK, ReaderTask \/ SessionThread
    PROVE  /\ UNCHANGED <<link, h2d, deviceVars>>
           /\ Slice(d2h', d2h)
           /\ \/ Upward' = Upward
              \/ \E m : m.cmd = "CLSE" /\ Grown(Upward', Upward, m)
<1>. USE DEF linkVars
<1>1. d2h \in Seq(DeviceMessages)
  BY DEF TypeOK, TypeOKLink
<1>2. ASSUME NEW cmd, Recv(cmd) PROVE Slice(d2h', d2h) /\ UNCHANGED <<link, h2d>>
  BY <1>1, <1>2, TailSlice DEF Recv
<1>3. Slice(d2h, d2h) /\ Slice(<<>>, d2h)
  BY <1>1, SameSlice, EmptySlice
<1>4. CASE ReaderWrite
  <2>. DEFINE m == Msg("CLSE", Head(d2h).arg1, Head(d2h).arg0, 0)
  <2>1. m \in HostMessages
    BY <1>4, RecvTyped DEF ReaderWrite, TypeOK, TypeOKLink, Msg, HostMessages, Commands
  <2>2. UNCHANGED <<link, h2d, deviceVars>> /\ Slice(d2h', d2h)
    BY <1>2, <1>4 DEF ReaderWrite
  <2>3. Post(m) => Grown(Upward', Upward, m)
    BY <2>1, <2>2, PostGrows DEF TypeOK
  <2>4. m.cmd = "CLSE"
    BY DEF Msg
  <2>. QED
    BY <1>4, <2>2, <2>3, <2>4 DEF ReaderWrite, PostFails, writerVars, Upward
<1>5. CASE ReaderOkay \/ ReaderClose \/ ReaderStray
  BY <1>2, <1>5 DEF ReaderOkay, ReaderClose, ReaderStray, Upward, writerVars
<1>6. CASE AckCount \/ AckWake \/ ReaderFails \/ ReaderAborts \/ BeginSessionClose
  BY <1>3, <1>6 DEF AckCount, AckWake, ReaderFails, ReaderAborts, BeginSessionClose,
                    Upward, writerVars
<1>7. ASSUME NEW a \in Closers, CloseAll(a)
      PROVE  UNCHANGED <<linkVars, deviceVars, writerVars>>
  BY <1>7 DEF CloseAll, Drain, Each, MarkClosed, TakeAndWake
<1>8. CASE CloseAll("reader") \/ CloseAll("session")
  BY <1>3, <1>7, <1>8 DEF Upward, writerVars, Closers
<1>. QED
  BY <1>4, <1>5, <1>6, <1>8 DEF ReaderTask, SessionThread

(* The steps that start no service, and those that post no OPEN. *)
ServicesQuiet ==
    /\ StreamsKept
    /\ devNext' = devNext /\ devHost' = devHost
    /\ \A r \in RemoteIds : Started(r)' = Started(r)

OpensQuiet ==
    \/ Slice(Upward', Upward)
    \/ \E m : m.cmd # "OPEN" /\ Grown(Upward', Upward, m)

MessagesQuiet ==
    \/ Slice(d2h', d2h)
    \/ \E m : /\ m.cmd \in {"OKAY", "WRTE"} => FromService(m)
              /\ Grown(d2h', d2h, m)

LEMMA HasPostedKept ==
    ASSUME StreamsKept, NEW i, HasPosted(i)
    PROVE  HasPosted(i)'
BY DEF StreamsKept, HasPosted

LEMMA ServesKept ==
    ASSUME StreamsKept, NEW r \in RemoteIds, NEW s, Started(r)' = Started(r),
           devHost'[r] = devHost[r], Serves(r, s)
    PROVE  Serves(r, s)'
BY DEF StreamsKept, Serves, Started

LEMMA OpensFrame ==
    ASSUME TypeOK, TypeOK', OpensPending, ServicesQuiet, OpensQuiet
    PROVE  OpensPending'
<1>1. /\ DOMAIN Upward = 1 .. Len(Upward) /\ Len(Upward) \in Nat
      /\ DOMAIN Upward' = 1 .. Len(Upward') /\ Len(Upward') \in Nat
  BY UpwardTyped, LenProperties DEF TypeOK
<1>2. \A i : HasPosted(i) => HasPosted(i)'
  BY HasPostedKept DEF ServicesQuiet
<1>3. CASE Slice(Upward', Upward)
  <2>1. PICK d \in Nat : /\ Len(Upward') + d <= Len(Upward)
                         /\ \A i \in 1 .. Len(Upward') : Upward'[i] = Upward[i + d]
    BY <1>3 DEF Slice
  <2>2. \A k \in DOMAIN Upward' : k + d \in DOMAIN Upward /\ Upward'[k] = Upward[k + d]
    BY <1>1, <2>1
  <2>. QED
    BY <1>1, <1>2, <2>2 DEF OpensPending, ServicesQuiet, Opens
<1>4. ASSUME NEW m, m.cmd # "OPEN", Grown(Upward', Upward, m)
      PROVE  OpensPending'
  <2>1. \A k \in DOMAIN Upward' : Upward'[k].cmd = "OPEN" =>
           k \in DOMAIN Upward /\ Upward'[k] = Upward[k]
    BY <1>1, <1>4 DEF Grown
  <2>. QED
    BY <1>2, <2>1 DEF OpensPending, ServicesQuiet, Opens
<1>. QED
  BY <1>3, <1>4 DEF OpensQuiet

LEMMA ServicesFrame ==
    ASSUME ServicesKnown, ServicesApart, ServicesQuiet
    PROVE  ServicesKnown' /\ ServicesApart'
BY HasPostedKept DEF ServicesKnown, ServicesApart, ServicesQuiet

LEMMA MessagesFrame ==
    ASSUME TypeOK, TypeOK', MessagesMatch, MessagesQuiet,
           \A r \in RemoteIds : Started(r) => Started(r)' /\ devHost'[r] = devHost[r]
    PROVE  MessagesMatch'
<1>1. /\ DOMAIN d2h = 1 .. Len(d2h) /\ Len(d2h) \in Nat
      /\ DOMAIN d2h' = 1 .. Len(d2h') /\ Len(d2h') \in Nat
  BY LenProperties DEF TypeOK, TypeOKLink
<1>2. \A m : FromService(m) => FromService(m)'
  BY DEF FromService
<1>3. CASE Slice(d2h', d2h)
  BY <1>1, <1>2, <1>3 DEF Slice, MessagesMatch
<1>4. ASSUME NEW m, m.cmd \in {"OKAY", "WRTE"} => FromService(m), Grown(d2h', d2h, m)
      PROVE  MessagesMatch'
  BY <1>1, <1>2, <1>4 DEF Grown, MessagesMatch
<1>. QED
  BY <1>3, <1>4 DEF MessagesQuiet

LEMMA RemotesFrame ==
    ASSUME RemotesMatch, ServicesQuiet, remoteId' = remoteId
    PROVE  RemotesMatch'
BY ServesKept DEF RemotesMatch, ServicesQuiet

(* The OPEN of a stream is the first. *)
LEMMA OpensPosted ==
    ASSUME TypeOK, TypeOK', Allocated, Phases, ServicesKnown, OpensPending,
           ServicesQuiet, NEW s \in Streams, PostOpen(s),
           Grown(Upward', Upward, Msg("OPEN", localId[s], 0, OpenLen))
    PROVE  OpensPending'
<1>. DEFINE n == Len(Upward)
            m == Msg("OPEN", localId[s], 0, OpenLen)
<1>1. /\ DOMAIN Upward = 1 .. n /\ n \in Nat
      /\ DOMAIN Upward' = 1 .. Len(Upward') /\ Len(Upward') = n + 1
      /\ Upward'[n + 1] = m /\ \A i \in 1 .. n : Upward'[i] = Upward[i]
      /\ m.cmd = "OPEN" /\ m.arg0 = localId[s]
  BY UpwardTyped, LenProperties DEF TypeOK, Grown, Msg
<1>2. s \in Born /\ pc[s] = "post_open"
  BY DEF PostOpen, Phases, Phase, Born
<1>3. ~HasPosted(localId[s])
  BY <1>2 DEF HasPosted, Allocated
<1>4. \A x : x = localId[s] => HasPosted(x)'
  BY <1>2 DEF HasPosted, ServicesQuiet, StreamsKept, PostOpen, TypeOK, TypeOKCalls
<1>5. \A i : HasPosted(i) => HasPosted(i)'
  BY HasPostedKept DEF ServicesQuiet
<1>6. \A r \in RemoteIds : Started(r) => devHost[r] # localId[s]
  BY <1>3 DEF ServicesKnown
<1>7. \A k \in 1 .. n : ~Opens(localId[s], Upward[k])
  BY <1>1, <1>3 DEF OpensPending, Opens
<1>8. ASSUME NEW k \in 1 .. n, Upward[k].cmd = "OPEN"
      PROVE  /\ HasPosted(Upward[k].arg0)'
             /\ \A r \in RemoteIds : Started(r)' => devHost'[r] # Upward[k].arg0
             /\ \A j \in 1 .. n + 1 : Opens(Upward[k].arg0, Upward'[j]) => j = k
  <2>1. Upward[k].arg0 # localId[s]
    BY <1>7, <1>8 DEF Opens
  <2>. QED
    BY <1>1, <1>5, <1>8, <2>1 DEF OpensPending, ServicesQuiet, Opens
<1>9. \A j \in 1 .. n + 1 : Opens(localId[s], Upward'[j]) => j = n + 1
  BY <1>1, <1>7
<1>10. ASSUME NEW k \in DOMAIN Upward', Upward'[k].cmd = "OPEN"
       PROVE  (/\ HasPosted(Upward[k].arg0)
               /\ \A r \in RemoteIds : Started(r) => devHost[r] # Upward[k].arg0
               /\ \A j \in DOMAIN Upward : Opens(Upward[k].arg0, Upward[j]) => j = k)'
  <2>1. CASE k = n + 1
    <3>1. Upward'[k].arg0 = localId[s]
      BY <1>1, <2>1
    <3>. QED
      BY <1>1, <1>4, <1>6, <1>9, <2>1, <3>1 DEF ServicesQuiet, Opens
  <2>2. CASE k \in 1 .. n
    <3>1. Upward'[k] = Upward[k] /\ Upward[k].cmd = "OPEN"
      BY <1>1, <1>10, <2>2
    <3>2. \A x : x = Upward[k].arg0 => HasPosted(x)'
      BY <1>8, <2>2, <3>1 DEF HasPosted
    <3>. QED
      BY <1>1, <1>8, <2>2, <3>1, <3>2 DEF Opens
  <2>. QED
    BY <1>1, <2>1, <2>2
<1>. QED
  BY <1>10 DEF OpensPending

LEMMA PeersOwner ==
    ASSUME TypeOK, TypeOK', Allocated, Phases, Peers, StreamsKept,
           NEW s \in Streams, Owner(s)
    PROVE  Peers'
<1>1. UNCHANGED <<link, h2d, d2h, deviceVars>>
  BY OwnerPosts
<1>2. ServicesQuiet /\ remoteId' = remoteId
  BY <1>1, OwnerKeepsRemotes DEF ServicesQuiet, deviceVars, Started
<1>3. MessagesQuiet
  BY <1>1, SameSlice DEF MessagesQuiet, TypeOK, TypeOKLink
<1>4. OpensPending'
  <2>1. CASE /\ PostOpen(s)
             /\ Grown(Upward', Upward, Msg("OPEN", localId[s], 0, OpenLen))
    BY <1>2, <2>1, OpensPosted DEF Peers
  <2>2. CASE Upward' = Upward
    BY <1>2, <2>2, OpensFrame, SameSlice, UpwardTyped DEF OpensQuiet, Peers, TypeOK
  <2>3. ASSUME NEW m, m.cmd # "OPEN", Grown(Upward', Upward, m)
        PROVE  OpensPending'
    BY <1>2, <2>3, OpensFrame DEF OpensQuiet, Peers
  <2>4. /\ Msg("WRTE", localId[s], remoteId[s], ChunkLen(s)).cmd # "OPEN"
        /\ OkayFor(s).cmd # "OPEN" /\ CloseFor(s).cmd # "OPEN"
    BY DEF Msg, OkayFor, CloseFor
  <2>. QED
    BY <2>1, <2>2, <2>3, <2>4, OwnerPosts
<1>. QED
  BY <1>1, <1>2, <1>3, <1>4, ServicesFrame, MessagesFrame, RemotesFrame
  DEF Peers, LinkIsEmpty, ServicesQuiet

(* The first OKAY the reader finds for a stream is that of its service. *)
LEMMA RemoteLearnt ==
    ASSUME TypeOK, Allocated, Peers, ServicesQuiet, ReaderOkay
    PROVE  RemotesMatch'
<1>1. d2h # <<>> /\ Head(d2h).cmd = "OKAY" /\ d2h \in Seq(DeviceMessages)
  BY DEF ReaderOkay, Recv, TypeOK, TypeOKLink
<1>2. FromService(Head(d2h)) /\ Head(d2h).arg1 \in LocalIds
  <2>1. Head(d2h) = d2h[1] /\ 1 \in DOMAIN d2h
    BY <1>1, EmptySeq, LenProperties
  <2>2. FromService(Head(d2h))
    BY <1>1, <2>1 DEF Peers, MessagesMatch
  <2>3. Head(d2h) \in DeviceMessages
    BY <1>1
  <2>. QED
    BY <2>2, <2>3 DEF DeviceMessages
<1>3. CASE remoteId' = remoteId
  BY <1>3, RemotesFrame DEF Peers
<1>4. CASE Addressee # NoStream /\ remoteId' = [remoteId EXCEPT ![Addressee] = Head(d2h).arg0]
  <2>1. Addressee \in Born /\ localId[Addressee] = Head(d2h).arg1
    BY <1>2, <1>4 DEF Addressee, Allocated
  <2>2. Serves(Head(d2h).arg0, Addressee) /\ Head(d2h).arg0 \in RemoteIds
    BY <1>2, <2>1 DEF Serves, FromService
  <2>3. \A s \in Streams : remoteId'[s] = IF s = Addressee THEN Head(d2h).arg0 ELSE remoteId[s]
    BY <1>4 DEF TypeOK, TypeOKHost
  <2>. QED
    BY <2>2, <2>3, ServesKept DEF Peers, RemotesMatch, ServicesQuiet
<1>. QED
  BY <1>3, <1>4 DEF ReaderOkay

LEMMA PeersTasks ==
    ASSUME TypeOK, TypeOK', Allocated, Peers, StreamsKept, ReaderTask \/ SessionThread
    PROVE  Peers'
<1>1. UNCHANGED <<link, h2d, deviceVars>> /\ MessagesQuiet
  BY TasksPost DEF MessagesQuiet
<1>2. ServicesQuiet
  BY <1>1 DEF ServicesQuiet, deviceVars, Started
<1>3. OpensQuiet
  BY TasksPost, SameSlice, UpwardTyped DEF OpensQuiet, TypeOK
<1>4. RemotesMatch'
  <2>1. ~ReaderOkay => remoteId' = remoteId
    BY DEF ReaderTask, SessionThread, AckCount, AckWake, ReaderWrite, ReaderClose,
       ReaderStray, ReaderFails, ReaderAborts, BeginSessionClose, CloseAll, Drain,
       Each, MarkClosed, TakeAndWake, stateVars, streamVars
  <2>. QED
    BY <1>2, <2>1, RemoteLearnt, RemotesFrame DEF Peers
<1>. QED
  BY <1>1, <1>2, <1>3, <1>4, ServicesFrame, OpensFrame, MessagesFrame
  DEF Peers, LinkIsEmpty, ServicesQuiet

(* The device starts a service for the OPEN it takes, and answers it. *)
LEMMA PeersStart ==
    ASSUME TypeOK, TypeOK', Allocated, Peers, StreamsKept, DeviceGets("OPEN"),
           outbox' = outbox, remoteId' = remoteId,
           devNext \in RemoteIds, devNext' = devNext + 1,
           devSt' = [devSt EXCEPT ![devNext] = "open"],
           devHost' = [devHost EXCEPT ![devNext] = Head(h2d).arg0],
           DeviceSends(Msg("OKAY", devNext, Head(h2d).arg0, 0))
    PROVE  Peers'
<1>a. PICK r \in RemoteIds : r = devNext
  OBVIOUS
<1>b. PICK i : i = Head(h2d).arg0
  OBVIOUS
<1>1. /\ Upward # <<>> /\ 1 \in DOMAIN Upward /\ Upward[1].arg0 = i /\ Upward[1].cmd = "OPEN"
      /\ Len(Upward') = Len(Upward) - 1
      /\ \A k \in 1 .. Len(Upward') : Upward'[k] = Upward[k + 1]
  BY <1>b, GetsSlice DEF TypeOK
<1>2. /\ DOMAIN Upward = 1 .. Len(Upward) /\ Len(Upward) \in Nat
      /\ DOMAIN Upward' = 1 .. Len(Upward') /\ Len(Upward') \in Nat
  BY UpwardTyped, LenProperties DEF TypeOK
<1>3. /\ HasPosted(i)
      /\ \A q \in RemoteIds : Started(q) => devHost[q] # i
      /\ \A j \in DOMAIN Upward : Opens(i, Upward[j]) => j = 1
  BY <1>1 DEF Peers, OpensPending
<1>4. ~Started(r) /\ r \in Nat
  BY <1>a DEF Peers, ServicesKnown, TypeOK, TypeOKDevice
<1>5. /\ devHost'[r] = i /\ Started(r)'
      /\ \A q \in RemoteIds : q # r => devHost'[q] = devHost[q] /\ Started(q)' = Started(q)
  BY <1>a, <1>b DEF Started, TypeOK, TypeOKDevice
<1>6. \A x : HasPosted(x) => HasPosted(x)'
  BY HasPostedKept
<1>7. ServicesKnown'
  <2>1. ASSUME NEW q \in RemoteIds, Started(q)', q # r
        PROVE  q < devNext' /\ HasPosted(devHost[q])
    BY <1>a, <1>4, <1>5, <2>1, RemoteIdsAssumption DEF Peers, ServicesKnown
  <2>2. ASSUME NEW q \in RemoteIds, Started(q)'
        PROVE  (q < devNext /\ HasPosted(devHost[q]))'
    <3>1. CASE q = r
      <4>1. \A x : x = i => HasPosted(x)'
        BY <1>3, <1>6
      <4>. QED
        BY <1>a, <1>4, <1>5, <3>1, <4>1 DEF HasPosted
    <3>2. CASE q # r
      <4>1. \A x : x = devHost[q] => HasPosted(x)'
        BY <1>6, <2>1, <2>2, <3>2
      <4>. QED
        BY <1>5, <2>1, <2>2, <3>2, <4>1 DEF HasPosted
    <3>. QED
      BY <3>1, <3>2
  <2>. QED
    BY <2>2 DEF ServicesKnown
<1>8. ServicesApart'
  BY <1>3, <1>5 DEF Peers, ServicesApart
<1>9. OpensPending'
  <2>1. \A k \in DOMAIN Upward' : k + 1 \in DOMAIN Upward /\ k + 1 # 1 /\ Upward'[k] = Upward[k + 1]
    BY <1>1, <1>2
  <2>2. \A k \in DOMAIN Upward' : Upward'[k].cmd = "OPEN" => Upward'[k].arg0 # i
    BY <1>3, <2>1 DEF Opens
  <2>. QED
    BY <1>2, <1>5, <1>6, <2>1, <2>2 DEF Peers, OpensPending, Opens
<1>10. MessagesMatch'
  <2>1. \A q \in RemoteIds : Started(q) => Started(q)' /\ devHost'[q] = devHost[q]
    BY <1>4, <1>5
  <2>2. d2h \in Seq(DeviceMessages) /\ d2h' = Append(d2h, Msg("OKAY", r, i, 0))
    BY <1>a, <1>b DEF TypeOK, TypeOKLink, DeviceSends
  <2>3. /\ Len(d2h') = Len(d2h) + 1 /\ Len(d2h) \in Nat
        /\ DOMAIN d2h = 1 .. Len(d2h) /\ DOMAIN d2h' = 1 .. Len(d2h) + 1
        /\ d2h'[Len(d2h) + 1] = Msg("OKAY", r, i, 0)
        /\ \A k \in 1 .. Len(d2h) : d2h'[k] = d2h[k]
    BY <2>2
  <2>4. \A k \in 1 .. Len(d2h) : d2h'[k].cmd \in {"OKAY", "WRTE"} =>
           FromService(d2h[k]) /\ d2h'[k] = d2h[k]
    BY <2>3 DEF Peers, MessagesMatch
  <2>5. \A m : FromService(m) \/ (m.arg0 = r /\ m.arg1 = i) => FromService(m)'
    BY <1>5, <2>1 DEF FromService
  <2>6. Msg("OKAY", r, i, 0).arg0 = r /\ Msg("OKAY", r, i, 0).arg1 = i
    BY DEF Msg
  <2>. QED
    BY <2>3, <2>4, <2>5, <2>6 DEF MessagesMatch, FromService, Started
<1>11. RemotesMatch'
  <2>1. ASSUME NEW s \in Streams, remoteId[s] # 0
        PROVE  remoteId[s] \in RemoteIds /\ Serves(remoteId[s], s)'
    <3>1. remoteId[s] \in RemoteIds /\ Serves(remoteId[s], s)
      BY <2>1 DEF Peers, RemotesMatch
    <3>2. remoteId[s] # r
      BY <1>4, <3>1 DEF Serves
    <3>. QED
      BY <1>5, <3>1, <3>2, ServesKept
  <2>. QED
    BY <2>1 DEF RemotesMatch
<1>. QED
  BY <1>7, <1>8, <1>9, <1>10, <1>11 DEF Peers, LinkIsEmpty, DeviceGets

(* What the device takes and sends otherwise.  Whatever it sends for r is   *)
(* addressed to the stream that r was started for.                          *)
LEMMA PeersAnswer ==
    ASSUME TypeOK, TypeOK', Peers, StreamsKept, remoteId' = remoteId,
           outbox' = outbox, devNext' = devNext, devHost' = devHost, link' = link,
           \A r \in RemoteIds : Started(r)' = Started(r),
           h2d' = h2d \/ \E cmd \in Commands : DeviceGets(cmd),
           \/ d2h' = d2h
           \/ \E r \in RemoteIds, cmd \in Commands, n \in Nat :
                 Started(r) /\ DeviceSends(Msg(cmd, r, devHost[r], n))
           \/ \E cmd \in Commands \ {"OKAY", "WRTE"}, i \in LocalIds :
                 DeviceSends(Msg(cmd, 0, i, 0))
    PROVE  Peers'
<1>1. ServicesQuiet
  BY DEF ServicesQuiet
<1>2. OpensQuiet
  <2>1. Upward \in Seq(HostMessages)
    BY UpwardTyped DEF TypeOK
  <2>2. CASE h2d' = h2d
    BY <2>1, <2>2, SameSlice DEF OpensQuiet, Upward
  <2>3. ASSUME NEW cmd \in Commands, DeviceGets(cmd) PROVE OpensQuiet
    <3>1. /\ Len(Upward') = Len(Upward) - 1 /\ Len(Upward) \in Nat
          /\ \A k \in 1 .. Len(Upward') : Upward'[k] = Upward[k + 1]
      BY <2>1, <2>3, GetsSlice, LenProperties DEF TypeOK
    <3>. QED
      BY <3>1 DEF OpensQuiet, Slice
  <2>. QED
    BY <2>2, <2>3
<1>3. MessagesQuiet
  <2>1. d2h \in Seq(DeviceMessages)
    BY DEF TypeOK, TypeOKLink
  <2>2. CASE d2h' = d2h
    BY <2>1, <2>2, SameSlice DEF MessagesQuiet
  <2>3. ASSUME NEW m \in DeviceMessages, DeviceSends(m),
               m.cmd \in {"OKAY", "WRTE"} => FromService(m)
        PROVE  MessagesQuiet
    BY <2>1, <2>3, AppendGrown DEF MessagesQuiet, DeviceSends
  <2>4. ASSUME NEW r \in RemoteIds, NEW cmd \in Commands, NEW n \in Nat, Started(r),
               DeviceSends(Msg(cmd, r, devHost[r], n))
        PROVE  MessagesQuiet
    <3>1. Msg(cmd, r, devHost[r], n) \in DeviceMessages
      BY RemoteIdsAssumption DEF Msg, DeviceMessages, TypeOK, TypeOKDevice
    <3>2. FromService(Msg(cmd, r, devHost[r], n))
      BY <2>4 DEF FromService, Msg
    <3>. QED
      BY <2>3, <2>4, <3>1, <3>2
  <2>5. ASSUME NEW cmd \in Commands \ {"OKAY", "WRTE"}, NEW i \in LocalIds,
               DeviceSends(Msg(cmd, 0, i, 0))
        PROVE  MessagesQuiet
    <3>1. Msg(cmd, 0, i, 0) \in DeviceMessages /\ Msg(cmd, 0, i, 0).cmd \notin {"OKAY", "WRTE"}
      BY DEF Msg, DeviceMessages
    <3>. QED
      BY <2>3, <2>5, <3>1
  <2>. QED
    BY <2>2, <2>4, <2>5
<1>4. LinkIsEmpty'
  BY DEF Peers, LinkIsEmpty, DeviceGets
<1>. QED
  BY <1>1, <1>2, <1>3, <1>4, ServicesFrame, OpensFrame, MessagesFrame, RemotesFrame
  DEF Peers, ServicesQuiet

LEMMA PeersDevice ==
    ASSUME TypeOK, TypeOK', Allocated, Peers, StreamsKept, Device
    PROVE  Peers'
<1>. USE DEF streamVars, stateVars, writerVars, deviceVars, Commands, StrayCommands
<1>1. CASE DevOpen
  <2>1. Head(h2d).arg0 \in LocalIds
    BY <1>1, DeviceGetsTyped DEF DevOpen, TypeOK, TypeOKLink
  <2>2. CASE devNext' = devNext /\ devSt' = devSt /\ devHost' = devHost
             /\ DeviceSends(Msg("CLSE", 0, Head(h2d).arg0, 0))
    BY <1>1, <2>1, <2>2, PeersAnswer DEF DevOpen, Started, DeviceGets
  <2>. QED
    BY <1>1, <2>2, PeersStart DEF DevOpen
<1>2. CASE DevWrite
  <2>1. \A r \in RemoteIds : Started(r)' = Started(r)
    BY <1>2 DEF DevWrite, Started
  <2>. QED
    BY <1>2, <2>1, PeersAnswer DEF DevWrite, KnownToDevice, Started, DeviceGets
<1>3. CASE DevOkay
  BY <1>3, PeersAnswer DEF DevOkay, Started, DeviceGets
<1>4. CASE DevClose
  <2>1. \A r \in RemoteIds : Started(r)' = Started(r)
    BY <1>4 DEF DevClose, KnownToDevice, Started, TypeOK, TypeOKDevice
  <2>. QED
    BY <1>4, <2>1, PeersAnswer DEF DevClose, KnownToDevice, Started, DeviceGets
<1>5. ASSUME NEW r \in RemoteIds, DevOutput(r) PROVE Peers'
  <2>1. devSent[r] + 1 \in Nat
    BY DEF TypeOK, TypeOKDevice
  <2>. QED
    BY <1>5, <2>1, PeersAnswer DEF DevOutput, Started
<1>6. ASSUME NEW r \in RemoteIds, DevFinish(r) PROVE Peers'
  <2>1. \A q \in RemoteIds : Started(q)' = Started(q)
    BY <1>6 DEF DevFinish, Started, TypeOK, TypeOKDevice
  <2>. QED
    BY <1>6, <2>1, PeersAnswer DEF DevFinish, Started
<1>7. ASSUME NEW cmd \in Strays, DevStray(cmd) PROVE Peers'
  <2>1. cmd \in StrayCommands /\ 0 \in LocalIds
    BY EnvironmentAssumption, IdSpaceAssumption DEF LocalIds
  <2>. QED
    BY <1>7, <2>1, PeersAnswer DEF DevStray, Started, StrayCommands
<1>. QED
  BY <1>1, <1>2, <1>3, <1>4, <1>5, <1>6, <1>7 DEF Device, DeviceReceives

LEMMA PeersCarry ==
    ASSUME TypeOK, TypeOK', Peers, StreamsKept, WriterTask \/ LinkDown
    PROVE  Peers'
<1>1. /\ d2h' = d2h /\ remoteId' = remoteId /\ UNCHANGED deviceVars
      /\ LinkIsEmpty'
  BY DEF WriterTask, WriterSends, WriterAborts, LinkDown, LinkIsEmpty, Peers,
         linkVars, streamVars, stateVars
<1>2. ServicesQuiet
  BY <1>1 DEF ServicesQuiet, deviceVars, Started
<1>3. OpensQuiet
  BY CarrySlice DEF OpensQuiet, Peers, TypeOK
<1>4. MessagesQuiet
  BY <1>1, SameSlice DEF MessagesQuiet, TypeOK, TypeOKLink
<1>. QED
  BY <1>1, <1>2, <1>3, <1>4, ServicesFrame, OpensFrame, MessagesFrame, RemotesFrame
  DEF Peers, ServicesQuiet

LEMMA PeersStep == ASSUME IdsSuffice, PeersInv, [Next]_vars PROVE PeersInv'
<1>1. RoutingInv /\ RoutingInv' /\ Peers
  BY RoutingStep DEF PeersInv
<1>2. TypeOK /\ TypeOK' /\ Allocated /\ Phases /\ StreamsKept
  BY <1>1, StreamsKeptStep DEF RoutingInv
<1>3. CASE UNCHANGED vars
  <2>1. UNCHANGED <<remoteId, outbox, devNext, devHost, devSt, link, h2d, d2h>>
    BY <1>3 DEF vars, streamVars, taskVars, stateVars, writerVars, linkVars, deviceVars
  <2>. QED
    <3>1. \A r \in RemoteIds : Started(r)' = Started(r)
      BY <2>1 DEF Started
    <3>. QED
      BY <1>1, <1>2, <2>1, <3>1, PeersAnswer DEF PeersInv
<1>. QED
  BY <1>1, <1>2, <1>3, PeersOwner, PeersTasks, PeersCarry, PeersDevice DEF Next, PeersInv

LEMMA PeersInitial == ASSUME IdsSuffice, Init PROVE PeersInv
<1>1. RoutingInv
  BY RoutingInit
<1>2. Upward = <<>>
  BY DEF Init, Upward
<1>. QED
  BY <1>1, <1>2 DEF PeersInv, Peers, LinkIsEmpty, ServicesKnown, OpensPending,
     ServicesApart, MessagesMatch, RemotesMatch, Started, Init

(* As long as ids do not come round, the two ends of a stream belong        *)
(* together: the id a stream learns is that of the service its own OPEN     *)
(* started, whatever is opened, refused, closed, cancelled or lost beside   *)
(* it, and however late the OKAY is.                                        *)
THEOREM StreamsMeetServices ==
    ASSUME IdsSuffice
    PROVE  Spec => []EndsAgree
<1>1. Init => PeersInv
  BY PeersInitial
<1>2. PeersInv /\ [Next]_vars => PeersInv'
  BY PeersStep
<1>3. PeersInv => EndsAgree
  BY DEF PeersInv, RoutingInv, Peers, RemotesMatch, Serves, Allocated, EndsAgree
<1>. QED
  BY <1>1, <1>2, <1>3, PTL DEF Spec

=============================================================================
