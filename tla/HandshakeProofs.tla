-------------------------- MODULE HandshakeProofs --------------------------
(***************************************************************************)
(* Theorems about the handshake, for any limit on stale frames, any wait,  *)
(* any versions and any offers: typing, that a known key is never offered, *)
(* that it is connected to, and that both ends of an established           *)
(* connection follow one policy.                                           *)
(***************************************************************************)
EXTENDS HandshakeProps, FiniteSetTheorems, TLAPS

(* No message of a queue has that command; at most one has. *)
None(q, cmd)    == \A i \in 1 .. Len(q) : q[i].cmd # cmd
OnlyOne(q, cmd) == \A i, j \in 1 .. Len(q) :
                      q[i].cmd = cmd /\ q[j].cmd = cmd => i = j

(* Every message of the queue with that command carries that token. *)
Carry(q, cmd, t) == \A i \in 1 .. Len(q) : q[i].cmd = cmd => q[i].arg0 = t

(* Queues lose such a property neither by taking a message off nor by       *)
(* adding one of another command.                                           *)
LEMMA NoneKept ==
    ASSUME NEW q \in Seq(Messages), NEW cmd, None(q, cmd)
    PROVE  /\ q # <<>> => None(Tail(q), cmd)
           /\ \A m \in Messages : m.cmd # cmd => None(Append(q, m), cmd)
           /\ \A m \in Messages : OnlyOne(Append(q, m), cmd)
BY DEF None, OnlyOne

(* The only such message of a queue, once taken, leaves none. *)
LEMMA OnlyOneKept ==
    ASSUME NEW q \in Seq(Messages), NEW cmd, OnlyOne(q, cmd)
    PROVE  /\ q # <<>> => OnlyOne(Tail(q), cmd)
           /\ \A m \in Messages : m.cmd # cmd => OnlyOne(Append(q, m), cmd)
           /\ q # <<>> /\ Head(q).cmd = cmd => None(Tail(q), cmd)
BY DEF None, OnlyOne

(* A queue in which every such message carries a token stays one when it   *)
(* grows by another message with that token, or by another command.         *)
LEMMA CarryKept ==
    ASSUME NEW q \in Seq(Messages), NEW cmd, NEW t, Carry(q, cmd, t)
    PROVE  /\ q # <<>> => Carry(Tail(q), cmd, t)
           /\ \A m \in Messages : m.cmd # cmd \/ m.arg0 = t
                 => Carry(Append(q, m), cmd, t)
BY DEF Carry

(* What negotiate leaves as the limit is one that both ends can use. *)
LEMMA OfferedTyped ==
    ASSUME NEW n \in Nat
    PROVE  Offered(n) \in 1 .. MaxPayload
BY PayloadAssumption DEF Offered, LesserOf

(* negotiate yields a policy whatever the device has sent. *)
LEMMA NegotiatedTyped ==
    ASSUME NEW v \in Nat, NEW n \in Nat
    PROVE  Negotiated(v, n) \in ConfigType
BY OfferedTyped DEF Negotiated, Wire, ConfigType

(* Every message of either side is a message. *)
LEMMA MsgFields ==
    \A cmd, i, j : /\ Msg(cmd, i, j).cmd = cmd
                   /\ Msg(cmd, i, j).arg0 = i /\ Msg(cmd, i, j).arg1 = j
BY DEF Msg

(* A command of the protocol with two numbers is a message of a queue. *)
LEMMA MsgTyped ==
    ASSUME NEW cmd \in {"CNXN", "AUTH", "SIGNATURE", "RSAPUBLICKEY", "STLS"}
                       \cup StreamFrames \cup OddKinds,
           NEW i \in Nat, NEW j \in Nat
    PROVE  Msg(cmd, i, j) \in Messages
BY DEF Msg, Messages

(* Both answers of the device are messages, and a new token is a number. *)
LEMMA ChallengesTyped ==
    ASSUME d2h \in Seq(Messages), token \in Nat, Challenges
    PROVE  /\ d2h' \in Seq(Messages) /\ token' \in Nat
           /\ Msg("AUTH", token', 0) \in Messages
<1>1. token' \in Nat
  BY DEF Challenges
<1>2. Msg("AUTH", token', 0) \in Messages
  BY <1>1, MsgTyped
<1>. QED
  BY <1>1, <1>2 DEF Challenges, DeviceSends

(* The greeting of a device that accepts is a message. *)
LEMMA AcceptsTyped ==
    ASSUME d2h \in Seq(Messages), Accepts,
           devVersion \in Versions, devOffer \in Offers
    PROVE  d2h' \in Seq(Messages) /\ Msg("CNXN", devVersion, devOffer) \in Messages
<1>1. Msg("CNXN", devVersion, devOffer) \in Messages
  BY MsgTyped, VersionAssumption, PayloadAssumption
<1>. QED
  BY <1>1 DEF Accepts, DeviceSends

-----------------------------------------------------------------------------
(* Typing *)

(* The host's next message. *)
LEMMA GetsTyped ==
    ASSUME d2h \in Seq(Messages), NEW cmd, Gets(cmd)
    PROVE  /\ Head(d2h) \in Messages /\ d2h' \in Seq(Messages)
           /\ timer' = 0 /\ UNCHANGED <<waited, link>>
<1>1. Head(d2h) \in Messages /\ Tail(d2h) \in Seq(Messages)
  BY DEF Gets
<1>. QED
  BY <1>1 DEF Gets

(* Every step keeps every variable typed. *)
LEMMA TypeStep ==
    ASSUME TypeOK, [Next]_vars
    PROVE  TypeOK'
<1>. USE DEF TypeOK, hostVars, clockVars, linkVars, policyVars, deviceVars
<1>1. ASSUME Begin  PROVE TypeOK'
  <2>1. /\ Msg("CNXN", Version, MaxPayload) \in Messages
        /\ InitialConfig \in ConfigType
    BY MsgTyped, VersionAssumption, PayloadAssumption
    DEF InitialConfig, Wire, ConfigType
  <2>. QED BY <1>1, <2>1 DEF Begin, Ends, HostSends, SendFails, Results
<1>2. ASSUME GetConnect  PROVE TypeOK'
  <2>1. Head(d2h) \in Messages
    BY <1>2 DEF GetConnect, Gets
  <2>2. Negotiated(Head(d2h).arg0, Head(d2h).arg1) \in ConfigType
    BY <2>1, NegotiatedTyped DEF Messages
  <2>3. d2h' \in Seq(Messages)
    BY <1>2 DEF GetConnect, Gets
  <2>. QED BY <1>2, <2>2, <2>3, WaitAssumption DEF GetConnect, Gets, Ends, Results
<1>3. ASSUME GetToken  PROVE TypeOK'
  <2>1. Head(d2h) \in Messages /\ d2h' \in Seq(Messages)
    BY <1>3 DEF GetToken, Gets
  <2>2. /\ Msg("SIGNATURE", Head(d2h).arg0, 0) \in Messages
        /\ Msg("RSAPUBLICKEY", 0, 0) \in Messages
    BY <2>1, MsgTyped DEF Messages
  <2>3. h2d \in Seq(Messages) /\ UNCHANGED link
    BY <1>3 DEF GetToken, Gets
  <2>. HIDE DEF TypeOK
  <2>4. h2d' \in Seq(Messages)
    BY <1>3, <2>2, <2>3 DEF GetToken, HostSends, SendFails
  <2>5. sentSignature' \in BOOLEAN /\ sentPubkey' \in BOOLEAN
    BY <1>3 DEF GetToken, TypeOK
  <2>6. sentPubkey' => sentSignature'
    <3>1. sentPubkey => sentSignature
      BY DEF TypeOK
    <3>2. \/ UNCHANGED <<sentSignature, sentPubkey>>
          \/ sentSignature' = TRUE
          \/ sentSignature /\ UNCHANGED sentSignature
      BY <1>3 DEF GetToken, ToOffer
    <3>. QED BY <3>1, <3>2
  <2>7. /\ (at' = "done" /\ result' \in Results \ {"none"}) \/ UNCHANGED <<at, result>>
    BY <1>3 DEF GetToken, Ends, SendFails, Results
  <2>8. timer' \in 0 .. AuthWait /\ UNCHANGED <<waited, skipped, config, deviceVars, link>>
    BY <1>3, WaitAssumption DEF GetToken, Gets
  <2>9. /\ at' \in {"start", "recv", "done"} /\ result' \in Results
        /\ (result' = "none") = (at' # "done")
    BY <2>7 DEF TypeOK, Results
  <2>10. link' \in {"up", "down"} /\ skipped' \in Nat /\ config' \in ConfigType /\ waited' \in Nat
    BY <2>8 DEF TypeOK
  <2>. QED BY <2>1, <2>4, <2>5, <2>6, <2>8, <2>9, <2>10 DEF TypeOK, deviceVars
<1>4. ASSUME Rejected  PROVE TypeOK'
  <2>1. d2h' \in Seq(Messages)
    BY <1>4, GetsTyped DEF Rejected
  <2>. QED BY <1>4, <2>1, WaitAssumption DEF Rejected, Gets, Ends, Results
<1>5. ASSUME Skip  PROVE TypeOK'
  <2>1. d2h' \in Seq(Messages)
    BY <1>5, GetsTyped DEF Skip
  <2>. QED BY <1>5, <2>1, WaitAssumption DEF Skip, Gets, Ends, Results
<1>6. ASSUME RecvFails  PROVE TypeOK'
  BY <1>6 DEF RecvFails, Gets, Ends, HostSends, SendFails, DeviceGets, DeviceSends, Results
<1>7. ASSUME Timeout  PROVE TypeOK'
  BY <1>7 DEF Timeout, Gets, Ends, HostSends, SendFails, DeviceGets, DeviceSends, Results
<1>8. ASSUME Tick  PROVE TypeOK'
  BY <1>8, WaitAssumption DEF Tick
<1>9. ASSUME LinkDown  PROVE TypeOK'
  BY <1>9 DEF LinkDown, Gets, Ends, HostSends, SendFails, DeviceGets, DeviceSends, Results
<1>10. ASSUME DevConnect  PROVE TypeOK'
  <2>1. Msg("STLS", 0, 0) \in Messages
    BY MsgTyped
  <2>2. h2d' \in Seq(Messages)
    BY <1>10 DEF DevConnect, DeviceGets
  <2>3. dev' \in {"offline", "challenged", "asking", "tls", "online"}
    BY <1>10 DEF DevConnect, Accepts
  <2>4. CASE auth = "tls"
    <3>1. DeviceSends(Msg("STLS", 0, 0)) /\ UNCHANGED token
      BY <1>10, <2>4 DEF DevConnect
    <3>2. d2h' \in Seq(Messages)
      BY <2>1, <3>1 DEF DeviceSends
    <3>. QED BY <1>10, <2>2, <2>3, <3>1, <3>2 DEF DevConnect, DeviceGets
  <2>5. CASE auth # "tls"
    <3>1. Accepts \/ Challenges
      BY <1>10, <2>5 DEF DevConnect
    <3>2. d2h' \in Seq(Messages)
      BY <3>1, AcceptsTyped, ChallengesTyped
    <3>3. token' \in Nat
      BY <3>1, ChallengesTyped DEF Accepts
    <3>. QED BY <1>10, <2>2, <2>3, <3>2, <3>3 DEF DevConnect, DeviceGets
  <2>. QED BY <2>4, <2>5
<1>11. ASSUME DevSignature  PROVE TypeOK'
  <2>1. h2d' \in Seq(Messages)
    BY <1>11 DEF DevSignature, DeviceGets
  <2>2. d2h' \in Seq(Messages) /\ token' \in Nat
    BY <1>11, AcceptsTyped, ChallengesTyped DEF DevSignature, Accepts
  <2>3. dev' \in {"offline", "challenged", "asking", "tls", "online"}
    BY <1>11 DEF DevSignature, Accepts
  <2>. QED BY <1>11, <2>1, <2>2, <2>3 DEF DevSignature, DeviceGets
<1>12. ASSUME DevPublicKey  PROVE TypeOK'
  BY <1>12 DEF DevPublicKey, Gets, Ends, HostSends, SendFails, DeviceGets, DeviceSends, Results
<1>13. ASSUME UserAllows  PROVE TypeOK'
  <2>1. Msg("CNXN", devVersion, devOffer) \in Messages
    BY MsgTyped, VersionAssumption, PayloadAssumption
  <2>. QED BY <1>13, <2>1 DEF UserAllows, DeviceSends, Accepts
<1>14. ASSUME DevOld  PROVE TypeOK'
  <2>1. \A cmd \in OldFrames : Msg(cmd, 0, 0) \in Messages
    BY MsgTyped, FrameAssumption
  <2>. QED BY <1>14, <2>1 DEF DevOld, DeviceSends
<1>15. ASSUME DevOdd  PROVE TypeOK'
  <2>1. \A cmd \in OddFrames : Msg(cmd, 0, 0) \in Messages
    BY MsgTyped, FrameAssumption
  <2>. QED BY <1>15, <2>1 DEF DevOdd, DeviceSends
<1>16. ASSUME UNCHANGED vars  PROVE TypeOK'
  BY <1>16 DEF vars
<1>. QED
  BY <1>1, <1>2, <1>3, <1>4, <1>5, <1>6, <1>7, <1>8, <1>9, <1>10, <1>11, <1>12, <1>13, <1>14, <1>15, <1>16 DEF Next, Host, DeviceReceives

(* The handshake starts with every variable typed. *)
LEMMA TypeInit == Init => TypeOK
<1>. SUFFICES ASSUME Init  PROVE TypeOK
  OBVIOUS
<1>1. config \in ConfigType
  BY PayloadAssumption DEF Init, InitialConfig, Wire, ConfigType
<1>2. h2d \in Seq(Messages) /\ d2h \in Seq(Messages)
  BY DEF Init
<1>3. at = "start" /\ result = "none" /\ timer \in 0 .. AuthWait
  BY WaitAssumption DEF Init
<1>4. sentSignature = FALSE /\ sentPubkey = FALSE /\ odd = FALSE
  BY DEF Init
<1>. QED
  BY <1>1, <1>2, <1>3, <1>4 DEF Init, TypeOK, Results

(* Every variable of the handshake always holds a value of its type, a      *)
(* result is there exactly when the loop has ended, and a key is offered    *)
(* only after a signature.                                                  *)
THEOREM TypeCorrect == Spec => []TypeOK
BY TypeInit, TypeStep, PTL DEF Spec

-----------------------------------------------------------------------------
(* One greeting *)

(* Every message of the queue is a greeting. *)
Greetings(q) == \A i \in 1 .. Len(q) : q[i].cmd = "CNXN"

(* The host greets once, before anything else, and the device is offline    *)
(* until it has read that; before it has, there is nothing to sign.         *)
Greeting ==
    /\ at = "start" => h2d = <<>> /\ dev = "offline"
    /\ OnlyOne(h2d, "CNXN")
    /\ dev = "offline" => ~sentSignature /\ Carry(d2h, "AUTH", 0) /\ Greetings(h2d)
    /\ dev # "offline" => None(h2d, "CNXN")

(* Every step of the host, the link and the device keeps Greeting. *)
LEMMA GreetingStep ==
    ASSUME TypeOK, Greeting, [Next]_vars
    PROVE  Greeting'
<1>. USE DEF Greeting, hostVars, clockVars, linkVars, policyVars, deviceVars
<1>1. ASSUME Begin  PROVE Greeting'
  <2>1. None(<<>>, "CNXN") /\ Greetings(<<>>)
    BY DEF None, Greetings
  <2>2. Msg("CNXN", Version, MaxPayload) \in Messages
    BY MsgTyped, VersionAssumption, PayloadAssumption
  <2>3. OnlyOne(h2d', "CNXN")
    BY <1>1, <2>1, <2>2, NoneKept DEF Begin, HostSends, SendFails, TypeOK
  <2>4. Greetings(h2d')
    BY <1>1, <2>1, <2>2 DEF Begin, HostSends, SendFails, Greetings, Msg
  <2>. QED BY <1>1, <2>3, <2>4 DEF Begin, Ends, SendFails
<1>2. ASSUME GetConnect  PROVE Greeting'
  <2>1. dev = "offline" => Carry(d2h', "AUTH", 0)
    BY <1>2, CarryKept DEF GetConnect, Gets, TypeOK
  <2>. QED BY <1>2, <2>1 DEF GetConnect, Gets, Ends
<1>3. ASSUME GetToken  PROVE Greeting'
  <2>1. /\ Head(d2h) \in Messages /\ h2d \in Seq(Messages)
        /\ d2h \in Seq(Messages) /\ d2h # <<>>
    BY <1>3 DEF GetToken, Gets, TypeOK
  <2>2. CASE dev = "offline"
    <3>1. Head(d2h).arg0 = 0 /\ ToSign
      BY <1>3, <2>1, <2>2 DEF GetToken, Gets, Carry, ToSign
    <3>2. UNCHANGED <<h2d, sentSignature, dev>> /\ at' = "done"
      BY <1>3, <3>1 DEF GetToken, ToSign, ToOffer, Ends, SendFails
    <3>3. Carry(d2h', "AUTH", 0)
      BY <1>3, <2>1, <2>2, CarryKept DEF GetToken, Gets
    <3>. QED BY <2>2, <3>2, <3>3
  <2>3. CASE dev # "offline"
    <3>1. Head(d2h).arg0 \in Nat
      BY <2>1 DEF Messages
    <3>2. /\ Msg("SIGNATURE", Head(d2h).arg0, 0) \in Messages
          /\ Msg("RSAPUBLICKEY", 0, 0) \in Messages
      BY <3>1, MsgTyped
    <3>3. /\ Msg("SIGNATURE", Head(d2h).arg0, 0) \in Messages
          /\ Msg("SIGNATURE", Head(d2h).arg0, 0).cmd # "CNXN"
          /\ Msg("RSAPUBLICKEY", 0, 0) \in Messages
          /\ Msg("RSAPUBLICKEY", 0, 0).cmd # "CNXN"
      BY <3>2, MsgFields
    <3>4. OnlyOne(h2d', "CNXN")
      BY <1>3, <2>1, <3>3, OnlyOneKept DEF GetToken, HostSends, SendFails
    <3>5. None(h2d', "CNXN")
      BY <1>3, <2>1, <2>3, <3>3, NoneKept DEF GetToken, HostSends, SendFails
    <3>6. at' # "start" /\ dev' = dev
      BY <1>3 DEF GetToken, Gets, Ends, SendFails
    <3>. QED BY <2>3, <3>4, <3>5, <3>6
  <2>. QED BY <2>2, <2>3
<1>4. ASSUME Rejected  PROVE Greeting'
  <2>1. dev = "offline" => Carry(d2h', "AUTH", 0)
    BY <1>4, CarryKept DEF Rejected, Gets, TypeOK
  <2>. QED BY <1>4, <2>1 DEF Rejected, Gets, Ends
<1>5. ASSUME Skip  PROVE Greeting'
  <2>1. dev = "offline" => Carry(d2h', "AUTH", 0)
    BY <1>5, CarryKept DEF Skip, Gets, TypeOK
  <2>. QED BY <1>5, <2>1 DEF Skip, Gets, Ends
<1>6. ASSUME RecvFails  PROVE Greeting'
  <2>1. Carry(<<>>, "AUTH", 0)
    BY DEF Carry
  <2>. QED BY <1>6, <2>1 DEF RecvFails, Ends
<1>7. ASSUME Timeout  PROVE Greeting'
  <2>1. dev = "offline" => Carry(d2h', "AUTH", 0)
    BY <1>7, CarryKept DEF Timeout, Gets, TypeOK
  <2>. QED BY <1>7, <2>1 DEF Timeout, Gets, Ends
<1>8. ASSUME Tick  PROVE Greeting'
  <2>1. dev = "offline" => Carry(d2h', "AUTH", 0)
    BY <1>8, CarryKept DEF Tick, Gets, TypeOK
  <2>. QED BY <1>8, <2>1 DEF Tick, Gets, Ends
<1>9. ASSUME LinkDown  PROVE Greeting'
  <2>1. None(<<>>, "CNXN") /\ OnlyOne(<<>>, "CNXN") /\ Greetings(<<>>)
    BY DEF None, OnlyOne, Greetings
  <2>. QED BY <1>9, <2>1 DEF LinkDown
<1>10. ASSUME DevConnect  PROVE Greeting'
  <2>1. None(h2d', "CNXN") /\ OnlyOne(h2d', "CNXN")
    BY <1>10, OnlyOneKept DEF DevConnect, DeviceGets, TypeOK
  <2>2. dev' # "offline" /\ UNCHANGED at /\ at # "start"
    BY <1>10 DEF DevConnect, DeviceGets, Accepts
  <2>. QED BY <2>1, <2>2
<1>11. ASSUME DevSignature  PROVE Greeting'
  <2>1. dev # "offline"
    BY <1>11 DEF DevSignature, DeviceGets, Greetings, TypeOK
  <2>2. OnlyOne(h2d', "CNXN") /\ None(h2d', "CNXN")
    BY <1>11, <2>1, OnlyOneKept, NoneKept DEF DevSignature, DeviceGets, TypeOK
  <2>3. dev' # "offline" /\ UNCHANGED at /\ at # "start"
    BY <1>11, <2>1 DEF DevSignature, DeviceGets, Accepts
  <2>. QED BY <2>2, <2>3
<1>12. ASSUME DevPublicKey  PROVE Greeting'
  <2>1. dev # "offline"
    BY <1>12 DEF DevPublicKey, DeviceGets, Greetings, TypeOK
  <2>2. OnlyOne(h2d', "CNXN") /\ None(h2d', "CNXN")
    BY <1>12, <2>1, OnlyOneKept, NoneKept DEF DevPublicKey, DeviceGets, TypeOK
  <2>3. dev' # "offline" /\ UNCHANGED at /\ at # "start"
    BY <1>12, <2>1 DEF DevPublicKey, DeviceGets
  <2>. QED BY <2>2, <2>3
<1>13. ASSUME UserAllows  PROVE Greeting'
  BY <1>13 DEF UserAllows, Accepts
<1>14. ASSUME DevOld  PROVE Greeting'
  <2>1. \A cmd \in OldFrames : /\ Msg(cmd, 0, 0) \in Messages
                                /\ Msg(cmd, 0, 0).cmd # "AUTH"
    BY MsgTyped, MsgFields, FrameAssumption DEF StreamFrames
  <2>2. dev = "offline" => Carry(d2h', "AUTH", 0)
    BY <1>14, <2>1, CarryKept DEF DevOld, DeviceSends, TypeOK
  <2>. QED BY <1>14, <2>2 DEF DevOld
<1>15. ASSUME DevOdd  PROVE Greeting'
  <2>1. \A cmd \in OddFrames : Msg(cmd, 0, 0) \in Messages
    BY MsgTyped, FrameAssumption
  <2>2. \A cmd \in OddFrames : /\ Msg(cmd, 0, 0) \in Messages
                                /\ Msg(cmd, 0, 0).arg0 = 0
    BY <2>1, MsgFields
  <2>3. dev = "offline" => Carry(d2h', "AUTH", 0)
    BY <1>15, <2>2, CarryKept DEF DevOdd, DeviceSends, TypeOK
  <2>. QED BY <1>15, <2>3 DEF DevOdd
<1>16. ASSUME UNCHANGED vars  PROVE Greeting'
  BY <1>16 DEF vars
<1>. QED
  BY <1>1, <1>2, <1>3, <1>4, <1>5, <1>6, <1>7, <1>8, <1>9, <1>10, <1>11, <1>12, <1>13, <1>14, <1>15, <1>16 DEF Next, Host, DeviceReceives

(* Before the first CNXN nothing has been sent, and Greeting holds. *)
LEMMA GreetingInit == Init => Greeting
BY DEF Init, Greeting, OnlyOne, None, Greetings, Carry

-----------------------------------------------------------------------------
(* One policy *)

(* Only an online device sends a greeting, and it tells the truth about     *)
(* itself; the host's policy is the one negotiated from that greeting.      *)
Truth ==
    /\ \A i \in 1 .. Len(d2h) :
          d2h[i].cmd = "CNXN" => /\ dev = "online"
                                 /\ d2h[i].arg0 = devVersion
                                 /\ d2h[i].arg1 = devOffer
    /\ result = "ok" => /\ dev = "online"
                        /\ config = Negotiated(devVersion, devOffer)

(* A step that adds no greeting to the device's queue, keeps the device     *)
(* online and leaves an established policy alone keeps Truth.               *)
LEMMA TruthFrame ==
    ASSUME TypeOK, Truth, UNCHANGED <<devVersion, devOffer>>,
           dev = "online" => dev' = "online",
           \/ UNCHANGED d2h
           \/ d2h # <<>> /\ d2h' = Tail(d2h)
           \/ \E m \in Messages : m.cmd # "CNXN" /\ d2h' = Append(d2h, m),
           result' = "ok" => result = "ok" /\ UNCHANGED config
    PROVE  Truth'
<1>1. d2h \in Seq(Messages)
  BY DEF TypeOK
<1>2. ASSUME NEW i \in 1 .. Len(d2h'), d2h'[i].cmd = "CNXN"
      PROVE  /\ dev' = "online"
             /\ d2h'[i].arg0 = devVersion' /\ d2h'[i].arg1 = devOffer'
  <2>1. \E j \in 1 .. Len(d2h) : d2h[j] = d2h'[i]
    <3>1. CASE UNCHANGED d2h
      BY <1>2, <3>1
    <3>2. CASE d2h # <<>> /\ d2h' = Tail(d2h)
      <4>1. i + 1 \in 1 .. Len(d2h) /\ d2h[i + 1] = d2h'[i]
        BY <1>1, <1>2, <3>2
      <4>. QED BY <4>1
    <3>3. CASE \E m \in Messages : m.cmd # "CNXN" /\ d2h' = Append(d2h, m)
      BY <1>1, <1>2, <3>3
    <3>. QED BY <3>1, <3>2, <3>3
  <2>. QED BY <1>2, <2>1 DEF Truth
<1>. QED BY <1>2 DEF Truth

(* Every step keeps Truth: GetConnect takes the policy from the greeting    *)
(* at the head of the queue, and only Accepts adds one.                     *)
LEMMA TruthStep ==
    ASSUME TypeOK, Greeting, Truth, [Next]_vars
    PROVE  Truth'
<1>. USE DEF hostVars, clockVars, linkVars, policyVars, deviceVars
<1>1. ASSUME Accepts, UNCHANGED <<policyVars, result, config>>
      PROVE  Truth'
  <2>1. d2h \in Seq(Messages) /\ d2h' = Append(d2h, Msg("CNXN", devVersion, devOffer))
    BY <1>1 DEF TypeOK, Accepts, DeviceSends
  <2>2. \A i \in 1 .. Len(d2h') : \/ i \in 1 .. Len(d2h) /\ d2h'[i] = d2h[i]
                                  \/ d2h'[i] = Msg("CNXN", devVersion, devOffer)
    BY <2>1
  <2>. QED BY <1>1, <2>2, MsgFields DEF Truth, Accepts
<1>2. CASE Begin
  BY <1>2, TruthFrame DEF Begin, Ends, SendFails, TypeOK
<1>3. CASE GetConnect
  <2>1. /\ dev = "online" /\ d2h # <<>> /\ d2h \in Seq(Messages)
        /\ Head(d2h).arg0 = devVersion /\ Head(d2h).arg1 = devOffer
        /\ d2h' = Tail(d2h)
    BY <1>3 DEF GetConnect, Gets, Truth, TypeOK
  <2>2. UNCHANGED <<dev, devVersion, devOffer>>
    BY <1>3 DEF GetConnect
  <2>3. CASE result' = "ok"
    <3>1. config' = Negotiated(devVersion, devOffer)
      BY <1>3, <2>1, <2>3 DEF GetConnect, Ends
    <3>2. \A i \in 1 .. Len(d2h') : i + 1 \in 1 .. Len(d2h) /\ d2h'[i] = d2h[i + 1]
      BY <2>1
    <3>. QED BY <2>1, <2>2, <2>3, <3>1, <3>2 DEF Truth
  <2>4. CASE result' # "ok"
    BY <2>1, <2>2, <2>4, TruthFrame
  <2>. QED BY <2>3, <2>4
<1>4. CASE GetToken
  <2>1. UNCHANGED <<dev, devVersion, devOffer, config>> /\ d2h # <<>> /\ d2h' = Tail(d2h)
    BY <1>4 DEF GetToken, Gets
  <2>2. result' = "ok" => result = "ok"
    BY <1>4 DEF GetToken, Ends, SendFails
  <2>. QED BY <2>1, <2>2, TruthFrame
<1>5. CASE Rejected
  BY <1>5, TruthFrame DEF Rejected, Gets, Ends
<1>6. CASE Skip
  BY <1>6, TruthFrame DEF Skip, Gets, Ends
<1>7. CASE RecvFails
  BY <1>7 DEF RecvFails, Ends, Truth
<1>8. CASE Timeout
  BY <1>8, TruthFrame DEF Timeout, Ends
<1>9. CASE Tick
  BY <1>9, TruthFrame DEF Tick
<1>10. CASE LinkDown
  BY <1>10, TruthFrame DEF LinkDown
<1>11. CASE DevConnect
  <2>1. UNCHANGED <<policyVars, result, config>>
    BY <1>11 DEF DevConnect, DeviceGets
  <2>2. dev = "offline"
    BY <1>11 DEF DevConnect, DeviceGets, Greeting, None, TypeOK
  <2>3. CASE auth = "none"
    BY <1>1, <1>11, <2>1, <2>3 DEF DevConnect
  <2>4. CASE auth = "rsa"
    <3>1. Challenges
      BY <1>11, <2>4 DEF DevConnect
    <3>2. Msg("AUTH", token', 0) \in Messages /\ Msg("AUTH", token', 0).cmd # "CNXN"
      BY <3>1, ChallengesTyped, MsgFields DEF TypeOK
    <3>. QED BY <2>1, <2>2, <3>1, <3>2, TruthFrame DEF Challenges, DeviceSends
  <2>5. CASE auth = "tls"
    <3>1. Msg("STLS", 0, 0) \in Messages /\ Msg("STLS", 0, 0).cmd # "CNXN"
      BY MsgTyped, MsgFields
    <3>2. d2h' = Append(d2h, Msg("STLS", 0, 0))
      BY <1>11, <2>5 DEF DevConnect, DeviceSends
    <3>. QED BY <2>1, <2>2, <3>1, <3>2, TruthFrame
  <2>. QED BY <2>3, <2>4, <2>5 DEF TypeOK
<1>12. CASE DevSignature
  <2>1. UNCHANGED <<policyVars, result, config>>
    BY <1>12 DEF DevSignature, DeviceGets
  <2>2. CASE Accepts
    BY <1>1, <2>1, <2>2
  <2>3. CASE Challenges /\ UNCHANGED dev
    <3>1. Msg("AUTH", token', 0) \in Messages /\ Msg("AUTH", token', 0).cmd # "CNXN"
      BY <2>3, ChallengesTyped, MsgFields DEF TypeOK
    <3>. QED BY <2>1, <2>3, <3>1, TruthFrame DEF Challenges, DeviceSends
  <2>. QED BY <1>12, <2>2, <2>3 DEF DevSignature
<1>13. CASE DevPublicKey
  BY <1>13, TruthFrame DEF DevPublicKey, DeviceGets
<1>14. CASE UserAllows
  BY <1>1, <1>14 DEF UserAllows
<1>15. CASE DevOld
  <2>1. \A cmd \in OldFrames : Msg(cmd, 0, 0) \in Messages
    BY MsgTyped, FrameAssumption
  <2>2. \A cmd \in OldFrames : Msg(cmd, 0, 0).cmd # "CNXN"
    BY MsgFields, FrameAssumption DEF StreamFrames
  <2>. QED BY <1>15, <2>1, <2>2, TruthFrame DEF DevOld, DeviceSends
<1>16. CASE DevOdd
  <2>1. \A cmd \in OddFrames : Msg(cmd, 0, 0) \in Messages
    BY MsgTyped, FrameAssumption
  <2>2. \A cmd \in OddFrames : Msg(cmd, 0, 0).cmd # "CNXN"
    BY MsgFields, FrameAssumption DEF OddKinds
  <2>. QED BY <1>16, <2>1, <2>2, TruthFrame DEF DevOdd, DeviceSends
<1>17. CASE UNCHANGED vars
  BY <1>17, TruthFrame DEF vars
<1>. QED
  BY <1>2, <1>3, <1>4, <1>5, <1>6, <1>7, <1>8, <1>9, <1>10, <1>11, <1>12, <1>13, <1>14, <1>15, <1>16, <1>17 DEF Next, Host, DeviceReceives

(* When the handshake reports success the device is online and both ends    *)
(* follow the policy negotiate computes from the device's own greeting,     *)
(* whatever other frames, odd ones included, came before it.                *)
THEOREM OnePolicy == Spec => []PoliciesAgree
<1>1. Init => Truth
  BY DEF Init, Truth
<1>2. TypeOK /\ Truth => PoliciesAgree
  <2>. SUFFICES ASSUME TypeOK, Truth, result = "ok"
                PROVE  /\ dev = "online"
                       /\ config.compute = (devVersion < Version)
                       /\ config.verify = config.compute
                       /\ config.max = DeviceLimit
    BY DEF PoliciesAgree
  <2>1. /\ dev = "online" /\ config = Negotiated(devVersion, devOffer)
        /\ devVersion \in Nat /\ Version \in Nat
    BY VersionAssumption DEF Truth, TypeOK
  <2>2. (LesserOf(devVersion, Version) < Version) = (devVersion < Version)
    BY <2>1 DEF LesserOf
  <2>. QED BY <2>1, <2>2 DEF Negotiated, Wire, Offered, DeviceLimit
<1>. QED
  BY <1>1, <1>2, TypeInit, TypeStep, GreetingInit, GreetingStep, TruthStep, PTL DEF Spec

-----------------------------------------------------------------------------
(* A known key is not offered *)

(* What a device that knows the key, or does not ask for one, and sends     *)
(* nothing out of place, has exchanged with the host: at most one token,    *)
(* and no signature but of that token.                                      *)
Known == ~odd /\ (auth = "rsa" => trusts)

Unasked ==
    /\ ~sentPubkey /\ dev # "asking" /\ None(h2d, "RSAPUBLICKEY")
    /\ dev = "offline" \/ auth # "rsa" =>
          /\ token = 0 /\ ~sentSignature
          /\ None(d2h, "AUTH") /\ None(h2d, "SIGNATURE")
    /\ dev # "offline" /\ auth = "rsa" => token = 1
    /\ OnlyOne(d2h, "AUTH") /\ Carry(d2h, "AUTH", token)
    /\ sentSignature => None(d2h, "AUTH")
    /\ Carry(h2d, "SIGNATURE", token)

(* What Unasked says of the queues is kept when the device's queue loses    *)
(* its first message or gains one that is no AUTH.                          *)
LEMMA AuthsKept ==
    ASSUME TypeOK,
           \/ UNCHANGED d2h
           \/ d2h' = <<>>
           \/ d2h # <<>> /\ d2h' = Tail(d2h)
           \/ \E m \in Messages : m.cmd # "AUTH" /\ d2h' = Append(d2h, m)
    PROVE  /\ None(d2h, "AUTH") => None(d2h', "AUTH")
           /\ OnlyOne(d2h, "AUTH") => OnlyOne(d2h', "AUTH")
           /\ Carry(d2h, "AUTH", token) => Carry(d2h', "AUTH", token)
<1>1. d2h \in Seq(Messages)
  BY DEF TypeOK
<1>2. None(<<>>, "AUTH") /\ OnlyOne(<<>>, "AUTH") /\ Carry(<<>>, "AUTH", token)
  BY DEF None, OnlyOne, Carry
<1>. QED BY <1>1, <1>2, NoneKept, OnlyOneKept, CarryKept

(* The same for what the host sends. *)
LEMMA AnswersKept ==
    ASSUME TypeOK,
           \/ UNCHANGED h2d
           \/ h2d' = <<>>
           \/ h2d # <<>> /\ h2d' = Tail(h2d)
           \/ \E m \in Messages : /\ m.cmd \notin {"SIGNATURE", "RSAPUBLICKEY"}
                                  /\ h2d' = Append(h2d, m)
    PROVE  /\ None(h2d, "RSAPUBLICKEY") => None(h2d', "RSAPUBLICKEY")
           /\ None(h2d, "SIGNATURE") => None(h2d', "SIGNATURE")
           /\ Carry(h2d, "SIGNATURE", token) => Carry(h2d', "SIGNATURE", token)
<1>1. h2d \in Seq(Messages)
  BY DEF TypeOK
<1>2. None(<<>>, "RSAPUBLICKEY") /\ None(<<>>, "SIGNATURE") /\ Carry(<<>>, "SIGNATURE", token)
  BY DEF None, Carry
<1>. QED BY <1>1, <1>2, NoneKept, CarryKept

(* A step that neither signs nor offers nor challenges, and leaves the      *)
(* device's progress alone, keeps Unasked.                                  *)
LEMMA UnaskedFrame ==
    ASSUME TypeOK, Unasked,
           UNCHANGED <<sentSignature, sentPubkey, dev, token, auth>>,
           \/ UNCHANGED d2h
           \/ d2h' = <<>>
           \/ d2h # <<>> /\ d2h' = Tail(d2h)
           \/ \E m \in Messages : m.cmd # "AUTH" /\ d2h' = Append(d2h, m),
           \/ UNCHANGED h2d
           \/ h2d' = <<>>
           \/ h2d # <<>> /\ h2d' = Tail(h2d)
           \/ \E m \in Messages : /\ m.cmd \notin {"SIGNATURE", "RSAPUBLICKEY"}
                                  /\ h2d' = Append(h2d, m)
    PROVE  Unasked'
BY AuthsKept, AnswersKept DEF Unasked

(* Frames of a compliant device's earlier session are no AUTH. *)
LEMMA OldNoAuth ==
    \A cmd \in OldFrames : Msg(cmd, 0, 0) \in Messages /\ Msg(cmd, 0, 0).cmd # "AUTH"
<1>1. \A cmd \in OldFrames : Msg(cmd, 0, 0) \in Messages
  BY MsgTyped, FrameAssumption
<1>. QED BY <1>1, MsgFields, FrameAssumption DEF StreamFrames

(* Every step keeps Unasked while the device is one that has no reason to   *)
(* ask: GetToken signs the only token, and DevSignature accepts it.         *)
LEMMA UnaskedStep ==
    ASSUME TypeOK, Greeting, Known => Unasked, [Next]_vars
    PROVE  Known' => Unasked'
<1>. SUFFICES ASSUME Known'  PROVE Unasked'
  OBVIOUS
<1>. USE DEF hostVars, clockVars, linkVars, policyVars, deviceVars
<1>1. UNCHANGED <<trusts, auth>> /\ (odd => odd')
  BY DEF Next, Host, DeviceReceives, Begin, GetConnect, GetToken, Rejected, Skip,
         RecvFails, Timeout, Tick, LinkDown, DevConnect, DevSignature, DevPublicKey,
         DeviceGets, UserAllows, DevOld, DevOdd, vars
<1>2. Known /\ Unasked
  BY <1>1 DEF Known
<1>3. ASSUME Accepts, auth = "rsa" => dev # "offline", UNCHANGED <<sentSignature, sentPubkey, auth>>,
             UNCHANGED h2d \/ (h2d # <<>> /\ h2d' = Tail(h2d))
      PROVE  Unasked'
  <2>1. Msg("CNXN", devVersion, devOffer) \in Messages /\ Msg("CNXN", devVersion, devOffer).cmd # "AUTH"
    BY AcceptsTyped, MsgFields, <1>3 DEF TypeOK
  <2>2. d2h' = Append(d2h, Msg("CNXN", devVersion, devOffer)) /\ dev' = "online" /\ token' = token
    BY <1>3 DEF Accepts, DeviceSends
  <2>3. /\ None(d2h, "AUTH") => None(d2h', "AUTH")
        /\ OnlyOne(d2h', "AUTH") /\ Carry(d2h', "AUTH", token)
    BY <1>2, <2>1, <2>2, AuthsKept DEF Unasked
  <2>4. /\ None(h2d', "RSAPUBLICKEY") /\ Carry(h2d', "SIGNATURE", token)
        /\ None(h2d, "SIGNATURE") => None(h2d', "SIGNATURE")
    BY <1>2, <1>3, AnswersKept DEF Unasked
  <2>. QED BY <1>2, <1>3, <2>2, <2>3, <2>4 DEF Unasked
<1>4. CASE Begin
  <2>1. Msg("CNXN", Version, MaxPayload) \in Messages
    BY MsgTyped, VersionAssumption, PayloadAssumption
  <2>2. Msg("CNXN", Version, MaxPayload).cmd \notin {"SIGNATURE", "RSAPUBLICKEY"}
    BY MsgFields
  <2>. QED BY <1>2, <1>4, <2>1, <2>2, UnaskedFrame DEF Begin, HostSends, SendFails
<1>5. CASE GetConnect
  BY <1>2, <1>5, UnaskedFrame DEF GetConnect, Gets
<1>6. CASE GetToken
  <2>1. /\ d2h \in Seq(Messages) /\ h2d \in Seq(Messages) /\ d2h # <<>>
        /\ Head(d2h).cmd = "AUTH" /\ d2h' = Tail(d2h)
        /\ UNCHANGED <<dev, token, auth>>
    BY <1>6 DEF GetToken, Gets, TypeOK
  <2>2. ~None(d2h, "AUTH")
    BY <2>1 DEF None
  <2>3. /\ dev # "offline" /\ auth = "rsa" /\ token = 1
        /\ ~sentSignature /\ ~sentPubkey
    BY <1>2, <2>2 DEF Unasked
  <2>4. Head(d2h) = d2h[1] /\ 1 \in 1 .. Len(d2h)
    BY <2>1
  <2>5. Head(d2h).arg0 = token
    BY <1>2, <2>1, <2>4 DEF Unasked, Carry
  <2>6. None(d2h', "AUTH")
    BY <1>2, <2>1, OnlyOneKept DEF Unasked
  <2>7. OnlyOne(d2h', "AUTH") /\ Carry(d2h', "AUTH", token)
    BY <2>6 DEF None, OnlyOne, Carry
  <2>8. Msg("SIGNATURE", Head(d2h).arg0, 0) \in Messages
    BY <2>3, <2>5, MsgTyped
  <2>9. UNCHANGED sentPubkey
    BY <1>6, <2>3 DEF GetToken, ToOffer
  <2>10. UNCHANGED h2d \/ h2d' = Append(h2d, Msg("SIGNATURE", Head(d2h).arg0, 0))
    BY <1>6, <2>3 DEF GetToken, ToOffer, HostSends, SendFails
  <2>11. None(h2d', "RSAPUBLICKEY") /\ Carry(h2d', "SIGNATURE", token)
    <3>1. /\ Msg("SIGNATURE", Head(d2h).arg0, 0).cmd # "RSAPUBLICKEY"
          /\ Msg("SIGNATURE", Head(d2h).arg0, 0).arg0 = token
      BY <2>5, MsgFields
    <3>2. None(h2d', "RSAPUBLICKEY")
      BY <1>2, <2>1, <2>8, <2>10, <3>1, NoneKept DEF Unasked
    <3>3. Carry(h2d', "SIGNATURE", token)
      BY <1>2, <2>1, <2>8, <2>10, <3>1, CarryKept DEF Unasked
    <3>. QED BY <3>2, <3>3
  <2>. QED BY <1>2, <2>1, <2>3, <2>6, <2>7, <2>9, <2>11 DEF Unasked
<1>7. CASE Rejected
  BY <1>2, <1>7, UnaskedFrame DEF Rejected, Gets
<1>8. CASE Skip
  BY <1>2, <1>8, UnaskedFrame DEF Skip, Gets
<1>9. CASE RecvFails
  BY <1>2, <1>9, UnaskedFrame DEF RecvFails
<1>10. CASE Timeout
  BY <1>2, <1>10, UnaskedFrame DEF Timeout
<1>11. CASE Tick
  BY <1>2, <1>11, UnaskedFrame DEF Tick
<1>12. CASE LinkDown
  BY <1>2, <1>12, UnaskedFrame DEF LinkDown
<1>13. CASE DevConnect
  <2>1. h2d # <<>> /\ h2d' = Tail(h2d) /\ UNCHANGED <<sentSignature, sentPubkey, auth>>
    BY <1>13 DEF DevConnect, DeviceGets
  <2>2. dev = "offline"
    BY <1>13 DEF DevConnect, DeviceGets, Greeting, None, TypeOK
  <2>3. /\ token = 0 /\ ~sentSignature /\ None(d2h, "AUTH") /\ None(h2d, "SIGNATURE")
    BY <1>2, <2>2 DEF Unasked
  <2>4. /\ None(h2d', "RSAPUBLICKEY") /\ None(h2d', "SIGNATURE")
    BY <1>2, <2>1, <2>3, AnswersKept DEF Unasked
  <2>5. Carry(h2d', "SIGNATURE", token')
    BY <2>4 DEF None, Carry
  <2>6. CASE auth = "none"
    BY <1>3, <1>13, <2>1, <2>6 DEF DevConnect
  <2>7. CASE auth = "rsa"
    <3>1. /\ token' = 1 /\ dev' = "challenged"
          /\ d2h' = Append(d2h, Msg("AUTH", 1, 0))
      BY <1>13, <2>3, <2>7 DEF DevConnect, Challenges, DeviceSends
    <3>2. /\ d2h \in Seq(Messages) /\ Msg("AUTH", 1, 0) \in Messages
          /\ Msg("AUTH", 1, 0).arg0 = 1
      BY MsgTyped, MsgFields DEF TypeOK
    <3>3. OnlyOne(d2h', "AUTH")
      BY <2>3, <3>1, <3>2, NoneKept
    <3>4. Carry(d2h, "AUTH", 1)
      BY <2>3 DEF None, Carry
    <3>5. Carry(d2h', "AUTH", 1)
      BY <3>1, <3>2, <3>4, CarryKept
    <3>. QED BY <1>2, <2>1, <2>3, <2>4, <2>5, <2>7, <3>1, <3>3, <3>5 DEF Unasked
  <2>8. CASE auth = "tls"
    <3>1. /\ dev' = "tls" /\ token' = token
          /\ d2h' = Append(d2h, Msg("STLS", 0, 0))
      BY <1>13, <2>8 DEF DevConnect, DeviceSends
    <3>2. Msg("STLS", 0, 0) \in Messages /\ Msg("STLS", 0, 0).cmd # "AUTH"
      BY MsgTyped, MsgFields
    <3>3. /\ None(d2h', "AUTH") /\ OnlyOne(d2h', "AUTH")
          /\ Carry(d2h', "AUTH", token)
      BY <1>2, <2>3, <3>1, <3>2, AuthsKept DEF Unasked
    <3>. QED BY <1>2, <2>1, <2>3, <2>4, <2>5, <2>8, <3>1, <3>3 DEF Unasked
  <2>. QED BY <2>6, <2>7, <2>8 DEF TypeOK
<1>14. CASE DevSignature
  <2>1. /\ h2d # <<>> /\ h2d' = Tail(h2d) /\ Head(h2d).cmd = "SIGNATURE"
        /\ h2d \in Seq(Messages) /\ UNCHANGED <<sentSignature, sentPubkey, auth>>
    BY <1>14 DEF DevSignature, DeviceGets, TypeOK
  <2>2. Head(h2d) = h2d[1] /\ 1 \in 1 .. Len(h2d)
    BY <2>1
  <2>3. ~None(h2d, "SIGNATURE") /\ Head(h2d).arg0 = token
    BY <1>2, <2>1, <2>2 DEF Unasked, Carry, None
  <2>4. dev # "offline" /\ auth = "rsa" /\ trusts
    BY <1>2, <2>3 DEF Unasked, Known
  <2>5. Accepts
    BY <1>14, <2>3, <2>4 DEF DevSignature
  <2>. QED BY <1>3, <2>1, <2>4, <2>5
<1>15. CASE DevPublicKey
  <2>1. ~None(h2d, "RSAPUBLICKEY")
    BY <1>15 DEF DevPublicKey, DeviceGets, None, TypeOK
  <2>. QED BY <1>2, <2>1 DEF Unasked
<1>16. CASE UserAllows
  BY <1>2, <1>16 DEF UserAllows, Unasked
<1>17. CASE DevOld
  BY <1>2, <1>17, OldNoAuth, UnaskedFrame DEF DevOld, DeviceSends
<1>18. CASE DevOdd
  BY <1>18 DEF DevOdd, Known
<1>19. CASE UNCHANGED vars
  BY <1>2, <1>19, UnaskedFrame DEF vars
<1>. QED
  BY <1>4, <1>5, <1>6, <1>7, <1>8, <1>9, <1>10, <1>11, <1>12, <1>13, <1>14, <1>15, <1>16, <1>17, <1>18, <1>19 DEF Next, Host, DeviceReceives

(* The host offers its key, and a user is asked, only if the device demands *)
(* a signature and does not know the key, or has sent a frame out of place. *)
THEOREM KnownKeyNotOffered == Spec => []OfferedOnlyIfUnknown
<1>1. Init => (Known => Unasked)
  BY DEF Init, Unasked, None, OnlyOne, Carry
<1>2. TypeOK /\ (Known => Unasked) => OfferedOnlyIfUnknown
  BY DEF Known, Unasked, OfferedOnlyIfUnknown, TypeOK
<1>. QED
  BY <1>1, <1>2, TypeInit, TypeStep, GreetingInit, GreetingStep, UnaskedStep, PTL DEF Spec

-----------------------------------------------------------------------------
(* A known key connects *)

(* The frames of an earlier session that a queue still holds, and how many. *)
StaleAt(q) == {i \in 1 .. Len(q) : q[i].cmd \in StreamFrames}
StaleIn(q) == Cardinality(StaleAt(q))

LEMMA StaleFinite ==
    ASSUME NEW q \in Seq(Messages)
    PROVE  IsFiniteSet(StaleAt(q)) /\ StaleIn(q) \in Nat
<1>1. Len(q) \in Nat /\ StaleAt(q) \subseteq 1 .. Len(q)
  BY DEF StaleAt
<1>. QED
  <2>1. IsFiniteSet(1 .. Len(q))
    BY <1>1, FS_Interval
  <2>2. IsFiniteSet(StaleAt(q))
    BY <1>1, <2>1, FS_Subset
  <2>. QED
    BY <2>2, FS_CardinalityType DEF StaleIn

(* Taking a frame off the queue leaves no more of them, and one less if it  *)
(* was one.                                                                 *)
LEMMA StaleTaken ==
    ASSUME NEW q \in Seq(Messages), q # <<>>
    PROVE  /\ StaleIn(Tail(q)) <= StaleIn(q)
           /\ Head(q).cmd \in StreamFrames => StaleIn(Tail(q)) + 1 <= StaleIn(q)
<1>. DEFINE S == StaleAt(q) \ {1}
            f == [i \in StaleAt(Tail(q)) |-> i + 1]
<1>1. /\ Len(Tail(q)) = Len(q) - 1 /\ Len(q) \in Nat /\ Head(q) = q[1] /\ 1 \in 1 .. Len(q)
      /\ \A i \in 1 .. Len(Tail(q)) : Tail(q)[i] = q[i + 1]
  OBVIOUS
<1>2. f \in Injection(StaleAt(Tail(q)), S)
  <2>1. \A i \in StaleAt(Tail(q)) : f[i] \in S /\ f[i] = i + 1 /\ i \in Nat
    BY <1>1 DEF StaleAt
  <2>2. f \in [StaleAt(Tail(q)) -> S]
    BY <2>1
  <2>3. \A i, j \in StaleAt(Tail(q)) : f[i] = f[j] => i = j
    BY <2>1
  <2>. QED
    BY <2>2, <2>3 DEF Injection, IsInjective
<1>3. IsFiniteSet(StaleAt(q)) /\ StaleIn(q) \in Nat
  BY StaleFinite
<1>4. /\ IsFiniteSet(S)
      /\ Cardinality(S) = IF 1 \in StaleAt(q) THEN StaleIn(q) - 1 ELSE StaleIn(q)
  BY <1>3, FS_RemoveElement DEF StaleIn
<1>5. StaleIn(Tail(q)) <= Cardinality(S)
  BY <1>2, <1>4, FS_Injection DEF StaleIn
<1>6. StaleIn(Tail(q)) \in Nat
  <2>1. Tail(q) \in Seq(Messages)
    OBVIOUS
  <2>. QED
    BY <2>1, StaleFinite
<1>7. Head(q).cmd \in StreamFrames => 1 \in StaleAt(q)
  BY <1>1 DEF StaleAt
<1>. QED
  BY <1>3, <1>4, <1>5, <1>6, <1>7

LEMMA StaleAdded ==
    ASSUME NEW q \in Seq(Messages), NEW m \in Messages
    PROVE  /\ StaleIn(Append(q, m)) <= StaleIn(q) + 1
           /\ m.cmd \notin StreamFrames => StaleIn(Append(q, m)) = StaleIn(q)
<1>. DEFINE n == Len(q) + 1
<1>1. /\ Len(Append(q, m)) = n /\ n \notin StaleAt(q) /\ Append(q, m)[n] = m
      /\ \A i \in 1 .. Len(q) : Append(q, m)[i] = q[i]
  BY DEF StaleAt
<1>2. StaleAt(Append(q, m)) =
         IF m.cmd \in StreamFrames THEN StaleAt(q) \cup {n} ELSE StaleAt(q)
  BY <1>1 DEF StaleAt
<1>3. IsFiniteSet(StaleAt(q)) /\ StaleIn(q) \in Nat
  BY StaleFinite
<1>4. Cardinality(StaleAt(q) \cup {n}) = StaleIn(q) + 1
  BY <1>1, <1>3, FS_AddElement DEF StaleIn
<1>. QED
  BY <1>2, <1>3, <1>4 DEF StaleIn

(* What such a device sends is a token, its greeting or left over from an   *)
(* earlier session; of that the host skips no more than there is.           *)
Expected(q) == \A i \in 1 .. Len(q) : q[i].cmd \in {"CNXN", "AUTH"} \cup StreamFrames

Steady ==
    /\ Expected(d2h)
    /\ skipped + StaleIn(d2h) <= old
    /\ result \in {"none", "ok"} \/ old > MaxStale

SteadyIfKnown == Compliant /\ Known => Steady

LEMMA ExpectedKept ==
    ASSUME NEW q \in Seq(Messages), Expected(q)
    PROVE  /\ q # <<>> => Expected(Tail(q)) /\ Head(q).cmd \in {"CNXN", "AUTH"} \cup StreamFrames
           /\ \A m \in Messages : m.cmd \in {"CNXN", "AUTH"} \cup StreamFrames
                 => Expected(Append(q, m))
BY DEF Expected

LEMMA SteadyInit == Init => SteadyIfKnown
<1>1. StaleAt(<<>>) = {}
  BY DEF StaleAt
<1>. QED
  BY <1>1, FS_EmptySet DEF Init, SteadyIfKnown, Steady, Expected, StaleIn

(* The device's part: a frame more of the earlier session is counted. *)
LEMMA SteadySends ==
    ASSUME TypeOK, TypeOK', Steady, UNCHANGED <<skipped, result>>, NEW m \in Messages, d2h' = Append(d2h, m),
           \/ m.cmd \in {"CNXN", "AUTH"} /\ old' = old
           \/ m.cmd \in StreamFrames /\ old' = old + 1
    PROVE  Steady'
<1>1. d2h \in Seq(Messages) /\ skipped \in Nat /\ old \in Nat /\ MaxStale \in Nat
  BY WaitAssumption DEF TypeOK
<1>2. StaleIn(d2h) \in Nat /\ StaleIn(d2h') \in Nat
  BY <1>1, StaleFinite DEF TypeOK
<1>3. StaleIn(d2h') <= StaleIn(d2h) + (old' - old)
  BY <1>1, <1>2, StaleAdded DEF StreamFrames
<1>4. Expected(d2h')
  BY <1>1, ExpectedKept DEF Steady
<1>5. UNCHANGED <<skipped, result>> /\ old' \in {old, old + 1}
  OBVIOUS
<1>6. skipped' + StaleIn(d2h') <= old'
  BY <1>1, <1>2, <1>3, <1>5 DEF Steady
<1>. QED
  BY <1>1, <1>4, <1>5, <1>6 DEF Steady

LEMMA SteadyGets ==
    ASSUME TypeOK, TypeOK', Steady, NEW cmd, Gets(cmd), UNCHANGED <<skipped, old>>,
           result' \in {"none", "ok"} \/ result' = result
    PROVE  Steady'
<1>1. d2h \in Seq(Messages) /\ d2h # <<>> /\ d2h' = Tail(d2h) /\ skipped \in Nat /\ old \in Nat
  BY DEF Gets, TypeOK
<1>2. StaleIn(d2h) \in Nat /\ StaleIn(d2h') \in Nat /\ StaleIn(d2h') <= StaleIn(d2h)
  BY <1>1, StaleFinite, StaleTaken DEF TypeOK
<1>. QED
  BY <1>1, <1>2, ExpectedKept DEF Steady

(* Every step keeps Steady: of what the host can read of such a device only *)
(* one frame too many of an earlier session ends the handshake.             *)
LEMMA SteadyStep ==
    ASSUME TypeOK, TypeOK', Truth, Known => Unasked, SteadyIfKnown, [Next]_vars
    PROVE  SteadyIfKnown'
<1>. SUFFICES ASSUME Compliant', Known'  PROVE Steady'
  BY DEF SteadyIfKnown
<1>. USE DEF hostVars, clockVars, linkVars, policyVars, deviceVars
<1>1. /\ UNCHANGED <<trusts, auth, devVersion, devOffer>> /\ (odd => odd')
      /\ (link = "down" => link' = "down")
  BY DEF Next, Host, DeviceReceives, Begin, GetConnect, GetToken, Rejected, Skip, Gets,
         RecvFails, Timeout, Tick, LinkDown, DevConnect, DevSignature, DevPublicKey,
         DeviceGets, UserAllows, DevOld, DevOdd, vars
<1>2. /\ Compliant /\ Known /\ Unasked /\ Steady /\ link = "up" /\ link' = "up"
      /\ ~sentPubkey /\ dev # "asking"
  BY <1>1 DEF Compliant, Known, TypeOK, SteadyIfKnown, Unasked
<1>3. /\ d2h \in Seq(Messages) /\ skipped \in Nat /\ old \in Nat
      /\ StaleIn(d2h) \in Nat /\ MaxStale \in Nat
  BY StaleFinite, WaitAssumption DEF TypeOK
<1>4. \A cmd : Gets(cmd) => cmd \in {"CNXN", "AUTH"} \cup StreamFrames
  BY <1>2, <1>3, ExpectedKept DEF Gets, Steady
<1>5. CASE Begin
  BY <1>2, <1>5 DEF Begin, SendFails, Steady
<1>6. CASE GetConnect
  <2>1. Head(d2h) = d2h[1] /\ 1 \in 1 .. Len(d2h) /\ Head(d2h).cmd = "CNXN"
    BY <1>3, <1>6 DEF GetConnect, Gets
  <2>2. Head(d2h).arg0 = devVersion
    BY <2>1 DEF Truth
  <2>3. Head(d2h).arg0 >= VersionMin
    BY <1>2, <2>2 DEF Compliant
  <2>4. result' = "ok" \/ result' = result
    <3>1. Head(d2h).arg0 \in Nat /\ VersionMin \in Nat
      BY <2>2, VersionAssumption DEF TypeOK
    <3>2. ~(Head(d2h).arg0 < VersionMin)
      BY <2>3, <3>1
    <3>. QED
      BY <1>6, <3>2 DEF GetConnect, Ends
  <2>. QED
    BY <1>2, <1>6, <2>4, SteadyGets DEF GetConnect
<1>7. CASE GetToken
  <2>1. Head(d2h) = d2h[1] /\ 1 \in 1 .. Len(d2h) /\ Head(d2h).cmd = "AUTH"
    BY <1>3, <1>7 DEF GetToken, Gets
  <2>2. ~None(d2h, "AUTH")
    BY <2>1 DEF None
  <2>3. Head(d2h).arg0 = 1 /\ ~sentSignature
    BY <1>2, <2>1, <2>2 DEF Unasked, Carry
  <2>4. result' = result
    BY <1>2, <1>7, <2>3 DEF GetToken, ToSign, ToOffer, SendFails
  <2>. QED
    BY <1>2, <1>7, <2>4, SteadyGets DEF GetToken
<1>8. CASE Rejected
  BY <1>4, <1>8 DEF Rejected, StreamFrames
<1>9. CASE Skip
  <2>1. /\ d2h # <<>> /\ d2h' = Tail(d2h) /\ Head(d2h).cmd \in StreamFrames
        /\ skipped' = skipped + 1 /\ old' = old
        /\ result' = result \/ skipped' > MaxStale
    BY <1>9 DEF Skip, Gets, TooStale
  <2>2. StaleIn(d2h') + 1 <= StaleIn(d2h) /\ StaleIn(d2h') \in Nat
    BY <1>3, <2>1, StaleTaken, StaleFinite DEF TypeOK
  <2>3. Expected(d2h')
    BY <1>2, <1>3, <2>1, ExpectedKept DEF Steady
  <2>4. skipped' + StaleIn(d2h') <= old' /\ (skipped' > MaxStale => old' > MaxStale)
    BY <1>2, <1>3, <2>1, <2>2 DEF Steady
  <2>. QED
    BY <1>2, <2>1, <2>3, <2>4 DEF Steady
<1>10. CASE RecvFails
  BY <1>2, <1>10 DEF RecvFails
<1>11. CASE Timeout \/ Tick
  BY <1>2, <1>11 DEF Timeout, Tick, Timed
<1>12. CASE LinkDown
  BY <1>2, <1>12 DEF LinkDown
<1>13. ASSUME Accepts, UNCHANGED <<skipped, result, old>>
       PROVE  Steady'
  <2>1. Msg("CNXN", devVersion, devOffer) \in Messages /\ Msg("CNXN", devVersion, devOffer).cmd = "CNXN"
    BY <1>13, AcceptsTyped, MsgFields DEF TypeOK
  <2>. QED
    BY <1>2, <1>13, <2>1, SteadySends DEF Accepts, DeviceSends
<1>14. ASSUME Challenges, UNCHANGED <<skipped, result, old>>
       PROVE  Steady'
  <2>1. Msg("AUTH", token', 0) \in Messages /\ Msg("AUTH", token', 0).cmd = "AUTH"
    BY <1>14, ChallengesTyped, MsgFields DEF TypeOK
  <2>. QED
    BY <1>2, <1>14, <2>1, SteadySends DEF Challenges, DeviceSends
<1>15. CASE DevConnect
  BY <1>2, <1>13, <1>14, <1>15 DEF DevConnect, DeviceGets, Compliant
<1>16. CASE DevSignature
  BY <1>13, <1>14, <1>16 DEF DevSignature, DeviceGets
<1>17. CASE DevPublicKey
  BY <1>2, <1>17 DEF DevPublicKey, DeviceGets, Steady
<1>18. CASE UserAllows
  BY <1>2, <1>18 DEF UserAllows
<1>19. CASE DevOld
  <2>1. PICK cmd \in OldFrames : DeviceSends(Msg(cmd, 0, 0))
    BY <1>19 DEF DevOld
  <2>2. Msg(cmd, 0, 0) \in Messages /\ Msg(cmd, 0, 0).cmd \in StreamFrames
    <3>1. cmd \in StreamFrames
      BY FrameAssumption
    <3>. QED
      BY <3>1, MsgTyped, MsgFields
  <2>. QED
    BY <1>2, <1>19, <2>1, <2>2, SteadySends DEF DevOld, DeviceSends
<1>20. CASE DevOdd
  BY <1>20 DEF DevOdd, Known
<1>21. CASE UNCHANGED vars
  BY <1>2, <1>21 DEF vars, Steady
<1>. QED
  BY <1>5, <1>6, <1>7, <1>8, <1>9, <1>10, <1>11, <1>12, <1>15, <1>16, <1>17, <1>18, <1>19, <1>20, <1>21
  DEF Next, Host, DeviceReceives

(* A device that knows the key, or asks for none, is connected to: no more  *)
(* stale frames than the host skips, and no timer, end the handshake with   *)
(* anything but success (the loop of handshake in handshake.rs).                   *)
THEOREM KnownKeyIsAccepted == Spec => []KnownKeyConnects
<1>1. Init => (Known => Unasked)
  BY DEF Init, Unasked, None, OnlyOne, Carry
<1>2. Init => Truth
  BY DEF Init, Truth
<1>3. TypeOK /\ SteadyIfKnown => KnownKeyConnects
  <2>1. SUFFICES ASSUME TypeOK, SteadyIfKnown, Compliant, trusts \/ auth = "none", old <= MaxStale
                 PROVE  result \in {"none", "ok"}
    BY DEF KnownKeyConnects
  <2>2. Steady
    BY <2>1 DEF SteadyIfKnown, Known, Compliant
  <2>. QED
    BY <2>1, <2>2, WaitAssumption DEF Steady, TypeOK
<1>. QED
  BY <1>1, <1>2, <1>3, TypeInit, TypeStep, GreetingInit, GreetingStep, TruthStep,
     UnaskedStep, SteadyInit, SteadyStep, PTL DEF Spec


=============================================================================
