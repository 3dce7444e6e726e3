---------------------------- MODULE DeviceProofs ----------------------------
(***************************************************************************)
(* NoHalfFile, for any files, features and numbers of calls, and wherever  *)
(* calls are given up: what the device has of a push, followed through the *)
(* messages on their way to it, is what was read of the source.            *)
(***************************************************************************)
EXTENDS DeviceProps, TLAPS

Content == UNION {Range(body) : body \in Bodies}
Paths == Names \cup {NoName}

SyncIds == {"STAT", "STA2", "LIST", "LIS2", "RECV", "RCV2", "SEND", "SND2",
            "DATA", "DONE", "QUIT"}
SyncMessages == [id : SyncIds, path : Paths, num : Nat, body : Seq(Content)]
InputFrames == [id : {"Stdin", "CloseStdin"}, data : Nat]

Services == [st : {"idle", "recv", "send", "data", "done", "stuck", "gone"},
             path : Paths, mode : Nat, body : Seq(Content)]
Processes == [st : {"run", "eof", "done", "gone"}, command : {"talk", "echo"},
              pipe : Seq(Nat)]

TypeOK ==
    /\ \/ dev \in Services /\ up \in Seq(SyncMessages) /\ todo \in Seq(SyncMessages)
       \/ dev \in Processes /\ up \in Seq(InputFrames) /\ todo \in Seq(InputFrames)
    /\ source \in Seq(Content)
    /\ DOMAIN fs = Names

(* A channel on which sync calls are made has a sync service behind it.     *)
Owner ==
    /\ user # "shell" => dev \in Services
    /\ user = "shell" => pc # "source" /\ (pc # "idle" => call.op \notin SyncOps)
    /\ pc \in {"idle", "return", "drain"} => todo = <<>>

(* The messages on their way, those the call has still to send included.    *)
Queue == up \o todo

(* got says what the device has of a push when it comes to each of them,    *)
(* and after the last.                                                      *)
Follows(got) ==
    /\ got \in [1 .. Len(Queue) + 1 -> Seq(Content)]
    /\ dev.st = "data" => got[1] = dev.body
    /\ \A i \in 1 .. Len(Queue) :
        /\ Queue[i].id = "DATA" => got[i + 1] = got[i] \o Queue[i].body
        /\ Queue[i].id = "DONE" => got[i] \in Bodies
        /\ Queue[i].id \notin {"DATA", "DONE"} => got[i + 1] = <<>>
    /\ pc = "source" => got[Len(Queue) + 1] \o source \in Bodies

Whole == \E got : Follows(got)

(* SND2 comes in two messages, the first with the path: nothing of a push   *)
(* comes between them, and the second never without the first.              *)
First2(m) == m.id = "SND2" /\ m.path # NoName
Second2(m) == m.id = "SND2" /\ m.path = NoName

NothingAt(i) == IF i <= Len(Queue) THEN Queue[i].id \notin {"DATA", "DONE"}
                ELSE pc # "source"

InTwo ==
    /\ dev.st = "send" => NothingAt(1)
    /\ Len(Queue) # 0 /\ dev.st = "idle" => ~Second2(Queue[1])
    /\ \A i \in 1 .. Len(Queue) :
        /\ First2(Queue[i]) => NothingAt(i + 1)
        /\ i > 1 /\ Second2(Queue[i]) => First2(Queue[i - 1])

IInv == TypeOK /\ Owner /\ Whole /\ InTwo /\ NoHalfFile
-----------------------------------------------------------------------------
(* Sequences. *)
LEMMA Taken ==
    ASSUME NEW S, NEW q \in Seq(S), q # <<>>
    PROVE /\ Len(q) \in Nat /\ Len(q) >= 1 /\ q[1] \in S /\ Head(q) = q[1]
          /\ Tail(q) \in Seq(S) /\ Len(Tail(q)) = Len(q) - 1
          /\ \A i \in 1 .. Len(q) - 1 : Tail(q)[i] = q[i + 1]
  OBVIOUS

LEMMA Put ==
    ASSUME NEW S, NEW q \in Seq(S), NEW r \in Seq(S)
    PROVE /\ q \o r \in Seq(S) /\ Len(q \o r) = Len(q) + Len(r)
          /\ Len(q) \in Nat /\ Len(r) \in Nat
          /\ \A i \in 1 .. Len(q) : (q \o r)[i] = q[i]
          /\ \A i \in 1 .. Len(r) : (q \o r)[Len(q) + i] = r[i]
  OBVIOUS

LEMMA Same ==
    ASSUME NEW S, NEW q \in Seq(S), NEW r \in Seq(S), Len(q) = Len(r),
           \A i \in 1 .. Len(q) : q[i] = r[i]
    PROVE q = r
  OBVIOUS

LEMMA Parted ==
    ASSUME NEW S, NEW q \in Seq(S), NEW k \in 1 .. Len(q)
    PROVE /\ SubSeq(q, 1, k) \in Seq(S) /\ SubSeq(q, k + 1, Len(q)) \in Seq(S)
          /\ Len(SubSeq(q, 1, k)) = k /\ Len(SubSeq(q, k + 1, Len(q))) = Len(q) - k
          /\ \A i \in 1 .. k : SubSeq(q, 1, k)[i] = q[i]
          /\ \A i \in 1 .. Len(q) - k : SubSeq(q, k + 1, Len(q))[i] = q[k + i]
  <1>1. Len(q) \in Nat /\ k \in Nat /\ 1 <= k /\ k <= Len(q) OBVIOUS
  <1>2. \A i \in 1 .. Len(q) : q[i] \in S OBVIOUS
  <1>3. \A i \in 1 .. k : i \in 1 .. Len(q) BY <1>1
  <1>4. /\ SubSeq(q, 1, k) = [i \in 1 .. k |-> q[i]]
        /\ Len(SubSeq(q, 1, k)) = k /\ SubSeq(q, 1, k) \in Seq(S)
    BY <1>1, <1>2, <1>3
  <1>5. \A i \in 1 .. Len(q) - k : k + i \in 1 .. Len(q) BY <1>1
  <1>6. Len(SubSeq(q, k + 1, Len(q))) = Len(q) - k BY <1>1
  <1>7. \A i \in 1 .. Len(q) - k : SubSeq(q, k + 1, Len(q))[i] = q[k + i]
    BY <1>1, <1>5
  <1>8. SubSeq(q, k + 1, Len(q)) \in Seq(S) BY <1>1, <1>2
  <1> QED BY <1>1, <1>4, <1>6, <1>7, <1>8

(* What has been read of a source, and the rest of it. *)
LEMMA ReadOn ==
    ASSUME NEW S, NEW b \in Seq(S), NEW s \in Seq(S), NEW k \in 1 .. Len(s)
    PROVE (b \o SubSeq(s, 1, k)) \o SubSeq(s, k + 1, Len(s)) = b \o s
  <1> DEFINE f == SubSeq(s, 1, k)
             r == SubSeq(s, k + 1, Len(s))
  <1>1. /\ f \in Seq(S) /\ r \in Seq(S) /\ Len(f) = k /\ Len(r) = Len(s) - k
        /\ \A i \in 1 .. k : f[i] = s[i]
        /\ \A i \in 1 .. Len(s) - k : r[i] = s[k + i]
    BY Parted
  <1>0. Len(b) \in Nat /\ Len(s) \in Nat /\ k \in Nat /\ 1 <= k /\ k <= Len(s) OBVIOUS
  <1> HIDE DEF f, r
  <1>2. /\ b \o f \in Seq(S) /\ Len(b \o f) = Len(b) + k
        /\ \A i \in 1 .. Len(b) : (b \o f)[i] = b[i]
        /\ \A i \in 1 .. k : (b \o f)[Len(b) + i] = f[i]
    <2>1. f \in Seq(S) BY <1>1
    <2>2. /\ b \o f \in Seq(S) /\ Len(b \o f) = Len(b) + Len(f)
          /\ \A i \in 1 .. Len(b) : (b \o f)[i] = b[i]
          /\ \A i \in 1 .. Len(f) : (b \o f)[Len(b) + i] = f[i]
      BY <2>1, Put
    <2> QED BY <2>2, <1>1
  <1>3. /\ (b \o f) \o r \in Seq(S) /\ Len((b \o f) \o r) = Len(b) + k + (Len(s) - k)
        /\ \A i \in 1 .. Len(b) + k : ((b \o f) \o r)[i] = (b \o f)[i]
        /\ \A i \in 1 .. Len(s) - k : ((b \o f) \o r)[Len(b) + k + i] = r[i]
    <2>1. b \o f \in Seq(S) /\ r \in Seq(S) BY <1>1, <1>2
    <2>2. /\ (b \o f) \o r \in Seq(S) /\ Len((b \o f) \o r) = Len(b \o f) + Len(r)
          /\ \A i \in 1 .. Len(b \o f) : ((b \o f) \o r)[i] = (b \o f)[i]
          /\ \A i \in 1 .. Len(r) : ((b \o f) \o r)[Len(b \o f) + i] = r[i]
      BY <2>1, Put
    <2> QED BY <2>2, <1>1, <1>2
  <1>4. /\ b \o s \in Seq(S) /\ Len(b \o s) = Len(b) + Len(s)
        /\ \A i \in 1 .. Len(b) : (b \o s)[i] = b[i]
        /\ \A i \in 1 .. Len(s) : (b \o s)[Len(b) + i] = s[i]
    BY Put
  <1>5. ASSUME NEW i \in 1 .. Len(b) + Len(s) PROVE ((b \o f) \o r)[i] = (b \o s)[i]
    <2>1. CASE i \in 1 .. Len(b) BY <2>1, <1>0, <1>2, <1>3, <1>4
    <2>2. CASE i \in Len(b) + 1 .. Len(b) + k
      <3>1. PICK j \in 1 .. k : i = Len(b) + j
        <4>1. i - Len(b) \in 1 .. k /\ i = Len(b) + (i - Len(b)) BY <2>2, <1>0
        <4> QED BY <4>1
      <3>2. j \in 1 .. Len(s) /\ i \in 1 .. Len(b) + k BY <3>1, <1>0
      <3> QED BY <3>1, <3>2, <1>1, <1>2, <1>3, <1>4
    <2>3. CASE i \in Len(b) + k + 1 .. Len(b) + Len(s)
      <3>1. PICK j \in 1 .. Len(s) - k : i = Len(b) + k + j
        <4>1. i - (Len(b) + k) \in 1 .. Len(s) - k /\ i = Len(b) + k + (i - (Len(b) + k))
          BY <2>3, <1>0
        <4> QED BY <4>1
      <3>2. k + j \in 1 .. Len(s) /\ i = Len(b) + (k + j) BY <3>1, <1>0
      <3>3. (b \o s)[i] = s[k + j] BY <3>2, <1>4
      <3> QED BY <3>1, <3>3, <1>1, <1>3
    <2>4. \/ i \in 1 .. Len(b) \/ i \in Len(b) + 1 .. Len(b) + k
          \/ i \in Len(b) + k + 1 .. Len(b) + Len(s)
      BY <1>0
    <2> QED BY <2>1, <2>2, <2>3, <2>4
  <1>6. Len((b \o f) \o r) = Len(b \o s) BY <1>0, <1>3, <1>4
  <1>7. (b \o f) \o r = b \o s BY <1>0, <1>3, <1>4, <1>5, <1>6, Same
  <1> QED BY <1>7 DEF f, r

-----------------------------------------------------------------------------
(* What the steps do to the messages on their way. *)
Sent == SyncMessages \cup InputFrames
Plain(m) == m.id \notin {"DATA", "DONE"}

LEMMA QueueIs ==
    ASSUME TypeOK
    PROVE /\ up \in Seq(Sent) /\ todo \in Seq(Sent) /\ Queue \in Seq(Sent)
          /\ Len(up) \in Nat /\ Len(todo) \in Nat /\ Len(Queue) = Len(up) + Len(todo)
          /\ \A i \in 1 .. Len(up) : Queue[i] = up[i]
          /\ \A i \in 1 .. Len(todo) : Queue[Len(up) + i] = todo[i]
  <1>1. up \in Seq(Sent) /\ todo \in Seq(Sent)
    <2>1. CASE up \in Seq(SyncMessages) /\ todo \in Seq(SyncMessages) BY <2>1 DEF Sent
    <2>2. CASE up \in Seq(InputFrames) /\ todo \in Seq(InputFrames) BY <2>2 DEF Sent
    <2> QED BY <2>1, <2>2 DEF TypeOK
  <1> QED BY <1>1, Put DEF Queue

(* Nothing. *)
LEMMA Unmoved ==
    ASSUME IInv, Queue' = Queue, source' = source,
           pc' = pc \/ pc' # "source",
           dev' = dev \/ dev'.st \notin {"idle", "send", "data"}
    PROVE Whole' /\ InTwo'
  <1>1. Whole'
    <2>1. PICK got : Follows(got) BY DEF IInv, Whole
    <2>2. Follows(got)' BY <2>1 DEF Follows
    <2> QED BY <2>2 DEF Whole
  <1>2. InTwo' BY DEF IInv, InTwo, NothingAt
  <1> QED BY <1>1, <1>2

(* The call hands its next message over. *)
LEMMA HandedOver ==
    ASSUME TypeOK, todo # <<>>, up' = Append(up, Head(todo)), todo' = Tail(todo)
    PROVE Queue' = Queue
  <1>1. /\ up \in Seq(Sent) /\ todo \in Seq(Sent) /\ Queue \in Seq(Sent)
        /\ Len(up) \in Nat /\ Len(todo) \in Nat /\ Len(Queue) = Len(up) + Len(todo)
        /\ \A i \in 1 .. Len(up) : Queue[i] = up[i]
        /\ \A i \in 1 .. Len(todo) : Queue[Len(up) + i] = todo[i]
    BY QueueIs
  <1>2. /\ Head(todo) = todo[1] /\ todo[1] \in Sent /\ Len(todo) >= 1
        /\ todo' \in Seq(Sent) /\ Len(todo') = Len(todo) - 1
        /\ \A i \in 1 .. Len(todo) - 1 : todo'[i] = todo[i + 1]
    BY <1>1, Taken
  <1>3. /\ up' \in Seq(Sent) /\ Len(up') = Len(up) + 1 /\ up'[Len(up) + 1] = todo[1]
        /\ \A i \in 1 .. Len(up) : up'[i] = up[i]
    BY <1>1, <1>2
  <1>4. /\ Queue' \in Seq(Sent) /\ Len(Queue') = Len(up') + Len(todo')
        /\ \A i \in 1 .. Len(up') : Queue'[i] = up'[i]
        /\ \A i \in 1 .. Len(todo') : Queue'[Len(up') + i] = todo'[i]
    BY <1>2, <1>3, Put DEF Queue
  <1>5. Len(Queue') = Len(Queue) BY <1>1, <1>2, <1>3, <1>4
  <1>6. ASSUME NEW i \in 1 .. Len(Queue) PROVE Queue'[i] = Queue[i]
    <2>1. CASE i \in 1 .. Len(up)
      <3>1. i \in 1 .. Len(up') BY <2>1, <1>1, <1>3
      <3> QED BY <3>1, <2>1, <1>1, <1>3, <1>4
    <2>2. CASE i = Len(up) + 1
      <3>1. Queue[Len(up) + 1] = todo[1] BY <1>1, <1>2
      <3>2. Queue'[Len(up) + 1] = up'[Len(up) + 1] BY <1>1, <1>3, <1>4
      <3> QED BY <2>2, <3>1, <3>2, <1>3
    <2>3. CASE i \in Len(up) + 2 .. Len(Queue)
      <3>1. PICK j \in 1 .. Len(todo) - 1 : i = Len(up) + 1 + j
        <4>1. i - (Len(up) + 1) \in 1 .. Len(todo) - 1
              /\ i = Len(up) + 1 + (i - (Len(up) + 1))
          BY <2>3, <1>1
        <4> QED BY <4>1
      <3>2. j + 1 \in 1 .. Len(todo) /\ i = Len(up) + (j + 1) BY <3>1, <1>1
      <3>3. Queue[i] = todo[j + 1] BY <3>2, <1>1
      <3>4. Queue'[i] = todo'[j] BY <3>1, <1>2, <1>3, <1>4
      <3> QED BY <3>1, <3>3, <3>4, <1>2
    <2>4. i \in 1 .. Len(up) \/ i = Len(up) + 1 \/ i \in Len(up) + 2 .. Len(Queue)
      BY <1>1
    <2> QED BY <2>1, <2>2, <2>3, <2>4
  <1> QED BY <1>1, <1>4, <1>5, <1>6, Same

(* The service takes a message. *)
LEMMA Arrived ==
    ASSUME IInv, up # <<>>, up' = Tail(up), UNCHANGED <<todo, pc, source>>,
           NEW q, q = Head(up),
           dev'.st = "data" =>
               \/ Plain(q) /\ dev'.body = <<>>
               \/ dev.st = "data" /\ q.id = "DATA" /\ dev'.body = dev.body \o q.body,
           dev'.st = "send" => First2(q),
           dev'.st = "idle" => ~First2(q)
    PROVE Whole' /\ InTwo'
  <1>1. /\ up \in Seq(Sent) /\ todo \in Seq(Sent) /\ Queue \in Seq(Sent)
        /\ Len(up) \in Nat /\ Len(todo) \in Nat /\ Len(Queue) = Len(up) + Len(todo)
        /\ \A i \in 1 .. Len(up) : Queue[i] = up[i]
        /\ \A i \in 1 .. Len(todo) : Queue[Len(up) + i] = todo[i]
    BY QueueIs DEF IInv
  <1>2. /\ q = up[1] /\ Len(up) >= 1
        /\ up' \in Seq(Sent) /\ Len(up') = Len(up) - 1
        /\ \A i \in 1 .. Len(up) - 1 : up'[i] = up[i + 1]
    BY <1>1, Taken
  <1>3. /\ Queue' \in Seq(Sent) /\ Len(Queue') = Len(up') + Len(todo)
        /\ \A i \in 1 .. Len(up') : Queue'[i] = up'[i]
        /\ \A i \in 1 .. Len(todo) : Queue'[Len(up') + i] = todo[i]
    BY <1>1, <1>2, Put DEF Queue
  <1>4. Len(Queue') = Len(Queue) - 1 /\ Len(Queue) \in Nat /\ Len(Queue) >= 1
        /\ Queue[1] = q
    BY <1>1, <1>2, <1>3
  <1>5. ASSUME NEW i \in 1 .. Len(Queue) - 1 PROVE Queue'[i] = Queue[i + 1]
    <2>1. CASE i \in 1 .. Len(up) - 1
      <3>1. i + 1 \in 1 .. Len(up) BY <2>1, <1>1
      <3> QED BY <3>1, <2>1, <1>1, <1>2, <1>3
    <2>2. CASE i \in Len(up) .. Len(Queue) - 1
      <3>1. PICK j \in 1 .. Len(todo) : i = Len(up) - 1 + j
        <4>1. i - (Len(up) - 1) \in 1 .. Len(todo)
              /\ i = Len(up) - 1 + (i - (Len(up) - 1))
          BY <2>2, <1>1
        <4> QED BY <4>1
      <3>2. i = Len(up') + j /\ i + 1 = Len(up) + j BY <3>1, <1>1, <1>2
      <3> QED BY <3>1, <3>2, <1>1, <1>3
    <2> QED BY <2>1, <2>2, <1>1
  <1>6. Whole'
    <2>1. PICK got : Follows(got) BY DEF IInv, Whole
    <2> DEFINE after == [i \in 1 .. Len(Queue) |-> got[i + 1]]
    <2>2. PICK new : new = after OBVIOUS
    <2>3. \A i \in 1 .. Len(Queue) : i + 1 \in 1 .. Len(Queue) + 1 BY <1>4
    <2>4. /\ new \in [1 .. Len(Queue') + 1 -> Seq(Content)]
          /\ \A i \in 1 .. Len(Queue) : new[i] = got[i + 1]
      <3>1. Len(Queue') + 1 = Len(Queue) BY <1>4
      <3> QED BY <3>1, <2>1, <2>2, <2>3 DEF Follows
    <2>5. dev'.st = "data" => new[1] = dev'.body
      <3>1. 1 \in 1 .. Len(Queue) /\ 1 + 1 = 2 BY <1>4
      <3>2. Plain(q) => got[2] = <<>> BY <3>1, <1>4, <2>1 DEF Follows, Plain
      <3>3. q.id = "DATA" => got[2] = got[1] \o q.body BY <3>1, <1>4, <2>1 DEF Follows
      <3>4. dev.st = "data" => got[1] = dev.body BY <2>1 DEF Follows
      <3>5. new[1] = got[2] BY <3>1, <2>4
      <3> QED BY <3>2, <3>3, <3>4, <3>5
    <2>6. ASSUME NEW i \in 1 .. Len(Queue')
          PROVE /\ Queue'[i].id = "DATA" => new[i + 1] = new[i] \o Queue'[i].body
                /\ Queue'[i].id = "DONE" => new[i] \in Bodies
                /\ Queue'[i].id \notin {"DATA", "DONE"} => new[i + 1] = <<>>
      <3>1. /\ i + 1 \in 1 .. Len(Queue) /\ i \in 1 .. Len(Queue)
            /\ Queue'[i] = Queue[i + 1]
        BY <1>4, <1>5
      <3>2. new[i] = got[i + 1] /\ new[i + 1] = got[(i + 1) + 1] BY <3>1, <2>4
      <3> QED BY <3>1, <3>2, <2>1 DEF Follows
    <2>7. pc' = "source" => new[Len(Queue') + 1] \o source' \in Bodies
      <3>1. Len(Queue') + 1 \in 1 .. Len(Queue) /\ Len(Queue') + 1 = Len(Queue) BY <1>4
      <3>2. new[Len(Queue') + 1] = got[Len(Queue) + 1] BY <3>1, <2>4
      <3> QED BY <3>2, <2>1 DEF Follows
    <2>8. Follows(new)' BY <2>4, <2>5, <2>6, <2>7 DEF Follows
    <2> QED BY <2>8 DEF Whole
  <1>7. InTwo'
    <2>1. ASSUME NEW i \in Nat \ {0} PROVE NothingAt(i + 1) => NothingAt(i)'
      <3>1. i <= Len(Queue') <=> i + 1 <= Len(Queue) BY <1>4
      <3>2. i <= Len(Queue') => Queue'[i] = Queue[i + 1] BY <1>4, <1>5
      <3> QED BY <3>1, <3>2 DEF NothingAt
    <2>2. First2(q) => NothingAt(2)
      <3>1. 1 \in 1 .. Len(Queue) /\ 1 + 1 = 2 BY <1>4
      <3> QED BY <3>1, <1>4 DEF IInv, InTwo
    <2>3. dev'.st = "send" => NothingAt(1)'
      <3>1. 1 \in Nat \ {0} /\ 1 + 1 = 2 OBVIOUS
      <3> QED BY <3>1, <2>1, <2>2
    <2>4. Len(Queue') # 0 /\ dev'.st = "idle" => ~Second2(Queue'[1])
      <3> SUFFICES ASSUME Len(Queue') # 0, dev'.st = "idle" PROVE ~Second2(Queue'[1])
        OBVIOUS
      <3>1. 1 \in 1 .. Len(Queue) - 1 /\ 2 \in 1 .. Len(Queue) /\ 2 > 1 /\ 2 - 1 = 1
            /\ 1 + 1 = 2
        BY <1>4
      <3>2. Queue'[1] = Queue[2] BY <3>1, <1>5
      <3> QED BY <3>1, <3>2, <1>4 DEF IInv, InTwo
    <2>5. ASSUME NEW i \in 1 .. Len(Queue')
          PROVE /\ First2(Queue'[i]) => NothingAt(i + 1)'
                /\ i > 1 /\ Second2(Queue'[i]) => First2(Queue'[i - 1])
      <3>1. /\ i + 1 \in 1 .. Len(Queue) /\ i + 1 > 1 /\ (i + 1) - 1 = i /\ i + 1 \in Nat \ {0}
            /\ Queue'[i] = Queue[i + 1]
        BY <1>4, <1>5
      <3>2. i > 1 => Queue'[i - 1] = Queue[i]
        <4>1. i > 1 => i - 1 \in 1 .. Len(Queue) - 1 /\ (i - 1) + 1 = i BY <1>4
        <4> QED BY <4>1, <1>5
      <3>3. First2(Queue[i + 1]) => NothingAt((i + 1) + 1) BY <3>1 DEF IInv, InTwo
      <3>4. Second2(Queue[i + 1]) => First2(Queue[i]) BY <3>1 DEF IInv, InTwo
      <3> QED BY <3>1, <3>2, <3>3, <3>4, <2>1
    <2> QED BY <2>3, <2>4, <2>5 DEF InTwo
  <1> QED BY <1>6, <1>7

(* Requests that may be sent after anything. *)
Requests(ms) ==
    /\ ms \in Seq(Sent)
    /\ \A i \in 1 .. Len(ms) :
          /\ Plain(ms[i])
          /\ Second2(ms[i]) => i > 1 /\ First2(ms[i - 1])

(* And with them a push may begin. *)
PushesAfter(ms) ==
    pc' = "source" => /\ source' \in Bodies /\ Len(ms) >= 1
                      /\ ~First2(ms[Len(ms)])

LEMMA BodiesAreContent == Bodies \subseteq Seq(Content)
  <1> SUFFICES ASSUME NEW body \in Bodies PROVE body \in Seq(Content) OBVIOUS
  <1>1. body \in Seq(Range(body)) BY DeviceAssumption
  <1>2. Range(body) \subseteq Content BY DEF Content
  <1> QED BY <1>1, <1>2

(* What the call had still to send is dropped, and requests are put in its  *)
(* place.                                                                   *)
LEMMA Replaced ==
    ASSUME IInv, UNCHANGED <<up, dev>>, Requests(todo'), PushesAfter(todo')
    PROVE Whole' /\ InTwo'
  <1> DEFINE k == Len(up)
  <1>1. /\ up \in Seq(Sent) /\ todo \in Seq(Sent) /\ Queue \in Seq(Sent)
        /\ k \in Nat /\ Len(todo) \in Nat /\ Len(Queue) = k + Len(todo)
        /\ \A i \in 1 .. k : Queue[i] = up[i]
    BY QueueIs DEF IInv
  <1>2. /\ todo' \in Seq(Sent) /\ Len(todo') \in Nat
        /\ Queue' \in Seq(Sent) /\ Len(Queue') = k + Len(todo')
        /\ \A i \in 1 .. k : Queue'[i] = up[i]
        /\ \A i \in 1 .. Len(todo') : Queue'[k + i] = todo'[i]
    BY <1>1, Put DEF Queue, Requests
  <1> HIDE DEF k
  <1>3. k <= Len(Queue) /\ k <= Len(Queue')
        /\ \A i \in 1 .. k : Queue'[i] = Queue[i]
    <2>1. k <= Len(Queue) /\ k <= Len(Queue') BY <1>1, <1>2
    <2>2. \A i \in 1 .. k : Queue'[i] = Queue[i] BY <1>1, <1>2
    <2> QED BY <2>1, <2>2
  <1>4. ASSUME NEW i \in 1 .. Len(Queue'), i > k
        PROVE /\ Plain(Queue'[i])
              /\ Second2(Queue'[i]) => i > k + 1 /\ First2(Queue'[i - 1])
    <2>1. PICK j \in 1 .. Len(todo') : i = k + j
      <3>1. i - k \in 1 .. Len(todo') /\ i = k + (i - k) BY <1>1, <1>2, <1>4
      <3> QED BY <3>1
    <2>2. Queue'[i] = todo'[j] BY <2>1, <1>2
    <2>3. j > 1 => Queue'[i - 1] = todo'[j - 1]
      <3>1. j > 1 => j - 1 \in 1 .. Len(todo') /\ i - 1 = k + (j - 1) BY <2>1, <1>1, <1>2
      <3> QED BY <3>1, <1>2
    <2> QED BY <2>1, <2>2, <2>3, <1>1 DEF Requests
  <1>5. Whole'
    <2>1. PICK got : Follows(got) BY DEF IInv, Whole
    <2> DEFINE after == [i \in 1 .. Len(Queue') + 1 |->
                            IF i <= k + 1 THEN got[i] ELSE <<>>]
    <2>2. PICK new : new = after OBVIOUS
    <2>3. /\ new \in [1 .. Len(Queue') + 1 -> Seq(Content)]
          /\ \A i \in 1 .. k + 1 : new[i] = got[i]
          /\ \A i \in k + 2 .. Len(Queue') + 1 : new[i] = <<>>
      <3>1. \A i \in 1 .. k + 1 : i \in 1 .. Len(Queue) + 1 /\ i \in 1 .. Len(Queue') + 1
        BY <1>1, <1>2
      <3>2. \A i \in 1 .. k + 1 : got[i] \in Seq(Content) BY <3>1, <2>1 DEF Follows
      <3>3. \A i \in 1 .. Len(Queue') + 1 : after[i] \in Seq(Content)
        BY <3>2, <1>1, <1>2
      <3>4. \A i \in k + 2 .. Len(Queue') + 1 : i \in 1 .. Len(Queue') + 1 /\ ~(i <= k + 1)
        BY <1>1, <1>2
      <3> QED BY <2>2, <3>1, <3>3, <3>4
    <2>4. dev'.st = "data" => new[1] = dev'.body
      <3>1. 1 \in 1 .. k + 1 BY <1>1
      <3> QED BY <3>1, <2>1, <2>3 DEF Follows
    <2>5. ASSUME NEW i \in 1 .. Len(Queue')
          PROVE /\ Queue'[i].id = "DATA" => new[i + 1] = new[i] \o Queue'[i].body
                /\ Queue'[i].id = "DONE" => new[i] \in Bodies
                /\ Queue'[i].id \notin {"DATA", "DONE"} => new[i + 1] = <<>>
      <3>1. CASE i \in 1 .. k
        <4>1. /\ i \in 1 .. k + 1 /\ i + 1 \in 1 .. k + 1 /\ i \in 1 .. Len(Queue)
              /\ Queue'[i] = Queue[i]
          BY <3>1, <1>1, <1>3
        <4> QED BY <4>1, <2>1, <2>3 DEF Follows
      <3>2. CASE i > k
        <4>1. Plain(Queue'[i]) BY <3>2, <1>4
        <4>2. i + 1 \in k + 2 .. Len(Queue') + 1 BY <3>2, <1>1, <1>2
        <4> QED BY <4>1, <4>2, <2>3 DEF Plain
      <3>3. i \in 1 .. k \/ i > k BY <1>1, <1>2
      <3> QED BY <3>1, <3>2, <3>3
    <2>6. pc' = "source" => new[Len(Queue') + 1] \o source' \in Bodies
      <3> SUFFICES ASSUME pc' = "source" PROVE new[Len(Queue') + 1] \o source' \in Bodies
        OBVIOUS
      <3>1. source' \in Bodies /\ Len(todo') >= 1 BY DEF PushesAfter
      <3>2. Len(Queue') + 1 \in k + 2 .. Len(Queue') + 1 BY <3>1, <1>1, <1>2
      <3>3. new[Len(Queue') + 1] = <<>> BY <3>2, <2>3
      <3>4. source' \in Seq(Content) BY <3>1, BodiesAreContent
      <3>5. <<>> \o source' = source' BY <3>4
      <3> QED BY <3>1, <3>3, <3>5
    <2>7. Follows(new)' BY <2>3, <2>4, <2>5, <2>6 DEF Follows
    <2> QED BY <2>7 DEF Whole
  <1>6. InTwo'
    <2>1. ASSUME NEW i \in 1 .. k + 1, NothingAt(i) PROVE NothingAt(i)'
      <3>1. CASE i <= k BY <3>1, <2>1, <1>3, <1>1 DEF NothingAt
      <3>2. CASE i = k + 1 /\ i <= Len(Queue')
        <4>1. i \in 1 .. Len(Queue') /\ i > k BY <3>2, <1>1
        <4> QED BY <4>1, <3>2, <1>4 DEF NothingAt, Plain
      <3>3. CASE i = k + 1 /\ ~(i <= Len(Queue'))
        <4>1. Len(todo') = 0 BY <3>3, <1>1, <1>2
        <4>2. pc' # "source" BY <4>1 DEF PushesAfter
        <4> QED BY <4>2, <3>3 DEF NothingAt
      <3> QED BY <3>1, <3>2, <3>3, <1>1
    <2>2. dev'.st = "send" => NothingAt(1)'
      <3>1. 1 \in 1 .. k + 1 BY <1>1
      <3> QED BY <3>1, <2>1 DEF IInv, InTwo
    <2>3. Len(Queue') # 0 /\ dev'.st = "idle" => ~Second2(Queue'[1])
      <3> SUFFICES ASSUME Len(Queue') # 0, dev'.st = "idle" PROVE ~Second2(Queue'[1])
        OBVIOUS
      <3>1. CASE k = 0
        <4>1. 1 \in 1 .. Len(Queue') /\ 1 > k /\ ~(1 > k + 1) BY <3>1, <1>2
        <4> QED BY <4>1, <1>4
      <3>2. CASE k # 0
        <4>1. Len(Queue) # 0 /\ 1 \in 1 .. k BY <3>2, <1>1
        <4> QED BY <4>1, <1>3 DEF IInv, InTwo
      <3> QED BY <3>1, <3>2
    <2>4. ASSUME NEW i \in 1 .. Len(Queue')
          PROVE /\ First2(Queue'[i]) => NothingAt(i + 1)'
                /\ i > 1 /\ Second2(Queue'[i]) => First2(Queue'[i - 1])
      <3>1. CASE i \in 1 .. k
        <4>1. /\ i \in 1 .. Len(Queue) /\ Queue'[i] = Queue[i] /\ i + 1 \in 1 .. k + 1
          BY <3>1, <1>1, <1>3
        <4>2. i > 1 => Queue'[i - 1] = Queue[i - 1]
          <5>1. i > 1 => i - 1 \in 1 .. k BY <3>1, <1>1
          <5> QED BY <5>1, <1>3
        <4>3. First2(Queue[i]) => NothingAt(i + 1) BY <4>1 DEF IInv, InTwo
        <4>4. i > 1 /\ Second2(Queue[i]) => First2(Queue[i - 1]) BY <4>1 DEF IInv, InTwo
        <4> QED BY <4>1, <4>2, <4>3, <4>4, <2>1
      <3>2. CASE i > k
        <4>1. Second2(Queue'[i]) => First2(Queue'[i - 1]) BY <3>2, <1>4
        <4>2. First2(Queue'[i]) => NothingAt(i + 1)'
          <5>1. CASE i + 1 <= Len(Queue')
            <6>1. i + 1 \in 1 .. Len(Queue') /\ i + 1 > k BY <5>1, <3>2, <1>1, <1>2
            <6> QED BY <5>1, <6>1, <1>4 DEF NothingAt, Plain
          <5>2. CASE ~(i + 1 <= Len(Queue'))
            <6>1. i = k + Len(todo') /\ Len(todo') >= 1 BY <5>2, <3>2, <1>1, <1>2
            <6>2. Len(todo') \in 1 .. Len(todo') BY <6>1, <1>2
            <6>3. Queue'[i] = todo'[Len(todo')] BY <6>1, <6>2, <1>2
            <6> QED BY <5>2, <6>3 DEF NothingAt, PushesAfter
          <5> QED BY <5>1, <5>2
        <4> QED BY <4>1, <4>2
      <3> QED BY <3>1, <3>2, <1>1
    <2> QED BY <2>2, <2>3, <2>4 DEF InTwo
  <1> QED BY <1>5, <1>6

(* A new channel, or none. *)
LEMMA Afresh ==
    ASSUME up' = <<>>, dev'.st \notin {"send", "data"},
           Requests(todo'), PushesAfter(todo')
    PROVE Whole' /\ InTwo'
  <1>1. todo' \in Seq(Sent) /\ Len(todo') \in Nat /\ Queue' = todo' BY DEF Queue, Requests
  <1>2. Whole'
    <2> DEFINE none == [i \in 1 .. Len(Queue') + 1 |-> <<>>]
    <2>1. PICK new : new = none OBVIOUS
    <2>2. /\ new \in [1 .. Len(Queue') + 1 -> Seq(Content)]
          /\ \A i \in 1 .. Len(Queue') + 1 : new[i] = <<>>
      BY <2>1
    <2>3. \A i \in 1 .. Len(Queue') : i + 1 \in 1 .. Len(Queue') + 1 BY <1>1
    <2>4. pc' = "source" => new[Len(Queue') + 1] \o source' \in Bodies
      <3>1. Len(Queue') + 1 \in 1 .. Len(Queue') + 1 BY <1>1
      <3>2. pc' = "source" => source' \in Bodies /\ source' \in Seq(Content)
        BY BodiesAreContent DEF PushesAfter
      <3>3. pc' = "source" => <<>> \o source' = source' BY <3>2
      <3> QED BY <3>1, <3>2, <3>3, <2>2
    <2>5. Follows(new)' BY <1>1, <2>2, <2>3, <2>4 DEF Follows, Requests, Plain
    <2> QED BY <2>5 DEF Whole
  <1>3. InTwo'
    <2>1. ASSUME NEW i \in 1 .. Len(Queue')
          PROVE /\ First2(Queue'[i]) => NothingAt(i + 1)'
                /\ i > 1 /\ Second2(Queue'[i]) => First2(Queue'[i - 1])
      <3>1. CASE i + 1 <= Len(Queue')
        <4>1. i + 1 \in 1 .. Len(todo') BY <3>1, <1>1
        <4> QED BY <3>1, <4>1, <1>1 DEF Requests, NothingAt, Plain
      <3>2. CASE ~(i + 1 <= Len(Queue'))
        <4>1. i = Len(todo') /\ Len(todo') >= 1 BY <3>2, <1>1
        <4> QED BY <3>2, <4>1, <1>1 DEF Requests, NothingAt, PushesAfter
      <3> QED BY <3>1, <3>2
    <2>2. Len(Queue') # 0 => ~Second2(Queue'[1])
      <3>1. Len(Queue') # 0 => 1 \in 1 .. Len(todo') /\ ~(1 > 1) BY <1>1
      <3> QED BY <3>1, <1>1 DEF Requests
    <2> QED BY <2>1, <2>2 DEF InTwo
  <1> QED BY <1>2, <1>3

(* A push sends more of its source, or says that there is no more.          *)
LEMMA Pushed ==
    ASSUME IInv, UNCHANGED <<up, dev>>, pc = "source", todo = <<>>,
           NEW m \in SyncMessages, todo' = <<m>>,
           \/ /\ m.id = "DATA" /\ pc' = "source"
              /\ \E k \in 1 .. Len(source) :
                    /\ m.body = SubSeq(source, 1, k)
                    /\ source' = SubSeq(source, k + 1, Len(source))
           \/ m.id = "DONE" /\ pc' # "source" /\ source = <<>>
    PROVE Whole' /\ InTwo'
  <1> DEFINE k == Len(up)
  <1>1. /\ up \in Seq(Sent) /\ Queue \in Seq(Sent) /\ k \in Nat /\ Len(Queue) = k
        /\ \A i \in 1 .. k : Queue[i] = up[i]
    BY QueueIs DEF IInv
  <1>2. /\ Len(Queue') = k + 1 /\ Queue'[k + 1] = m
        /\ \A i \in 1 .. k : Queue'[i] = up[i]
    <2>1. <<m>> \in Seq(Sent) /\ Len(<<m>>) = 1 /\ <<m>>[1] = m /\ 1 \in 1 .. 1
      BY DEF Sent
    <2>2. /\ Len(up \o <<m>>) = k + Len(<<m>>)
          /\ \A i \in 1 .. k : (up \o <<m>>)[i] = up[i]
          /\ \A i \in 1 .. Len(<<m>>) : (up \o <<m>>)[k + i] = <<m>>[i]
      BY <1>1, <2>1, Put
    <2> QED BY <2>1, <2>2 DEF Queue
  <1> HIDE DEF k
  <1>3. Whole'
    <2>1. PICK got : Follows(got) BY DEF IInv, Whole
    <2>2. got[k + 1] \in Seq(Content) /\ got[k + 1] \o source \in Bodies
      <3>1. k + 1 \in 1 .. Len(Queue) + 1 BY <1>1
      <3> QED BY <3>1, <1>1, <2>1 DEF Follows
    <2> DEFINE next == IF m.id = "DATA" THEN got[k + 1] \o m.body ELSE <<>>
               after == [i \in 1 .. k + 2 |-> IF i <= k + 1 THEN got[i] ELSE next]
    <2>3. next \in Seq(Content) BY <2>2 DEF SyncMessages
    <2>4. PICK new : new = after OBVIOUS
    <2>5. /\ new \in [1 .. Len(Queue') + 1 -> Seq(Content)]
          /\ \A i \in 1 .. k + 1 : new[i] = got[i]
          /\ new[k + 2] = next
      <3>1. Len(Queue') + 1 = k + 2 BY <1>1, <1>2
      <3>2. \A i \in 1 .. k + 1 : i \in 1 .. k + 2 /\ got[i] \in Seq(Content)
        BY <1>1, <2>1 DEF Follows
      <3>3. k + 2 \in 1 .. k + 2 /\ ~(k + 2 <= k + 1) BY <1>1
      <3> HIDE DEF next
      <3>4. ASSUME NEW i \in 1 .. k + 2 PROVE after[i] \in Seq(Content)
        <4>1. CASE i <= k + 1
          <5>1. i \in 1 .. k + 1 BY <4>1, <1>1
          <5> QED BY <4>1, <5>1, <3>2
        <4>2. CASE ~(i <= k + 1) BY <4>2, <2>3
        <4> QED BY <4>1, <4>2
      <3>5. new \in [1 .. k + 2 -> Seq(Content)] BY <2>4, <3>4
      <3>6. \A i \in 1 .. k + 1 : new[i] = got[i] BY <2>4, <3>2, <1>1
      <3>7. new[k + 2] = next BY <2>4, <3>3
      <3> QED BY <3>1, <3>5, <3>6, <3>7
    <2> HIDE DEF next, after
    <2>6. dev'.st = "data" => new[1] = dev'.body
      <3>1. 1 \in 1 .. k + 1 BY <1>1
      <3> QED BY <3>1, <2>1, <2>5 DEF Follows
    <2>7. ASSUME NEW i \in 1 .. Len(Queue')
          PROVE /\ Queue'[i].id = "DATA" => new[i + 1] = new[i] \o Queue'[i].body
                /\ Queue'[i].id = "DONE" => new[i] \in Bodies
                /\ Queue'[i].id \notin {"DATA", "DONE"} => new[i + 1] = <<>>
      <3>1. CASE i \in 1 .. k
        <4>1. /\ i \in 1 .. k + 1 /\ i + 1 \in 1 .. k + 1 /\ i \in 1 .. Len(Queue)
              /\ Queue'[i] = Queue[i]
          BY <3>1, <1>1, <1>2
        <4>2. new[i] = got[i] /\ new[i + 1] = got[i + 1] BY <4>1, <2>5
        <4>3. /\ Queue[i].id = "DATA" => got[i + 1] = got[i] \o Queue[i].body
              /\ Queue[i].id = "DONE" => got[i] \in Bodies
              /\ Queue[i].id \notin {"DATA", "DONE"} => got[i + 1] = <<>>
          BY <4>1, <2>1 DEF Follows
        <4> QED BY <4>1, <4>2, <4>3
      <3>2. CASE i = k + 1
        <4>1. k + 1 \in 1 .. k + 1 /\ (k + 1) + 1 = k + 2 BY <1>1
        <4>2. new[k + 1] = got[k + 1] /\ new[(k + 1) + 1] = next BY <4>1, <2>5
        <4>3. m.id = "DONE" => got[k + 1] \in Bodies
          <5>1. m.id = "DONE" => source = <<>> OBVIOUS
          <5>2. got[k + 1] \o <<>> = got[k + 1] BY <2>2
          <5> QED BY <5>1, <5>2, <2>2
        <4> QED BY <3>2, <4>2, <4>3, <1>2 DEF next
      <3>3. i = k + 1 \/ i \in 1 .. k BY <1>1, <1>2
      <3> QED BY <3>1, <3>2, <3>3
    <2>8. pc' = "source" => new[Len(Queue') + 1] \o source' \in Bodies
      <3> SUFFICES ASSUME pc' = "source" PROVE new[Len(Queue') + 1] \o source' \in Bodies
        OBVIOUS
      <3>1. PICK j \in 1 .. Len(source) :
                    /\ m.id = "DATA" /\ m.body = SubSeq(source, 1, j)
                    /\ source' = SubSeq(source, j + 1, Len(source))
        OBVIOUS
      <3>2. Len(Queue') + 1 = k + 2 BY <1>1, <1>2
      <3>3. new[Len(Queue') + 1] = got[k + 1] \o SubSeq(source, 1, j)
        BY <3>1, <3>2, <2>5 DEF next
      <3>4. source \in Seq(Content) BY DEF IInv, TypeOK
      <3>5. (got[k + 1] \o SubSeq(source, 1, j)) \o SubSeq(source, j + 1, Len(source))
               = got[k + 1] \o source
        BY <3>4, <2>2, ReadOn
      <3> QED BY <3>1, <3>3, <3>5, <2>2
    <2>9. Follows(new)' BY <2>5, <2>6, <2>7, <2>8 DEF Follows
    <2> QED BY <2>9 DEF Whole
  <1>4. InTwo'
    <2>0. m.id \in {"DATA", "DONE"} OBVIOUS
    <2>1. ASSUME NEW i \in 1 .. k, NothingAt(i) PROVE NothingAt(i)'
      <3>1. Queue'[i] = Queue[i] /\ i <= Len(Queue) /\ i <= Len(Queue')
        BY <1>1, <1>2
      <3> QED BY <3>1, <2>1 DEF NothingAt
    <2>2. ~NothingAt(k + 1) BY <1>1 DEF NothingAt
    <2>3. dev'.st = "send" => NothingAt(1)'
      <3>1. dev.st = "send" => NothingAt(1) BY DEF IInv, InTwo
      <3>2. k = 0 \/ 1 \in 1 .. k BY <1>1
      <3>3. k = 0 => k + 1 = 1 BY <1>1
      <3> QED BY <3>1, <3>2, <3>3, <2>1, <2>2
    <2>4. dev'.st = "idle" => ~Second2(Queue'[1])
      <3>1. CASE k = 0
        <4>1. Queue'[1] = m BY <3>1, <1>2
        <4> QED BY <4>1, <2>0 DEF Second2
      <3>2. CASE k # 0
        <4>1. Len(Queue) # 0 /\ 1 \in 1 .. k BY <3>2, <1>1
        <4>2. Queue'[1] = Queue[1] BY <4>1, <1>1, <1>2
        <4> QED BY <4>1, <4>2 DEF IInv, InTwo
      <3> QED BY <3>1, <3>2
    <2>5. ASSUME NEW i \in 1 .. Len(Queue')
          PROVE /\ First2(Queue'[i]) => NothingAt(i + 1)'
                /\ i > 1 /\ Second2(Queue'[i]) => First2(Queue'[i - 1])
      <3>1. CASE i = k + 1
        <4>1. Queue'[i] = m BY <3>1, <1>2
        <4> QED BY <4>1, <2>0 DEF First2, Second2
      <3>2. CASE i \in 1 .. k
        <4>1. Queue'[i] = Queue[i] /\ i \in 1 .. Len(Queue) BY <3>2, <1>1, <1>2
        <4>2. First2(Queue[i]) => NothingAt(i + 1) BY <4>1 DEF IInv, InTwo
        <4>3. i > 1 /\ Second2(Queue[i]) => First2(Queue[i - 1]) BY <4>1 DEF IInv, InTwo
        <4>4. i > 1 => Queue'[i - 1] = Queue[i - 1]
          <5>1. i > 1 => i - 1 \in 1 .. k BY <3>2, <1>1
          <5> QED BY <5>1, <1>1, <1>2
        <4>5. NothingAt(i + 1) => i + 1 \in 1 .. k
          <5>1. i + 1 = k + 1 \/ i + 1 \in 1 .. k BY <3>2, <1>1
          <5> QED BY <5>1, <2>2
        <4> QED BY <4>1, <4>2, <4>3, <4>4, <4>5, <2>1
      <3>3. i = k + 1 \/ i \in 1 .. k BY <1>1, <1>2
      <3> QED BY <3>1, <3>2, <3>3
    <2> QED BY <2>3, <2>4, <2>5 DEF InTwo
  <1> QED BY <1>3, <1>4

-----------------------------------------------------------------------------
(* The steps that leave the messages and the files alone. *)
LEMMA Calm ==
    ASSUME IInv, UNCHANGED <<up, todo, source, fs, user, call>>,
           pc # "idle" \/ pc' = "idle", pc' = pc \/ pc' # "source",
           pc' \in {"idle", "return", "drain"} => todo = <<>>,
           \/ dev' = dev
           \/ /\ dev'.st \notin {"idle", "send", "data"}
              /\ \/ dev \in Services /\ dev' \in Services
                 \/ dev \in Processes /\ dev' \in Processes
    PROVE IInv'
  <1>0. (dev \in Services => dev' \in Services) /\ (dev \in Processes => dev' \in Processes)
    BY DEF Services, Processes
  <1>1. TypeOK' BY <1>0 DEF IInv, TypeOK
  <1>2. Owner'
    <2>1. dev \in Services => dev' \in Services
      BY <1>0
    <2> QED BY <2>1 DEF IInv, Owner
  <1>3. Queue' = Queue BY DEF Queue
  <1>4. Whole' /\ InTwo' BY <1>3, Unmoved
  <1>5. NoHalfFile' BY DEF IInv, NoHalfFile
  <1> QED BY <1>1, <1>2, <1>4, <1>5 DEF IInv

LEMMA ReadingStep ==
    ASSUME IInv, UNCHANGED <<shellVars, deviceVars>>,
           \/ ReadStat \/ ReadEntry \/ ReadName \/ ReadChunk \/ ReadLen \/ ReadBody
           \/ ReadStatus \/ ReadEnd \/ ReadFailLen \/ ReadFail
           \/ ReadFills \/ ReadFails \/ SourceFails
    PROVE IInv'
  <1>1. UNCHANGED <<up, todo, source, fs, user, call, dev>>
    BY DEF ReadStat, ReadEntry, ReadName, ReadChunk, ReadLen, ReadBody, ReadStatus,
       ReadEnd, ReadFailLen, ReadFail, ReadFills, ReadFails, SourceFails, Got, Fill,
       Recv, channelVars, syncVars, deviceVars
  <1>2. pc # "idle"
    BY DEF ReadStat, ReadEntry, ReadName, ReadChunk, ReadLen, ReadBody, ReadStatus,
       ReadEnd, ReadFailLen, ReadFail, ReadFills, ReadFails, SourceFails, Got, Reading
  <1>3. pc' = pc \/ pc' # "source"
    BY DEF ReadStat, ReadEntry, ReadName, ReadChunk, ReadLen, ReadBody, ReadStatus,
       ReadEnd, ReadFailLen, ReadFail, ReadFills, ReadFails, SourceFails, Fill,
       OutOfPlace, Returns, WaitsFor
  <1>4. todo = <<>>
    BY DEF ReadStat, ReadEntry, ReadName, ReadChunk, ReadLen, ReadBody, ReadStatus,
       ReadEnd, ReadFailLen, ReadFail, ReadFills, ReadFails, SourceFails, Got
  <1> QED BY <1>1, <1>2, <1>3, <1>4, Calm

LEMMA ShellClientStep ==
    ASSUME IInv, ShellClient, UNCHANGED <<syncVars, deviceVars>> PROVE IInv'
  <1>1. UNCHANGED <<up, todo, source, fs, user, call, dev>>
    BY DEF ShellClient, ParseFrame, FramesFill, FramesEnd, DrainFills, DrainEnd, Fill,
       Recv, channelVars, syncVars, deviceVars
  <1>2. pc # "idle" /\ (pc' = pc \/ pc' # "source")
    BY DEF ShellClient, ParseFrame, FramesFill, FramesEnd, DrainFills, DrainEnd, Fill
  <1>3. todo = <<>>
    BY DEF ShellClient, ParseFrame, FramesFill, FramesEnd, DrainFills, DrainEnd, IInv, Owner
  <1> QED BY <1>1, <1>2, <1>3, Calm

(* The command, the ends of the stream, and the device vanishing. *)
LEMMA ServiceStepAlone ==
    ASSUME IInv,
           \/ (Echo \/ Talk \/ Exit) /\ UNCHANGED <<syncVars, deviceVars>>
           \/ (Flush \/ Hangup \/ Vanish) /\ UNCHANGED <<syncVars, shellVars, deviceVars>>
    PROVE IInv'
  <1>1. UNCHANGED <<up, todo, source, fs, user, call, pc>>
    BY DEF Echo, Talk, Exit, Flush, Hangup, Vanish, Write, Finish, channelVars,
       syncVars, deviceVars
  <1>0. pc' \in {"idle", "return", "drain"} => todo = <<>> BY <1>1 DEF IInv, Owner
  <1>2. CASE Echo \/ Exit
    <2>1. dev.st \in {"run", "eof"} BY <1>2 DEF Echo, Exit
    <2>2. dev \in Processes BY <2>1 DEF IInv, TypeOK, Services
    <2>3. dev' \in Processes /\ dev'.st \in {"run", "eof", "done"}
      <3>1. CASE Echo
        <4>1. Tail(dev.pipe) \in Seq(Nat) BY <2>2, <3>1, Taken DEF Echo, Processes
        <4>2. dev' = [dev EXCEPT !.pipe = Tail(@)] BY <3>1 DEF Echo
        <4> QED BY <2>1, <2>2, <4>1, <4>2 DEF Processes
      <3>2. CASE Exit
        <4>1. dev' = [dev EXCEPT !.st = "done"] BY <3>2 DEF Exit
        <4> QED BY <2>2, <4>1 DEF Processes
      <3> QED BY <1>2, <3>1, <3>2
    <2> QED BY <1>0, <1>1, <2>2, <2>3, Calm
  <1>3. CASE Vanish
    <2>1. dev' = [dev EXCEPT !.st = "gone"] BY <1>3 DEF Vanish
    <2>2. dev'.st = "gone" /\ (dev \in Services => dev' \in Services)
          /\ (dev \in Processes => dev' \in Processes)
      BY <2>1 DEF IInv, TypeOK, Services, Processes
    <2> QED BY <1>0, <1>1, <2>2, Calm DEF IInv, TypeOK
  <1>4. CASE Talk \/ Flush \/ Hangup
    <2>1. dev' = dev BY <1>4 DEF Talk, Flush, Hangup
    <2> QED BY <1>0, <1>1, <2>1, Calm
  <1> QED BY <1>2, <1>3, <1>4

-----------------------------------------------------------------------------
(* The steps that send. *)
LEMMA PostStep ==
    ASSUME IInv, Post, UNCHANGED <<syncVars, shellVars, deviceVars>> PROVE IInv'
  <1>1. /\ todo # <<>> /\ up' = Append(up, Head(todo)) /\ todo' = Tail(todo)
        /\ UNCHANGED <<dev, pc, source, fs, user, call>>
    BY DEF Post, Send, syncVars, deviceVars
  <1>2. Queue' = Queue BY <1>1, HandedOver DEF IInv
  <1>3. Whole' /\ InTwo' BY <1>1, <1>2, Unmoved
  <1>4. ASSUME NEW S, up \in Seq(S), todo \in Seq(S) PROVE up' \in Seq(S) /\ todo' \in Seq(S)
    <2>1. Head(todo) = todo[1] /\ todo[1] \in S /\ Tail(todo) \in Seq(S)
      BY <1>1, <1>4, Taken
    <2> QED BY <1>1, <1>4, <2>1
  <1>5. TypeOK' BY <1>1, <1>4 DEF IInv, TypeOK
  <1>6. Owner' /\ NoHalfFile' BY <1>1 DEF IInv, Owner, NoHalfFile
  <1> QED BY <1>3, <1>5, <1>6 DEF IInv

LEMMA NoneToSend == Requests(<<>>) /\ <<>> \in Seq(SyncMessages) /\ <<>> \in Seq(InputFrames)
  BY DEF Requests

LEMMA AWord ==
    ASSUME NEW id \in {"QUIT", "DONE"}, NEW i \in Nat
    PROVE Word(id, i) \in SyncMessages /\ Word(id, i).id = id
  <1>1. <<>> \in Seq(Content) OBVIOUS
  <1> QED BY <1>1 DEF Word, Message, SyncMessages, SyncIds, Paths

LEMMA QuitRequest == /\ Requests(<<Word("QUIT", 0)>>)
                     /\ <<Word("QUIT", 0)>> \in Seq(SyncMessages)
  <1>1. Word("QUIT", 0) \in SyncMessages /\ Word("QUIT", 0).id = "QUIT" BY AWord
  <1> QED BY <1>1 DEF Requests, Plain, Second2, Sent

LEMMA PostFailsStep ==
    ASSUME IInv, PostFails, UNCHANGED <<syncVars, shellVars, deviceVars>> PROVE IInv'
  <1>1. /\ todo # <<>> /\ todo' = <<>> /\ pc' = "return"
        /\ UNCHANGED <<up, dev, source, fs, user, call>>
    BY DEF PostFails, channelVars, syncVars, deviceVars
  <1>2. Whole' /\ InTwo' BY <1>1, Replaced, NoneToSend DEF PushesAfter
  <1>3. TypeOK' BY <1>1, NoneToSend DEF IInv, TypeOK
  <1>4. Owner' /\ NoHalfFile' BY <1>1 DEF IInv, Owner, NoHalfFile
  <1> QED BY <1>2, <1>3, <1>4 DEF IInv

LEMMA PushDataStep ==
    ASSUME IInv, PushData, UNCHANGED <<shellVars, deviceVars>> PROVE IInv'
  <1>1. /\ pc = "source" /\ todo = <<>>
        /\ UNCHANGED <<up, dev, pc, fs, user, call>>
    BY DEF PushData, channelVars, deviceVars
  <1>2. PICK k \in 1 .. DataMax :
            /\ k <= Len(source)
            /\ todo' = <<Message("DATA", NoName, k, First(source, k))>>
            /\ source' = Rest(source, k)
    BY DEF PushData
  <1>3. source \in Seq(Content) /\ k \in 1 .. Len(source)
    BY <1>2, SyncAssumption DEF IInv, TypeOK
  <1>4. SubSeq(source, 1, k) \in Seq(Content) /\ source' \in Seq(Content)
        /\ source' = SubSeq(source, k + 1, Len(source))
    BY <1>2, <1>3, Parted DEF Rest
  <1>5. PICK m : m = Message("DATA", NoName, k, First(source, k)) OBVIOUS
  <1>6. m \in SyncMessages /\ m.id = "DATA" /\ m.body = SubSeq(source, 1, k)
    BY <1>4, <1>5, <1>3 DEF Message, First, SyncMessages, SyncIds, Paths
  <1>7. Whole' /\ InTwo' BY <1>1, <1>2, <1>3, <1>4, <1>5, <1>6, Pushed
  <1>8. TypeOK'
    <2>1. dev \in Services BY <1>1 DEF IInv, Owner
    <2>2. up \in Seq(SyncMessages)
      BY <2>1 DEF IInv, TypeOK, Services, Processes
    <2>3. todo' \in Seq(SyncMessages) BY <1>2, <1>5, <1>6
    <2> QED BY <1>1, <1>4, <2>1, <2>2, <2>3 DEF IInv, TypeOK
  <1>9. Owner' /\ NoHalfFile' BY <1>1 DEF IInv, Owner, NoHalfFile
  <1> QED BY <1>7, <1>8, <1>9 DEF IInv

LEMMA PushDoneStep ==
    ASSUME IInv, PushDone, UNCHANGED <<shellVars, deviceVars>> PROVE IInv'
  <1>1. /\ pc = "source" /\ todo = <<>> /\ source = <<>> /\ pc' = "status"
        /\ todo' = <<Word("DONE", Now)>>
        /\ UNCHANGED <<up, dev, source, fs, user, call>>
    BY DEF PushDone, WaitsFor, channelVars, syncVars, deviceVars
  <1>2. Word("DONE", Now) \in SyncMessages /\ Word("DONE", Now).id = "DONE"
    BY AWord DEF Now
  <1>3. Whole' /\ InTwo' BY <1>1, <1>2, Pushed
  <1>4. TypeOK'
    <2>1. dev \in Services BY <1>1 DEF IInv, Owner
    <2>2. up \in Seq(SyncMessages)
      BY <2>1 DEF IInv, TypeOK, Services, Processes
    <2>3. todo' \in Seq(SyncMessages) BY <1>1, <1>2
    <2> QED BY <1>1, <2>1, <2>2, <2>3 DEF IInv, TypeOK
  <1>5. Owner' /\ NoHalfFile' BY <1>1 DEF IInv, Owner, NoHalfFile
  <1> QED BY <1>3, <1>4, <1>5 DEF IInv

-----------------------------------------------------------------------------
(* The ends of calls. *)
LEMMA LetGoStep ==
    ASSUME IInv, LetGo, UNCHANGED <<syncVars, user>> PROVE IInv'
  <1>1. /\ up' = <<>> /\ todo' = <<>> /\ dev' = Idle /\ pc' = "idle"
        /\ UNCHANGED <<source, fs, user, call>>
    BY DEF LetGo, syncVars
  <1>2. dev'.st = "idle" /\ dev' \in Services
    <2>1. <<>> \in Seq(Content) OBVIOUS
    <2> QED BY <1>1, <2>1 DEF Idle, Service, Services, Paths
  <1>3. Whole' /\ InTwo' BY <1>1, <1>2, Afresh, NoneToSend DEF PushesAfter
  <1>4. TypeOK' BY <1>1, <1>2, NoneToSend DEF IInv, TypeOK
  <1>5. Owner' /\ NoHalfFile' BY <1>1, <1>2 DEF IInv, Owner, NoHalfFile
  <1> QED BY <1>3, <1>4, <1>5 DEF IInv

LEMMA SendQuitStep ==
    ASSUME IInv, SendQuit, UNCHANGED <<syncVars, user>>, user # "shell" PROVE IInv'
  <1>1. /\ todo' = <<Word("QUIT", 0)>> /\ pc' = "quit"
        /\ UNCHANGED <<up, dev, source, fs, user, call>>
    BY DEF SendQuit, channelVars, syncVars
  <1>2. Whole' /\ InTwo' BY <1>1, Replaced, QuitRequest DEF PushesAfter
  <1>3. TypeOK'
    <2>1. dev \in Services BY DEF IInv, Owner
    <2>2. up \in Seq(SyncMessages)
      BY <2>1 DEF IInv, TypeOK, Services, Processes
    <2> QED BY <1>1, <2>1, <2>2, QuitRequest DEF IInv, TypeOK
  <1>4. Owner' /\ NoHalfFile' BY <1>1 DEF IInv, Owner, NoHalfFile
  <1> QED BY <1>2, <1>3, <1>4 DEF IInv

LEMMA ReturnStep == ASSUME IInv, Return PROVE IInv'
  <1>1. pc = "return" /\ UNCHANGED <<syncVars, shellVars, user>> BY DEF Return
  <1>2. CASE user = "client" /\ pc' = "idle"
             /\ UNCHANGED <<channelVars, buf, out, dev, call, todo, n, acc, res>>
    <2>1. UNCHANGED <<up, todo, source, fs, user, call, dev>>
      BY <1>1, <1>2 DEF channelVars, syncVars
    <2>2. todo = <<>> BY <1>1 DEF IInv, Owner
    <2> QED BY <1>2, <2>1, <2>2, Calm
  <1>3. CASE user # "client" /\ Politely /\ SendQuit
    <2>1. call.op \in SyncOps BY <1>3 DEF Politely, SyncOps
    <2>2. user # "shell" BY <1>1, <2>1 DEF IInv, Owner
    <2> QED BY <1>1, <1>3, <2>2, SendQuitStep
  <1>4. CASE LetGo BY <1>1, <1>4, LetGoStep
  <1> QED BY <1>2, <1>3, <1>4 DEF Return

LEMMA LeaveStep ==
    ASSUME IInv, BeginQuit \/ Quit \/ Dropped \/ GiveUp PROVE IInv'
  <1>1. CASE BeginQuit BY <1>1, SendQuitStep DEF BeginQuit, deviceVars
  <1>2. CASE Quit \/ Dropped BY <1>2, LetGoStep DEF Quit, Dropped, deviceVars
  <1>3. CASE GiveUp
    <2>1. CASE LetGo BY <1>3, <2>1, LetGoStep DEF GiveUp
    <2>2. CASE user = "client" /\ pc' = "idle" /\ todo' = <<>>
               /\ UNCHANGED <<channelVars, buf, out, dev, call, n, acc>>
      <3>1. UNCHANGED <<up, dev, source, fs, user, call>>
        BY <1>3, <2>2 DEF GiveUp, channelVars, syncVars
      <3>2. Whole' /\ InTwo' BY <2>2, <3>1, Replaced, NoneToSend DEF PushesAfter
      <3>3. TypeOK' BY <2>2, <3>1, NoneToSend DEF IInv, TypeOK
      <3>4. Owner' /\ NoHalfFile' BY <2>2, <3>1 DEF IInv, Owner, NoHalfFile
      <3> QED BY <3>2, <3>3, <3>4 DEF IInv
    <2> QED BY <1>3, <2>1, <2>2 DEF GiveUp
  <1> QED BY <1>1, <1>2, <1>3

-----------------------------------------------------------------------------
(* The beginnings of calls. *)
LEMMA CallRequests ==
    ASSUME NEW c \in SyncCalls
    PROVE /\ Requests(RequestOf(c)) /\ RequestOf(c) \in Seq(SyncMessages)
          /\ FirstWait(c) \notin {"idle", "return", "drain"}
          /\ FirstWait(c) = "source" =>
                /\ c.op = "push" /\ Len(RequestOf(c)) >= 1
                /\ ~First2(RequestOf(c)[Len(RequestOf(c))])
  <1>0. NoName \notin Names /\ Modes \subseteq Nat BY SyncAssumption
  <1>1. ASSUME NEW id \in SyncIds, NEW p \in Paths, NEW i \in Nat
        PROVE Message(id, p, i, <<>>) \in SyncMessages
    <2>1. <<>> \in Seq(Content) OBVIOUS
    <2> QED BY <2>1 DEF Message, SyncMessages
  <1>2. c.path \in Paths /\ c.mode \in Nat
    <2>1. CASE c \in [op : {"stat", "pull"}, path : Names, mode : {0}]
      BY <2>1 DEF Paths
    <2>2. CASE c \in [op : {"list"}, path : {NoName}, mode : {0}]
      BY <2>2 DEF Paths
    <2>3. CASE c \in [op : {"push"}, path : Names, mode : Modes]
      BY <2>3, <1>0 DEF Paths
    <2> QED BY <2>1, <2>2, <2>3 DEF SyncCalls
  <1>3. ASSUME NEW id \in SyncIds \ {"DATA", "DONE"}, NEW i \in Nat, NEW p \in Paths,
               id = "SND2" => p \in Names
        PROVE /\ Requests(<<Message(id, p, i, <<>>)>>)
              /\ <<Message(id, p, i, <<>>)>> \in Seq(SyncMessages)
    <2>1. Message(id, p, i, <<>>) \in SyncMessages BY <1>1
    <2>2. Message(id, p, i, <<>>) \in Sent /\ Plain(Message(id, p, i, <<>>))
          /\ ~Second2(Message(id, p, i, <<>>))
      BY <2>1, <1>0, <1>3 DEF Sent, Plain, Second2, Message
    <2> QED BY <2>1, <2>2 DEF Requests
  <1>4. ASSUME NEW id \in {"RCV2", "SND2"}, NEW i \in Nat, NEW p \in Names
        PROVE /\ Requests(<<Request(id, p), Word(id, i)>>)
              /\ <<Request(id, p), Word(id, i)>> \in Seq(SyncMessages)
              /\ ~First2(Word(id, i))
    <2> DEFINE one == Request(id, p)
               two == Word(id, i)
    <2>1. one \in SyncMessages /\ two \in SyncMessages
      BY <1>1 DEF Request, Word, SyncIds, Paths
    <2>2. one \in Sent /\ two \in Sent /\ Plain(one) /\ Plain(two) /\ ~Second2(one)
          /\ (Second2(two) => First2(one)) /\ ~First2(two)
      BY <2>1, <1>0 DEF Sent, Plain, Second2, First2, Message, Request, Word
    <2> HIDE DEF one, two
    <2>3. Requests(<<one, two>>) /\ <<one, two>> \in Seq(SyncMessages)
      BY <2>1, <2>2 DEF Requests
    <2> QED BY <2>2, <2>3 DEF one, two
  <1>5. CASE c.op = "stat"
    <2>1. StatId \in {"STA2", "STAT"} /\ c.path \in Paths BY <1>2 DEF StatId
    <2>2. RequestOf(c) = <<Message(StatId, c.path, 0, <<>>)>> BY <1>5 DEF RequestOf, Request
    <2>3. FirstWait(c) = "stat" BY <1>5 DEF FirstWait
    <2> QED BY <1>3, <2>1, <2>2, <2>3 DEF SyncIds
  <1>6. CASE c.op = "list"
    <2>1. ListId \in {"LIS2", "LIST"} /\ c.path \in Paths BY <1>2 DEF ListId
    <2>2. RequestOf(c) = <<Message(ListId, c.path, 0, <<>>)>> BY <1>6 DEF RequestOf, Request
    <2>3. FirstWait(c) = "entry" BY <1>6 DEF FirstWait
    <2> QED BY <1>3, <2>1, <2>2, <2>3 DEF SyncIds
  <1>7. CASE c.op = "pull"
    <2>1. c.path \in Names BY <1>7 DEF SyncCalls
    <2>2. RequestOf(c) = RecvRequest(c.path) /\ FirstWait(c) = "chunk"
      BY <1>7 DEF RequestOf, FirstWait
    <2>3. RecvRequest(c.path) \in {<<Request("RCV2", c.path), Word("RCV2", 0)>>,
                                   <<Message("RECV", c.path, 0, <<>>)>>}
      BY DEF RecvRequest, Request
    <2> QED BY <1>2, <1>3, <1>4, <2>1, <2>2, <2>3 DEF SyncIds
  <1>8. CASE c.op = "push"
    <2>1. c.path \in Names BY <1>8 DEF SyncCalls
    <2>2. RequestOf(c) = SendRequest(c.path, c.mode) /\ FirstWait(c) = "source"
      BY <1>8 DEF RequestOf, FirstWait
    <2>3. CASE RequestOf(c) = <<Request("SND2", c.path), Word("SND2", c.mode)>>
      <3>1. Len(RequestOf(c)) = 2 /\ RequestOf(c)[2] = Word("SND2", c.mode)
        BY <2>3
      <3> QED BY <1>2, <1>4, <1>8, <2>1, <2>2, <2>3, <3>1
    <2>4. CASE RequestOf(c) = <<Message("SEND", c.path, c.mode, <<>>)>>
      <3>1. Len(RequestOf(c)) = 1 /\ RequestOf(c)[1] = Message("SEND", c.path, c.mode, <<>>)
        BY <2>4
      <3>2. ~First2(RequestOf(c)[1]) BY <3>1 DEF First2, Message
      <3> QED BY <1>2, <1>3, <1>8, <2>1, <2>2, <2>4, <3>1, <3>2 DEF SyncIds
    <2> QED BY <2>2, <2>3, <2>4 DEF SendRequest
  <1> QED BY <1>5, <1>6, <1>7, <1>8 DEF SyncCalls

LEMMA SyncBeginsStep ==
    ASSUME IInv, NEW c \in SyncCalls, OpenSync(c) \/ NextCall(c) PROVE IInv'
  <1>1. PICK body \in BodiesFor(c) : Begins(c, body) BY DEF OpenSync, NextCall
  <1>2. /\ call' = c /\ todo' = RequestOf(c) /\ pc' = FirstWait(c) /\ source' = body
        /\ UNCHANGED <<fs, user>> /\ user # "shell"
        /\ \/ UNCHANGED <<up, dev>>
           \/ up' = <<>> /\ dev' = Idle
    BY <1>1 DEF Begins, OpenSync, NextCall, Opens, channelVars
  <1>3. /\ Requests(todo') /\ todo' \in Seq(SyncMessages)
        /\ pc' \notin {"idle", "return", "drain"}
        /\ pc' = "source" => c.op = "push" /\ Len(todo') >= 1 /\ ~First2(todo'[Len(todo')])
    BY <1>2, CallRequests
  <1>4. source' \in Seq(Content) /\ (c.op = "push" => source' \in Bodies)
    <2>1. <<>> \in Seq(Content) OBVIOUS
    <2>2. CASE c.op = "push" BY <2>2, <1>1, <1>2, BodiesAreContent DEF BodiesFor
    <2>3. CASE c.op # "push" BY <2>1, <2>3, <1>1, <1>2 DEF BodiesFor
    <2> QED BY <2>2, <2>3
  <1>5. PushesAfter(todo') BY <1>3, <1>4 DEF PushesAfter
  <1>6. Idle \in Services /\ Idle.st = "idle" /\ <<>> \in Seq(SyncMessages)
    <2>1. <<>> \in Seq(Content) OBVIOUS
    <2> QED BY <2>1 DEF Idle, Service, Services, Paths
  <1>7. Whole' /\ InTwo'
    <2>1. CASE UNCHANGED <<up, dev>> BY <2>1, <1>3, <1>5, Replaced
    <2>2. CASE up' = <<>> /\ dev' = Idle BY <2>2, <1>3, <1>5, <1>6, Afresh
    <2> QED BY <1>2, <2>1, <2>2
  <1>8. dev' \in Services /\ up' \in Seq(SyncMessages)
    <2>1. dev \in Services /\ up \in Seq(SyncMessages)
      BY <1>2 DEF IInv, Owner, TypeOK, Services, Processes
    <2> QED BY <1>2, <1>6, <2>1
  <1>9. TypeOK' BY <1>2, <1>3, <1>4, <1>8 DEF IInv, TypeOK
  <1>10. Owner' BY <1>2, <1>3, <1>8 DEF Owner
  <1>11. NoHalfFile' BY <1>2 DEF IInv, NoHalfFile
  <1> QED BY <1>7, <1>9, <1>10, <1>11 DEF IInv

LEMMA ShellBeginsStep ==
    ASSUME IInv, NEW c \in ShellCalls, OpenShell(c) PROVE IInv'
  <1>1. /\ call' = c /\ up' = <<>> /\ user = "shell" /\ UNCHANGED <<fs, source, user>>
        /\ dev' = Process("run", c.command, <<>>)
        /\ \/ todo' = InputOf(c) /\ pc' = "frames"
           \/ todo' = <<>> /\ pc' = "drain"
    BY DEF OpenShell, Starts, Opens, syncVars
  <1>2. dev' \in Processes /\ dev'.st = "run"
    <2>1. <<>> \in Seq(Nat) /\ c.command \in {"talk", "echo"} BY DEF ShellCalls
    <2> QED BY <1>1, <2>1 DEF Process, Processes
  <1>3. c.op \notin SyncOps BY DEF ShellCalls, SyncOps
  <1>4. InputOf(c) \in Seq(InputFrames)
    <2>0. c.input \in Nat
      <3>1. Inputs \subseteq Nat BY ShellAssumption
      <3>2. CASE c \in [op : {"stdin"}, input : Inputs, command : {"echo"}] BY <3>1, <3>2
      <3>3. CASE c \notin [op : {"stdin"}, input : Inputs, command : {"echo"}]
        BY <3>3 DEF ShellCalls
      <3> QED BY <3>2, <3>3
    <2> DEFINE stdin == [i \in 1 .. c.input |-> Frame("Stdin", i)]
    <2>1. stdin \in Seq(InputFrames)
      <3>1. \A i \in 1 .. c.input : Frame("Stdin", i) \in InputFrames
        BY <2>0 DEF Frame, InputFrames
      <3>2. stdin \in [1 .. c.input -> InputFrames] BY <3>1
      <3> QED BY <3>2, <2>0
    <2>2. <<Frame("CloseStdin", 0)>> \in Seq(InputFrames) BY DEF Frame, InputFrames
    <2> HIDE DEF stdin
    <2>3. stdin \o <<Frame("CloseStdin", 0)>> \in Seq(InputFrames) BY <2>1, <2>2, Put
    <2> QED BY <2>3 DEF InputOf, stdin
  <1>5. Requests(todo')
    <2>1. todo' \in Seq(InputFrames) BY <1>1, <1>4, NoneToSend
    <2>2. \A i \in 1 .. Len(todo') : todo'[i].id \in {"Stdin", "CloseStdin"}
      <3>1. \A i \in 1 .. Len(todo') : todo'[i] \in InputFrames BY <2>1
      <3> QED BY <3>1 DEF InputFrames
    <2> QED BY <2>1, <2>2 DEF Requests, Sent, Plain, Second2
  <1>6. Whole' /\ InTwo' BY <1>1, <1>2, <1>5, Afresh DEF PushesAfter
  <1>7. TypeOK'
    <2>1. up' \in Seq(InputFrames) /\ todo' \in Seq(InputFrames)
      BY <1>1, <1>4, NoneToSend
    <2> QED BY <2>1, <1>1, <1>2 DEF IInv, TypeOK
  <1>8. Owner' /\ NoHalfFile' BY <1>1, <1>3 DEF IInv, Owner, NoHalfFile
  <1> QED BY <1>6, <1>7, <1>8 DEF IInv

LEMMA OpenFailsStep ==
    ASSUME IInv, NEW c, OpenFails(c) PROVE IInv'
  <1>1. pc = "idle" /\ UNCHANGED <<up, todo, dev, pc, source, fs, user>>
    BY DEF OpenFails, BeginCall, channelVars, syncVars
  <1>2. Queue' = Queue BY <1>1 DEF Queue
  <1>3. Whole' /\ InTwo' BY <1>1, <1>2, Unmoved
  <1>4. TypeOK' /\ Owner' /\ NoHalfFile' BY <1>1 DEF IInv, TypeOK, Owner, NoHalfFile
  <1> QED BY <1>3, <1>4 DEF IInv

-----------------------------------------------------------------------------
(* The services. *)
LEMMA Taking ==
    ASSUME IInv, Arrive, UNCHANGED <<todo, pc, source, user, call>>,
           NEW S, up \in Seq(S)
    PROVE /\ up # <<>> /\ up' = Tail(up) /\ up' \in Seq(S)
          /\ Head(up) \in S /\ Len(Queue) # 0 /\ 1 \in 1 .. Len(Queue)
          /\ Queue[1] = Head(up)
  <1>1. up # <<>> /\ up' = Tail(up) BY DEF Arrive
  <1>2. Len(up) >= 1 /\ Head(up) = up[1] /\ up[1] \in S /\ Tail(up) \in Seq(S)
    BY <1>1, Taken
  <1>3. /\ Len(up) \in Nat /\ Len(todo) \in Nat /\ Len(Queue) = Len(up) + Len(todo)
        /\ \A i \in 1 .. Len(up) : Queue[i] = up[i]
    BY QueueIs DEF IInv
  <1>4. 1 \in 1 .. Len(up) /\ 1 \in 1 .. Len(Queue) /\ Len(Queue) # 0 BY <1>2, <1>3
  <1> QED BY <1>1, <1>2, <1>3, <1>4

LEMMA ShellTakesStep ==
    ASSUME IInv, ShellTakes, UNCHANGED <<syncVars, deviceVars>> PROVE IInv'
  <1>1. /\ Arrive /\ dev.st = "run"
        /\ UNCHANGED <<todo, pc, source, user, call, fs>>
        /\ \/ dev' = [dev EXCEPT !.pipe = Append(@, Head(up).data)]
           \/ dev' = [dev EXCEPT !.st = "eof"]
    BY DEF ShellTakes, syncVars, deviceVars
  <1>2. dev \in Processes /\ up \in Seq(InputFrames) /\ todo \in Seq(InputFrames)
    BY <1>1 DEF IInv, TypeOK, Services
  <1>3. /\ up # <<>> /\ up' = Tail(up) /\ up' \in Seq(InputFrames)
        /\ Head(up) \in InputFrames
    BY <1>1, <1>2, Taking
  <1>4. dev' \in Processes /\ dev'.st \in {"run", "eof"}
    <2>1. CASE dev' = [dev EXCEPT !.pipe = Append(@, Head(up).data)]
      <3>1. Append(dev.pipe, Head(up).data) \in Seq(Nat)
        BY <1>2, <1>3 DEF Processes, InputFrames
      <3> QED BY <2>1, <3>1, <1>1, <1>2 DEF Processes
    <2>2. CASE dev' = [dev EXCEPT !.st = "eof"] BY <2>2, <1>2 DEF Processes
    <2> QED BY <1>1, <2>1, <2>2
  <1>5. UNCHANGED <<todo, pc, source>> BY <1>1
  <1>6. Whole' /\ InTwo' BY <1>3, <1>4, <1>5, Arrived
  <1>7. TypeOK' BY <1>1, <1>2, <1>3, <1>4 DEF IInv, TypeOK
  <1>8. Owner' /\ NoHalfFile'
    BY <1>1, <1>2 DEF IInv, Owner, NoHalfFile, Services, Processes
  <1> QED BY <1>6, <1>7, <1>8 DEF IInv

LEMMA SyncServesStep ==
    ASSUME IInv, SyncServes, UNCHANGED <<shellVars, deviceVars>> PROVE IInv'
  <1> DEFINE q == Head(up)
  <1>1. Arrive /\ UNCHANGED <<todo, pc, source, user, call>>
    BY DEF SyncServes, deviceVars
  <1>2. dev.st \in {"idle", "recv", "send", "data", "stuck"} BY DEF SyncServes
  <1>3. dev \in Services /\ up \in Seq(SyncMessages) /\ todo \in Seq(SyncMessages)
    BY <1>2 DEF IInv, TypeOK, Processes
  <1>4. /\ up # <<>> /\ up' = Tail(up) /\ up' \in Seq(SyncMessages)
        /\ q \in SyncMessages /\ Len(Queue) # 0 /\ 1 \in 1 .. Len(Queue)
        /\ Queue[1] = q
    BY <1>1, <1>3, Taking
  <1>5. dev.st = "send" => Plain(q)
    <2>1. dev.st = "send" => NothingAt(1) BY DEF IInv, InTwo
    <2>2. 1 <= Len(Queue) BY <1>4, QueueIs DEF IInv
    <2> QED BY <2>1, <2>2, <1>4 DEF NothingAt, Plain
  <1>6. dev.st = "idle" => ~Second2(q) BY <1>4 DEF IInv, InTwo
  <1>7. dev.st = "data" /\ q.id = "DONE" => dev.body \in Bodies
    BY <1>4 DEF IInv, Whole, Follows
  <1>8. /\ q.path \in Paths /\ q.num \in Nat /\ q.body \in Seq(Content) /\ q.id \in SyncIds
        /\ dev.path \in Paths /\ dev.mode \in Nat /\ dev.body \in Seq(Content)
        /\ <<>> \in Seq(Content) /\ NoName \in Paths
    BY <1>3, <1>4 DEF SyncMessages, Services, Paths
  <1>9. \/ /\ dev' = dev /\ fs' = fs
           /\ \/ dev.st = "idle" /\ q.id \in {"STAT", "STA2", "LIST", "LIS2", "RECV"}
              \/ dev.st = "stuck"
        \/ /\ dev.st = "idle" /\ q.id \in {"RCV2", "SEND", "SND2"} /\ fs' = fs
           /\ dev' = CASE q.id = "RCV2" -> Service("recv", q.path, 0, <<>>)
                       [] q.id = "SEND" -> Service("data", q.path, q.num, <<>>)
                       [] q.id = "SND2" -> Service("send", q.path, 0, <<>>)
        \/ /\ dev.st = "recv" /\ fs' = fs
           /\ dev' = IF q.path = NoName THEN Idle ELSE Service("stuck", NoName, 0, <<>>)
        \/ /\ dev.st = "send" /\ fs' = fs
           /\ dev' = IF q.path = NoName THEN Service("data", dev.path, q.num, <<>>)
                                        ELSE Service("stuck", NoName, 0, <<>>)
        \/ /\ dev.st = "data" /\ q.id = "DATA" /\ fs' = fs
           /\ dev' = [dev EXCEPT !.body = @ \o q.body]
        \/ /\ dev.st = "data" /\ q.id = "DONE" /\ dev' = Idle
           /\ \/ fs' = [fs EXCEPT ![dev.path] = File(dev.mode, q.num, dev.body)]
              \/ fs' = fs
        \/ /\ dev.st = "data" /\ q.id \notin {"DATA", "DONE"} /\ fs' = fs
           /\ dev' = Service("stuck", NoName, 0, <<>>)
        \/ /\ dev.st = "idle" /\ q.id = "QUIT" /\ fs' = fs
           /\ dev' = Service("done", NoName, 0, <<>>)
    BY DEF SyncServes
  <1> HIDE DEF q
  <1>10. /\ dev' \in Services
         /\ dev'.st = "data" =>
              \/ Plain(q) /\ dev'.body = <<>>
              \/ dev.st = "data" /\ q.id = "DATA" /\ dev'.body = dev.body \o q.body
         /\ dev'.st = "send" => First2(q)
         /\ dev'.st = "idle" => ~First2(q)
    <2>1. ASSUME NEW st \in {"idle", "recv", "send", "data", "done", "stuck"},
                 NEW p \in Paths, NEW m \in Nat
          PROVE /\ Service(st, p, m, <<>>) \in Services
                /\ Service(st, p, m, <<>>).st = st /\ Service(st, p, m, <<>>).body = <<>>
      BY <1>8 DEF Service, Services
    <2>2. Idle = Service("idle", NoName, 0, <<>>) BY DEF Idle
    <2>3. CASE dev' = dev /\ (dev.st = "stuck" \/ (dev.st = "idle"
                   /\ q.id \in {"STAT", "STA2", "LIST", "LIS2", "RECV"}))
      BY <2>3, <1>3 DEF First2
    <2>4. CASE dev.st = "idle" /\ q.id = "RCV2" /\ dev' = Service("recv", q.path, 0, <<>>)
      BY <2>1, <2>4, <1>8
    <2>5. CASE dev.st = "idle" /\ q.id = "SEND"
               /\ dev' = Service("data", q.path, q.num, <<>>)
      BY <2>1, <2>5, <1>8 DEF Plain
    <2>6. CASE dev.st = "idle" /\ q.id = "SND2" /\ dev' = Service("send", q.path, 0, <<>>)
      BY <2>1, <2>6, <1>6, <1>8 DEF First2, Second2
    <2>7. CASE dev.st = "recv"
               /\ dev' = IF q.path = NoName THEN Idle ELSE Service("stuck", NoName, 0, <<>>)
      BY <2>1, <2>2, <2>7, <1>8 DEF First2
    <2>8. CASE dev.st = "send"
               /\ dev' = IF q.path = NoName THEN Service("data", dev.path, q.num, <<>>)
                                            ELSE Service("stuck", NoName, 0, <<>>)
      BY <2>1, <2>8, <1>5, <1>8
    <2>9. CASE dev.st = "data" /\ q.id = "DATA" /\ dev' = [dev EXCEPT !.body = @ \o q.body]
      <3>1. dev.body \o q.body \in Seq(Content) BY <1>8, Put
      <3> QED BY <2>9, <3>1, <1>3 DEF Services
    <2>10. CASE q.id = "DONE" /\ dev' = Idle BY <2>1, <2>2, <2>10, <1>8 DEF First2
    <2>11. CASE \E st \in {"stuck", "done"} : dev' = Service(st, NoName, 0, <<>>)
      <3>1. PICK st \in {"stuck", "done"} : dev' = Service(st, NoName, 0, <<>>) BY <2>11
      <3>2. NoName \in Paths /\ 0 \in Nat BY <1>8
      <3>3. /\ dev' \in Services /\ dev'.st = st
        BY <2>1, <3>1, <3>2
      <3> QED BY <3>3
    <2> QED BY <1>9, <2>3, <2>4, <2>5, <2>6, <2>7, <2>8, <2>9, <2>10, <2>11
  <1>11. Whole' /\ InTwo' BY <1>1, <1>4, <1>10, Arrived DEF q
  <1>12. DOMAIN fs' = Names BY <1>9 DEF IInv, TypeOK
  <1>13. TypeOK' BY <1>1, <1>3, <1>4, <1>10, <1>12 DEF IInv, TypeOK
  <1>14. Owner' BY <1>1, <1>10 DEF IInv, Owner
  <1>15. NoHalfFile'
    <2>1. CASE fs' = fs BY <2>1 DEF IInv, NoHalfFile
    <2>2. CASE /\ dev.st = "data" /\ q.id = "DONE"
               /\ fs' = [fs EXCEPT ![dev.path] = File(dev.mode, q.num, dev.body)]
      <3> SUFFICES ASSUME NEW p \in Names, fs'[p] # Files0[p] PROVE fs'[p].body \in Bodies
        BY DEF NoHalfFile
      <3>1. p \in DOMAIN fs BY DEF IInv, TypeOK
      <3>2. CASE p = dev.path
        <4>1. fs'[p] = File(dev.mode, q.num, dev.body) BY <2>2, <3>1, <3>2
        <4> QED BY <4>1, <2>2, <1>7 DEF File
      <3>3. CASE p # dev.path
        <4>1. fs'[p] = fs[p] BY <2>2, <3>1, <3>3
        <4> QED BY <4>1 DEF IInv, NoHalfFile
      <3> QED BY <3>2, <3>3
    <2> QED BY <1>9, <2>1, <2>2
  <1> QED BY <1>11, <1>13, <1>14, <1>15 DEF IInv

-----------------------------------------------------------------------------
LEMMA DeviceInitial == Init => IInv
  <1> SUFFICES ASSUME Init PROVE IInv OBVIOUS
  <1>1. up = <<>> /\ todo = <<>> /\ dev = Idle /\ pc = "idle" /\ source = <<>> /\ fs = Files0
    BY DEF Init
  <1>2. Idle \in Services /\ Idle.st = "idle" /\ <<>> \in Seq(Content)
    <2>1. <<>> \in Seq(Content) OBVIOUS
    <2> QED BY <2>1 DEF Idle, Service, Services, Paths
  <1>3. TypeOK BY <1>1, <1>2, DeviceAssumption DEF TypeOK
  <1>4. Owner /\ NoHalfFile BY <1>1, <1>2 DEF Owner, NoHalfFile
  <1>5. Queue = <<>> /\ Len(Queue) = 0 BY <1>1 DEF Queue
  <1>6. Whole
    <2>1. PICK none : none = [i \in 1 .. 1 |-> <<>>] OBVIOUS
    <2>2. Follows(none) BY <1>1, <1>2, <1>5, <2>1 DEF Follows
    <2> QED BY <2>2 DEF Whole
  <1>7. InTwo BY <1>1, <1>2, <1>5 DEF InTwo
  <1> QED BY <1>3, <1>4, <1>6, <1>7 DEF IInv

LEMMA DeviceStep == ASSUME IInv, Next PROVE IInv'
  <1>1. CASE Caller
    <2>1. CASE \E c \in SyncCalls : OpenSync(c) \/ NextCall(c) \/ OpenFails(c)
      BY <2>1, SyncBeginsStep, OpenFailsStep
    <2>2. CASE \E c \in ShellCalls : OpenShell(c) \/ OpenFails(c)
      BY <2>2, ShellBeginsStep, OpenFailsStep
    <2>3. CASE PushFails BY <2>3, ReadingStep DEF PushFails
    <2> QED BY <1>1, <2>1, <2>2, <2>3, LeaveStep DEF Caller
  <1>2. CASE CallStep
    <2>1. CASE SyncClient /\ UNCHANGED <<shellVars, deviceVars>>
      BY <2>1, ReadingStep, PushDataStep, PushDoneStep DEF SyncClient
    <2>2. CASE Quit BY <2>2, LeaveStep
    <2> QED BY <1>2, <2>1, <2>2, ShellClientStep, PostStep, PostFailsStep, ReturnStep
        DEF CallStep
  <1>3. CASE ServiceStep
    BY <1>3, ShellTakesStep, SyncServesStep, ServiceStepAlone DEF ServiceStep
  <1>4. CASE Vanishes BY <1>4, ServiceStepAlone DEF Vanishes
  <1> QED BY <1>1, <1>2, <1>3, <1>4 DEF Next

LEMMA DeviceStutter == ASSUME IInv, UNCHANGED vars PROVE IInv'
  <1>1. UNCHANGED <<up, todo, source, fs, user, call, pc, dev>>
    BY DEF vars, readerVars, channelVars, syncVars, deviceVars
  <1>2. Queue' = Queue BY <1>1 DEF Queue
  <1>3. Whole' /\ InTwo' BY <1>1, <1>2, Unmoved
  <1>4. TypeOK' /\ Owner' /\ NoHalfFile' BY <1>1 DEF IInv, TypeOK, Owner, NoHalfFile
  <1> QED BY <1>3, <1>4 DEF IInv

(* Whatever is given up, fails or vanishes, and wherever: a file of the     *)
(* device is never a part of what was pushed, or a mixture of two pushes.   *)
THEOREM FilesAreWhole == Spec => []NoHalfFile
  <1>1. IInv /\ [Next]_vars => IInv' BY DeviceStep, DeviceStutter
  <1>2. IInv => NoHalfFile BY DEF IInv
  <1> QED BY <1>1, <1>2, DeviceInitial, PTL DEF Spec

=============================================================================
