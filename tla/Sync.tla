-------------------------------- MODULE Sync --------------------------------
(***************************************************************************)
(* The client of the sync: service (src/src/services/sync) on one channel: *)
(* stat, list, pull and push, each a request and the replies read one      *)
(* read_exact after the other.  A client may be used for several calls, so *)
(* what a call leaves unread is what the next one reads.  The service is   *)
(* modelled from what the client expects of it.                            *)
(***************************************************************************)
EXTENDS ChannelReader, SequencesExt

CONSTANTS
    Names,          \* paths, and at the same time the names in the directory
    NoName,
    ReadOnly,       \* paths the device refuses to write
    Modes,          \* file modes a push may ask for
    DataMax,        \* DATA_MAX, in pieces of content
    DevMaxes        \* what devices take for it

ASSUME SyncAssumption == /\ NoName \notin Names /\ ReadOnly \subseteq Names
                         /\ IsFiniteSet(Names)
                         /\ Modes \subseteq Nat \ {0}
                         /\ DataMax \in Nat \ {0} /\ Huge > DataMax
                         /\ DevMaxes \subseteq Nat \ {0}

VARIABLES
    feats,          \* SyncFeatures: the v2 variants the device has
    fs,             \* the device's files
    source          \* what is left of the local source of a push

syncVars == <<feats, fs, source>>

File(mode, mtime, body) == [mode |-> mode, mtime |-> mtime, body |-> body]
Absent == File(0, 0, <<>>)
Exists(f) == f.mode # 0

Now == 1            \* the modification time a push asks for
ENOENT == 2
FailText == Piece("no such file")

(* codec::request and codec::word; SEND carries the mode in its path.       *)
Message(id, path, num, body) ==
    [id |-> id, path |-> path, num |-> num, body |-> body]
Request(id, path) == Message(id, path, 0, <<>>)
Word(id, num) == Message(id, NoName, num, <<>>)

StatId == IF "stat_v2" \in feats THEN "STA2" ELSE "STAT"
ListId == IF "ls_v2" \in feats THEN "LIS2" ELSE "LIST"

(* The layouts, with the fields the model tells apart: v2 has an error word.*)
StatLayout(id, f) ==
    <<Id(id)>> \o (IF id \in {"STA2", "DNT2"}
                   THEN <<Num(IF Exists(f) THEN 0 ELSE ENOENT)>> ELSE <<>>)
               \o <<Num(f.mode), Num(Len(f.body)), Num(f.mtime)>>
StatLen == IF "stat_v2" \in feats THEN 5 ELSE 4
DentLen == IF "ls_v2" \in feats THEN 6 ELSE 5

(* codec::stat_v1 and stat_v2: fields by their place from the end.          *)
Parsed(b) == LET at(i) == Number(b[Len(b) - i])
             IN  [mode |-> at(2), size |-> at(1), mtime |-> at(0),
                  error |-> IF Len(b) = 5 THEN Number(b[2]) ELSE 0]

(* What Stat::exists says of a reply. *)
StatExists(st) == st.mode # 0 /\ st.error = 0

-----------------------------------------------------------------------------
(* The calls: the messages each sends, and what it reads first *)

SyncCalls == [op : {"stat", "pull"}, path : Names, mode : {0}]
             \cup [op : {"list"}, path : {NoName}, mode : {0}]
             \cup [op : {"push"}, path : Names, mode : Modes]

RecvRequest(p) == IF "sendrecv_v2" \in feats
                  THEN <<Request("RCV2", p), Word("RCV2", 0)>>
                  ELSE <<Request("RECV", p)>>
SendRequest(p, mode) == IF "sendrecv_v2" \in feats
                        THEN <<Request("SND2", p), Word("SND2", mode)>>
                        ELSE <<Message("SEND", p, mode, <<>>)>>

RequestOf(c) == CASE c.op = "stat" -> <<Request(StatId, c.path)>>
                  [] c.op = "list" -> <<Request(ListId, c.path)>>
                  [] c.op = "pull" -> RecvRequest(c.path)
                  [] c.op = "push" -> SendRequest(c.path, c.mode)

FirstWait(c) == CASE c.op = "stat" -> "stat"   [] c.op = "list" -> "entry"
                  [] c.op = "pull" -> "chunk"  [] c.op = "push" -> "source"

(* The call begins, with body for a push to read. *)
Begins(c, body) ==
    /\ call' = c /\ todo' = RequestOf(c) /\ pc' = FirstWait(c)
    /\ n' = 0 /\ acc' = <<>> /\ res' = "pending"
    /\ source' = body

-----------------------------------------------------------------------------
(* Reading the replies *)

Reading == {"stat", "entry", "name", "chunk", "len", "body", "end", "status",
            "fail_len", "fail_msg"}

Need == CASE pc = "stat" -> StatLen [] pc = "entry" -> DentLen
          [] pc \in {"name", "body", "fail_msg"} -> n
          [] OTHER -> 1

Returns(r) == pc' = "return" /\ res' = r /\ UNCHANGED <<n, acc>>
WaitsFor(p) == pc' = p /\ UNCHANGED <<n, acc, res>>

(* A reply whose id the client does not know ends the call. *)
OutOfPlace(ids) == buf[1] \notin ids /\ Returns("protocol")

(* ReadWith(p, A): read_exact returns what pc = p waits for, and A is done. *)
Got(p) == /\ pc = p /\ todo = <<>> /\ Len(buf) >= Need
          /\ Take(Need)
          /\ UNCHANGED <<channelVars, out, dev, call, todo, syncVars>>

ReadStat ==
    /\ Got("stat")
    /\ \/ /\ buf[1] = Id(StatId)
          /\ acc' = <<Parsed(First(buf, StatLen))>>
          /\ pc' = "return" /\ res' = "ok" /\ UNCHANGED n
       \/ OutOfPlace({Id(StatId)})

(* A FAIL in a listing is read as DONE is: padded to a whole header. *)
DentId == Id(IF "ls_v2" \in feats THEN "DNT2" ELSE "DENT")

ReadEntry ==
    /\ Got("entry")
    /\ \/ buf[1] = Id("DONE") /\ Returns("ok")
       \/ buf[1] = Id("FAIL") /\ Returns("remote")
       \/ /\ buf[1] = DentId
          /\ acc' = Append(acc, Parsed(First(buf, DentLen - 1)))
          /\ n' = Number(buf[DentLen])
          /\ pc' = "name" /\ UNCHANGED res
       \/ OutOfPlace({Id("DONE"), Id("FAIL"), DentId})

ReadName ==
    /\ Got("name")
    /\ acc' = Append(acc, buf[1])
    /\ pc' = "entry" /\ UNCHANGED <<n, res>>

(* next_data, of a running pull. *)
ReadChunk ==
    /\ Got("chunk")
    /\ \/ buf[1] = Id("DATA") /\ WaitsFor("len")
       \/ buf[1] = Id("DONE") /\ WaitsFor("end")
       \/ buf[1] = Id("FAIL") /\ WaitsFor("fail_len")
       \/ OutOfPlace({Id("DATA"), Id("DONE"), Id("FAIL")})

ReadLen ==
    /\ Got("len")
    /\ n' = Number(buf[1])
    /\ \/ n' <= DataMax /\ pc' = "body" /\ UNCHANGED res
       \/ n' > DataMax /\ pc' = "return" /\ res' = "protocol"
    /\ UNCHANGED acc

ReadBody ==
    /\ Got("body")
    /\ acc' = acc \o First(buf, n)
    /\ pc' = "chunk" /\ UNCHANGED <<n, res>>

(* read_status, of a push. *)
ReadStatus ==
    /\ Got("status")
    /\ \/ buf[1] = Id("OKAY") /\ WaitsFor("end")
       \/ buf[1] = Id("FAIL") /\ WaitsFor("fail_len")
       \/ OutOfPlace({Id("OKAY"), Id("FAIL")})

(* The word after DONE and OKAY, and the two parts of a FAIL. *)
ReadEndUnread ==
    /\ pc = "end" /\ todo = <<>> /\ Returns("ok")
    /\ UNCHANGED <<channelVars, buf, out, dev, call, todo, syncVars>>
ReadEnd == Got("end") /\ Returns("ok")

ReadFailLen ==
    /\ Got("fail_len")
    /\ n' = Number(buf[1]) /\ pc' = "fail_msg" /\ UNCHANGED <<acc, res>>

ReadFail == Got("fail_msg") /\ Returns("remote")

ReadFills ==
    /\ pc \in Reading /\ todo = <<>> /\ Len(buf) < Need
    /\ Fill
    /\ UNCHANGED syncVars

ReadFails ==
    /\ pc \in Reading /\ todo = <<>> /\ Len(buf) < Need
    /\ NoMore
    /\ Returns("closed")
    /\ UNCHANGED <<channelVars, buf, out, dev, call, todo, syncVars>>

-----------------------------------------------------------------------------
(* Sending a push *)

(* source.read may return less than the buffer holds. *)
PushData ==
    /\ pc = "source" /\ todo = <<>>
    /\ \E k \in 1 .. DataMax :
          /\ k <= Len(source)
          /\ todo' = <<Message("DATA", NoName, k, First(source, k))>>
          /\ source' = Rest(source, k)
    /\ UNCHANGED <<channelVars, buf, out, dev, call, pc, n, acc, res, feats, fs>>

PushDone ==
    /\ pc = "source" /\ todo = <<>> /\ source = <<>>
    /\ todo' = <<Word("DONE", Now)>>
    /\ WaitsFor("status")
    /\ UNCHANGED <<channelVars, buf, out, dev, call, syncVars>>

SourceEnds ==
    /\ pc = "source" /\ todo = <<>>
    /\ todo' = <<Word("DONE", Now)>>
    /\ WaitsFor("status")
    /\ UNCHANGED <<channelVars, buf, out, dev, call, syncVars>>
SourceFails ==
    /\ pc = "source" /\ todo = <<>>
    /\ Returns("source")
    /\ UNCHANGED <<channelVars, buf, out, dev, call, todo, syncVars>>

SyncClient ==
    \/ ReadStat \/ ReadEntry \/ ReadName \/ ReadChunk \/ ReadLen \/ ReadBody
    \/ ReadStatus \/ ReadEnd \/ ReadFailLen \/ ReadFail
    \/ ReadFills \/ ReadFails
    \/ PushData \/ PushDone

-----------------------------------------------------------------------------
(* The service *)

Service(st, path, mode, body) ==
    [st |-> st, path |-> path, mode |-> mode, body |-> body]
Idle == Service("idle", NoName, 0, <<>>)

Failed == <<Id("FAIL"), Num(1), FailText>>

(* Content in chunks of at most max. *)
DataOf(body, max) ==
    LET Chunk(i) == SubSeq(body, (i - 1) * max + 1,
                           IF i * max < Len(body) THEN i * max ELSE Len(body))
        Data(i) == <<Id("DATA"), Num(Len(Chunk(i)))>> \o Chunk(i)
    IN  FlattenSeq([i \in 1 .. (Len(body) + max - 1) \div max |-> Data(i)])

FileReply(p, max) ==
    IF Exists(fs[p]) THEN DataOf(fs[p].body, max) \o <<Id("DONE"), Num(0)>>
                     ELSE Failed

Present == SetToSeq({p \in Names : Exists(fs[p])})

(* A listing, or a refusal; both end in a whole header. *)
ListReplies(list) ==
    LET id == IF list = "LIS2" THEN "DNT2" ELSE "DENT"
        Dent(p) == StatLayout(id, fs[p]) \o <<Num(1), Piece(p)>>
        Final(word) == [StatLayout(id, Absent) \o <<Num(0)>> EXCEPT ![1] = Id(word)]
    IN  {FlattenSeq([i \in DOMAIN Present |-> Dent(Present[i])]) \o Final("DONE"),
         Final("FAIL")}

(* One message of the client.  A request that comes while another waits for *)
(* its rest is taken for that rest, and stops the service making sense.     *)
SyncServes ==
    /\ Arrive
    /\ LET q == Head(up) IN
       \/ /\ dev.st = "idle" /\ q.id \in {"STAT", "STA2"}
          /\ out' = out \o StatLayout(q.id, fs[q.path])
          /\ UNCHANGED <<dev, fs>>
       \/ /\ dev.st = "idle" /\ q.id \in {"LIST", "LIS2"}
          /\ \E reply \in ListReplies(q.id) : out' = out \o reply
          /\ UNCHANGED <<dev, fs>>
       \/ /\ dev.st = "idle" /\ q.id = "RECV"
          /\ \E max \in DevMaxes : out' = out \o FileReply(q.path, max)
          /\ UNCHANGED <<dev, fs>>
       \/ /\ dev.st = "idle" /\ q.id = "RCV2"
          /\ dev' = Service("recv", q.path, 0, <<>>)
          /\ UNCHANGED <<out, fs>>
       \/ /\ dev.st = "recv"
          /\ \E max \in DevMaxes : out' = out \o FileReply(dev.path, max)
          /\ dev' = IF q.path = NoName THEN Idle ELSE Service("stuck", NoName, 0, <<>>)
          /\ UNCHANGED fs
       \/ /\ dev.st = "idle" /\ q.id = "SEND"
          /\ dev' = Service("data", q.path, q.num, <<>>)
          /\ UNCHANGED <<out, fs>>
       \/ /\ dev.st = "idle" /\ q.id = "SND2"
          /\ dev' = Service("send", q.path, 0, <<>>)
          /\ UNCHANGED <<out, fs>>
       \/ /\ dev.st = "send"
          /\ dev' = IF q.path = NoName THEN Service("data", dev.path, q.num, <<>>)
                                       ELSE Service("stuck", NoName, 0, <<>>)
          /\ UNCHANGED <<out, fs>>
       \/ /\ dev.st = "data" /\ q.id = "DATA"
          /\ dev' = [dev EXCEPT !.body = @ \o q.body]
          /\ UNCHANGED <<out, fs>>
       \/ /\ dev.st = "data" /\ q.id = "DONE"
          /\ \/ /\ dev.path \notin ReadOnly
                /\ fs' = [fs EXCEPT ![dev.path] = File(dev.mode, q.num, dev.body)]
                /\ out' = out \o <<Id("OKAY"), Num(0)>>
             \/ /\ dev.path \in ReadOnly
                /\ out' = out \o Failed /\ UNCHANGED fs
          /\ dev' = Idle
       \/ /\ dev.st = "data" /\ q.id \notin {"DATA", "DONE"}
          /\ dev' = Service("stuck", NoName, 0, <<>>)
          /\ UNCHANGED <<out, fs>>
       \/ /\ dev.st = "idle" /\ q.id = "QUIT"
          /\ dev' = Service("done", NoName, 0, <<>>)
          /\ UNCHANGED <<out, fs>>
       \/ /\ dev.st = "stuck"
          /\ UNCHANGED <<out, dev, fs>>
    /\ UNCHANGED <<buf, call, todo, pc, n, acc, res, feats, source>>

=============================================================================
