-------------------------- MODULE HostServerProofs --------------------------
(***************************************************************************)
(* ToldWhatHappened and ListsAreTrue, for any devices, any room in a       *)
(* connection, and however the server cuts it off: what is on its way on   *)
(* the connection is what the client, where it is in the call, reads next. *)
(* And HostKeepsPromise: from the OKAY for a service on, the connection is *)
(* a channel as the module Channel specifies it.                           *)
(***************************************************************************)
EXTENDS HostServer, TLAPS

Lists == [Serials -> States]
Words == {Status(x) : x \in {"OKAY", "FAIL"}} \cup {Length}
         \cup {Text(x) : x \in Lists \cup {"failure"}} \cup {Datum(i) : i \in Nat}
ServiceRequest == <<"service", "none">>
Asks == {<<"devices", "none">>, <<"track", "none">>, ServiceRequest}
        \cup {<<"transport", s>> : s \in Serials} \cup {Datum(i) : i \in Nat}
NoCall == [op |-> "none", serial |-> "none"]

TypeOK ==
    /\ states \in Lists
    /\ hcall \in Calls \cup {NoCall}
    /\ answer \in Seq(Words \cup Lists)
    /\ chosen \subseteq Serials
    /\ requests \in Seq(Asks)
    /\ replies \in Seq(Words)
    /\ end \in {"open", "fin", "rst"}
    /\ announced \in Seq(Lists)
    /\ data \in [said : Nat, written : Nat, closed : BOOLEAN]

(* Before the call. *)
Idle ==
    /\ at = "idle" <=> hcall.op = "none"
    /\ at = "idle" => /\ server = "none" /\ requests = <<>> /\ replies = <<>>
                      /\ answer = <<>> /\ announced = <<>> /\ chosen = {}
                      /\ refused = "none" /\ end = "open" /\ data.written = 0
    /\ at \notin {"done", "channel"} => fate = "pending"

(* A query.  The words of its answer are numbered from the status, which is *)
(* 0: those with an even number are the texts of blocks.                    *)
Place == IF at = "status" THEN 0 ELSE IF at = "len" THEN 1 ELSE 2
ListOps == {"devices", "track", "only"}

ReadsAnnounced ==
    /\ Len(answer) <= Len(announced)
    /\ \A i \in 1 .. Len(answer) : answer[i] = announced[i]

OnTheWay ==
    /\ at = "status" /\ replies # <<>> => replies[1] = Status("OKAY")
    /\ \A i \in 1 .. Len(replies), m \in Nat \ {0} :
          Place + i - 1 = 2 * m =>
              /\ Len(answer) + m <= Len(announced)
              /\ replies[i] = Text(announced[Len(answer) + m])

AllSent ==
    /\ server = "host" => at = "status"
    /\ server = "list" => Place + Len(replies) = 2 /\ announced = <<>>
    /\ server = "over" => Place + Len(replies) = 3 /\ Len(announced) = 1 /\ answer = <<>>
    /\ server = "tracking" =>
          2 * (Len(announced) - Len(answer)) = Place + Len(replies) - 1

Query ==
    hcall.op \in ListOps =>
        /\ refused = "none" /\ data.written = 0
        /\ at \in {"status", "len", "text", "done"}
        /\ server \in {"host", "list", "tracking", "over"}
        /\ server = "tracking" => hcall.op = "track"
        /\ server \in {"list", "over"} => hcall.op # "track"
        /\ server = "host" => /\ replies = <<>> /\ answer = <<>> /\ announced = <<>>
                              /\ requests \in {<<>>, <<FirstRequest(hcall)>>}
        /\ server # "host" => requests = <<>>
        /\ ReadsAnnounced
        /\ at # "done" => OnTheWay /\ (end # "rst" => AllSent)

(* The open of a service. *)
Accepted ==
    /\ server = "service" /\ replies[1] = Status("OKAY")
    /\ \A i \in 2 .. Len(replies) : replies[i] = Datum(i - 1)
    /\ end # "rst" => Len(replies) = data.written + 1

InChannel ==
    /\ server = "service" /\ fate \in {"pending", "eof"}
    /\ \A i \in 1 .. Len(answer) : answer[i] = Datum(i)
    /\ \A i \in 1 .. Len(replies) : replies[i] = Datum(Len(answer) + i)
    /\ end # "rst" => Len(answer) + Len(replies) = data.written
    /\ fate = "eof" => end # "open" /\ replies = <<>>

FailureSent ==
    /\ Len(replies) <= 2
    /\ at \in {"remote_len", "refused_len"} => Len(replies) <= 1
    /\ at \in {"remote_text", "refused_text"} => replies = <<>>

Opening ==
    hcall.op = "open" =>
        /\ at \in {"status", "remote_len", "remote_text", "service", "refused_len",
                   "refused_text", "channel", "done"}
        /\ server \in {"host", "bound", "service", "fail", "over"}
        /\ server # "service" => data.written = 0
        /\ refused # "none" <=> server \in {"fail", "over"}
        /\ server = "host" => /\ at \in {"status", "done"} /\ replies = <<>>
                              /\ requests \in {<<>>, <<FirstRequest(hcall)>>}
        /\ server = "bound" => /\ at \in {"status", "service", "done"}
                               /\ requests \in {<<>>, <<ServiceRequest>>}
                               /\ at = "status" => requests = <<>>
        /\ at = "done" => \/ server = "over" \/ end # "open"
                          \/ fate = "protocol" /\ (server \in {"host", "bound"} => requests = <<>>)
        /\ at = "status" =>
              /\ replies = <<>> /\ end # "rst" => server = "host"
              /\ replies # <<>> =>
                    \/ server = "bound" /\ replies[1] = Status("OKAY") /\ Len(replies) = 1
                    \/ refused = "transport" /\ replies[1] = Status("FAIL")
        /\ at = "service" =>
              /\ replies = <<>> /\ end # "rst" => server = "bound"
              /\ replies # <<>> => \/ Accepted
                                   \/ refused = "service" /\ replies[1] = Status("FAIL")
        /\ at \in {"status", "service"} => answer = <<>>
        /\ at \in {"remote_len", "remote_text"} => refused = "transport"
        /\ at \in {"refused_len", "refused_text"} => refused = "service"
        /\ at = "channel" => InChannel
        /\ server = "fail" => FailureSent

Verdicts ==
    /\ fate = "refused" => refused = "service"
    /\ fate = "remote" => refused = "transport"
    /\ fate = "disconnected" => end = "fin"

Chosen ==
    chosen # {} => \E i \in DOMAIN announced : \A s \in Serials :
                       (announced[i][s] = "device") <=> (s \in chosen)

IInv == TypeOK /\ Idle /\ Query /\ Opening /\ Verdicts /\ Chosen
-----------------------------------------------------------------------------
(* Words and queues of them. *)
LEMMA Letters ==
    /\ \A x, y : Status(x) = Status(y) => x = y
    /\ \A x, y : Text(x) = Text(y) => x = y
    /\ \A x, y : Status(x) # Length /\ Status(x) # Text(y) /\ Status(x) # Datum(y)
    /\ \A x, y : Text(x) # Length /\ Text(x) # Datum(y)
    /\ \A x : Text(x)[2] = x
    /\ \A x \in {"OKAY", "FAIL"} : Status(x) \in Words
    /\ Length \in Words /\ Text("failure") \in Words
    /\ \A x \in Lists : Text(x) \in Words
    /\ \A i \in Nat : Datum(i) \in Words
  BY DEF Status, Length, Text, Datum, Words

LEMMA Taken ==
    ASSUME NEW S, NEW q \in Seq(S), q # <<>>
    PROVE /\ Len(q) \in Nat /\ Len(q) >= 1 /\ q[1] \in S /\ Head(q) = q[1]
          /\ Tail(q) \in Seq(S) /\ Len(Tail(q)) = Len(q) - 1
          /\ \A i \in 1 .. Len(q) - 1 : Tail(q)[i] = q[i + 1]
  OBVIOUS

LEMMA Put ==
    ASSUME NEW S, NEW q \in Seq(S), NEW r \in Seq(S)
    PROVE /\ q \o r \in Seq(S) /\ Len(q \o r) = Len(q) + Len(r)
          /\ \A i \in 1 .. Len(q) : (q \o r)[i] = q[i]
          /\ \A i \in 1 .. Len(r) : (q \o r)[Len(q) + i] = r[i]
  OBVIOUS

LEMMA PutOne ==
    ASSUME NEW S, NEW q \in Seq(S), NEW e \in S
    PROVE /\ Append(q, e) \in Seq(S) /\ Len(Append(q, e)) = Len(q) + 1
          /\ \A i \in 1 .. Len(q) : Append(q, e)[i] = q[i]
          /\ Append(q, e)[Len(q) + 1] = e
  OBVIOUS

LEMMA Parted ==
    ASSUME NEW S, NEW q \in Seq(S), NEW k \in 1 .. Len(q)
    PROVE /\ Len(q) \in Nat /\ k \in Nat /\ k <= Len(q)
          /\ SubSeq(q, 1, k) \in Seq(S) /\ Len(SubSeq(q, 1, k)) = k
          /\ \A i \in 1 .. k : SubSeq(q, 1, k)[i] = q[i]
          /\ SubSeq(q, k + 1, Len(q)) \in Seq(S)
          /\ Len(SubSeq(q, k + 1, Len(q))) = Len(q) - k
          /\ \A i \in 1 .. Len(q) - k : SubSeq(q, k + 1, Len(q))[i] = q[k + i]
  <1>1. Len(q) \in Nat /\ k \in Nat /\ 1 <= k /\ k <= Len(q) OBVIOUS
  <1>2. \A i \in 1 .. Len(q) : q[i] \in S OBVIOUS
  <1>3. \A i \in 1 .. k : i \in 1 .. Len(q) BY <1>1
  <1>4. /\ SubSeq(q, 1, k) = [i \in 1 .. k |-> q[i]]
        /\ Len(SubSeq(q, 1, k)) = k /\ SubSeq(q, 1, k) \in Seq(S)
    BY <1>1, <1>2, <1>3
  <1>5. \A i \in 1 .. Len(q) - k : k + i \in 1 .. Len(q) BY <1>1
  <1>6. Len(SubSeq(q, k + 1, Len(q))) = Len(q) - k BY <1>1
  <1>7. \A i \in 1 .. Len(q) - k : SubSeq(q, k + 1, Len(q))[i] = q[k + i]
    BY <1>1, <1>5
  <1>8. SubSeq(q, k + 1, Len(q)) \in Seq(S) BY <1>1, <1>2
  <1> QED BY <1>1, <1>4, <1>6, <1>7, <1>8

LEMMA CallTypes ==
    /\ \A c \in Calls : /\ c.op \in ListOps \/ c.op = "open"
                        /\ c.op # "none" /\ FirstRequest(c) \in Asks
                        /\ c.op \in ListOps => FirstRequest(c)[1] \in {"devices", "track"}
                        /\ c.op = "track" <=> FirstRequest(c)[1] = "track"
                        /\ c.op = "open" => FirstRequest(c)[1] = "transport"
    /\ NoCall.op = "none"
  BY DEF Calls, FirstRequest, Asks, NoCall, ListOps

LEMMA HostInitial == HostInit => IInv
  <1> SUFFICES ASSUME HostInit PROVE IInv  OBVIOUS
  <1>1. TypeOK BY DEF HostInit, TypeOK, Lists, NoCall
  <1>2. Idle /\ Verdicts /\ Chosen BY DEF HostInit, Idle, Verdicts, Chosen
  <1>3. Query /\ Opening BY DEF HostInit, Query, Opening, ListOps
  <1> QED BY <1>1, <1>2, <1>3 DEF IInv

-----------------------------------------------------------------------------
(* The steps of the client. *)
LEMMA CallStep ==
    ASSUME IInv, NEW c \in Calls, Call(c) PROVE IInv'
  <1> USE DEF IInv, Call
  <1>0. /\ c.op \in ListOps \/ (c.op = "open" /\ c.op \notin ListOps)
        /\ c.op # "none" /\ FirstRequest(c) \in Asks
    BY CallTypes DEF ListOps
  <1>1. TypeOK' BY <1>0 DEF TypeOK
  <1>2. Idle' BY <1>0 DEF Idle
  <1>3. Query'
    <2>1. Len(answer) = 0 /\ Len(announced) = 0 /\ Len(replies) = 0
      BY DEF Idle
    <2> QED BY <2>1, <1>0 DEF Idle, Query, ReadsAnnounced, OnTheWay, AllSent
  <1>4. Opening' BY <1>0 DEF Idle, Opening
  <1>5. Verdicts' /\ Chosen' BY DEF Verdicts, Chosen, Idle
  <1> QED BY <1>1, <1>2, <1>3, <1>4, <1>5

(* The word a step of the client reads. *)
LEMMA NextWord ==
    ASSUME TypeOK, Next1
    PROVE /\ Len(replies) \in Nat /\ Len(replies) >= 1 /\ replies # <<>>
          /\ Word1 = replies[1] /\ replies' \in Seq(Words)
          /\ Len(replies') \in Nat /\ Len(replies') = Len(replies) - 1
          /\ \A i \in 1 .. Len(replies') : replies'[i] = replies[i + 1]
  <1> QED BY Taken DEF TypeOK, Next1, Word1

LEMMA QueryStatusStep ==
    ASSUME IInv, hcall.op # "open", ReadStatusOf("status", "len") PROVE IInv'
  <1> USE DEF IInv, ReadStatusOf, Stays
  <1>0. hcall.op \in ListOps BY CallTypes DEF TypeOK, Idle
  <1>1. /\ Len(replies) >= 1 /\ replies # <<>> /\ Word1 = replies[1] /\ replies' \in Seq(Words)
        /\ Len(replies') \in Nat /\ Len(replies') = Len(replies) - 1
        /\ \A i \in 1 .. Len(replies') : replies'[i] = replies[i + 1]
    BY NextWord
  <1>2. Word1 = Status("OKAY") BY <1>0, <1>1 DEF Query, OnTheWay
  <1>3. at' = "len" /\ requests' = requests BY <1>2
  <1>4. TypeOK' BY <1>1, <1>3 DEF TypeOK
  <1>5. Idle' BY <1>3, <1>0 DEF Idle, ListOps
  <1>6. Query'
    <2>1. server # "host" BY <1>0, <1>1 DEF Query
    <2>2. OnTheWay'
      <3> SUFFICES ASSUME NEW i \in 1 .. Len(replies'), NEW m \in Nat \ {0}, 1 + i - 1 = 2 * m
                   PROVE /\ Len(answer) + m <= Len(announced)
                         /\ replies'[i] = Text(announced[Len(answer) + m])
        BY <1>3 DEF OnTheWay, Place
      <3>1. i + 1 \in 1 .. Len(replies) /\ 0 + (i + 1) - 1 = 2 * m BY <1>1 DEF TypeOK
      <3> QED BY <3>1, <1>0, <1>1 DEF Query, OnTheWay, Place
    <2>3. ASSUME end # "rst" PROVE AllSent'
      <3>1. AllSent BY <1>0, <2>3 DEF Query
      <3>2. Place = 0 /\ Place' = 1 BY <1>3 DEF Place
      <3>3. Len(announced) \in Nat /\ Len(answer) \in Nat BY DEF TypeOK
      <3> QED BY <1>1, <1>3, <2>1, <3>1, <3>2, <3>3 DEF AllSent
    <2> QED BY <1>0, <1>3, <2>1, <2>2, <2>3 DEF Query, ReadsAnnounced
  <1>7. Opening' /\ Verdicts' /\ Chosen' BY <1>0 DEF Opening, Verdicts, Chosen, ListOps
  <1> QED BY <1>4, <1>5, <1>6, <1>7

LEMMA OpenStatusStep ==
    ASSUME IInv, hcall.op = "open", ReadStatusOf("status", "service") PROVE IInv'
  <1> USE DEF IInv, ReadStatusOf, Stays
  <1>1. /\ Len(replies) >= 1 /\ replies # <<>> /\ Word1 = replies[1] /\ replies' \in Seq(Words)
        /\ Len(replies') \in Nat /\ Len(replies') = Len(replies) - 1
    BY NextWord
  <1>2. /\ ServiceRequest \in Asks /\ Append(<<>>, ServiceRequest) = <<ServiceRequest>>
        /\ Append(requests, ServiceRequest) \in Seq(Asks)
    BY PutOne DEF TypeOK, Asks
  <1>3. TypeOK' BY <1>1, <1>2 DEF TypeOK, ServiceRequest
  <1>4. Idle' BY DEF Idle
  <1>5. CASE server = "bound" /\ replies[1] = Status("OKAY") /\ Len(replies) = 1
    <2>1. at' = "service" /\ requests' = <<ServiceRequest>>
      BY <1>1, <1>2, <1>5 DEF Opening, ServiceRequest
    <2>2. replies' = <<>> BY <1>1, <1>5
    <2>3. Opening' BY <1>5, <2>1, <2>2 DEF Opening
    <2> QED BY <2>3, <1>3, <1>4 DEF Query, ListOps, Verdicts, Chosen
  <1>6. CASE refused = "transport" /\ replies[1] = Status("FAIL")
    <2>1. at' = "remote_len" BY <1>1, <1>6, Letters
    <2>2. Opening' BY <1>6, <2>1, <1>1 DEF Opening, FailureSent
    <2> QED BY <2>2, <1>3, <1>4 DEF Query, ListOps, Verdicts, Chosen
  <1> QED BY <1>1, <1>5, <1>6 DEF Opening

LEMMA ServiceStatusStep ==
    ASSUME IInv, ReadStatusOf("service", "channel") PROVE IInv'
  <1> USE DEF IInv, ReadStatusOf, Stays
  <1>0. hcall.op = "open" BY CallTypes DEF TypeOK, Idle, Query
  <1>1. /\ Len(replies) >= 1 /\ replies # <<>> /\ Word1 = replies[1] /\ replies' \in Seq(Words)
        /\ Len(replies') \in Nat /\ Len(replies') = Len(replies) - 1
        /\ \A i \in 1 .. Len(replies') : replies'[i] = replies[i + 1]
    BY NextWord
  <1>2. requests' = requests OBVIOUS
  <1>3. TypeOK' BY <1>1, <1>2 DEF TypeOK
  <1>4. Idle' BY <1>0 DEF Idle
  <1>5. CASE Accepted
    <2>1. at' = "channel" BY <1>1, <1>5 DEF Accepted
    <2>2. answer = <<>> /\ Len(answer) = 0 BY <1>0 DEF Opening
    <2>3. \A i \in 1 .. Len(replies') : replies'[i] = Datum(Len(answer) + i)
      <3> TAKE i \in 1 .. Len(replies')
      <3>1. i + 1 \in 2 .. Len(replies) /\ (i + 1) - 1 = Len(answer) + i BY <1>1, <2>2
      <3> QED BY <3>1, <1>1, <1>5 DEF Accepted
    <2>4. InChannel'
      BY <1>1, <1>5, <2>1, <2>2, <2>3 DEF InChannel, Accepted, Idle, TypeOK
    <2>5. Opening' BY <1>0, <1>5, <2>1, <2>4 DEF Opening, Accepted
    <2> QED BY <2>5, <1>3, <1>4, <1>0 DEF Query, ListOps, Verdicts, Chosen
  <1>6. CASE refused = "service" /\ replies[1] = Status("FAIL")
    <2>1. at' = "refused_len" BY <1>1, <1>6, Letters
    <2>2. Opening' BY <1>0, <1>6, <2>1, <1>1 DEF Opening, FailureSent
    <2> QED BY <2>2, <1>3, <1>4, <1>0 DEF Query, ListOps, Verdicts, Chosen
  <1> QED BY <1>0, <1>1, <1>5, <1>6 DEF Opening

LEMMA ReadLengthStep == ASSUME IInv, ReadLength PROVE IInv'
  <1> USE DEF IInv, ReadLength, Stays
  <1>1. /\ Len(replies) >= 1 /\ replies # <<>> /\ replies' \in Seq(Words)
        /\ Len(replies') \in Nat /\ Len(replies') = Len(replies) - 1
        /\ \A i \in 1 .. Len(replies') : replies'[i] = replies[i + 1]
    BY NextWord
  <1>3. TypeOK' BY <1>1 DEF TypeOK
  <1>4. Idle' BY DEF Idle
  <1>5. CASE at = "len"
    <2>0. hcall.op \in ListOps BY <1>5, CallTypes DEF TypeOK, Idle, Opening
    <2>1. at' = "text" /\ Place = 1 /\ Place' = 2 BY <1>5 DEF Place
    <2>2. OnTheWay'
      <3> SUFFICES ASSUME NEW i \in 1 .. Len(replies'), NEW m \in Nat \ {0}, 2 + i - 1 = 2 * m
                   PROVE /\ Len(answer) + m <= Len(announced)
                         /\ replies'[i] = Text(announced[Len(answer) + m])
        BY <2>1 DEF OnTheWay
      <3>1. i + 1 \in 1 .. Len(replies) /\ 1 + (i + 1) - 1 = 2 * m BY <1>1 DEF TypeOK
      <3>2. OnTheWay BY <2>0, <1>5 DEF Query
      <3> QED BY <3>1, <3>2, <2>1, <1>1 DEF OnTheWay
    <2>3. ASSUME end # "rst" PROVE AllSent'
      <3>1. AllSent BY <2>0, <2>3, <1>5 DEF Query
      <3>3. Len(announced) \in Nat /\ Len(answer) \in Nat BY DEF TypeOK
      <3> QED BY <1>1, <1>5, <2>1, <3>1, <3>3 DEF AllSent
    <2>4. Query' BY <2>0, <2>1, <2>2, <2>3, <1>1 DEF Query, ReadsAnnounced
    <2> QED BY <2>0, <2>4, <1>3, <1>4 DEF Opening, ListOps, Verdicts, Chosen
  <1>6. CASE at # "len"
    <2>0. hcall.op = "open" BY <1>6, CallTypes DEF TypeOK, Idle, Query
    <2>1. Opening' BY <2>0, <1>6, <1>1 DEF Opening, FailureSent
    <2> QED BY <2>0, <2>1, <1>3, <1>4 DEF Query, ListOps, Verdicts, Chosen
  <1> QED BY <1>5, <1>6

LEMMA ReadTextStep == ASSUME IInv, ReadText PROVE IInv'
  <1> USE DEF IInv, ReadText, Stays
  <1> DEFINE list == announced[Len(answer) + 1]
  <1>0. hcall.op \in ListOps BY CallTypes DEF TypeOK, Idle, Opening
  <1>1. /\ Len(replies) >= 1 /\ replies # <<>> /\ replies' \in Seq(Words) /\ Word1 = replies[1]
        /\ Len(replies') \in Nat /\ Len(replies') = Len(replies) - 1
        /\ \A i \in 1 .. Len(replies') : replies'[i] = replies[i + 1]
    BY NextWord
  <1>2. Len(answer) \in Nat /\ Len(announced) \in Nat BY DEF TypeOK
  <1>3. OnTheWay /\ Place = 2 BY <1>0 DEF Query, Place
  <1>4. Len(answer) + 1 <= Len(announced) /\ replies[1] = Text(list)
    <2>1. 1 \in 1 .. Len(replies) /\ 1 \in Nat \ {0} /\ 2 + 1 - 1 = 2 * 1 BY <1>1
    <2> QED BY <2>1, <1>3 DEF OnTheWay
  <1>5. list \in Lists /\ Len(answer) + 1 \in DOMAIN announced BY <1>2, <1>4 DEF TypeOK
  <1>6. Word1[2] = list /\ answer' = Append(answer, list) BY <1>1, <1>4, Letters
  <1> HIDE DEF list
  <1>7. /\ answer' \in Seq(Words \cup Lists) /\ Len(answer') = Len(answer) + 1
        /\ \A i \in 1 .. Len(answer) : answer'[i] = answer[i]
        /\ answer'[Len(answer) + 1] = list
    BY <1>5, <1>6, PutOne DEF TypeOK
  <1>8. chosen' \in {chosen, Online(list), {}} BY <1>6 DEF Chooses
  <1>9. Online(list) \subseteq Serials BY <1>5 DEF Online, Lists
  <1>10. TypeOK' BY <1>1, <1>7, <1>8, <1>9 DEF TypeOK
  <1>11. Idle' /\ Verdicts'
    <2>1. fate' \in {"pending", "no_device", "ok"} /\ at' \in {"len", "done"}
      BY DEF Chooses, Idle
    <2>2. at' = "len" => fate' = "pending" BY DEF Idle
    <2> QED BY <2>1, <2>2, <1>0 DEF Idle, Verdicts, ListOps
  <1>12. Query'
    <2>1. ReadsAnnounced'
      <3>1. ReadsAnnounced BY <1>0 DEF Query
      <3> QED BY <3>1, <1>2, <1>4, <1>7 DEF ReadsAnnounced, list
    <2>2. server # "host" BY <1>0, <1>1 DEF Query
    <2>3. ASSUME at' # "done" PROVE OnTheWay'
      <3>1. at' = "len" /\ Place' = 1 BY <2>3 DEF Place
      <3> SUFFICES ASSUME NEW i \in 1 .. Len(replies'), NEW m \in Nat \ {0}, 1 + i - 1 = 2 * m
                   PROVE /\ Len(answer') + m <= Len(announced)
                         /\ replies'[i] = Text(announced[Len(answer') + m])
        BY <3>1 DEF OnTheWay
      <3>2. /\ i + 1 \in 1 .. Len(replies) /\ m + 1 \in Nat \ {0}
            /\ 2 + (i + 1) - 1 = 2 * (m + 1)
            /\ Len(answer) + (m + 1) = Len(answer') + m
        BY <1>1, <1>2, <1>7 DEF TypeOK
      <3>3. /\ Len(answer) + (m + 1) <= Len(announced)
            /\ replies[i + 1] = Text(announced[Len(answer) + (m + 1)])
        BY <3>2, <1>3 DEF OnTheWay
      <3> QED BY <3>2, <3>3, <1>1
    <2>4. ASSUME at' # "done", end # "rst" PROVE AllSent'
      <3>1. AllSent BY <1>0, <2>4 DEF Query
      <3>2. at' = "len" /\ Place' = 1 BY <2>4 DEF Place
      <3>3. server = "tracking" BY <1>0, <2>2, <2>4 DEF Query
      <3> QED BY <1>1, <1>2, <1>3, <1>7, <3>1, <3>2, <3>3 DEF AllSent
    <2>5. at' \in {"len", "done"} /\ requests' = requests OBVIOUS
    <2> QED BY <1>0, <2>1, <2>2, <2>3, <2>4, <2>5 DEF Query
  <1>13. Chosen'
    <2>1. CASE chosen' = {} BY <2>1 DEF Chosen
    <2>2. CASE chosen' = chosen BY <2>2 DEF Chosen
    <2>3. CASE chosen' = Online(list)
      <3>1. \A s \in Serials : list[s] = "device" <=> s \in chosen'
        BY <2>3, <1>5 DEF Online, Lists
      <3> QED BY <3>1, <1>5 DEF Chosen, list
    <2> QED BY <2>1, <2>2, <2>3, <1>8
  <1>14. Opening' BY <1>0 DEF Opening, ListOps
  <1> QED BY <1>10, <1>11, <1>12, <1>13, <1>14

LEMMA ReadRefusalStep == ASSUME IInv, ReadRefusal PROVE IInv'
  <1> USE DEF IInv, ReadRefusal, Stays
  <1>0. hcall.op = "open" BY CallTypes DEF TypeOK, Idle, Query
  <1>1. replies' \in Seq(Words) /\ replies # <<>> /\ Len(replies') \in Nat BY NextWord
  <1>2. TypeOK' BY <1>1 DEF TypeOK
  <1>3. Idle' /\ Verdicts' /\ Chosen'
    BY <1>0 DEF Idle, Verdicts, Chosen, Verdict, Opening
  <1>4. server = "over" BY <1>0, <1>1 DEF Opening, FailureSent
  <1>5. Opening' BY <1>0, <1>4 DEF Opening
  <1> QED BY <1>0, <1>2, <1>3, <1>5 DEF Query, ListOps

LEMMA OpenChosenStep == ASSUME IInv, OpenChosen PROVE IInv'
  <1> USE DEF IInv, OpenChosen
  <1>0. hcall.op \in ListOps BY DEF ListOps
  <1>1. PICK s \in chosen : hcall' = [op |-> "open", serial |-> s] OBVIOUS
  <1>2. s \in Serials /\ hcall' \in Calls /\ hcall'.op = "open"
    BY <1>1 DEF TypeOK, Calls
  <1>3. FirstRequest(hcall') \in Asks BY <1>2, CallTypes
  <1>4. TypeOK' BY <1>2, <1>3 DEF TypeOK
  <1>5. Idle' /\ Verdicts' /\ Chosen' BY <1>2 DEF Idle, Verdicts, Chosen
  <1>6. refused = "none" /\ data.written = 0 BY <1>0 DEF Query
  <1>7. Query' /\ Opening' BY <1>2, <1>6 DEF Query, Opening, ListOps
  <1> QED BY <1>4, <1>5, <1>7

LEMMA ReadsEndStep == ASSUME IInv, ReadsEnd PROVE IInv'
  <1> USE DEF IInv, ReadsEnd, Stays
  <1>1. TypeOK' BY DEF TypeOK
  <1>2. Idle' /\ Chosen' BY DEF Idle, Chosen
  <1>3. Verdicts' BY DEF Verdicts, Drained, TypeOK
  <1>4. Query' BY DEF Query, ReadsAnnounced
  <1>5. Opening' BY DEF Opening, Drained, FailureSent
  <1> QED BY <1>1, <1>2, <1>3, <1>4, <1>5

LEMMA ReadOddWordStep == ASSUME IInv, ReadOddWord PROVE IInv'
  <1> USE DEF IInv, ReadOddWord, Stays
  <1>1. replies' \in Seq(Words) /\ replies # <<>> BY NextWord
  <1>2. TypeOK' BY <1>1 DEF TypeOK
  <1>3. Idle' /\ Verdicts' /\ Chosen' BY DEF Idle, Verdicts, Chosen
  <1>4. Query' BY <1>1 DEF Query, ReadsAnnounced
  <1>5. Opening'
    <2>1. server \notin {"host"} \/ hcall.op # "open" BY <1>1 DEF Opening
    <2>2. FailureSent => FailureSent'
      <3>1. Len(replies') = Len(replies) - 1 /\ Len(replies) \in Nat BY NextWord
      <3> QED BY <3>1 DEF FailureSent
    <2>3. hcall.op = "open" /\ server = "bound" => at # "service"
      BY <1>1 DEF Opening, Accepted
    <2> QED BY <2>1, <2>2, <2>3 DEF Opening
  <1> QED BY <1>2, <1>3, <1>4, <1>5

LEMMA HostRecvStep == ASSUME IInv, HostRecv PROVE IInv'
  <1> USE DEF IInv
  <1>u. at = "channel" /\ fate = "pending"
        /\ UNCHANGED <<at, fate, chosen, requests, states, changes, hcall, server, end,
                       announced, refused, data>>
    BY DEF HostRecv, Stays
  <1>0. hcall.op = "open" /\ hcall.op \notin ListOps
    BY <1>u, CallTypes DEF TypeOK, Idle, Query, ListOps
  <1>1. InChannel BY <1>u, <1>0 DEF Opening
  <1>2. PICK k \in 1 .. Len(replies) : /\ answer' = answer \o SubSeq(replies, 1, k)
                                       /\ replies' = SubSeq(replies, k + 1, Len(replies))
    BY DEF HostRecv
  <1> DEFINE some == SubSeq(replies, 1, k)
  <1>3. /\ some \in Seq(Words) /\ Len(some) = k /\ Len(replies) \in Nat
        /\ k \in Nat /\ k <= Len(replies)
        /\ \A i \in 1 .. k : some[i] = replies[i]
    BY Parted DEF TypeOK
  <1>4. /\ replies' \in Seq(Words) /\ Len(replies') = Len(replies) - k
        /\ \A i \in 1 .. Len(replies') : replies'[i] = replies[k + i]
    <2>1. replies \in Seq(Words) BY DEF TypeOK
    <2>2. /\ SubSeq(replies, k + 1, Len(replies)) \in Seq(Words)
          /\ Len(SubSeq(replies, k + 1, Len(replies))) = Len(replies) - k
          /\ \A i \in 1 .. Len(replies) - k :
                SubSeq(replies, k + 1, Len(replies))[i] = replies[k + i]
      BY <2>1, Parted
    <2> QED BY <1>2, <2>2
  <1>5. answer' = answer \o some BY <1>2
  <1> HIDE DEF some
  <1>6. /\ answer' \in Seq(Words \cup Lists) /\ Len(answer') = Len(answer) + k
        /\ \A i \in 1 .. Len(answer) : answer'[i] = answer[i]
        /\ \A i \in 1 .. k : answer'[Len(answer) + i] = some[i]
        /\ Len(answer) \in Nat
    <2>1. some \in Seq(Words \cup Lists) BY <1>3
    <2>2. answer \in Seq(Words \cup Lists) /\ Len(answer) \in Nat BY DEF TypeOK
    <2>3. /\ answer \o some \in Seq(Words \cup Lists)
          /\ Len(answer \o some) = Len(answer) + Len(some)
          /\ \A i \in 1 .. Len(answer) : (answer \o some)[i] = answer[i]
          /\ \A i \in 1 .. Len(some) : (answer \o some)[Len(answer) + i] = some[i]
      BY <2>1, <2>2, Put
    <2> QED BY <2>2, <2>3, <1>3, <1>5
  <1>7. TypeOK' BY <1>u, <1>4, <1>6 DEF TypeOK
  <1>8. InChannel'
    <2>1. \A i \in 1 .. Len(answer') : answer'[i] = Datum(i)
      <3> TAKE i \in 1 .. Len(answer')
      <3>1. CASE i \in 1 .. Len(answer) BY <3>1, <1>1, <1>6 DEF InChannel
      <3>2. CASE i \notin 1 .. Len(answer)
        <4>1. PICK j \in 1 .. k : Len(answer) + j = i
          <5>1. i - Len(answer) \in 1 .. k /\ Len(answer) + (i - Len(answer)) = i
            BY <3>2, <1>3, <1>6
          <5> QED BY <5>1
        <4>2. j \in 1 .. Len(replies) BY <1>3
        <4>3. answer'[i] = some[j] /\ some[j] = replies[j] BY <4>1, <1>3, <1>6
        <4> QED BY <4>1, <4>2, <4>3, <1>1 DEF InChannel
      <3> QED BY <3>1, <3>2
    <2>2. \A i \in 1 .. Len(replies') : replies'[i] = Datum(Len(answer') + i)
      <3> TAKE i \in 1 .. Len(replies')
      <3>1. k + i \in 1 .. Len(replies) /\ Len(answer) + (k + i) = Len(answer') + i
        BY <1>3, <1>4, <1>6
      <3> QED BY <3>1, <1>1, <1>4 DEF InChannel
    <2>3. Len(answer') + Len(replies') = Len(answer) + Len(replies)
      BY <1>3, <1>4, <1>6
    <2> QED BY <1>u, <1>1, <2>1, <2>2, <2>3, <1>2, <1>3 DEF InChannel
  <1>9. Idle' /\ Chosen' /\ Verdicts' /\ Query'
    BY <1>u, <1>0 DEF Idle, Chosen, Verdicts, Query
  <1>10. Opening' BY <1>u, <1>0, <1>1, <1>8 DEF Opening, InChannel
  <1> QED BY <1>7, <1>9, <1>10

LEMMA HostRecvEndStep == ASSUME IInv, HostRecvEnd PROVE IInv'
  <1> USE DEF IInv, HostRecvEnd, Stays
  <1>0. hcall.op = "open" /\ hcall.op \notin ListOps
    BY CallTypes DEF TypeOK, Idle, Query, ListOps
  <1>1. TypeOK' BY DEF TypeOK
  <1>2. Idle' /\ Chosen' /\ Verdicts' /\ Query'
    BY <1>0 DEF Idle, Chosen, Verdicts, Query
  <1>3. Opening' BY <1>0 DEF Opening, InChannel, Drained, FailureSent
  <1> QED BY <1>1, <1>2, <1>3

LEMMA HostUpStep == ASSUME IInv, HostSend \/ HostClose PROVE IInv'
  <1> USE DEF IInv, HostSend, HostClose
  <1>0. hcall.op = "open" /\ hcall.op \notin ListOps
    BY CallTypes DEF TypeOK, Idle, Query, ListOps
  <1>1. server = "service" BY <1>0 DEF Opening, InChannel
  <1>2. data.said + 1 \in Nat BY DEF TypeOK
  <1>3. HostSend => Append(requests, Datum(data.said + 1)) \in Seq(Asks)
    BY <1>2, PutOne DEF TypeOK, Asks
  <1>4. TypeOK' /\ data'.written = data.written BY <1>2, <1>3 DEF TypeOK
  <1>5. Idle' /\ Chosen' /\ Verdicts' /\ Query'
    BY <1>0 DEF Idle, Chosen, Verdicts, Query
  <1>6. Opening' BY <1>0, <1>1, <1>4 DEF Opening, InChannel
  <1> QED BY <1>4, <1>5, <1>6

-----------------------------------------------------------------------------
(* The steps of the server. *)
LEMMA Answers ==
    /\ \A s \in Seq(Words) : <<>> \o s = s
    /\ <<Status("OKAY")>> \in Seq(Words) /\ <<Status("OKAY"), Length>> \in Seq(Words)
    /\ <<Status("FAIL"), Length>> \in Seq(Words) /\ <<Text("failure")>> \in Seq(Words)
    /\ Tail(<<ServiceRequest>>) = <<>> /\ Head(<<ServiceRequest>>) = ServiceRequest
    /\ \A c \in Calls : /\ Tail(<<FirstRequest(c)>>) = <<>>
                        /\ Head(<<FirstRequest(c)>>) = FirstRequest(c)
  <1>1. /\ Status("OKAY") \in Words /\ Status("FAIL") \in Words
        /\ Length \in Words /\ Text("failure") \in Words
    BY Letters
  <1> QED BY <1>1

LEMMA QueryAnswersStep ==
    ASSUME IInv, hcall.op \in ListOps, ServerAnswers PROVE IInv'
  <1> USE DEF IInv
  <1>1. /\ requests # <<>> /\ server \in {"host", "bound"} /\ requests' = Tail(requests)
        /\ end = "open"
    BY DEF ServerAnswers, Replies
  <1>2. hcall \in Calls /\ FirstRequest(hcall)[1] \in {"devices", "track"}
        /\ (hcall.op = "track" <=> FirstRequest(hcall)[1] = "track")
    BY CallTypes DEF TypeOK, ListOps
  <1>3. /\ server = "host" /\ requests = <<FirstRequest(hcall)>> /\ replies = <<>>
        /\ answer = <<>> /\ announced = <<>> /\ requests' = <<>>
        /\ Head(requests)[1] = FirstRequest(hcall)[1]
    BY <1>1, <1>2, Answers DEF Query
  <1>4. /\ \/ /\ hcall.op # "track" /\ replies' = <<Status("OKAY"), Length>> /\ server' = "list"
           \/ /\ hcall.op = "track" /\ replies' = <<Status("OKAY")>> /\ server' = "tracking"
        /\ UNCHANGED <<states, changes, hcall, at, fate, answer, chosen, end, announced,
                       refused, data>>
    BY <1>2, <1>3, Answers DEF ServerAnswers, Replies, Rests
  <1>5. TypeOK'
    <2>1. replies' \in Seq(Words) BY <1>4, Answers
    <2>2. requests' \in Seq(Asks) BY <1>3
    <2> QED BY <2>1, <2>2, <1>4 DEF TypeOK
  <1>6. Idle' /\ Verdicts' /\ Chosen' BY <1>2, <1>4, CallTypes DEF Idle, Verdicts, Chosen
  <1>7. Opening' BY <1>4 DEF Opening, ListOps
  <1>8. /\ replies'[1] = Status("OKAY") /\ Len(announced') = 0 /\ Len(answer') = 0
        /\ Len(replies') = (IF hcall.op = "track" THEN 1 ELSE 2)
    BY <1>3, <1>4
  <1>9. ASSUME at # "done" PROVE OnTheWay' /\ AllSent'
    <2>1. at = "status" /\ Place' = 0 BY <1>1, <1>3, <1>4, <1>9 DEF Query, AllSent, Place
    <2>2. OnTheWay'
      <3>1. \A i \in 1 .. Len(replies'), m \in Nat \ {0} : 0 + i - 1 # 2 * m
        BY <1>8
      <3> QED BY <2>1, <3>1, <1>8 DEF OnTheWay
    <2>3. AllSent' BY <2>1, <1>3, <1>4, <1>8 DEF AllSent
    <2> QED BY <2>2, <2>3
  <1>10. Query' BY <1>3, <1>4, <1>9 DEF Query, ReadsAnnounced
  <1> QED BY <1>5, <1>6, <1>7, <1>10

LEMMA OpenAnswersStep ==
    ASSUME IInv, hcall.op = "open", ServerAnswers PROVE IInv'
  <1> USE DEF IInv
  <1>1. /\ requests # <<>> /\ server \in {"host", "bound"} /\ requests' = Tail(requests)
        /\ end = "open"
    BY DEF ServerAnswers, Replies
  <1>2. hcall \in Calls /\ FirstRequest(hcall)[1] = "transport"
    BY CallTypes DEF TypeOK, NoCall
  <1>3. /\ requests' = <<>> /\ refused = "none" /\ data.written = 0
        /\ \/ /\ server = "host" /\ at = "status" /\ Head(requests)[1] = "transport"
           \/ /\ server = "bound" /\ at = "service" /\ Head(requests)[1] = "service"
    <2>1. at # "done" /\ refused = "none" /\ data.written = 0 BY <1>1 DEF Opening
    <2>2. CASE server = "host"
      <3>1. at = "status" /\ requests = <<FirstRequest(hcall)>> BY <1>1, <2>1, <2>2 DEF Opening
      <3> QED BY <1>1, <1>2, <2>1, <2>2, <3>1, Answers
    <2>3. CASE server = "bound"
      <3>1. at = "service" /\ requests = <<ServiceRequest>> BY <1>1, <2>1, <2>3 DEF Opening
      <3> QED BY <1>1, <2>1, <2>3, <3>1, Answers DEF ServiceRequest
    <2> QED BY <1>1, <2>2, <2>3
  <1>4. replies = <<>>
    BY <1>1, <1>3 DEF Opening, Accepted
  <1>5. /\ \/ /\ replies' = <<Status("OKAY")>> /\ refused' = "none"
              /\ server' = IF at = "status" THEN "bound" ELSE "service"
           \/ /\ replies' = <<Status("FAIL"), Length>> /\ server' = "fail"
              /\ refused' = IF at = "status" THEN "transport" ELSE "service"
        /\ UNCHANGED <<states, changes, hcall, at, fate, answer, chosen, end, announced, data>>
    BY <1>3, <1>4, Answers DEF ServerAnswers, Replies, Rests
  <1>6. TypeOK'
    <2>1. replies' \in Seq(Words) BY <1>5, Answers
    <2>2. requests' \in Seq(Asks) BY <1>3
    <2> QED BY <2>1, <2>2, <1>5 DEF TypeOK
  <1>7. Idle' /\ Verdicts' /\ Chosen' BY <1>3, <1>5 DEF Idle, Verdicts, Chosen
  <1>8. Opening'
    <2>1. CASE replies' = <<Status("OKAY")>> /\ refused' = "none"
               /\ server' = IF at = "status" THEN "bound" ELSE "service"
      <3>1. Len(replies') = 1 /\ replies'[1] = Status("OKAY") BY <2>1
      <3>2. at = "service" => Accepted' BY <1>3, <1>5, <2>1, <3>1 DEF Accepted
      <3> QED BY <1>1, <1>3, <1>5, <2>1, <3>1, <3>2 DEF Opening
    <2>2. CASE replies' = <<Status("FAIL"), Length>> /\ server' = "fail"
               /\ refused' = IF at = "status" THEN "transport" ELSE "service"
      <3>1. Len(replies') = 2 /\ replies'[1] = Status("FAIL") BY <2>2
      <3> QED BY <1>1, <1>3, <1>5, <2>2, <3>1 DEF Opening, FailureSent
    <2> QED BY <1>5, <2>1, <2>2
  <1> QED BY <1>5, <1>6, <1>7, <1>8 DEF Query, ListOps

(* A word put behind those on their way. *)
LEMMA ServerFailsStep == ASSUME IInv, ServerFails PROVE IInv'
  <1> USE DEF IInv, ServerFails, Replies, Rests
  <1>0. hcall.op = "open" BY CallTypes DEF TypeOK, Idle, Query
  <1>1. /\ replies' \in Seq(Words) /\ replies' # <<>>
        /\ replies # <<>> => replies'[1] = replies[1]
    <2>1. replies \in Seq(Words) /\ <<Text("failure")>> \in Seq(Words)
      BY Answers DEF TypeOK
    <2>2. Len(replies) \in Nat /\ (replies # <<>> => 1 \in 1 .. Len(replies)) BY <2>1
    <2> QED BY <2>1, <2>2, Put
  <1>2. TypeOK' BY <1>1 DEF TypeOK
  <1>3. Idle' /\ Verdicts' /\ Chosen' BY <1>0 DEF Idle, Verdicts, Chosen
  <1>4. at \in {"status", "service"} => replies # <<>> BY <1>0 DEF Opening
  <1>5. Opening' BY <1>0, <1>1, <1>4 DEF Opening, Accepted, InChannel
  <1> QED BY <1>0, <1>2, <1>3, <1>5 DEF Query, ListOps

(* A list announced takes nothing away from what was said of earlier ones.  *)
LEMMA Announced ==
    ASSUME IInv, announced' = Append(announced, states),
           UNCHANGED <<hcall, answer, chosen>>
    PROVE /\ announced' \in Seq(Lists) /\ Len(announced) \in Nat
          /\ Len(announced') = Len(announced) + 1
          /\ \A i \in 1 .. Len(announced) : announced'[i] = announced[i]
          /\ announced'[Len(announced) + 1] = states
          /\ Chosen'
          /\ ReadsAnnounced => ReadsAnnounced'
  <1> USE DEF IInv
  <1>1. /\ announced' \in Seq(Lists) /\ Len(announced) \in Nat
        /\ Len(announced') = Len(announced) + 1
        /\ \A i \in 1 .. Len(announced) : announced'[i] = announced[i]
        /\ announced'[Len(announced) + 1] = states
    BY PutOne DEF TypeOK
  <1>2. DOMAIN announced = 1 .. Len(announced) /\ DOMAIN announced' = 1 .. Len(announced')
    BY <1>1 DEF TypeOK
  <1>3. DOMAIN announced \subseteq DOMAIN announced' BY <1>1, <1>2
  <1>4. Chosen' BY <1>1, <1>2, <1>3 DEF Chosen
  <1>5. ReadsAnnounced => ReadsAnnounced'
    <2>1. Len(answer) \in Nat BY DEF TypeOK
    <2> QED BY <2>1, <1>1 DEF ReadsAnnounced
  <1> QED BY <1>1, <1>4, <1>5

LEMMA ServerListsStep == ASSUME IInv, ServerLists PROVE IInv'
  <1> USE DEF IInv
  <1>u. /\ server = "list" /\ replies' = replies \o <<Text(states)>> /\ server' = "over"
        /\ announced' = Append(announced, states) /\ end = "open"
        /\ UNCHANGED <<states, changes, end, data, hcall, at, fate, answer, chosen,
                       requests, refused>>
    BY DEF ServerLists, Replies, Rests
  <1>0. hcall.op \in ListOps /\ hcall.op # "track"
    BY <1>u, CallTypes DEF TypeOK, Idle, Opening, Query
  <1>1. /\ announced' \in Seq(Lists) /\ Len(announced) \in Nat
        /\ Len(announced') = Len(announced) + 1
        /\ \A i \in 1 .. Len(announced) : announced'[i] = announced[i]
        /\ announced'[Len(announced) + 1] = states
        /\ Chosen' /\ (ReadsAnnounced => ReadsAnnounced')
    BY <1>u, Announced
  <1>2. replies \in Seq(Words) /\ Len(replies) \in Nat /\ Len(answer) \in Nat
    BY DEF TypeOK
  <1>3. <<Text(states)>> \in Seq(Words) /\ Len(<<Text(states)>>) = 1
    <2>1. Text(states) \in Words BY Letters DEF TypeOK
    <2> QED BY <2>1
  <1>4. /\ replies' \in Seq(Words) /\ Len(replies') = Len(replies) + 1
        /\ \A i \in 1 .. Len(replies) : replies'[i] = replies[i]
        /\ replies'[Len(replies) + 1] = Text(states)
    <2>1. 1 \in 1 .. Len(<<Text(states)>>) /\ <<Text(states)>>[1] = Text(states)
      BY <1>3
    <2> QED BY <1>u, <1>2, <1>3, <2>1, Put
  <1>5. TypeOK' BY <1>u, <1>1, <1>4 DEF TypeOK
  <1>6. Idle' /\ Verdicts' BY <1>u DEF Idle, Verdicts
  <1>7. ASSUME at # "done" PROVE OnTheWay' /\ AllSent'
    <2>1. OnTheWay /\ AllSent BY <1>u, <1>0, <1>7 DEF Query
    <2>2. Place + Len(replies) = 2 /\ announced = <<>> /\ Len(announced) = 0
      BY <1>u, <2>1 DEF AllSent
    <2>3. answer = <<>> /\ Len(answer) = 0
      <3>1. ReadsAnnounced BY <1>0 DEF Query
      <3>2. Len(answer) = 0 BY <3>1, <2>2, <1>2 DEF ReadsAnnounced
      <3> QED BY <3>2 DEF TypeOK
    <2>4. Place' = Place /\ Place \in {0, 1, 2} BY <1>u DEF Place
    <2>5. OnTheWay'
      <3>1. at = "status" => replies'[1] = Status("OKAY")
        <4>1. at = "status" => Place = 0 BY DEF Place
        <4>2. at = "status" => replies # <<>> /\ 1 \in 1 .. Len(replies)
          BY <4>1, <2>2, <1>2
        <4> QED BY <4>2, <2>1, <1>4 DEF OnTheWay
      <3>2. ASSUME NEW i \in 1 .. Len(replies'), NEW m \in Nat \ {0}, Place + i - 1 = 2 * m
            PROVE /\ Len(answer) + m <= Len(announced')
                  /\ replies'[i] = Text(announced'[Len(answer) + m])
        <4>1. i = Len(replies) + 1 /\ m = 1 BY <3>2, <2>2, <2>4, <1>2, <1>4
        <4> QED BY <4>1, <2>2, <2>3, <1>1, <1>4
      <3> QED BY <1>u, <3>1, <3>2, <2>4 DEF OnTheWay
    <2>6. AllSent' BY <1>u, <1>1, <1>2, <1>4, <2>2, <2>3, <2>4 DEF AllSent
    <2> QED BY <2>5, <2>6
  <1>8. Query' BY <1>u, <1>0, <1>1, <1>7 DEF Query
  <1> QED BY <1>u, <1>0, <1>1, <1>5, <1>6, <1>8 DEF Opening, ListOps

LEMMA ServerAnnouncesStep == ASSUME IInv, ServerAnnounces PROVE IInv'
  <1> USE DEF IInv
  <1>u. /\ server = "tracking" /\ replies' = replies \o Block(states) /\ server' = "tracking"
        /\ announced' = Append(announced, states) /\ end = "open"
        /\ UNCHANGED <<states, changes, end, data, hcall, at, fate, answer, chosen,
                       requests, refused>>
    BY DEF ServerAnnounces, Replies, Rests
  <1>0. hcall.op \in ListOps /\ hcall.op = "track"
    BY <1>u, CallTypes DEF TypeOK, Idle, Opening, Query
  <1>1. /\ announced' \in Seq(Lists) /\ Len(announced) \in Nat
        /\ Len(announced') = Len(announced) + 1
        /\ \A i \in 1 .. Len(announced) : announced'[i] = announced[i]
        /\ announced'[Len(announced) + 1] = states
        /\ Chosen' /\ (ReadsAnnounced => ReadsAnnounced')
    BY <1>u, Announced
  <1>2. replies \in Seq(Words) /\ Len(replies) \in Nat /\ Len(answer) \in Nat
    BY DEF TypeOK
  <1>3. /\ Block(states) \in Seq(Words) /\ Len(Block(states)) = 2
        /\ Block(states)[2] = Text(states)
    <2>1. Text(states) \in Words /\ Length \in Words BY Letters DEF TypeOK
    <2> QED BY <2>1 DEF Block
  <1>4. /\ replies' \in Seq(Words) /\ Len(replies') = Len(replies) + 2
        /\ \A i \in 1 .. Len(replies) : replies'[i] = replies[i]
        /\ replies'[Len(replies) + 2] = Text(states)
    <2>1. 2 \in 1 .. Len(Block(states)) BY <1>3
    <2>3. replies \in Seq(Words) /\ Block(states) \in Seq(Words) BY <1>2, <1>3
    <2>2. /\ replies \o Block(states) \in Seq(Words)
          /\ Len(replies \o Block(states)) = Len(replies) + Len(Block(states))
          /\ \A i \in 1 .. Len(replies) : (replies \o Block(states))[i] = replies[i]
          /\ \A i \in 1 .. Len(Block(states)) :
                (replies \o Block(states))[Len(replies) + i] = Block(states)[i]
      BY <2>3, Put
    <2> QED BY <1>u, <1>2, <1>3, <2>1, <2>2
  <1>5. TypeOK' BY <1>u, <1>1, <1>4 DEF TypeOK
  <1>6. Idle' /\ Verdicts' BY <1>u DEF Idle, Verdicts
  <1>7. ASSUME at # "done" PROVE OnTheWay' /\ AllSent'
    <2>1. OnTheWay /\ AllSent BY <1>u, <1>0, <1>7 DEF Query
    <2>2. 2 * (Len(announced) - Len(answer)) = Place + Len(replies) - 1
      BY <1>u, <2>1 DEF AllSent
    <2>4. Place' = Place /\ Place \in {0, 1, 2} BY <1>u DEF Place
    <2>5. OnTheWay'
      <3>1. at = "status" => replies'[1] = Status("OKAY")
        <4>1. at = "status" => Place = 0 BY DEF Place
        <4>2. at = "status" => Len(replies) # 0
          BY <4>1, <2>2, <1>1, <1>2
        <4>3. at = "status" => replies # <<>> /\ 1 \in 1 .. Len(replies)
          BY <4>2, <1>2
        <4> QED BY <4>3, <2>1, <1>4 DEF OnTheWay
      <3>2. ASSUME NEW i \in 1 .. Len(replies'), NEW m \in Nat \ {0}, Place + i - 1 = 2 * m
            PROVE /\ Len(answer) + m <= Len(announced')
                  /\ replies'[i] = Text(announced'[Len(answer) + m])
        <4>1. CASE i \in 1 .. Len(replies)
          <5>1. /\ Len(answer) + m <= Len(announced)
                /\ replies[i] = Text(announced[Len(answer) + m])
            BY <4>1, <3>2, <2>1 DEF OnTheWay
          <5>2. Len(answer) + m \in 1 .. Len(announced) BY <5>1, <1>1, <1>2
          <5> QED BY <4>1, <5>1, <5>2, <1>1, <1>4
        <4>2. CASE i \notin 1 .. Len(replies)
          <5>1. i = Len(replies) + 1 \/ i = Len(replies) + 2 BY <4>2, <1>2, <1>4
          <5>2. i # Len(replies) + 1
            <6>1. Len(announced) - Len(answer) \in Int BY <1>1, <1>2
            <6> QED BY <6>1, <3>2, <2>2, <2>4, <1>2
          <5>3. i = Len(replies) + 2 /\ Len(answer) + m = Len(announced) + 1
            BY <5>1, <5>2, <3>2, <2>2, <2>4, <1>1, <1>2
          <5> QED BY <5>3, <1>1, <1>4
        <4> QED BY <4>1, <4>2
      <3> QED BY <1>u, <3>1, <3>2, <2>4 DEF OnTheWay
    <2>6. AllSent' BY <1>u, <1>1, <1>2, <1>4, <2>2, <2>4 DEF AllSent
    <2> QED BY <2>5, <2>6
  <1>8. Query' BY <1>u, <1>0, <1>1, <1>7 DEF Query
  <1> QED BY <1>u, <1>0, <1>1, <1>5, <1>6, <1>8 DEF Opening, ListOps

LEMMA ServiceWritesStep == ASSUME IInv, ServiceWrites PROVE IInv'
  <1> USE DEF IInv
  <1>u. /\ server = "service" /\ end = "open"
        /\ replies' = Append(replies, Datum(data.written + 1))
        /\ data' = [data EXCEPT !.written = @ + 1]
        /\ UNCHANGED <<states, changes, requests, server, end, announced, refused,
                       hcall, at, fate, answer, chosen>>
    BY DEF ServiceWrites, Rests
  <1>0. hcall.op = "open" BY <1>u, CallTypes DEF TypeOK, Idle, Query
  <1>1. /\ data.written \in Nat /\ data'.written = data.written + 1
        /\ data' \in [said : Nat, written : Nat, closed : BOOLEAN]
        /\ Datum(data.written + 1) \in Words
    BY <1>u, Letters DEF TypeOK
  <1>2. /\ replies' \in Seq(Words) /\ Len(replies') = Len(replies) + 1
        /\ \A i \in 1 .. Len(replies) : replies'[i] = replies[i]
        /\ replies'[Len(replies) + 1] = Datum(data.written + 1)
        /\ Len(replies) \in Nat
    BY <1>u, <1>1, PutOne DEF TypeOK
  <1>3. TypeOK' BY <1>u, <1>1, <1>2 DEF TypeOK
  <1>4. Idle' /\ Verdicts' /\ Chosen' BY <1>u, <1>0 DEF Idle, Verdicts, Chosen
  <1>5. at \in {"service", "channel", "done"}
    BY <1>u, <1>0 DEF Opening
  <1>6. CASE at = "service"
    <2>1. replies # <<>> /\ Accepted BY <1>0, <1>6, <1>u DEF Opening
    <2>2. Len(replies) = data.written + 1 BY <1>u, <2>1 DEF Accepted
    <2>3. replies'[1] = Status("OKAY")
      <3>1. 1 \in 1 .. Len(replies) BY <1>1, <1>2, <2>2
      <3> QED BY <3>1, <1>2, <2>1 DEF Accepted
    <2>4. \A i \in 2 .. Len(replies') : replies'[i] = Datum(i - 1)
      <3> TAKE i \in 2 .. Len(replies')
      <3>1. CASE i \in 2 .. Len(replies) BY <3>1, <1>2, <2>1 DEF Accepted
      <3>2. CASE i = Len(replies) + 1 BY <3>2, <1>1, <1>2, <2>2
      <3> QED BY <3>1, <3>2, <1>2
    <2>5. Accepted' BY <1>u, <1>1, <1>2, <2>2, <2>3, <2>4 DEF Accepted
    <2>6. replies' # <<>> BY <1>2
    <2>7. Opening' BY <1>0, <1>6, <1>u, <2>5, <2>6 DEF Opening
    <2> QED BY <1>u, <1>0, <1>3, <1>4, <2>7 DEF Query, ListOps
  <1>7. CASE at = "channel"
    <2>1. InChannel /\ Len(answer) \in Nat BY <1>0, <1>7 DEF Opening, TypeOK
    <2>2. Len(answer) + Len(replies) = data.written BY <1>u, <2>1 DEF InChannel
    <2>3. \A i \in 1 .. Len(replies') : replies'[i] = Datum(Len(answer) + i)
      <3> TAKE i \in 1 .. Len(replies')
      <3>1. CASE i \in 1 .. Len(replies) BY <3>1, <1>2, <2>1 DEF InChannel
      <3>2. CASE i = Len(replies) + 1
        <4>1. Len(answer) + i = data.written + 1 BY <3>2, <1>2, <2>1, <2>2
        <4> QED BY <4>1, <3>2, <1>2
      <3> QED BY <3>1, <3>2, <1>2
    <2>4. Len(answer) + Len(replies') = data'.written BY <1>1, <1>2, <2>1, <2>2
    <2>5. InChannel' BY <1>u, <2>1, <2>3, <2>4 DEF InChannel
    <2>6. Opening' BY <1>0, <1>7, <1>u, <2>5 DEF Opening
    <2> QED BY <1>u, <1>0, <1>3, <1>4, <2>6 DEF Query, ListOps
  <1>8. CASE at = "done"
    <2>1. Opening' BY <1>0, <1>8, <1>u DEF Opening
    <2> QED BY <1>u, <1>0, <1>3, <1>4, <2>1 DEF Query, ListOps
  <1> QED BY <1>5, <1>6, <1>7, <1>8

(* The end of the connection, and what a reset takes with it. *)
LEMMA ConnectionStep ==
    ASSUME IInv, DevicesChange \/ ServiceReads \/ ServerEnds \/ ResetDrops PROVE IInv'
  <1> USE DEF IInv, Rests
  <1>1. CASE DevicesChange
    <2>1. states' \in Lists BY <1>1 DEF DevicesChange, TypeOK, Lists
    <2>2. TypeOK' BY <1>1, <2>1 DEF DevicesChange, TypeOK
    <2>3. /\ UNCHANGED <<requests, replies, server, end, announced, refused, data>>
          /\ UNCHANGED <<hcall, at, fate, answer, chosen>>
      BY <1>1 DEF DevicesChange
    <2>4. Idle' /\ Query' /\ Verdicts' /\ Chosen'
      BY <2>3 DEF Idle, Query, Verdicts, Chosen, ReadsAnnounced, OnTheWay, AllSent, Place
    <2>5. Opening' BY <2>3 DEF Opening, Accepted, InChannel, FailureSent
    <2> QED BY <2>2, <2>4, <2>5
  <1>2. CASE ServiceReads
    <2>1. TypeOK' BY <1>2, Taken DEF ServiceReads, TypeOK
    <2>2. Idle' /\ Verdicts' /\ Chosen' BY <1>2 DEF ServiceReads, Idle, Verdicts, Chosen
    <2>3. Query' BY <1>2 DEF ServiceReads, Query
    <2>4. Opening' BY <1>2 DEF ServiceReads, Opening, Accepted, InChannel
    <2> QED BY <2>1, <2>2, <2>3, <2>4
  <1>3. CASE ServerEnds
    <2>1. TypeOK' BY <1>3 DEF ServerEnds, TypeOK
    <2>2. Idle' /\ Chosen' BY <1>3 DEF ServerEnds, Idle, Chosen
    <2>3. Verdicts' BY <1>3 DEF ServerEnds, Verdicts
    <2>4. Query'
      BY <1>3 DEF ServerEnds, Query, ReadsAnnounced, OnTheWay, AllSent, Place
    <2>5. Opening' BY <1>3 DEF ServerEnds, Opening, Accepted, InChannel, FailureSent
    <2> QED BY <2>1, <2>2, <2>3, <2>4, <2>5
  <1>4. CASE ResetDrops
    <2>1. TypeOK' BY <1>4 DEF ResetDrops, TypeOK
    <2>2. Idle' /\ Verdicts' /\ Chosen' BY <1>4 DEF ResetDrops, Idle, Verdicts, Chosen
    <2>3. /\ end = "rst" /\ end' = "rst" /\ replies' = <<>> /\ requests' = <<>>
          /\ Len(replies') = 0
          /\ UNCHANGED <<server, announced, refused, data, hcall, at, fate, answer, chosen>>
      BY <1>4 DEF ResetDrops
    <2>4. Query' BY <2>3 DEF Query, ReadsAnnounced, OnTheWay
    <2>5. Opening' BY <2>3 DEF Opening, InChannel, FailureSent
    <2> QED BY <2>1, <2>2, <2>4, <2>5
  <1> QED BY <1>1, <1>2, <1>3, <1>4

-----------------------------------------------------------------------------
LEMMA HostStep == ASSUME IInv, HostNext PROVE IInv'
  <1>1. CASE HostClient
    <2>1. CASE \E c \in Calls : Call(c) BY <2>1, CallStep
    <2>2. CASE HostReadStatus
      BY <2>2, QueryStatusStep, OpenStatusStep, ServiceStatusStep DEF HostReadStatus
    <2>3. CASE HostSend \/ HostClose BY <2>3, HostUpStep
    <2> QED BY <1>1, <2>1, <2>2, <2>3, ReadLengthStep, ReadTextStep, ReadRefusalStep,
            ReadOddWordStep, OpenChosenStep, ReadsEndStep, HostRecvStep, HostRecvEndStep DEF HostClient
  <1>2. CASE AdbServer
    <2>1. CASE ServerAnswers
      <3>1. hcall.op \in ListOps \/ hcall.op = "open"
        <4>1. requests # <<>> BY <2>1 DEF ServerAnswers
        <4> QED BY <4>1, CallTypes DEF IInv, TypeOK, Idle
      <3> QED BY <2>1, <3>1, QueryAnswersStep, OpenAnswersStep
    <2> QED BY <1>2, <2>1, ServerFailsStep, ServerListsStep, ServerAnnouncesStep,
            ServiceWritesStep, ConnectionStep DEF AdbServer
  <1> QED BY <1>1, <1>2 DEF HostNext

LEMMA HostStutter == ASSUME IInv, UNCHANGED hostVars PROVE IInv'
  <1> USE DEF hostVars
  <1>1. TypeOK' /\ Idle' /\ Verdicts' /\ Chosen'
    BY DEF IInv, TypeOK, Idle, Verdicts, Chosen
  <1>2. Query' BY DEF IInv, Query, ReadsAnnounced, OnTheWay, AllSent, Place
  <1>3. Opening' BY DEF IInv, Opening, Accepted, InChannel, FailureSent
  <1> QED BY <1>1, <1>2, <1>3 DEF IInv

LEMMA HostInvariant == HostInit /\ [][HostNext]_hostVars => []IInv
  <1>1. IInv /\ [HostNext]_hostVars => IInv' BY HostStep, HostStutter
  <1> QED BY <1>1, HostInitial, PTL

(* What the caller of the adb server's client is told is what happened: an  *)
(* error names the request that was refused, and a channel hands out the    *)
(* service's own words, all of them when the connection ended in order.     *)
THEOREM ToldTheTruth == HostInit /\ [][HostNext]_hostVars => []ToldWhatHappened
  <1>1. IInv => ToldWhatHappened
    <2> SUFFICES ASSUME IInv PROVE ToldWhatHappened OBVIOUS
    <2>1. ASSUME at = "channel"
          PROVE /\ refused = "none"
                /\ answer = [i \in 1 .. Len(answer) |-> Datum(i)]
                /\ fate = "eof" /\ end = "fin" => Len(answer) = data.written
      <3>1. hcall.op = "open" BY <2>1, CallTypes DEF IInv, TypeOK, Idle, Query
      <3>2. InChannel /\ refused = "none" BY <2>1, <3>1 DEF IInv, Opening, InChannel
      <3>3. answer \in Seq(Words \cup Lists) BY DEF IInv, TypeOK
      <3>4. answer = [i \in 1 .. Len(answer) |-> Datum(i)] BY <3>2, <3>3 DEF InChannel
      <3>5. fate = "eof" /\ end = "fin" => Len(answer) = data.written
        BY <3>2, <3>3 DEF InChannel
      <3> QED BY <3>2, <3>4, <3>5
    <2> QED BY <2>1 DEF ToldWhatHappened, IInv, Verdicts
  <1> QED BY <1>1, HostInvariant, PTL

(* Lists of devices are those the server announced, in order, none left     *)
(* out; a tracker that has read everything knows the list as it is, and     *)
(* what only_device takes was the only device online in such a list.        *)
THEOREM ListsAreAnnounced == HostInit /\ [][HostNext]_hostVars => []ListsAreTrue
  <1>1. IInv => ListsAreTrue
    <2> SUFFICES ASSUME IInv PROVE ListsAreTrue OBVIOUS
    <2>0. /\ answer \in Seq(Words \cup Lists) /\ announced \in Seq(Lists)
          /\ Len(answer) \in Nat /\ Len(announced) \in Nat
      BY DEF IInv, TypeOK
    <2>1. ASSUME hcall.op \in ListOps PROVE IsPrefix(answer, announced)
      <3>1. /\ Len(answer) <= Len(announced)
            /\ \A i \in 1 .. Len(answer) : answer[i] = announced[i]
        BY <2>1 DEF IInv, Query, ReadsAnnounced
      <3>2. \A i \in 1 .. Len(answer) : i \in 1 .. Len(announced) BY <2>0, <3>1
      <3>3. SubSeq(announced, 1, Len(answer)) = [i \in 1 .. Len(answer) |-> announced[i]]
        BY <2>0, <3>1, <3>2
      <3>4. SubSeq(answer, 1, Len(answer)) = [i \in 1 .. Len(answer) |-> answer[i]]
        BY <2>0
      <3> QED BY <3>1, <3>3, <3>4 DEF IsPrefix
    <2>2. ASSUME at = "len", hcall.op = "track", replies = <<>>, end # "rst"
          PROVE answer = announced
      <3>1. ReadsAnnounced /\ AllSent /\ server = "tracking" /\ Place = 1
        BY <2>2 DEF IInv, Query, ListOps, Place, AllSent
      <3>2. Len(replies) = 0 BY <2>2
      <3>3. Len(announced) = Len(answer) BY <2>0, <3>1, <3>2 DEF AllSent
      <3> QED BY <2>0, <3>1, <3>3 DEF ReadsAnnounced
    <2> QED BY <2>1, <2>2 DEF ListsAreTrue, IInv, Chosen, ListOps
  <1> QED BY <1>1, HostInvariant, PTL

-----------------------------------------------------------------------------
(* The connection as a channel.  Only a service's words are data, and there *)
(* is none before it has started; of the server's own words, the OKAY for   *)
(* the service alone is ahead of data, and only until it is read.           *)
Past == at \in {"channel", "done"}

Tidy ==
    /\ server # "service" => /\ \A i \in 1 .. Len(requests) : ~IsDatum(requests[i])
                             /\ \A i \in 1 .. Len(replies) : ~IsDatum(replies[i])
    /\ server = "service" =>
          /\ \A i \in 1 .. Len(requests) : IsDatum(requests[i])
          /\ \A i \in 1 .. Len(replies) : IsDatum(replies[i]) <=> i > 1 \/ Past

LEMMA Kinds ==
    /\ \A i : IsDatum(Datum(i))
    /\ \A x : ~IsDatum(Status(x)) /\ ~IsDatum(Text(x))
    /\ ~IsDatum(Length) /\ ~IsDatum(ServiceRequest)
    /\ \A c : ~IsDatum(FirstRequest(c))
  BY DEF IsDatum, Datum, Status, Text, Length, ServiceRequest, FirstRequest

LEMMA NoData ==
    ASSUME NEW S, NEW q \in Seq(S), \A i \in 1 .. Len(q) : ~IsDatum(q[i])
    PROVE StreamOf(q) = <<>>
  BY DOMAIN q = 1 .. Len(q) DEF StreamOf

LEMMA NoneUnderWay == StreamOf(<<>>) = <<>>
  BY DEF StreamOf

(* Data from the k-th word on, and none before it. *)
LEMMA DataFrom ==
    ASSUME NEW S, NEW q \in Seq(S), NEW k \in 1 .. Len(q), IsDatum(q[k]),
           \A i \in 1 .. k - 1 : ~IsDatum(q[i])
    PROVE StreamOf(q) = SubSeq(q, k, Len(q))
  <1>1. DOMAIN q = 1 .. Len(q) /\ Len(q) \in Nat /\ k \in Nat OBVIOUS
  <1> DEFINE First(i) == IsDatum(q[i]) /\ \A j \in 1 .. i - 1 : ~IsDatum(q[j])
  <1>2. First(k) OBVIOUS
  <1>3. \A i \in 1 .. Len(q) : First(i) => i = k
    <2> SUFFICES ASSUME NEW i \in 1 .. Len(q), First(i) PROVE i = k OBVIOUS
    <2>1. CASE i < k
      <3>1. i \in 1 .. k - 1 BY <1>1, <2>1
      <3> QED BY <3>1
    <2>2. CASE k < i
      <3>1. k \in 1 .. i - 1 BY <1>1, <2>2
      <3> QED BY <3>1
    <2> QED BY <1>1, <2>1, <2>2
  <1>4. (CHOOSE i \in DOMAIN q : First(i)) = k
    <2> HIDE DEF First
    <2> QED BY <1>1, <1>2, <1>3
  <1> QED BY <1>1, <1>4 DEF StreamOf

LEMMA AllData ==
    ASSUME NEW S, NEW q \in Seq(S), \A i \in 1 .. Len(q) : IsDatum(q[i])
    PROVE StreamOf(q) = q
  <1>1. CASE q = <<>> BY <1>1, NoneUnderWay
  <1>2. CASE q # <<>>
    <2>1. 1 \in 1 .. Len(q) /\ IsDatum(q[1]) BY <1>2
    <2>2. \A i \in 1 .. 1 - 1 : ~IsDatum(q[i]) OBVIOUS
    <2>3. StreamOf(q) = SubSeq(q, 1, Len(q)) BY <2>1, <2>2, DataFrom
    <2> QED BY <2>3
  <1> QED BY <1>1, <1>2

LEMMA DataAfterOne ==
    ASSUME NEW S, NEW q \in Seq(S), q # <<>>, ~IsDatum(q[1]),
           \A i \in 2 .. Len(q) : IsDatum(q[i])
    PROVE StreamOf(q) = Tail(q)
  <1>1. PICK n \in Nat : n = Len(q) /\ n >= 1 BY Taken
  <1>2. PICK t \in Seq(S) : t = Tail(q) /\ Len(t) = n - 1 BY <1>1, Taken
  <1>3. CASE n = 1
    <2>1. \A i \in 1 .. Len(q) : ~IsDatum(q[i])
      <3> TAKE i \in 1 .. Len(q)
      <3>1. i = 1 BY <1>1, <1>3
      <3> QED BY <3>1
    <2>2. StreamOf(q) = <<>> BY <2>1, NoData
    <2>3. t = <<>> BY <1>2, <1>3
    <2> QED BY <1>2, <2>2, <2>3
  <1>4. CASE n # 1
    <2>1. 2 \in 1 .. Len(q) /\ IsDatum(q[2]) BY <1>1, <1>4
    <2>2. \A i \in 1 .. 2 - 1 : ~IsDatum(q[i]) OBVIOUS
    <2>3. StreamOf(q) = SubSeq(q, 2, Len(q)) BY <2>1, <2>2, DataFrom
    <2>4. SubSeq(q, 2, Len(q)) = Tail(q) BY <1>1
    <2> QED BY <2>3, <2>4
  <1> QED BY <1>3, <1>4

LEMMA Queues ==
    /\ (StreamOf(requests))' = StreamOf(requests')
    /\ (StreamOf(replies))' = StreamOf(replies')
  BY DEF StreamOf

(* Nothing of the channel changes while there is no service yet. *)
LEMMA Quiet ==
    ASSUME IInv, IInv', Tidy, Tidy', server # "service", server' # "service", data' = data
    PROVE UNCHANGED Promise!channelVars
  <1>1. StreamOf(requests) = <<>> /\ StreamOf(replies) = <<>>
    BY NoData DEF IInv, TypeOK, Tidy
  <1>2. StreamOf(requests') = <<>> /\ StreamOf(replies') = <<>>
    BY NoData DEF IInv, TypeOK, Tidy
  <1>3. at # "channel" /\ at' # "channel"
    BY CallTypes DEF IInv, TypeOK, Idle, Query, Opening, InChannel
  <1> QED BY <1>1, <1>2, <1>3, Queues DEF Promise!channelVars

(* Nor while only the client moves, and takes none of the data. *)
LEMMA Unmoved ==
    ASSUME UNCHANGED <<server, end, data>>,
           StreamOf(requests') = StreamOf(requests), StreamOf(replies') = StreamOf(replies),
           (at = "channel" /\ fate = "eof") <=> (at' = "channel" /\ fate' = "eof")
    PROVE UNCHANGED Promise!channelVars
  BY Queues DEF Promise!channelVars

LEMMA TidyInitial == HostInit => Tidy
  <1> SUFFICES ASSUME HostInit PROVE Tidy OBVIOUS
  <1>1. server # "service" /\ Len(requests) = 0 /\ Len(replies) = 0 BY DEF HostInit
  <1> QED BY <1>1 DEF Tidy, Past

(* Reading the words of the server, before the channel. *)
LEMMA ReadsTidily ==
    ASSUME IInv, IInv', Tidy, server # "service", UNCHANGED <<server, data>>,
           replies' = replies \/ (replies # <<>> /\ replies' = Tail(replies)),
           requests' = requests \/ requests' = Append(requests, ServiceRequest)
    PROVE Tidy' /\ UNCHANGED Promise!channelVars
  <1>1. /\ \A i \in 1 .. Len(requests) : ~IsDatum(requests[i])
        /\ \A i \in 1 .. Len(replies) : ~IsDatum(replies[i])
    BY DEF Tidy, Past
  <1>2. requests \in Seq(Asks) /\ replies \in Seq(Words) BY DEF IInv, TypeOK
  <1>3. \A i \in 1 .. Len(replies') : ~IsDatum(replies'[i])
    <2>1. CASE replies' = replies BY <1>1, <2>1
    <2>2. CASE replies # <<>> /\ replies' = Tail(replies)
      <3>1. /\ Len(replies) \in Nat /\ Len(replies') = Len(replies) - 1
            /\ \A i \in 1 .. Len(replies) - 1 : replies'[i] = replies[i + 1]
        BY <1>2, <2>2, Taken
      <3>2. \A i \in 1 .. Len(replies') : i + 1 \in 1 .. Len(replies) BY <3>1
      <3> QED BY <1>1, <3>1, <3>2
    <2> QED BY <2>1, <2>2
  <1>4. \A i \in 1 .. Len(requests') : ~IsDatum(requests'[i])
    <2>1. CASE requests' = requests BY <1>1, <2>1
    <2>2. CASE requests' = Append(requests, ServiceRequest)
      <3>1. ServiceRequest \in Asks BY DEF Asks
      <3>2. /\ Len(requests) \in Nat /\ Len(requests') = Len(requests) + 1
            /\ \A i \in 1 .. Len(requests) : requests'[i] = requests[i]
            /\ requests'[Len(requests) + 1] = ServiceRequest
        BY <1>2, <2>2, <3>1, PutOne
      <3>3. \A i \in 1 .. Len(requests') : i \in 1 .. Len(requests) \/ i = Len(requests) + 1
        BY <3>2
      <3> QED BY <1>1, <3>2, <3>3, Kinds
    <2> QED BY <2>1, <2>2
  <1>5. Tidy' BY <1>3, <1>4 DEF Tidy, Past
  <1> QED BY <1>5, Quiet

LEMMA AsksTidily ==
    ASSUME IInv, IInv', Tidy, (\E c \in Calls : Call(c)) \/ OpenChosen
    PROVE Tidy' /\ UNCHANGED Promise!channelVars
  <1>1. server # "service"
    BY CallTypes DEF IInv, TypeOK, Idle, Query, ListOps, Call, OpenChosen
  <1>2. /\ server' = "host" /\ UNCHANGED data /\ replies' \in {replies, <<>>}
        /\ \E c : requests' = <<FirstRequest(c)>>
    BY DEF Call, OpenChosen
  <1>3. \A i \in 1 .. Len(requests') : ~IsDatum(requests'[i]) BY <1>2, Kinds
  <1>4. \A i \in 1 .. Len(replies') : ~IsDatum(replies'[i])
    <2>1. CASE replies' = replies BY <1>1, <2>1 DEF Tidy, Past
    <2>2. CASE replies' = <<>> BY <2>2
    <2> QED BY <1>2, <2>1, <2>2
  <1>5. Tidy' BY <1>2, <1>3, <1>4 DEF Tidy, Past
  <1> QED BY <1>1, <1>2, <1>5, Quiet

(* The OKAY for the service is all that is read of its connection before    *)
(* the channel.                                                             *)
LEMMA StatusTidily ==
    ASSUME IInv, IInv', Tidy, HostReadStatus \/ ReadLength \/ ReadText \/ ReadRefusal
                               \/ ReadOddWord
    PROVE Tidy' /\ UNCHANGED Promise!channelVars
  <1>1. /\ UNCHANGED <<server, end, data>> /\ replies # <<>> /\ replies' = Tail(replies)
        /\ requests' = requests \/ requests' = Append(requests, ServiceRequest)
    BY DEF HostReadStatus, ReadStatusOf, ReadLength, ReadText, ReadRefusal, ReadOddWord,
           Next1, Stays, ServiceRequest
  <1>2. CASE server # "service" BY <1>1, <1>2, ReadsTidily
  <1>3. CASE server = "service"
    <2>1. hcall.op = "open"
      BY <1>3, CallTypes DEF IInv, TypeOK, Idle, Query
    <2>2. (ReadStatusOf("service", "channel") \/ ReadOddWord) /\ at = "service" /\ Accepted
      BY <1>1, <1>3, <2>1 DEF IInv, Opening, HostReadStatus, ReadStatusOf, ReadLength,
                              ReadText, ReadRefusal, ReadOddWord
    <2>3. /\ Word1 = Status("OKAY") /\ replies[1] = Word1
          /\ Past' /\ fate' \in {fate, "protocol"} /\ requests' = requests
      BY <1>1, <2>2, Taken DEF ReadStatusOf, ReadOddWord, Accepted, Word1, IInv, TypeOK, Past
    <2>4. replies \in Seq(Words) /\ replies' \in Seq(Words) BY DEF IInv, TypeOK
    <2>5. /\ Len(replies) \in Nat /\ Len(replies') = Len(replies) - 1
          /\ \A i \in 1 .. Len(replies) - 1 : replies'[i] = replies[i + 1]
      BY <1>1, <2>4, Taken
    <2>6. \A i \in 2 .. Len(replies) : IsDatum(replies[i])
      BY <1>3, <2>5 DEF Tidy, Past
    <2>7. \A i \in 1 .. Len(replies') : IsDatum(replies'[i])
      <3> TAKE i \in 1 .. Len(replies')
      <3>1. i + 1 \in 2 .. Len(replies) /\ replies'[i] = replies[i + 1] BY <2>5
      <3> QED BY <3>1, <2>6
    <2>8. Tidy' BY <1>1, <1>3, <2>3, <2>7 DEF Tidy, Past
    <2>9. StreamOf(replies') = StreamOf(replies)
      <3>1. ~IsDatum(replies[1]) BY <2>3, Kinds
      <3>2. StreamOf(replies) = Tail(replies) BY <1>1, <2>4, <2>6, <3>1, DataAfterOne
      <3>3. StreamOf(replies') = replies' BY <2>4, <2>7, AllData
      <3> QED BY <1>1, <3>2, <3>3
    <2>10. fate # "eof" BY <2>2 DEF IInv, Idle
    <2> QED BY <1>1, <2>2, <2>3, <2>8, <2>9, <2>10, Unmoved
  <1> QED BY <1>2, <1>3

LEMMA EndTidily ==
    ASSUME IInv, IInv', Tidy, ReadsEnd PROVE Tidy' /\ UNCHANGED Promise!channelVars
  <1>1. /\ UNCHANGED <<server, end, data, requests, replies>> /\ replies = <<>>
        /\ at # "channel" /\ at' # "channel"
    BY DEF ReadsEnd, Drained, Stays
  <1>2. Len(replies) = 0 /\ Len(replies') = 0 BY <1>1
  <1>3. Tidy' BY <1>1, <1>2 DEF Tidy, Past
  <1> QED BY <1>1, <1>3, Unmoved

-----------------------------------------------------------------------------
(* The steps of the channel. *)
LEMMA RecvPromised ==
    ASSUME IInv, Tidy, HostRecv PROVE Tidy' /\ Promise!RecvSome
  <1>1. /\ at = "channel" /\ fate = "pending" /\ hcall.op = "open"
        /\ UNCHANGED <<server, end, data, requests, at, fate>>
    BY CallTypes DEF HostRecv, Stays, IInv, TypeOK, Idle, Query
  <1>2. server = "service" /\ \A i \in 1 .. Len(replies) : IsDatum(replies[i])
    BY <1>1 DEF IInv, Opening, InChannel, Tidy, Past
  <1>3. replies \in Seq(Words) BY DEF IInv, TypeOK
  <1>4. PICK k \in 1 .. Len(replies) : replies' = SubSeq(replies, k + 1, Len(replies))
    BY DEF HostRecv
  <1>5. /\ Len(replies) \in Nat /\ k \in Nat /\ k <= Len(replies)
        /\ replies' \in Seq(Words) /\ Len(replies') = Len(replies) - k
        /\ \A i \in 1 .. Len(replies) - k : replies'[i] = replies[k + i]
    BY <1>3, <1>4, Parted
  <1>6. \A i \in 1 .. Len(replies') : IsDatum(replies'[i])
    <2> TAKE i \in 1 .. Len(replies')
    <2>1. k + i \in 1 .. Len(replies) /\ replies'[i] = replies[k + i] BY <1>5
    <2> QED BY <2>1, <1>2
  <1>7. Tidy' BY <1>1, <1>2, <1>6 DEF Tidy, Past
  <1>8. StreamOf(replies) = replies BY <1>2, <1>3, AllData
  <1>9. StreamOf(replies') = replies' BY <1>5, <1>6, AllData
  <1>10. StreamOf(replies') = SubSeq(StreamOf(replies), k + 1, Len(StreamOf(replies)))
    BY <1>4, <1>8, <1>9
  <1>11. k \in 1 .. Len(StreamOf(replies)) BY <1>8
  <1>12. StreamOf(requests') = StreamOf(requests) BY <1>1
  <1> QED BY <1>1, <1>7, <1>10, <1>11, <1>12, Queues DEF Promise!RecvSome

LEMMA EndPromised ==
    ASSUME IInv, Tidy, HostRecvEnd PROVE Tidy' /\ Promise!End
  <1>1. /\ at = "channel" /\ fate = "pending" /\ hcall.op = "open" /\ fate' = "eof"
        /\ replies = <<>> /\ end # "open"
        /\ UNCHANGED <<server, end, data, requests, replies, at>>
    BY CallTypes DEF HostRecvEnd, Drained, Stays, IInv, TypeOK, Idle, Query
  <1>2. server = "service" /\ end \in {"fin", "rst"}
    BY <1>1 DEF IInv, TypeOK, Opening, InChannel
  <1>3. Tidy' BY <1>1 DEF Tidy, Past
  <1>4. StreamOf(replies) = <<>> BY <1>1, NoneUnderWay
  <1>5. StreamOf(requests') = StreamOf(requests) /\ StreamOf(replies') = StreamOf(replies)
    BY <1>1
  <1> QED BY <1>1, <1>2, <1>3, <1>4, <1>5, Queues DEF Promise!End, Promise!Dead

LEMMA SendPromised ==
    ASSUME IInv, Tidy, HostSend PROVE Tidy' /\ Promise!SendSome
  <1> DEFINE x == Datum(data.said + 1)
  <1>1. /\ at = "channel" /\ hcall.op = "open" /\ ~data.closed /\ data'.closed = data.closed
        /\ Len(requests) < Socket /\ requests' = Append(requests, x)
        /\ UNCHANGED <<server, end, replies, at, fate>>
    BY CallTypes DEF HostSend, IInv, TypeOK, Idle, Query
  <1>2. server = "service" /\ \A i \in 1 .. Len(requests) : IsDatum(requests[i])
    BY <1>1 DEF IInv, Opening, InChannel, Tidy, Past
  <1>3. requests \in Seq(Asks) /\ x \in Asks /\ IsDatum(x)
    BY Kinds DEF IInv, TypeOK, Asks
  <1> HIDE DEF x
  <1>4. /\ requests' \in Seq(Asks) /\ Len(requests) \in Nat
        /\ Len(requests') = Len(requests) + 1
        /\ \A i \in 1 .. Len(requests) : requests'[i] = requests[i]
        /\ requests'[Len(requests) + 1] = x
    BY <1>1, <1>3, PutOne
  <1>5. \A i \in 1 .. Len(requests') : IsDatum(requests'[i])
    <2> TAKE i \in 1 .. Len(requests')
    <2>1. i \in 1 .. Len(requests) \/ i = Len(requests) + 1 BY <1>4
    <2> QED BY <2>1, <1>2, <1>3, <1>4
  <1>6. Tidy' BY <1>1, <1>2, <1>5 DEF Tidy, Past
  <1>7. StreamOf(requests) = requests BY <1>2, <1>3, AllData
  <1>8. StreamOf(requests') = requests' BY <1>4, <1>5, AllData
  <1>9. StreamOf(replies') = StreamOf(replies) BY <1>1
  <1>10. requests' # <<>> /\ requests'[Len(requests')] = x BY <1>4
  <1> QED BY <1>1, <1>2, <1>6, <1>7, <1>8, <1>9, <1>10, Queues
          DEF Promise!SendSome, Promise!Send

LEMMA ClosePromised ==
    ASSUME IInv, Tidy, HostClose PROVE Tidy' /\ Promise!Close
  <1>1. /\ ~data.closed /\ data'.closed = TRUE
        /\ UNCHANGED <<server, end, requests, replies, at, fate>>
    BY DEF HostClose, IInv, TypeOK
  <1>2. Tidy' BY <1>1 DEF Tidy, Past
  <1>3. StreamOf(requests') = StreamOf(requests) /\ StreamOf(replies') = StreamOf(replies)
    BY <1>1
  <1> QED BY <1>1, <1>2, <1>3, Queues DEF Promise!Close

-----------------------------------------------------------------------------
(* The steps of the server: its own words, which are no data, ... *)
LEMMA AnswersTidily ==
    ASSUME IInv, IInv', Tidy, server # "service", server' # "service", data' = data,
           NEW words \in Seq(Words), \A i \in 1 .. Len(words) : ~IsDatum(words[i]),
           replies' = replies \o words,
           requests' = requests \/ (requests # <<>> /\ requests' = Tail(requests))
    PROVE Tidy' /\ UNCHANGED Promise!channelVars
  <1>1. /\ \A i \in 1 .. Len(requests) : ~IsDatum(requests[i])
        /\ \A i \in 1 .. Len(replies) : ~IsDatum(replies[i])
    BY DEF Tidy, Past
  <1>2. requests \in Seq(Asks) /\ replies \in Seq(Words) BY DEF IInv, TypeOK
  <1>3. \A i \in 1 .. Len(replies') : ~IsDatum(replies'[i])
    <2>1. /\ Len(replies) \in Nat /\ Len(words) \in Nat
          /\ Len(replies') = Len(replies) + Len(words)
          /\ \A i \in 1 .. Len(replies) : replies'[i] = replies[i]
          /\ \A i \in 1 .. Len(words) : replies'[Len(replies) + i] = words[i]
      BY <1>2, Put
    <2> TAKE i \in 1 .. Len(replies')
    <2>2. CASE i \in 1 .. Len(replies) BY <1>1, <2>1, <2>2
    <2>3. CASE i \notin 1 .. Len(replies)
      <3> DEFINE j == i - Len(replies)
      <3>1. j \in 1 .. Len(words) /\ Len(replies) + j = i BY <2>1, <2>3
      <3>2. ~IsDatum(words[j]) BY <3>1
      <3> QED BY <2>1, <3>1, <3>2
    <2> QED BY <2>2, <2>3
  <1>4. \A i \in 1 .. Len(requests') : ~IsDatum(requests'[i])
    <2>1. CASE requests' = requests BY <1>1, <2>1
    <2>2. CASE requests # <<>> /\ requests' = Tail(requests)
      <3>1. /\ Len(requests) \in Nat /\ Len(requests') = Len(requests) - 1
            /\ \A i \in 1 .. Len(requests) - 1 : requests'[i] = requests[i + 1]
        BY <1>2, <2>2, Taken
      <3>2. \A i \in 1 .. Len(requests') : i + 1 \in 1 .. Len(requests) BY <3>1
      <3> QED BY <1>1, <3>1, <3>2
    <2> QED BY <2>1, <2>2
  <1>5. Tidy' BY <1>3, <1>4 DEF Tidy, Past
  <1> QED BY <1>5, Quiet

LEMMA ShortWords ==
    ASSUME NEW x \in Words, NEW y \in Words, ~IsDatum(x), ~IsDatum(y)
    PROVE /\ <<x>> \in Seq(Words) /\ \A i \in 1 .. Len(<<x>>) : ~IsDatum(<<x>>[i])
          /\ <<x, y>> \in Seq(Words) /\ \A i \in 1 .. Len(<<x, y>>) : ~IsDatum(<<x, y>>[i])
  OBVIOUS

LEMMA ServerWords ==
    ASSUME NEW list \in Lists,
           NEW w \in {<<Status("OKAY"), Length>>, <<Status("OKAY")>>,
                      <<Status("FAIL"), Length>>, <<Text("failure")>>,
                      <<Text(list)>>, Block(list)}
    PROVE w \in Seq(Words) /\ \A i \in 1 .. Len(w) : ~IsDatum(w[i])
  <1>1. /\ {Status("OKAY"), Status("FAIL"), Length, Text("failure"), Text(list)}
             \subseteq Words
        /\ \A x \in {Status("OKAY"), Status("FAIL"), Length, Text("failure"), Text(list)} :
              ~IsDatum(x)
    BY Letters, Kinds
  <1>2. w = <<Status("OKAY")>> \/ w = <<Text("failure")>> \/ w = <<Text(list)>>
        \/ w = <<Status("OKAY"), Length>> \/ w = <<Status("FAIL"), Length>>
        \/ w = <<Length, Text(list)>>
    BY DEF Block
  <1> QED BY <1>1, <1>2, ShortWords

LEMMA AnswerPromised ==
    ASSUME IInv, IInv', Tidy, ServerAnswers
    PROVE Tidy' /\ (Promise!Start \/ UNCHANGED Promise!channelVars)
  <1>1. /\ requests # <<>> /\ requests' = Tail(requests) /\ server # "service"
        /\ UNCHANGED <<end, data, at, fate>> /\ end = "open" /\ server \in {"host", "bound"}
    BY DEF ServerAnswers, Replies, Rests
  <1>2. PICK words \in {<<Status("OKAY"), Length>>, <<Status("OKAY")>>,
                        <<Status("FAIL"), Length>>} :
            /\ replies' = replies \o words
            /\ server' = "service" => /\ Head(requests)[1] = "service"
                                      /\ words = <<Status("OKAY")>>
    BY DEF ServerAnswers, Replies
  <1>3. words \in Seq(Words) /\ \A i \in 1 .. Len(words) : ~IsDatum(words[i])
    <2>1. states \in Lists BY DEF IInv, TypeOK
    <2> QED BY <1>2, <2>1, ServerWords
  <1>4. CASE server' # "service" BY <1>1, <1>2, <1>3, <1>4, AnswersTidily
  <1>5. CASE server' = "service"
    <2>1. Head(requests)[1] = "service" /\ replies' = replies \o <<Status("OKAY")>>
      BY <1>2, <1>5
    <2>2. hcall.op = "open"
      <3> SUFFICES ASSUME hcall.op # "open" PROVE FALSE OBVIOUS
      <3>1. hcall \in Calls /\ hcall.op \in ListOps
        BY <1>1, CallTypes DEF IInv, TypeOK, Idle
      <3>2. requests = <<FirstRequest(hcall)>> BY <1>1, <3>1 DEF IInv, Query
      <3>3. Head(requests)[1] \in {"devices", "track"} BY <3>1, <3>2, CallTypes
      <3> QED BY <2>1, <3>3
    <2>3. server = "bound"
      <3> SUFFICES ASSUME server = "host" PROVE FALSE BY <1>1
      <3>1. hcall \in Calls BY <2>2, CallTypes DEF IInv, TypeOK
      <3>2. requests = <<FirstRequest(hcall)>> BY <1>1, <2>2 DEF IInv, Opening
      <3>3. Head(requests)[1] = "transport" BY <2>2, <3>1, <3>2, CallTypes
      <3> QED BY <2>1, <3>3
    <2>4. requests = <<ServiceRequest>> /\ at = "service" /\ replies = <<>>
      BY <1>1, <2>2, <2>3 DEF IInv, Opening, Accepted
    <2>5. requests' = <<>> /\ replies' = <<Status("OKAY")>>
      BY <1>1, <2>1, <2>4
    <2>6. /\ \A i \in 1 .. Len(requests) : ~IsDatum(requests[i])
          /\ \A i \in 1 .. Len(replies') : i = 1 /\ ~IsDatum(replies'[i])
      BY <2>4, <2>5, Kinds
    <2>7. Tidy' BY <1>1, <1>5, <2>4, <2>5, <2>6 DEF Tidy, Past
    <2>8. StreamOf(requests) = <<>> /\ StreamOf(replies') = <<>>
      BY <2>6, NoData DEF IInv, TypeOK
    <2>9. StreamOf(requests') = <<>> /\ StreamOf(replies) = <<>>
      BY <2>4, <2>5, NoneUnderWay
    <2>10. Promise!Start
      BY <1>1, <1>5, <2>3, <2>4, <2>8, <2>9, Queues DEF Promise!Start
    <2> QED BY <2>7, <2>10
  <1> QED BY <1>4, <1>5

LEMMA TextsTidily ==
    ASSUME IInv, IInv', Tidy, ServerFails \/ ServerLists \/ ServerAnnounces
    PROVE Tidy' /\ UNCHANGED Promise!channelVars
  <1>1. /\ server # "service" /\ server' # "service"
        /\ UNCHANGED <<data, requests>>
    BY DEF ServerFails, ServerLists, ServerAnnounces, Replies
  <1>2. states \in Lists BY DEF IInv, TypeOK
  <1>3. \E words \in {<<Text("failure")>>, <<Text(states)>>, Block(states)} :
            replies' = replies \o words
    BY DEF ServerFails, ServerLists, ServerAnnounces, Replies
  <1>4. PICK words \in {<<Text("failure")>>, <<Text(states)>>, Block(states)} :
            replies' = replies \o words
    BY <1>3
  <1>5. words \in Seq(Words) /\ \A i \in 1 .. Len(words) : ~IsDatum(words[i])
    BY <1>2, <1>4, ServerWords
  <1> QED BY <1>1, <1>4, <1>5, AnswersTidily

(* ... and the service at the other end of the channel. *)
LEMMA WritePromised ==
    ASSUME IInv, IInv', Tidy, ServiceWrites PROVE Tidy' /\ Promise!WriteSome
  <1> DEFINE x == Datum(data.written + 1)
  <1>1. /\ server = "service" /\ end = "open" /\ Len(replies) < Socket
        /\ replies' = Append(replies, x) /\ data'.closed = data.closed
        /\ UNCHANGED <<server, end, requests, at, fate>>
    BY DEF ServiceWrites, Rests, IInv, TypeOK
  <1>2. replies \in Seq(Words) /\ x \in Words /\ IsDatum(x)
    BY Letters, Kinds DEF IInv, TypeOK
  <1> HIDE DEF x
  <1>3. /\ replies' \in Seq(Words) /\ Len(replies) \in Nat
        /\ Len(replies') = Len(replies) + 1
        /\ \A i \in 1 .. Len(replies) : replies'[i] = replies[i]
        /\ replies'[Len(replies) + 1] = x
    BY <1>1, <1>2, PutOne
  <1>4. /\ \A i \in 1 .. Len(requests) : IsDatum(requests[i])
        /\ \A i \in 1 .. Len(replies) : IsDatum(replies[i]) <=> i > 1 \/ Past
    BY <1>1 DEF Tidy, Past
  <1>5. replies = <<>> => Past
    BY <1>1, CallTypes DEF IInv, TypeOK, Idle, Query, Opening, Past
  <1>6. \A i \in 1 .. Len(replies') : IsDatum(replies'[i]) <=> i > 1 \/ Past
    <2> TAKE i \in 1 .. Len(replies')
    <2>1. CASE i \in 1 .. Len(replies) BY <1>3, <1>4, <2>1
    <2>2. CASE i = Len(replies) + 1
      <3>1. i > 1 \/ Past
        <4>1. CASE replies = <<>> BY <1>5, <4>1
        <4>2. CASE replies # <<>> BY <1>2, <1>3, <2>2, <4>2
        <4> QED BY <4>1, <4>2
      <3> QED BY <1>2, <1>3, <2>2, <3>1
    <2> QED BY <1>3, <2>1, <2>2
  <1>7. Tidy' BY <1>1, <1>4, <1>6 DEF Tidy, Past
  <1>8. StreamOf(replies') = Append(StreamOf(replies), x) /\ Len(StreamOf(replies)) <= Len(replies)
    <2>1. CASE Past
      <3>1. StreamOf(replies) = replies BY <1>2, <1>4, <2>1, AllData
      <3>2. \A i \in 1 .. Len(replies') : IsDatum(replies'[i]) BY <1>6, <2>1
      <3>3. StreamOf(replies') = replies' BY <1>3, <3>2, AllData
      <3> QED BY <1>1, <1>3, <3>1, <3>3
    <2>2. CASE ~Past
      <3>1. replies # <<>> /\ replies' # <<>> BY <1>3, <1>5, <2>2
      <3>2. 1 \in 1 .. Len(replies) /\ 1 \in 1 .. Len(replies') BY <1>2, <1>3, <3>1
      <3>3. ~IsDatum(replies[1]) /\ ~IsDatum(replies'[1])
        BY <1>4, <1>6, <2>2, <3>2
      <3>4. /\ \A i \in 2 .. Len(replies) : IsDatum(replies[i])
            /\ \A i \in 2 .. Len(replies') : IsDatum(replies'[i])
        BY <1>3, <1>4, <1>6
      <3>5. StreamOf(replies) = Tail(replies)
        BY <1>2, <3>1, <3>3, <3>4, DataAfterOne
      <3>6. StreamOf(replies') = Tail(replies')
        BY <1>3, <3>1, <3>3, <3>4, DataAfterOne
      <3>7. Tail(Append(replies, x)) = Append(Tail(replies), x)
        BY <1>2, <3>1
      <3>8. Len(Tail(replies)) = Len(replies) - 1 BY <1>2, <3>1, Taken
      <3> QED BY <1>1, <1>3, <3>5, <3>6, <3>7, <3>8
    <2> QED BY <2>1, <2>2
  <1>9. StreamOf(replies) \in Seq(Words)
    <2>1. CASE Past BY <1>2, <1>4, <2>1, AllData
    <2>2. CASE ~Past
      <3>1. replies # <<>> /\ 1 \in 1 .. Len(replies) BY <1>2, <1>5, <2>2
      <3>2. ~IsDatum(replies[1]) BY <1>4, <2>2, <3>1
      <3>3. \A i \in 2 .. Len(replies) : IsDatum(replies[i]) BY <1>3, <1>4
      <3> QED BY <1>2, <3>1, <3>2, <3>3, DataAfterOne, Taken
    <2> QED BY <2>1, <2>2
  <1>10. PICK d \in Seq(Words) : d = StreamOf(replies) BY <1>9
  <1>11. /\ Append(d, x) # <<>> /\ Append(d, x)[Len(Append(d, x))] = x
    BY <1>2, <1>10, PutOne
  <1>12. Len(d) < Socket
    BY <1>1, <1>3, <1>8, <1>10, HostAssumption DEF HostAssumption
  <1>13. StreamOf(requests') = StreamOf(requests) BY <1>1
  <1> QED BY <1>1, <1>7, <1>8, <1>10, <1>11, <1>12, <1>13, Queues
          DEF Promise!WriteSome, Promise!Write

LEMMA ReadPromised ==
    ASSUME IInv, IInv', Tidy, ServiceReads PROVE Tidy' /\ Promise!Arrive
  <1>1. /\ server = "service" /\ end = "open" /\ requests # <<>>
        /\ requests' = Tail(requests)
        /\ UNCHANGED <<server, end, replies, data, at, fate>>
    BY DEF ServiceReads, Rests
  <1>2. requests \in Seq(Asks) /\ requests' \in Seq(Asks) BY DEF IInv, TypeOK
  <1>3. \A i \in 1 .. Len(requests) : IsDatum(requests[i]) BY <1>1 DEF Tidy, Past
  <1>4. /\ Len(requests) \in Nat /\ Len(requests') = Len(requests) - 1
        /\ \A i \in 1 .. Len(requests) - 1 : requests'[i] = requests[i + 1]
    BY <1>1, <1>2, Taken
  <1>5. \A i \in 1 .. Len(requests') : IsDatum(requests'[i])
    <2> TAKE i \in 1 .. Len(requests')
    <2>1. i + 1 \in 1 .. Len(requests) /\ requests'[i] = requests[i + 1] BY <1>4
    <2> QED BY <2>1, <1>3
  <1>6. Tidy' BY <1>1, <1>5 DEF Tidy, Past
  <1>7. StreamOf(requests) = requests BY <1>2, <1>3, AllData
  <1>8. StreamOf(requests') = requests' BY <1>2, <1>5, AllData
  <1>9. StreamOf(replies') = StreamOf(replies) BY <1>1
  <1> QED BY <1>1, <1>6, <1>7, <1>8, <1>9, Queues DEF Promise!Arrive

LEMMA ConnectionPromised ==
    ASSUME IInv, IInv', Tidy, DevicesChange \/ ServerEnds \/ ResetDrops
    PROVE Tidy' /\ [Promise!ChannelNext]_(Promise!channelVars)
  <1>1. CASE DevicesChange
    <2>1. UNCHANGED <<requests, replies, server, end, data, at, fate>>
      BY <1>1 DEF DevicesChange, Rests
    <2>2. Tidy' BY <2>1 DEF Tidy, Past
    <2>3. StreamOf(requests') = StreamOf(requests) /\ StreamOf(replies') = StreamOf(replies)
      BY <2>1
    <2> QED BY <2>1, <2>2, <2>3, Unmoved
  <1>2. CASE ServerEnds
    <2>1. /\ UNCHANGED <<requests, replies, server, data, at, fate>>
          /\ end = "open" /\ end' \in {"fin", "rst"}
      BY <1>2 DEF ServerEnds, Rests
    <2>2. Tidy' BY <2>1 DEF Tidy, Past
    <2>3. StreamOf(requests') = StreamOf(requests) /\ StreamOf(replies') = StreamOf(replies)
      BY <2>1
    <2>4. CASE server # "service" BY <2>1, <2>2, <2>4, Quiet
    <2>5. CASE server = "service" /\ end' = "fin"
      <3>1. Promise!Finish BY <2>1, <2>3, <2>5, Queues DEF Promise!Finish
      <3> QED BY <2>2, <3>1 DEF Promise!ChannelNext
    <2>6. CASE server = "service" /\ end' = "rst"
      <3>1. Promise!Lose BY <2>1, <2>3, <2>6, Queues DEF Promise!Lose
      <3> QED BY <2>2, <3>1 DEF Promise!ChannelNext
    <2> QED BY <2>1, <2>4, <2>5, <2>6
  <1>3. CASE ResetDrops
    <2>1. /\ end = "rst" /\ replies' = <<>> /\ requests' = <<>>
          /\ UNCHANGED <<server, end, data, at, fate>>
      BY <1>3 DEF ResetDrops, Rests
    <2>2. Len(replies') = 0 /\ Len(requests') = 0 BY <2>1
    <2>3. Tidy' BY <2>2 DEF Tidy, Past
    <2>4. CASE server # "service" BY <2>1, <2>3, <2>4, Quiet
    <2>5. CASE server = "service"
      <3>1. StreamOf(replies') = <<>> /\ StreamOf(requests') = <<>> BY <2>1, NoneUnderWay
      <3>2. Promise!Drop
        BY <2>1, <2>5, <3>1, Queues DEF Promise!Drop, Promise!Dead
      <3> QED BY <2>3, <3>2 DEF Promise!ChannelNext
    <2> QED BY <2>4, <2>5
  <1> QED BY <1>1, <1>2, <1>3

LEMMA ChannelStep ==
    ASSUME IInv, IInv', Tidy, HostNext
    PROVE Tidy' /\ [Promise!ChannelNext]_(Promise!channelVars)
  <1>1. CASE HostClient
    BY <1>1, AsksTidily, StatusTidily, EndTidily, RecvPromised, EndPromised,
       SendPromised, ClosePromised
       DEF HostClient, Promise!ChannelNext
  <1>2. CASE AdbServer
    BY <1>2, AnswerPromised, TextsTidily, WritePromised, ReadPromised, ConnectionPromised
       DEF AdbServer, Promise!ChannelNext
  <1> QED BY <1>1, <1>2 DEF HostNext

(* The connection to an adb server, once bound to a service, is a channel   *)
(* as Channel promises it to the clients of the services: nothing of the    *)
(* server's own words gets into the data, none of the data is taken for an  *)
(* answer, and only a reset loses anything.                                 *)
THEOREM HostIsAChannel == HostInit /\ [][HostNext]_hostVars => HostKeepsPromise
  <1>1. HostInit => Promise!ChannelInit
    <2> SUFFICES ASSUME HostInit PROVE Promise!ChannelInit OBVIOUS
    <2>1. /\ requests = <<>> /\ replies = <<>> /\ server = "none" /\ at = "idle"
          /\ data.closed = FALSE
      BY DEF HostInit
    <2> QED BY <2>1, NoneUnderWay DEF Promise!ChannelInit
  <1>2. IInv /\ IInv' /\ Tidy /\ [HostNext]_hostVars
            => Tidy' /\ [Promise!ChannelNext]_(Promise!channelVars)
    <2>1. ASSUME Tidy, UNCHANGED hostVars
          PROVE Tidy' /\ UNCHANGED Promise!channelVars
      <3>1. UNCHANGED <<requests, replies, server, end, data, at, fate>>
        BY <2>1 DEF hostVars
      <3>2. StreamOf(requests') = StreamOf(requests) /\ StreamOf(replies') = StreamOf(replies)
        BY <3>1
      <3> QED BY <2>1, <3>1, <3>2, Unmoved DEF Tidy, Past
    <2> QED BY <2>1, ChannelStep
  <1> QED BY <1>1, <1>2, TidyInitial, HostInvariant, PTL DEF HostKeepsPromise

=============================================================================
