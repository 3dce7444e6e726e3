----------------------------- MODULE HostServer -----------------------------
(***************************************************************************)
(* The client of a Google adb server (src/src/host): every call has a TCP  *)
(* connection of its own.  A query reads one block, track_devices one      *)
(* block per change, and open binds the connection to a device and then to *)
(* a service, after which it is the channel.  The server is modelled from  *)
(* what the client expects of it.                                          *)
(***************************************************************************)
EXTENDS Naturals, Sequences, SequencesExt

CONSTANTS
    Serials,
    Socket,         \* room in a connection, in words
    MaxChanges,     \* bound: changes of the device list
    MaxData         \* bound: words a service writes, and is sent

ASSUME HostAssumption == Socket \in Nat \ {0} /\ {MaxChanges, MaxData} \subseteq Nat

VARIABLES
    states,         \* the server's device list
    changes,        \* how often it has changed
    hcall,          \* the call
    at,             \* where the client is in it
    fate,           \* what it has returned: pending, or a result
    answer,         \* the blocks it has read
    chosen,         \* serials only_device took, at most one
    requests,       \* to the server
    replies,        \* from the server
    server,         \* how far the server is with this connection
    end,            \* how it has ended: open, fin, rst
    announced,      \* history: blocks the server has sent
    refused,        \* history: the request it has refused
    data            \* words the service has written, and the host has sent

hostVars == <<states, changes, hcall, at, fate, answer, chosen, requests,
              replies, server, end, announced, refused, data>>

States == {"device", "offline", "absent"}

(* A status word, the length of a block, its text, or data of a service. *)
Status(x) == <<"status", x>>
Length == <<"len">>
Text(x) == <<"text", x>>
Datum(i) == <<"data", i>>
IsDatum(w) == w[1] = "data"

Calls == [op : {"devices", "track", "only"}, serial : {"none"}]
         \cup [op : {"open"}, serial : Serials]

FirstRequest(c) == CASE c.op = "open" -> <<"transport", c.serial>>
                     [] c.op = "track" -> <<"track", "none">>
                     [] OTHER -> <<"devices", "none">>

-----------------------------------------------------------------------------
(* The client *)

Call(c) ==
    /\ at = "idle" /\ hcall' = c
    /\ requests' = <<FirstRequest(c)>> /\ server' = "host" /\ at' = "status"
    /\ UNCHANGED <<states, changes, fate, answer, chosen, replies, end,
                   announced, refused, data>>

(* only_device: the serial of the one device online, and a new connection   *)
(* to open a service on it.                                                 *)
Listed(list) == {s \in DOMAIN list : list[s] # "absent"}
Online(list) == {s \in DOMAIN list : list[s] = "device"}

Chooses(list) ==
    IF \E s \in Online(list) : Online(list) = {s}
    THEN chosen' = Online(list) /\ fate' = "pending"
    ELSE chosen' = {} /\ fate' = "no_device"

(* Wait for the next word of the connection, or for its end. *)
HungUp == end # "open"
Drained == end # "open" /\ replies = <<>>
Next1 == replies # <<>> /\ replies' = Tail(replies)
Word1 == Head(replies)

Stays == UNCHANGED <<states, changes, hcall, server, end, announced, refused, data>>

(* read_status, after the first request or after that for the service.      *)
ReadStatusOf(where, ok) ==
    /\ at = where /\ Next1
    /\ at' = IF Word1 = Status("OKAY") THEN ok
             ELSE IF where = "service" THEN "refused_len" ELSE "remote_len"
    /\ requests' = IF Word1 = Status("OKAY") /\ ok = "service"
                   THEN Append(requests, <<"service", "none">>) ELSE requests
    /\ UNCHANGED <<fate, answer, chosen>> /\ Stays

HostReadStatus ==
    \/ hcall.op = "open" /\ ReadStatusOf("status", "service")
    \/ hcall.op # "open" /\ ReadStatusOf("status", "len")
    \/ ReadStatusOf("service", "channel")

(* read_block: of an answer, or of the message of a FAIL. *)
ReadLength ==
    /\ at \in {"len", "remote_len", "refused_len"} /\ Next1
    /\ at' = CASE at = "len" -> "text" [] at = "remote_len" -> "remote_text"
               [] at = "refused_len" -> "refused_text"
    /\ UNCHANGED <<fate, answer, chosen, requests>> /\ Stays

ReadText ==
    /\ at = "text" /\ Next1
    /\ answer' = Append(answer, Word1[2])
    /\ IF hcall.op = "track" THEN at' = "len" /\ UNCHANGED <<fate, chosen>>
       ELSE /\ at' = "done"
            /\ IF hcall.op = "only" THEN Chooses(Word1[2])
               ELSE fate' = "ok" /\ UNCHANGED chosen
    /\ UNCHANGED requests /\ Stays

VerdictAlike == "refused"
Verdict == IF at = "remote_text" THEN "remote" ELSE "refused"

ReadRefusal ==
    /\ at \in {"remote_text", "refused_text"} /\ Next1
    /\ at' = "done"
    /\ fate' = Verdict
    /\ UNCHANGED <<answer, chosen, requests>> /\ Stays

(* A status that is neither OKAY nor FAIL, or a length that is not hex: what *)
(* the server meant as the word its action names may come as any other.      *)
ReadOddWord ==
    /\ at \in {"status", "service", "len", "remote_len", "refused_len"} /\ Next1
    /\ at' = "done" /\ fate' = "protocol"
    /\ UNCHANGED <<answer, chosen, requests>> /\ Stays

(* The device only_device has chosen is opened, on a connection of its own. *)
OpenChosen ==
    /\ at = "done" /\ hcall.op = "only" /\ fate = "pending"
    /\ \E s \in chosen : hcall' = [op |-> "open", serial |-> s]
    /\ requests' = <<FirstRequest(hcall')>> /\ server' = "host" /\ at' = "status"
    /\ replies' = <<>> /\ end' = "open" /\ answer' = <<>>
    /\ UNCHANGED <<states, changes, fate, chosen, announced, refused, data>>

(* The end of the connection before the call has what it waits for; a       *)
(* tracker just ends, at whatever point of a block it is.                   *)
ReadsEnd ==
    /\ at \notin {"idle", "done", "channel"} /\ Drained
    /\ at' = "done"
    /\ fate' = IF end = "rst" THEN "io"
               ELSE IF hcall.op = "track" /\ at \in {"len", "text"} THEN "eof"
               ELSE "disconnected"
    /\ UNCHANGED <<answer, chosen, requests, replies>> /\ Stays

(* HostChannel::recv: as much as is there; a reset is an end like another. *)
HostRecv ==
    /\ at = "channel" /\ fate = "pending"
    /\ \E k \in 1 .. Len(replies) :
          /\ answer' = answer \o SubSeq(replies, 1, k)
          /\ replies' = SubSeq(replies, k + 1, Len(replies))
    /\ UNCHANGED <<at, fate, chosen, requests>> /\ Stays

HostRecvEnd ==
    /\ at = "channel" /\ fate = "pending" /\ Drained
    /\ fate' = "eof"
    /\ UNCHANGED <<at, answer, chosen, requests, replies>> /\ Stays

HostSend ==
    /\ at = "channel" /\ ~data.closed
    /\ data.said < MaxData /\ Len(requests) < Socket
    /\ requests' = Append(requests, Datum(data.said + 1))
    /\ data' = [data EXCEPT !.said = @ + 1]
    /\ UNCHANGED <<states, changes, hcall, at, fate, answer, chosen, replies,
                   server, end, announced, refused>>

(* close shuts down one direction: what the service still writes is read.   *)
HostClose ==
    /\ at = "channel" /\ ~data.closed
    /\ data' = [data EXCEPT !.closed = TRUE]
    /\ UNCHANGED <<states, changes, hcall, at, fate, answer, chosen, requests,
                   replies, server, end, announced, refused>>

-----------------------------------------------------------------------------
(* The server *)

Rests == UNCHANGED <<hcall, at, fate, answer, chosen>>

Block(list) == <<Length, Text(list)>>

DevicesChange ==
    /\ changes < MaxChanges
    /\ \E s \in Serials, x \in States :
          /\ states[s] # x
          /\ states' = [states EXCEPT ![s] = x]
    /\ changes' = changes + 1
    /\ UNCHANGED <<requests, replies, server, end, announced, refused, data>> /\ Rests

(* Words are sent one at a time, so that the connection may end between any *)
(* two of them.                                                             *)
Replies(words, next) ==
    /\ end = "open" /\ Len(replies) + Len(words) <= Socket
    /\ replies' = replies \o words /\ server' = next
    /\ UNCHANGED <<states, changes, end, data>> /\ Rests

ServerAnswers ==
    /\ requests # <<>> /\ server \in {"host", "bound"}
    /\ requests' = Tail(requests)
    /\ LET kindOf == Head(requests)[1] IN
       \/ /\ kindOf = "devices" /\ Replies(<<Status("OKAY"), Length>>, "list")
          /\ UNCHANGED refused
       \/ /\ kindOf = "track" /\ Replies(<<Status("OKAY")>>, "tracking")
          /\ UNCHANGED refused
       \/ /\ kindOf = "transport"
          /\ IF states[Head(requests)[2]] = "device"
             THEN Replies(<<Status("OKAY")>>, "bound") /\ UNCHANGED refused
             ELSE Replies(<<Status("FAIL"), Length>>, "fail") /\ refused' = "transport"
       \/ /\ kindOf = "service"
          /\ \/ Replies(<<Status("OKAY")>>, "service") /\ UNCHANGED refused
             \/ Replies(<<Status("FAIL"), Length>>, "fail") /\ refused' = "service"
    /\ UNCHANGED announced

ServerFails == /\ server = "fail" /\ Replies(<<Text("failure")>>, "over")
               /\ UNCHANGED <<requests, announced, refused>>

ServerLists == /\ server = "list" /\ Replies(<<Text(states)>>, "over")
               /\ announced' = Append(announced, states)
               /\ UNCHANGED <<requests, refused>>

ServerAnnounces ==
    /\ server = "tracking"
    /\ ~IsSuffix(<<states>>, announced)
    /\ Replies(Block(states), "tracking")
    /\ announced' = Append(announced, states)
    /\ UNCHANGED <<requests, refused>>

ServiceWrites ==
    /\ server = "service" /\ end = "open" /\ data.written < MaxData
    /\ Len(replies) < Socket
    /\ replies' = Append(replies, Datum(data.written + 1))
    /\ data' = [data EXCEPT !.written = @ + 1]
    /\ UNCHANGED <<states, changes, requests, server, end, announced, refused>> /\ Rests

ServiceReads ==
    /\ server = "service" /\ end = "open" /\ requests # <<>>
    /\ requests' = Tail(requests)
    /\ UNCHANGED <<states, changes, replies, server, end, announced, refused, data>>
    /\ Rests

(* The server ends the connection, in order or not; a reset may take what   *)
(* has not been read with it.                                               *)
ServerEnds ==
    /\ server # "none" /\ end = "open"
    /\ end' \in {"fin", "rst"}
    /\ UNCHANGED <<states, changes, requests, replies, server, announced,
                   refused, data>> /\ Rests

ResetDrops ==
    /\ end = "rst" /\ replies' = <<>> /\ requests' = <<>>
    /\ UNCHANGED <<states, changes, server, end, announced, refused, data>> /\ Rests

-----------------------------------------------------------------------------
HostInit ==
    /\ states \in [Serials -> States] /\ changes = 0
    /\ hcall = [op |-> "none", serial |-> "none"] /\ at = "idle"
    /\ fate = "pending" /\ answer = <<>> /\ chosen = {}
    /\ requests = <<>> /\ replies = <<>> /\ server = "none" /\ end = "open"
    /\ announced = <<>> /\ refused = "none"
    /\ data = [said |-> 0, written |-> 0, closed |-> FALSE]

HostClient == (\E c \in Calls : Call(c)) \/ HostReadStatus \/ ReadLength \/ ReadText
              \/ ReadRefusal \/ ReadOddWord \/ OpenChosen \/ ReadsEnd
              \/ HostRecv \/ HostRecvEnd \/ HostSend \/ HostClose

AdbServer == DevicesChange \/ ServerAnswers \/ ServerFails \/ ServerLists
             \/ ServerAnnounces \/ ServiceWrites \/ ServiceReads
             \/ ServerEnds \/ ResetDrops

HostNext == HostClient \/ AdbServer

-----------------------------------------------------------------------------
(* Properties *)

(* What is under way of a service's data: a queue from the first of it on.  *)
StreamOf(q) ==
    IF \E i \in DOMAIN q : IsDatum(q[i])
    THEN SubSeq(q, CHOOSE i \in DOMAIN q :
                       IsDatum(q[i]) /\ \A j \in 1 .. i - 1 : ~IsDatum(q[j]), Len(q))
    ELSE <<>>

(* The connection, once bound, is a channel as Channel promises it: nothing *)
(* of the server's own words gets into the data, none of the data is taken  *)
(* for an answer, and only a reset loses anything (channel.rs of host).     *)
Promise == INSTANCE Channel WITH
    Room <- Socket, Window <- Socket,
    up <- StreamOf(requests),
    down <- StreamOf(replies),
    peer <- IF server # "service" THEN "none"
            ELSE IF end = "fin" THEN "finished" ELSE "open",
    own <- IF data.closed THEN "closed" ELSE "open",
    lost <- server = "service" /\ end = "rst",
    ended <- at = "channel" /\ fate = "eof"

HostKeepsPromise ==
    /\ Promise!ChannelInit
    /\ [][Promise!ChannelNext]_(Promise!channelVars)

(* What the caller is told is what happened: an error names the request     *)
(* that was refused, and a channel hands out the service's own words, all   *)
(* of them when the connection ended in order.                              *)
ToldWhatHappened ==
    /\ fate = "refused" => refused = "service"
    /\ fate = "remote" => refused = "transport"
    /\ fate = "disconnected" => end = "fin"
    /\ at = "channel" =>
          /\ refused = "none"
          /\ answer = [i \in 1 .. Len(answer) |-> Datum(i)]
          /\ fate = "eof" /\ end = "fin" => Len(answer) = data.written

(* Lists of devices are those the server announced, in order, none left     *)
(* out; a tracker that has read everything knows the list as it is.  What   *)
(* only_device takes was the only device online in such a list.             *)
ListsAreTrue ==
    /\ hcall.op \in {"devices", "track", "only"} => IsPrefix(answer, announced)
    /\ at = "len" /\ hcall.op = "track" /\ replies = <<>> /\ end # "rst" => answer = announced
    /\ chosen # {} => \E i \in DOMAIN announced : \A s \in Serials :
                          (announced[i][s] = "device") <=> (s \in chosen)

=============================================================================
