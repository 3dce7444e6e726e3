------------------------------ MODULE Channel ------------------------------
(***************************************************************************)
(* What an open stream promises the service client that uses it, and all   *)
(* that the clients rely on: the Channel trait of src/src/channel.rs.  Two *)
(* queues and two ends.  What is handed to send reaches the service, what  *)
(* the service writes is returned by recv, in order, once, and a bounded   *)
(* amount at a time; None comes after the last of it.  Only a stream that  *)
(* the transport has lost, or that one end has closed, may drop anything.  *)
(*                                                                         *)
(* Session is shown to implement it (SessionChannel!KeepsPromise), and the *)
(* connection of an adb server too (HostServer!HostKeepsPromise); the      *)
(* clients of the services are built from its actions.                     *)
(***************************************************************************)
EXTENDS Naturals, Sequences

CONSTANTS
    Room,           \* how much send accepts ahead of the service
    Window          \* how many chunks the service writes ahead of recv

ASSUME ChannelAssumption == Room \in Nat \ {0} /\ Window \in Nat \ {0}

VARIABLES
    up,             \* sent by the host, not yet taken by the service
    down,           \* written by the service, not yet returned by recv
    peer,           \* the service: not started, writing, finished
    own,            \* the host's end: open, closed
    lost,           \* the transport below is gone
    ended           \* recv has returned None

channelVars == <<up, down, peer, own, lost, ended>>

ChannelInit == /\ up = <<>> /\ down = <<>>
               /\ peer = "none" /\ own = "open"
               /\ lost = FALSE /\ ended = FALSE

(* Open: the service starts. *)
Start ==
    /\ peer = "none"
    /\ peer' = "open"
    /\ UNCHANGED <<up, down, own, lost, ended>>

(* Channel::send, and the service's read at the other end. *)
Send(x) ==
    /\ peer # "none" /\ own = "open"
    /\ Len(up) < Room
    /\ up' = Append(up, x)
    /\ UNCHANGED <<down, peer, own, lost, ended>>

Arrive ==
    /\ up # <<>> /\ peer = "open"
    /\ up' = Tail(up)
    /\ UNCHANGED <<down, peer, own, lost, ended>>

(* The service writes x, and Channel::recv returns it. *)
Write(x) ==
    /\ peer = "open" /\ Len(down) < Window
    /\ down' = Append(down, x)
    /\ UNCHANGED <<up, peer, own, lost, ended>>

Recv ==
    /\ down # <<>>
    /\ down' = Tail(down)
    /\ UNCHANGED <<up, peer, own, lost, ended>>

(* Where one chunk ends and the next begins is nobody's promise. *)
RecvSome ==
    \E k \in 1 .. Len(down) :
        /\ down' = SubSeq(down, k + 1, Len(down))
        /\ UNCHANGED <<up, peer, own, lost, ended>>

(* The service is done, and recv returns None. *)
Finish ==
    /\ peer = "open"
    /\ peer' = "finished"
    /\ UNCHANGED <<up, down, own, lost, ended>>

Dead == lost \/ own = "closed"

End ==
    /\ ~ended
    /\ (peer = "finished" /\ down = <<>>) \/ Dead
    /\ ended' = TRUE
    /\ UNCHANGED <<up, down, peer, own, lost>>

(* Channel::close, or the value dropped. *)
Close ==
    /\ own = "open"
    /\ own' = "closed"
    /\ down' \in {down, <<>>}
    /\ UNCHANGED <<up, peer, lost, ended>>

Lose ==
    /\ ~lost
    /\ lost' = TRUE
    /\ up' \in {up, <<>>}
    /\ UNCHANGED <<down, peer, own, ended>>

(* A dead stream drops what is in flight, and so does a finished service    *)
(* with what it was still sent.                                             *)
Drop ==
    /\ \/ /\ Dead
          /\ up' \in {up, <<>>} /\ down' \in {down, <<>>}
       \/ /\ peer = "finished"
          /\ up' = <<>> /\ UNCHANGED down
    /\ UNCHANGED <<peer, own, lost, ended>>

(* Whatever it is that a longer queue ends with has been put there. *)
SendSome  == up' # <<>> /\ Send(up'[Len(up')])
WriteSome == down' # <<>> /\ Write(down'[Len(down')])

ChannelNext == \/ Start \/ SendSome \/ Arrive \/ WriteSome \/ RecvSome
               \/ Finish \/ End \/ Close \/ Lose \/ Drop

ChannelSpec == ChannelInit /\ [][ChannelNext]_channelVars

=============================================================================
