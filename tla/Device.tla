------------------------------- MODULE Device -------------------------------
(***************************************************************************)
(* Device (src/src/device): every call of it opens a channel of its own,   *)
(* runs a sync or a shell client on it, and lets the channel go.  Beside   *)
(* it, a caller that keeps a SyncClient and makes one call after another   *)
(* on it.  A call may be given up at any of its suspension points, and the *)
(* device may vanish at any moment.                                        *)
(***************************************************************************)
EXTENDS Sync, Shell

CONSTANTS
    Files0,         \* the files of the device at the start
    Bodies,         \* local contents to push
    FeatureSets,    \* what a device may advertise
    MaxCalls,       \* bound: calls in a behaviour
    GiveUps,        \* may a caller drop the future of a call?
    Faults          \* may the device vanish, and a local source fail?

ASSUME DeviceAssumption == /\ MaxCalls \in Nat
                           /\ {GiveUps, Faults} \subseteq BOOLEAN
                           /\ Files0 = [p \in Names |-> Files0[p]]
                           /\ \A p \in Names :
                                 Files0[p] \in [mode : Nat, mtime : Nat,
                                                body : Seq(Range(Files0[p].body))]
                           /\ \A body \in Bodies : body \in Seq(Range(body))

VARIABLES
    user,           \* whose calls these are
    calls,          \* calls begun
    clean           \* every call on this channel has been answered to the end

deviceVars == <<user, calls, clean>>

vars == <<readerVars, syncVars, shellVars, deviceVars>>

(* A Device used for files, one used for a command, the owner of a client. *)
Users == {"device", "shell", "client"}

HasV2 == "shell_v2" \in feats

(* Connection::open succeeds: a new channel, and a new service behind it. *)
Opens(service) ==
    /\ up' = <<>> /\ down' = <<>> /\ peer' = "open" /\ own' = "open"
    /\ lost' = FALSE /\ ended' = FALSE
    /\ buf' = <<>> /\ out' = <<>> /\ dev' = service

BeginCall == pc = "idle" /\ calls < MaxCalls /\ calls' = calls + 1

BodiesFor(c) == IF c.op = "push" THEN Bodies ELSE {<<>>}

(* Device::sync and the call on it, or SyncClient::open and its first call. *)
OpenSync(c) ==
    /\ BeginCall /\ user # "shell" /\ own = "closed"
    /\ \E body \in BodiesFor(c) : Begins(c, body)
    /\ Opens(Idle)
    /\ clean' = TRUE
    /\ UNCHANGED <<feats, fs, shellVars, user>>

(* A further call on the client's channel. *)
NextCall(c) ==
    /\ BeginCall /\ user = "client" /\ own = "open"
    /\ \E body \in BodiesFor(c) : Begins(c, body)
    /\ UNCHANGED <<channelVars, buf, out, dev, feats, fs, shellVars, user, clean>>

(* A command shares nothing with a call before it: one of them will do. *)
OpenShell(c) ==
    /\ BeginCall /\ user = "shell" /\ calls = 0
    /\ c.op = "stdin" => HasV2
    /\ Starts(c, HasV2)
    /\ Opens(Process("run", c.command, <<>>))
    /\ clean' = TRUE
    /\ UNCHANGED <<syncVars, user>>

(* An argument the call refuses (a NUL, a source that is not a file, input  *)
(* without shell_v2), features or the channel not to be had.                *)
OpenFails(c) ==
    /\ BeginCall /\ own = "closed"
    /\ call' = c /\ acc' = <<>> /\ res' = "refused"
    /\ code' = <<>> /\ emitted' = <<>>
    /\ UNCHANGED <<channelVars, buf, out, dev, todo, pc, n, syncVars, v2,
                   user, clean>>

-----------------------------------------------------------------------------
(* The end of a call.  list_dir, stat and push send QUIT first; a pull and  *)
(* a failed call just let the channel go.                                   *)
Politely == res = "ok" /\ call.op \in {"list", "stat", "push"}

SendQuit ==
    /\ todo' = <<Word("QUIT", 0)>> /\ pc' = "quit"
    /\ UNCHANGED <<channelVars, buf, out, dev, call, n, acc, res>>

(* Closed or dropped: what was in the channel is nobody's any more. *)
LetGo == /\ own' = "closed" /\ peer' = "none"
         /\ up' = <<>> /\ down' = <<>> /\ buf' = <<>> /\ out' = <<>>
         /\ dev' = Idle /\ todo' = <<>> /\ n' = 0
         /\ pc' = "idle"
         /\ UNCHANGED <<lost, ended, call, acc>>

Return ==
    /\ pc = "return"
    /\ \/ /\ user = "client" /\ pc' = "idle"
          /\ clean' = (clean /\ res \in {"ok", "remote"})
          /\ UNCHANGED <<channelVars, buf, out, dev, call, todo, n, acc, res>>
       \/ user # "client" /\ Politely /\ SendQuit /\ UNCHANGED clean
       \/ user # "client" /\ ~Politely /\ LetGo /\ UNCHANGED <<res, clean>>
    /\ UNCHANGED <<syncVars, shellVars, user, calls>>

(* SyncClient::quit by its owner.  What the service does on QUIT is close   *)
(* the stream, which may overtake the acknowledgement of the send.          *)
BeginQuit ==
    /\ user = "client" /\ pc = "idle" /\ own = "open"
    /\ SendQuit
    /\ UNCHANGED <<syncVars, shellVars, deviceVars>>

Quit ==
    /\ pc = "quit" /\ todo = <<>>
    /\ LetGo
    /\ \/ UNCHANGED res
       \/ peer = "finished" /\ res' = "closed"
    /\ UNCHANGED <<syncVars, shellVars, deviceVars>>

(* The future is dropped.  A call of Device takes its channel with it, a    *)
(* call on a client leaves the channel as it is.                            *)
GiveUp ==
    /\ GiveUps /\ pc # "idle" /\ res' = "given_up"
    /\ \/ /\ user # "client"
          /\ LetGo
          /\ UNCHANGED clean
       \/ /\ user = "client"
          /\ pc' = "idle" /\ todo' = <<>> /\ clean' = FALSE
          /\ UNCHANGED <<channelVars, buf, out, dev, call, n, acc>>
    /\ UNCHANGED <<syncVars, shellVars, user, calls>>

(* The local source of a push fails: the request stays open at the device. *)
PushFails == /\ Faults
             /\ SourceFails
             /\ UNCHANGED <<shellVars, deviceVars>>

Dropped ==
    /\ user = "client" /\ pc = "idle" /\ own = "open"
    /\ LetGo /\ UNCHANGED <<res, syncVars, shellVars, deviceVars>>

-----------------------------------------------------------------------------
Caller == \/ \E c \in SyncCalls : OpenSync(c) \/ NextCall(c) \/ OpenFails(c)
          \/ \E c \in ShellCalls : OpenShell(c) \/ OpenFails(c)
          \/ BeginQuit \/ GiveUp \/ PushFails \/ Dropped

(* What a call in progress goes on to do. *)
CallStep ==
    \/ SyncClient /\ UNCHANGED <<shellVars, deviceVars>>
    \/ ShellClient /\ UNCHANGED <<syncVars, deviceVars>>
    \/ Post /\ UNCHANGED <<syncVars, shellVars, deviceVars>>
    \/ PostFails /\ UNCHANGED <<syncVars, shellVars, deviceVars>>
    \/ Return \/ Quit

(* A service whose channel the host has closed does nothing any more. *)
ServiceStep ==
    /\ own = "open"
    /\ \/ call.op \in {"shell", "checked", "exec", "screencap", "stdin"}
          /\ (ShellTakes \/ Echo \/ Talk \/ Exit)
          /\ UNCHANGED <<syncVars, deviceVars>>
       \/ call.op \in {"stat", "list", "pull", "push"}
          /\ SyncServes
          /\ UNCHANGED <<shellVars, deviceVars>>
       \/ (Flush \/ Hangup) /\ UNCHANGED <<syncVars, shellVars, deviceVars>>

Vanishes == /\ Faults /\ own = "open"
            /\ Vanish
            /\ UNCHANGED <<syncVars, shellVars, deviceVars>>

Init ==
    /\ up = <<>> /\ down = <<>> /\ peer = "none" /\ own = "closed"
    /\ lost = FALSE /\ ended = FALSE
    /\ buf = <<>> /\ out = <<>> /\ dev = Idle
    /\ call = [op |-> "none"] /\ todo = <<>> /\ pc = "idle"
    /\ n = 0 /\ acc = <<>> /\ res = "none"
    /\ feats \in FeatureSets /\ fs = Files0 /\ source = <<>>
    /\ v2 = FALSE /\ code = <<>> /\ emitted = <<>>
    /\ user \in Users /\ calls = 0 /\ clean = TRUE

Next == Caller \/ CallStep \/ ServiceStep \/ Vanishes

Spec == Init /\ [][Next]_vars

(* The runtime polls a call that can go on; the device serves what it is    *)
(* sent, its commands end.                                                  *)
Fairness == WF_vars(CallStep) /\ WF_vars(ServiceStep)

FairSpec == Spec /\ Fairness

=============================================================================
