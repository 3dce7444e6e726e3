---------------------------- MODULE DeviceProps ----------------------------
(***************************************************************************)
(* What the caller of a Device, or of a SyncClient, may rely on.           *)
(***************************************************************************)
EXTENDS Device

SyncOps == {"stat", "list", "pull", "push"}

(* A call on this channel that has just returned, none before it having     *)
(* been given up half way.                                                  *)
Returned(op) == pc \in {"return", "quit", "idle"} /\ call.op = op /\ clean

StatOf(f, error) == [mode |-> f.mode, size |-> Len(f.body), mtime |-> f.mtime,
                     error |-> error]
ErrorOf(f, v2Stat) == IF v2Stat /\ ~Exists(f) THEN ENOENT ELSE 0

Listing == FlattenSeq([i \in DOMAIN Present |->
               <<StatOf(fs[Present[i]], 0), Piece(Present[i])>>])

(* A sync call that returns Ok has the device's own answer: of this path    *)
(* and no other, whole, whatever was asked on the channel before            *)
(* (services/sync/mod.rs:38 "Requests are sequential").  A pull is Ok only  *)
(* after DONE, and a push only when the file is there as it was given.  A   *)
(* failure is reported as the device's own only when it is one, and a reply *)
(* is found wrong only when it is: a chunk longer than DATA_MAX.            *)
AnswerIsTrue ==
    /\ Returned("stat") /\ res = "ok" =>
          /\ acc = <<StatOf(fs[call.path], ErrorOf(fs[call.path], "stat_v2" \in feats))>>
          /\ StatExists(acc[1]) <=> Exists(fs[call.path])
    /\ Returned("list") /\ res = "ok" => acc = Listing
    /\ Returned("pull") /\ res = "ok" =>
          Exists(fs[call.path]) /\ acc = fs[call.path].body
    /\ Returned("push") /\ res = "ok" =>
          fs[call.path].mode = call.mode /\ fs[call.path].mtime = Now
          /\ fs[call.path].body \in Bodies /\ source = <<>>
    /\ Returned("pull") /\ res = "remote" => ~Exists(fs[call.path])
    /\ Returned("push") /\ res = "remote" => call.path \in ReadOnly
    /\ call.op \in SyncOps /\ clean /\ pc = "return" /\ res = "protocol" =>
          call.op = "pull" /\ n > DataMax

(* Between two calls of a client the two ends are in step, a call that has  *)
(* failed with the device's own answer included: nothing is left unread,    *)
(* nothing is unanswered.  It is what makes the next answer the next        *)
(* call's.                                                                  *)
InStep ==
    user = "client" /\ pc = "idle" /\ own = "open" /\ clean /\ peer = "open" =>
        /\ up = <<>> /\ down = <<>> /\ buf = <<>> /\ out = <<>>
        /\ dev.st = "idle"

(* Whatever is given up, fails or vanishes, and wherever: a file of the     *)
(* device is never a part of what was pushed, or a mixture of two pushes.   *)
NoHalfFile ==
    \A p \in Names : fs[p] # Files0[p] => fs[p].body \in Bodies

Shown(f) == IF f.id \in Outputs THEN <<f>> ELSE <<>>
OutputsOf(s) == FlattenSeq([i \in DOMAIN s |-> Shown(s[i])])

(* shell,v2: however the stream is cut, the outputs collected are what the  *)
(* command wrote, each piece under its own stream, in order; and with an    *)
(* exit code, all of it.  The older services may lose the end.              *)
OutputIsWhole ==
    /\ call.op \in {"shell", "checked", "stdin"} /\ v2 =>
          /\ IsPrefix(acc, OutputsOf(emitted))
          /\ code # <<>> => acc = OutputsOf(emitted)
    /\ res \in {"ok", "parse"} /\ ~v2 /\ call.op \in {"shell", "exec", "screencap"} =>
          IsPrefix(acc, [i \in DOMAIN emitted |-> emitted[i].data[1]])

(* The input fits the stream and the command's pipe. *)
Fits == call.op = "stdin" => call.input + 1 <= PipeRoom + Room

(* Every call returns, unless the channel is out of step because an earlier *)
(* call on it was given up, or the input of a command is more than can be   *)
(* sent before any output is read (shell.rs:34-42 sends it first).          *)
CallReturns == (pc # "idle" /\ clean /\ Fits) ~> (pc = "idle" \/ ~clean)

=============================================================================
