------------------------------- MODULE Shell -------------------------------
(***************************************************************************)
(* Commands run through shell:, exec: and shell,v2: (src/src/services),    *)
(* each on a channel of its own.  shell,v2 frames the input and both       *)
(* outputs; the older services carry bare output, and say nothing of how   *)
(* the command ended.  The command is modelled from what the client needs  *)
(* of it: pipes of limited room, output, an exit code, a stream closed.    *)
(***************************************************************************)
EXTENDS ChannelReader, SequencesExt

CONSTANTS
    Inputs,         \* lengths of standard input handed to shell_with_stdin
    PipeRoom,       \* room of the command's input pipe
    OutRoom,        \* room of its output, in words
    MaxOutput,      \* bound: frames a command writes
    ExitCodes

ASSUME ShellAssumption == /\ Inputs \subseteq Nat /\ PipeRoom \in Nat \ {0}
                          /\ OutRoom \in Nat \ {0} /\ MaxOutput \in Nat
                          /\ ExitCodes \subseteq Nat

VARIABLES
    v2,             \* the channel speaks shell,v2
    code,           \* ShellOutput::exit_code: none is <<>>
    emitted         \* history: what the command has written, in frames

shellVars == <<v2, code, emitted>>

ShellCalls ==
    [op : {"shell", "checked", "exec", "screencap"}, input : {0}, command : {"talk"}]
    \cup [op : {"stdin"}, input : Inputs, command : {"echo"}]

RawCalls == {"exec", "screencap"}

(* FrameId, as far as a device sends it, and one it does not know. *)
Outputs  == {"Stdout", "Stderr"}
Ignored  == {"WindowSize"}
Unknown  == {"Junk"}

Frame(id, data) == [id |-> id, data |-> data]

(* shell_v2: the whole of standard input in one call of send, cut by the    *)
(* stream into pieces, and then CloseStdin.  Only then is anything read.    *)
InputUnclosed(c) == [i \in 1 .. c.input |-> Frame("Stdin", i)]
InputOf(c) == [i \in 1 .. c.input |-> Frame("Stdin", i)]
              \o <<Frame("CloseStdin", 0)>>

(* shell() prefers shell,v2 when the device has it. *)
Starts(c, hasV2) ==
    LET framed == hasV2 /\ c.op \notin RawCalls IN
    /\ call' = c /\ v2' = framed
    /\ todo' = IF framed THEN InputOf(c) ELSE <<>>
    /\ pc' = IF framed THEN "frames" ELSE "drain"
    /\ n' = 0 /\ acc' = <<>> /\ res' = "pending"
    /\ code' = <<>> /\ emitted' = <<>>

-----------------------------------------------------------------------------
(* collect_v2, with Parser::push as its inner loop *)

HeaderLen == 2      \* one byte and a u32

(* A whole frame is in the buffer; an unknown id is told from the header.   *)
Framed == Len(buf) >= HeaderLen + Number(buf[2])
KnownFrame == buf[1] \in {Id(x) : x \in Outputs \cup Ignored \cup {"Exit"}}
Parsable == Len(buf) >= HeaderLen /\ (Framed \/ ~KnownFrame)

(* ShellOutput::apply. *)
ApplyUnmarked(id, data) ==
    /\ acc' = IF id \in Outputs \cup Ignored THEN Append(acc, Frame(id, data)) ELSE acc
    /\ code' = IF id = "Exit" THEN First(data, 1) ELSE code
Apply(id, data) ==
    /\ acc' = IF id \in Outputs THEN Append(acc, Frame(id, data)) ELSE acc
    /\ code' = IF id = "Exit" THEN First(data, 1) ELSE code

(* ShellOutput::success, on which shell_checked insists: no exit code at    *)
(* all will do.                                                             *)
Success == code = <<>> \/ code = <<Num(0)>>

(* What a screenshot begins with, and all of it that screencap looks at. *)
PngMagic == <<Piece(1)>>

ParseFrame ==
    /\ pc = "frames" /\ todo = <<>> /\ Parsable
    /\ \/ /\ KnownFrame
          /\ LET end == HeaderLen + Number(buf[2])
             IN  /\ Apply(buf[1][2], SubSeq(buf, HeaderLen + 1, end))
                 /\ Take(end)
          /\ UNCHANGED <<pc, res>>
       \/ /\ ~KnownFrame
          /\ pc' = "return" /\ res' = "protocol"
          /\ UNCHANGED <<buf, acc, code>>
    /\ UNCHANGED <<channelVars, out, dev, call, todo, n, v2, emitted>>

FramesFill ==
    /\ pc = "frames" /\ todo = <<>> /\ ~Parsable
    /\ Fill
    /\ UNCHANGED shellVars

(* The stream has ended; what is left of a frame makes it an error. *)
FramesEnd ==
    /\ pc = "frames" /\ todo = <<>> /\ ~Parsable /\ NoMore
    /\ res' = IF buf # <<>> THEN "protocol"
              ELSE IF call.op = "checked" /\ ~Success THEN "remote" ELSE "ok"
    /\ pc' = "return"
    /\ UNCHANGED <<channelVars, buf, out, dev, call, todo, n, acc, shellVars>>

(* drain: everything until the stream ends, which may be at any point. *)
DrainFills ==
    /\ pc = "drain"
    /\ Fill
    /\ UNCHANGED shellVars

DrainEnd ==
    /\ pc = "drain" /\ NoMore
    /\ acc' = buf /\ buf' = <<>>
    /\ pc' = "return"
    /\ res' = IF call.op = "screencap" /\ ~IsPrefix(PngMagic, buf)
              THEN "parse" ELSE "ok"
    /\ UNCHANGED <<channelVars, out, dev, call, todo, n, shellVars>>

ShellClient == ParseFrame \/ FramesFill \/ FramesEnd \/ DrainFills \/ DrainEnd

-----------------------------------------------------------------------------
(* The command *)

Process(st, command, pipe) == [st |-> st, command |-> command, pipe |-> pipe]

(* adbd takes a frame when the pipe has room for it.  *)
ShellTakes ==
    /\ Arrive
    /\ dev.st = "run"
    /\ \/ /\ Head(up).id = "Stdin" /\ Len(dev.pipe) < PipeRoom
          /\ dev' = [dev EXCEPT !.pipe = Append(@, Head(up).data)]
       \/ /\ Head(up).id = "CloseStdin"
          /\ dev' = [dev EXCEPT !.st = "eof"]
    /\ UNCHANGED <<buf, out, call, todo, pc, n, acc, res, shellVars>>

Words(id, x) == IF v2 THEN <<Id(id), Num(1), x>> ELSE <<x>>

Emits(id, x) ==
    /\ Len(out) < OutRoom
    /\ out' = out \o Words(id, x)
    /\ emitted' = Append(emitted, Frame(id, <<x>>))

(* "echo" writes what it reads; "talk" writes on its own. *)
Echo ==
    /\ dev.st \in {"run", "eof"} /\ dev.command = "echo" /\ dev.pipe # <<>>
    /\ Emits("Stdout", Piece(Head(dev.pipe)))
    /\ dev' = [dev EXCEPT !.pipe = Tail(@)]
    /\ UNCHANGED <<channelVars, buf, call, todo, pc, n, acc, res, v2, code>>

Talk ==
    /\ dev.st \in {"run", "eof"} /\ dev.command = "talk"
    /\ peer = "open" /\ Len(emitted) < MaxOutput
    /\ \E id \in Outputs \cup (IF v2 THEN Ignored \cup Unknown ELSE {}) :
          Emits(id, Piece(Len(emitted) + 1))
    /\ UNCHANGED <<channelVars, buf, dev, call, todo, pc, n, acc, res, v2, code>>

(* The end of its input ends "echo"; "talk" ends when it likes. *)
Exit ==
    /\ dev.st \in {"run", "eof"}
    /\ dev.command = "echo" => dev.pipe = <<>> /\ (dev.st = "eof" \/ ~v2)
    /\ \E x \in ExitCodes :
          out' = IF v2 THEN out \o <<Id("Exit"), Num(1), Num(x)>> ELSE out
    /\ dev' = [dev EXCEPT !.st = "done"]
    /\ UNCHANGED <<channelVars, buf, call, todo, pc, n, acc, res, shellVars>>

=============================================================================
