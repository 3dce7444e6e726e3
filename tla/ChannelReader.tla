--------------------------- MODULE ChannelReader ---------------------------
(***************************************************************************)
(* How a service client reads (ChannelReader in src/src/channel.rs) and    *)
(* how its service writes: output is cut into chunks anywhere, and the     *)
(* reader puts as many together as the client asks for.  One call at a     *)
(* time runs on a channel.                                                 *)
(*                                                                         *)
(* The unit of data is a word: a four-byte id, a u32, or a piece of        *)
(* content, which nothing on the way looks into.                           *)
(***************************************************************************)
EXTENDS Channel

CONSTANTS
    Cuts,           \* lengths of chunks, beside that of all there is to write
    Huge            \* a number that is no length

ASSUME ReaderAssumption == Cuts \subseteq Nat \ {0} /\ Huge \in Nat

VARIABLES
    buf,            \* ChannelReader::buffer
    out,            \* the service's output, not yet written to the stream
    dev,            \* the service: where it is, and what it works on
    call,           \* the call in progress, or the last one
    todo,           \* messages the call has to send before it reads on
    pc,             \* what it waits for then
    n,              \* the length it has read last
    acc,            \* what it has collected
    res             \* what it has returned

readerVars == <<channelVars, buf, out, dev, call, todo, pc, n, acc, res>>

Id(x)  == <<"id", x>>
Num(x) == <<"n", x>>
Piece(x) == <<"piece", x>>

(* read_u32: four bytes that were not meant as a number make one that is    *)
(* larger than any length in the model.                                     *)
Number(w) == IF w[1] = "n" THEN w[2] ELSE Huge

First(s, k) == SubSeq(s, 1, k)
Rest(s, k)  == SubSeq(s, k + 1, Len(s))

(* read_exact(k) has enough and returns; otherwise it takes another chunk. *)
TakeAll(k) == buf' = <<>>
Take(k) == buf' = Rest(buf, k)

Fill == /\ Recv
        /\ buf' = buf \o Head(down)
        /\ UNCHANGED <<out, dev, call, todo, pc, n, acc, res>>

(* recv returns None: nothing more will come. *)
NoMore == down = <<>> /\ peer = "finished"

(* The service's side: some of its output goes, and the stream is closed    *)
(* when all of it has gone.                                                 *)
Flush == /\ \E k \in (Cuts \cup {Len(out)}) \cap (1 .. Len(out)) :
               Write(First(out, k)) /\ out' = Rest(out, k)
         /\ UNCHANGED <<buf, dev, call, todo, pc, n, acc, res>>

Hangup == /\ dev.st = "done" /\ out = <<>>
          /\ Finish
          /\ UNCHANGED <<buf, out, dev, call, todo, pc, n, acc, res>>

(* The service or the transport goes away in the middle: what had not been  *)
(* written is lost.                                                         *)
Vanish == /\ Finish
          /\ out' = <<>> /\ dev' = [dev EXCEPT !.st = "gone"]
          /\ UNCHANGED <<buf, call, todo, pc, n, acc, res>>

(* The next message of the call is sent; on a stream that has ended send    *)
(* may fail, and the call with it.                                          *)
Post == /\ todo # <<>>
        /\ Send(Head(todo)) /\ todo' = Tail(todo)
        /\ UNCHANGED <<buf, out, dev, call, pc, n, acc, res>>

PostFails == /\ todo # <<>> /\ peer = "finished"
             /\ todo' = <<>> /\ pc' = "return" /\ res' = "closed"
             /\ UNCHANGED <<channelVars, buf, out, dev, call, n, acc>>

=============================================================================
