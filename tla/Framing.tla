------------------------------ MODULE Framing ------------------------------
(***************************************************************************)
(* Messages on the wire: a header and its payload, over a byte stream      *)
(* (src/src/transport/framed.rs) or as transfers on bulk endpoints         *)
(* (src/src/transport/usb/io.rs), with the checks of src/src/wire.  The    *)
(* sending and the receiving code face each other; a device is taken to    *)
(* frame its messages as they do, but some of its messages are wrong.      *)
(*                                                                         *)
(* The unit is a word, a header being HeadLen of them.                     *)
(***************************************************************************)
EXTENDS Naturals, Sequences, SequencesExt

CONSTANTS
    HeadLen,        \* words of a header
    Mps,            \* maximum packet size of the bulk endpoints, in words
    MaxPayload,     \* MAX_PAYLOAD
    SkipChecksum,   \* VERSION_SKIP_CHECKSUM
    Wrap,           \* a checksum is a sum modulo this
    Policies,       \* pairs of a version and a limit a CNXN may have brought
    Messages,       \* what may be sent
    Pipe,           \* room on the wire, in words or packets
    MaxSends        \* bound: messages sent

ASSUME FramingAssumption ==
    /\ {HeadLen, Mps, Wrap, Pipe} \subseteq Nat \ {0} /\ HeadLen < Mps
    /\ {MaxPayload, SkipChecksum, MaxSends} \subseteq Nat

VARIABLES
    kind,           \* stream or usb
    config,         \* WireConfig, at both ends
    writing,        \* of the message being sent: what has not been written
    wire,           \* words, or packets
    hung,           \* the writing end is gone
    head,           \* the header being read; then the one that is complete
    payload,        \* its payload, as far as it has come
    again,          \* usb: read_exact has read once and goes on
    received,       \* messages recv has returned
    failed,         \* what recv has failed with
    sent,           \* history: messages whose sending has begun
    torn            \* history: the future of a send was dropped half way

wireVars == <<wire, hung>>
readVars == <<head, payload, again, received, failed>>
framingVars == <<kind, config, writing, wireVars, readVars, sent, torn>>

-----------------------------------------------------------------------------
(* WireConfig *)

Config(compute, verify, max) ==
    [compute_checksum |-> compute, verify_checksum |-> verify, max_payload |-> max]
INITIAL == Config(TRUE, FALSE, MaxPayload)
Negotiated(version, max) ==
    Config(version < SkipChecksum, version < SkipChecksum, max)
WireConfigs == {INITIAL} \cup {Negotiated(p[1], p[2]) : p \in Policies}

(* checksum: a wrapping sum. *)
Checksum(body) == FoldLeft(LAMBDA a, b : (a + b) % Wrap, 0, body)

(* A message is a command (known or not), a magic word that fits it or not, *)
(* an amount by which its checksum is wrong, and the payload.               *)
DataCheck(m, compute) ==
    IF compute THEN (Checksum(m.body) + m.off) % Wrap ELSE 0
Header(m) == [known |-> m.known, magic |-> m.magic, data_length |-> Len(m.body),
              data_check |-> DataCheck(m, config.compute_checksum), of |-> m]

HeaderWords(h) == [i \in 1 .. HeadLen |-> [part |-> i, of |-> h]]
PayloadWords(body) == [i \in DOMAIN body |-> [part |-> 0, of |-> body[i]]]

(* decode_header: an intact header with a command that is known, and not    *)
(* more than the limit.                                                     *)
AsHeader(words) == words[1].of
Intact(words) == \A i \in 1 .. HeadLen : words[i].part = i
Decodes(words) ==
    /\ Intact(words)
    /\ LET h == AsHeader(words) IN
       /\ h.magic /\ h.known
       /\ h.data_length <= config.max_payload /\ h.data_length <= MaxPayload

(* A header's word, read as part of a payload, is like no word of one.      *)
ContentOf(words) ==
    [i \in DOMAIN words |-> IF words[i].part = 0 THEN words[i].of ELSE Wrap]

(* checksum_matches; a header among the payload sums up to anything.        *)
Matches(h, words) ==
    /\ \A i \in DOMAIN words : words[i].part = 0
    /\ h.data_check = Checksum(ContentOf(words))

-----------------------------------------------------------------------------
(* Sending *)

(* What a message is written as: words, one after the other, or transfers.  *)
(* A payload that ends with a full packet is followed by an empty one.      *)
Transfers(m) ==
    <<HeaderWords(Header(m))>>
    \o (IF m.body = <<>> THEN <<>> ELSE <<PayloadWords(m.body)>>)
    \o (IF m.body # <<>> /\ Len(m.body) % Mps = 0 THEN << <<>> >> ELSE <<>>)

Packets(transfer) ==
    IF transfer = <<>> THEN << <<>> >>
    ELSE [i \in 1 .. (Len(transfer) + Mps - 1) \div Mps |->
             SubSeq(transfer, (i - 1) * Mps + 1,
                    IF i * Mps < Len(transfer) THEN i * Mps ELSE Len(transfer))]

(* A device may also write a payload as two transfers. *)
SplitTransfers(m) ==
    {<<HeaderWords(Header(m))>>
       \o [i \in 1 .. 2 |-> PayloadWords(IF i = 1 THEN SubSeq(m.body, 1, k)
                                         ELSE SubSeq(m.body, k + 1, Len(m.body)))] :
     k \in 1 .. Len(m.body) - 1}

Send(m) ==
    /\ writing = <<>> /\ ~hung /\ Len(sent) < MaxSends
    /\ \/ kind = "usb" /\ writing' \in {Transfers(m)} \cup SplitTransfers(m)
       \/ kind = "stream" /\ writing' = FlattenSeq(Transfers(m))
    /\ sent' = Append(sent, m)
    /\ UNCHANGED <<kind, config, wireVars, readVars, torn>>

(* write_all: as much as there is room for. *)
WriteWords ==
    /\ kind = "stream" /\ writing # <<>>
    /\ \E k \in 1 .. Len(writing) :
          /\ Len(wire) + k <= Pipe
          /\ wire' = wire \o SubSeq(writing, 1, k)
          /\ writing' = SubSeq(writing, k + 1, Len(writing))
    /\ UNCHANGED <<kind, config, hung, readVars, sent, torn>>

(* UsbSink::write: a transfer is submitted as a whole and awaited. *)
WriteTransfer ==
    /\ kind = "usb" /\ writing # <<>> /\ Len(wire) < Pipe
    /\ wire' = wire \o Packets(Head(writing))
    /\ writing' = Tail(writing)
    /\ UNCHANGED <<kind, config, hung, readVars, sent, torn>>

(* The future of the send is dropped while it waits for room. *)
DropSend ==
    /\ writing # <<>>
    /\ writing' = <<>> /\ torn' = TRUE
    /\ UNCHANGED <<kind, config, wireVars, readVars, sent>>

(* The connection ends: with a stream what has been written still arrives.  *)
HangUp ==
    /\ ~hung
    /\ hung' = TRUE /\ writing' = <<>>
    /\ wire' = IF kind = "usb" THEN <<>> ELSE wire
    /\ UNCHANGED <<kind, config, readVars, sent, torn>>

-----------------------------------------------------------------------------
(* Receiving *)

Running == failed = "no"
HaveHead == Len(head) = HeadLen
Expected == AsHeader(head).data_length

Fails(error) == failed' = error /\ UNCHANGED <<head, payload, again, received>>

(* The message is complete: the checksum is looked at last. *)
Completes(words) ==
    LET h == AsHeader(head) IN
    IF config.verify_checksum /\ ~Matches(h, words)
    THEN Fails("checksum")
    ELSE /\ received' = Append(received, [h.of EXCEPT !.body = ContentOf(words)])
         /\ head' = <<>> /\ payload' = <<>> /\ again' = FALSE
         /\ UNCHANGED failed

(* A header is complete; one without payload is a message. *)
HeadIs(words) ==
    IF ~Decodes(words) THEN Fails("header")
    ELSE head' = words /\ payload' = <<>> /\ UNCHANGED <<again, received, failed>>

ReadEmpty ==
    /\ Running /\ HaveHead /\ Expected = 0
    /\ Completes(<<>>)
    /\ UNCHANGED <<kind, config, writing, wireVars, sent, torn>>

(* FramedReader: a read returns some of what is there, and is repeated      *)
(* until it is what was asked for.                                          *)
TakeAllWords(k) == /\ k <= Len(wire)
                   /\ wire' = <<>>
                   /\ UNCHANGED hung
TakeWords(k) == /\ k <= Len(wire)
                /\ wire' = SubSeq(wire, k + 1, Len(wire))
                /\ UNCHANGED hung

ReadHead ==
    /\ kind = "stream" /\ Running /\ ~HaveHead
    /\ \E k \in 1 .. HeadLen - Len(head) :
          /\ TakeWords(k)
          /\ LET words == head \o SubSeq(wire, 1, k) IN
             IF Len(words) < HeadLen
             THEN head' = words /\ UNCHANGED <<payload, again, received, failed>>
             ELSE HeadIs(words)
    /\ UNCHANGED <<kind, config, writing, sent, torn>>

ReadPayload ==
    /\ kind = "stream" /\ Running /\ HaveHead
    /\ \E k \in 1 .. Expected - Len(payload) :
          /\ TakeWords(k)
          /\ LET words == payload \o SubSeq(wire, 1, k) IN
             IF Len(words) < Expected
             THEN payload' = words /\ UNCHANGED <<head, again, received, failed>>
             ELSE Completes(words)
    /\ UNCHANGED <<kind, config, writing, sent, torn>>

ReadEnd ==
    /\ Running /\ hung /\ wire = <<>> /\ ~(HaveHead /\ Expected = 0)
    /\ Fails(IF kind = "usb" \/ head = <<>> THEN "disconnected" ELSE "truncated")
    /\ UNCHANGED <<kind, config, writing, wireVars, sent, torn>>

(* UsbSource::read: a transfer of whole packets ends with a short one, or   *)
(* when it has all it asked for.                                            *)
Request(len) == LET packets == (len + Mps - 1) \div Mps
                IN  IF packets = 0 THEN 1 ELSE packets
Short(i) == Len(wire[i]) < Mps

Ends(len) == {j \in 1 .. Len(wire) :
                 /\ j <= Request(len) /\ (Short(j) \/ j = Request(len))
                 /\ \A i \in 1 .. j - 1 : ~Short(i)}

ReadTransfer(j) == wire' = SubSeq(wire, j + 1, Len(wire))
Joined(j) == FlattenSeq(SubSeq(wire, 1, j))

(* An empty transfer is what a payload before it has ended with.            *)
UsbHeadIsStrict(words) ==
    IF Len(words) # HeadLen THEN Fails("truncated") ELSE HeadIs(words)
UsbHeadIs(words) ==
    IF words = <<>> THEN UNCHANGED readVars
    ELSE IF Len(words) # HeadLen THEN Fails("truncated")
    ELSE HeadIs(words)

(* The payload is read until there is enough of it; a transfer after the    *)
(* first that is empty is an error, as is a word too many.                  *)
UsbPayloadIs(words) ==
    LET all == payload \o words IN
    IF again /\ words = <<>> THEN Fails("short payload")
    ELSE IF Len(all) < Expected
         THEN payload' = all /\ again' = TRUE /\ UNCHANGED <<head, received, failed>>
    ELSE IF Len(all) > Expected THEN Fails("long payload")
    ELSE Completes(all)

UsbReadHead ==
    /\ kind = "usb" /\ Running /\ ~HaveHead
    /\ \E j \in Ends(HeadLen) : ReadTransfer(j) /\ UsbHeadIs(Joined(j))
    /\ UNCHANGED <<kind, config, writing, hung, sent, torn>>

UsbReadPayload ==
    /\ kind = "usb" /\ Running /\ HaveHead /\ Expected > 0
    /\ \E j \in Ends(Expected - Len(payload)) :
          ReadTransfer(j) /\ UsbPayloadIs(Joined(j))
    /\ UNCHANGED <<kind, config, writing, hung, sent, torn>>

-----------------------------------------------------------------------------
FramingInit ==
    /\ kind \in {"stream", "usb"} /\ config \in WireConfigs
    /\ writing = <<>> /\ wire = <<>> /\ hung = FALSE
    /\ head = <<>> /\ payload = <<>> /\ again = FALSE
    /\ received = <<>> /\ failed = "no"
    /\ sent = <<>> /\ torn = FALSE

Writer == (\E m \in Messages : Send(m)) \/ WriteWords \/ WriteTransfer
Reader == ReadEmpty \/ ReadHead \/ ReadPayload \/ ReadEnd
          \/ UsbReadHead \/ UsbReadPayload

FramingNext == Writer \/ Reader \/ DropSend \/ HangUp

-----------------------------------------------------------------------------
(* Properties *)

(* What recv must accept, and nothing else. *)
Acceptable(m) ==
    /\ m.known /\ m.magic
    /\ Len(m.body) <= config.max_payload /\ Len(m.body) <= MaxPayload
    /\ config.verify_checksum => DataCheck(m, config.compute_checksum) = Checksum(m.body)

(* However the words are cut, and whatever follows them, recv returns the   *)
(* messages sent, unchanged and in order, up to the first wrong one: as     *)
(* long as no send was dropped half way.                                    *)
FramesInOrder ==
    ~torn => /\ IsPrefix(received, sent)
             /\ \A i \in DOMAIN received : Acceptable(received[i])

(* recv fails for a reason: a wrong message, or the end of the connection,  *)
(* told as a disconnect between messages and, on a stream, as truncation    *)
(* within one.  A failure that is the reader's own fault would end the      *)
(* session.                                                                 *)
FailsForAReason ==
    ~torn /\ failed # "no" =>
        LET i == Len(received) + 1 IN
        CASE failed = "disconnected" ->
                hung /\ (kind = "stream" => head = <<>> /\ payload = <<>>)
          [] failed = "truncated" ->
                kind = "stream" /\ hung /\ i <= Len(sent)
          [] OTHER -> i <= Len(sent) /\ ~Acceptable(sent[i])

=============================================================================
