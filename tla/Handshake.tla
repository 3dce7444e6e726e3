----------------------------- MODULE Handshake -----------------------------
(***************************************************************************)
(* The A_CNXN / A_AUTH exchange that precedes a session                    *)
(* (src/src/session/handshake.rs): the host's loop with its timeout, and   *)
(* the device it expects, on a link that may still carry frames of an      *)
(* earlier session.                                                        *)
(***************************************************************************)
EXTENDS Naturals, Sequences

CONSTANTS
    MaxStale,       \* stale frames the host puts up with: 64 in the code
    AuthWait,       \* auth_wait, in ticks
    Versions,       \* protocol versions a device may speak
    VersionMin,     \* VERSION_MIN
    Version,        \* VERSION, which is also VERSION_SKIP_CHECKSUM
    Offers,         \* max_payload values a device may offer
    LegacyMaxPayload, MaxPayload,
    OldFrames,      \* what the device may still send of an earlier session
    MaxOld,         \* bound: frames of an earlier session
    OddFrames,      \* a device may send one of these, once
    LinkFaults      \* may the transport fail?

StreamFrames == {"CLSE", "WRTE", "OKAY", "SYNC"}
(* An OPEN, an AUTH of a type the host does not expect, a malformed token. *)
OddKinds     == {"OPEN", "OTHER", "AUTH"}

ASSUME WaitAssumption == /\ MaxStale \in Nat /\ AuthWait \in Nat
                         /\ MaxOld \in Nat
ASSUME VersionAssumption == /\ Versions \subseteq Nat
                            /\ VersionMin \in Nat /\ Version \in Nat
                            /\ VersionMin <= Version
ASSUME PayloadAssumption == /\ Offers \subseteq Nat
                            /\ MaxPayload \in Nat \ {0}
                            /\ LegacyMaxPayload \in 1 .. MaxPayload
ASSUME FrameAssumption == /\ OldFrames \subseteq StreamFrames
                          /\ OddFrames \subseteq OddKinds
                          /\ LinkFaults \in BOOLEAN

VARIABLES
    \* The host
    at, result, sentSignature, sentPubkey, skipped, config,
    timer,          \* ticks since the host began to wait for a message
    waited,         \* history: ticks since the key was offered
    \* The link
    link, h2d, d2h,
    \* The device
    trusts,         \* the host's key is in its store
    auth,           \* "none", "rsa" or "tls": what it asks of a host
    devVersion, devOffer,
    dev, token, old, odd

hostVars   == <<at, result, sentSignature, sentPubkey, skipped, config>>
clockVars  == <<timer, waited>>
linkVars   == <<link, h2d, d2h>>
policyVars == <<trusts, auth, devVersion, devOffer>>
deviceVars == <<policyVars, dev, token, old, odd>>

vars == <<hostVars, clockVars, linkVars, deviceVars>>

Msg(cmd, arg0, arg1) == [cmd |-> cmd, arg0 |-> arg0, arg1 |-> arg1]

LesserOf(m, n) == IF m < n THEN m ELSE n

(* WireConfig: is data_check computed, is it verified, how long may a       *)
(* payload of the peer be.                                                  *)
Wire(compute, verify, max) ==
    [compute |-> compute, verify |-> verify, max |-> max]

InitialConfig == Wire(TRUE, FALSE, MaxPayload)

(* negotiate and WireConfig::negotiated, for a CNXN with that version and   *)
(* that max_payload.                                                        *)
OfferedAsIs(n) == n
Offered(n) == LesserOf(IF n = 0 THEN LegacyMaxPayload ELSE n, MaxPayload)

Negotiated(v, n) ==
    LET summed == LesserOf(v, Version) < Version
    IN  Wire(summed, summed, Offered(n))

-----------------------------------------------------------------------------
(* The host *)

(* A message is there to be read.  Each one restarts the wait. *)
Gets(cmd) == /\ at = "recv"
             /\ d2h # <<>> /\ Head(d2h).cmd = cmd
             /\ d2h' = Tail(d2h)
             /\ timer' = 0
             /\ UNCHANGED <<waited, link>>

Ends(res) == at' = "done" /\ result' = res

(* On a link that has failed a message is lost, with an error or without.   *)
HostSends(m) == h2d' = IF link = "up" THEN Append(h2d, m) ELSE h2d
SendFails == link = "down" /\ Ends("failed") /\ UNCHANGED h2d

(* The policy before the device's version is known, and the host's CNXN. *)
Begin ==
    /\ at = "start"
    /\ config' = InitialConfig
    /\ \/ /\ HostSends(Msg("CNXN", Version, MaxPayload))
          /\ at' = "recv"
          /\ UNCHANGED result
       \/ SendFails
    /\ UNCHANGED <<sentSignature, sentPubkey, skipped, clockVars, link, d2h,
                   deviceVars>>

GetConnect ==
    /\ Gets("CNXN")
    /\ LET m == Head(d2h) IN
       \/ /\ m.arg0 >= VersionMin
          /\ config' = Negotiated(m.arg0, m.arg1)
          /\ Ends("ok")
       \/ /\ m.arg0 < VersionMin
          /\ Ends("protocol")
          /\ UNCHANGED config
    /\ UNCHANGED <<sentSignature, sentPubkey, skipped, h2d, deviceVars>>

(* What the loop has answered an AUTH token with so far decides the answer. *)
ToSign == ~sentSignature

ToOfferFirst == ~sentPubkey
ToOffer == sentSignature /\ ~sentPubkey

(* A first token is signed, if it is a token's length (not 0 here); a       *)
(* second means that the key is not known, and it is offered; a third that  *)
(* it is not wanted.                                                        *)
GetToken ==
    /\ Gets("AUTH")
    /\ \/ /\ ToSign /\ Head(d2h).arg0 # 0
          /\ HostSends(Msg("SIGNATURE", Head(d2h).arg0, 0))
          /\ sentSignature' = TRUE
          /\ UNCHANGED <<at, result, sentPubkey>>
       \/ /\ ToSign /\ Head(d2h).arg0 = 0
          /\ Ends("protocol")
          /\ UNCHANGED <<sentSignature, sentPubkey, h2d>>
       \/ /\ ToOffer
          /\ HostSends(Msg("RSAPUBLICKEY", 0, 0))
          /\ sentPubkey' = TRUE
          /\ UNCHANGED <<at, result, sentSignature>>
       \/ /\ (ToSign /\ Head(d2h).arg0 # 0) \/ ToOffer
          /\ SendFails
          /\ UNCHANGED <<sentSignature, sentPubkey>>
       \/ /\ ~ToSign /\ ~ToOffer
          /\ Ends("unauthorized")
          /\ UNCHANGED <<sentSignature, sentPubkey, h2d>>
    /\ UNCHANGED <<skipped, config, deviceVars>>

(* TLS is asked for, or an OPEN or an AUTH of another type is out of place. *)
Rejected ==
    /\ \/ Gets("STLS") /\ Ends("unsupported")
       \/ Gets("OPEN") /\ Ends("protocol")
       \/ Gets("OTHER") /\ Ends("protocol")
    /\ UNCHANGED <<sentSignature, sentPubkey, skipped, config, h2d,
                   deviceVars>>

TooStaleByOne(n) == n >= MaxStale
TooStale(n) == n > MaxStale

(* A frame of a session that no longer exists. *)
Skip ==
    /\ \E cmd \in StreamFrames : Gets(cmd)
    /\ skipped' = skipped + 1
    /\ \/ TooStale(skipped') /\ Ends("protocol")
       \/ ~TooStale(skipped') /\ UNCHANGED <<at, result>>
    /\ UNCHANGED <<sentSignature, sentPubkey, config, h2d, deviceVars>>

RecvFails ==
    /\ at = "recv" /\ link = "down"
    /\ Ends("failed")
    /\ d2h' = <<>>
    /\ UNCHANGED <<sentSignature, sentPubkey, skipped, config, clockVars,
                   link, h2d, deviceVars>>

(* Only the wait for a user's decision is timed. *)
NeverTimed == FALSE
Timed == sentPubkey

Tick ==
    /\ at = "recv" /\ Timed
    /\ timer < AuthWait
    /\ timer' = timer + 1 /\ waited' = waited + 1
    /\ UNCHANGED <<hostVars, linkVars, deviceVars>>

Timeout ==
    /\ at = "recv" /\ Timed
    /\ timer = AuthWait
    /\ Ends("unauthorized")
    /\ UNCHANGED <<sentSignature, sentPubkey, skipped, config, clockVars,
                   linkVars, deviceVars>>

-----------------------------------------------------------------------------
(* The link and the device: adbd, as docs/protocol.md and the tests' device *)
(* describe it *)

LinkDown ==
    /\ LinkFaults /\ link = "up"
    /\ link' = "down" /\ h2d' = <<>>
    /\ UNCHANGED <<hostVars, clockVars, d2h, deviceVars>>

DeviceGets(cmd) == /\ link = "up"
                   /\ h2d # <<>> /\ Head(h2d).cmd = cmd
                   /\ h2d' = Tail(h2d)
                   /\ UNCHANGED <<link, hostVars, clockVars, policyVars, old,
                                  odd>>

DeviceSends(m) == d2h' = Append(d2h, m)

Accepts == /\ dev' = "online"
           /\ DeviceSends(Msg("CNXN", devVersion, devOffer))
           /\ UNCHANGED token

Challenges == /\ token' = token + 1
              /\ DeviceSends(Msg("AUTH", token', 0))

DevConnect ==
    /\ DeviceGets("CNXN")
    /\ \/ auth = "none" /\ Accepts
       \/ auth = "rsa" /\ Challenges /\ dev' = "challenged"
       \/ /\ auth = "tls" /\ DeviceSends(Msg("STLS", 0, 0))
          /\ dev' = "tls" /\ UNCHANGED token

(* The signature is good if it is of the last token, by a key it knows. *)
DevSignature ==
    /\ DeviceGets("SIGNATURE")
    /\ \/ /\ trusts /\ Head(h2d).arg0 = token
          /\ Accepts
       \/ /\ ~trusts \/ Head(h2d).arg0 # token
          /\ Challenges
          /\ UNCHANGED dev

DevPublicKey ==
    /\ DeviceGets("RSAPUBLICKEY")
    /\ dev' = IF dev = "online" THEN dev ELSE "asking"
    /\ UNCHANGED <<d2h, token>>

(* The user taps Allow, or does not. *)
UserAllows ==
    /\ link = "up" /\ dev = "asking"
    /\ Accepts
    /\ UNCHANGED <<link, h2d, hostVars, clockVars, policyVars, old, odd>>

DevOld ==
    /\ link = "up" /\ dev # "online" /\ old < MaxOld
    /\ \E cmd \in OldFrames : DeviceSends(Msg(cmd, 0, 0))
    /\ old' = old + 1
    /\ UNCHANGED <<link, h2d, hostVars, clockVars, policyVars, dev, token,
                   odd>>

DevOdd ==
    /\ link = "up" /\ ~odd
    /\ \E cmd \in OddFrames : DeviceSends(Msg(cmd, 0, 0))
    /\ odd' = TRUE
    /\ UNCHANGED <<link, h2d, hostVars, clockVars, policyVars, dev, token,
                   old>>

-----------------------------------------------------------------------------
Init ==
    /\ at = "start" /\ result = "none"
    /\ sentSignature = FALSE /\ sentPubkey = FALSE /\ skipped = 0
    /\ config = InitialConfig
    /\ timer = 0 /\ waited = 0
    /\ link = "up" /\ h2d = <<>> /\ d2h = <<>>
    /\ trusts \in BOOLEAN /\ auth \in {"none", "rsa", "tls"}
    /\ devVersion \in Versions /\ devOffer \in Offers
    /\ dev = "offline" /\ token = 0 /\ old = 0 /\ odd = FALSE

Host == \/ Begin \/ GetConnect \/ GetToken \/ Rejected \/ Skip
        \/ RecvFails \/ Timeout

DeviceReceives == DevConnect \/ DevSignature \/ DevPublicKey

Next == Host \/ Tick \/ LinkDown \/ DeviceReceives \/ UserAllows \/ DevOld
        \/ DevOdd

Spec == Init /\ [][Next]_vars

(* The runtime polls the future of the handshake, time passes, and a device *)
(* reads what it is sent.  Nobody is obliged to tap Allow.                  *)
FairSpec == Spec /\ WF_vars(Host) /\ WF_vars(Tick) /\ WF_vars(DeviceReceives)

=============================================================================
