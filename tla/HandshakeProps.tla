--------------------------- MODULE HandshakeProps ---------------------------
(***************************************************************************)
(* What a handshake must guarantee.                                        *)
(***************************************************************************)
EXTENDS Handshake

Results == {"none", "ok", "unauthorized", "protocol", "unsupported", "failed"}
ConfigType == [compute : BOOLEAN, verify : BOOLEAN, max : 1 .. MaxPayload]
Messages == [cmd : {"CNXN", "AUTH", "SIGNATURE", "RSAPUBLICKEY", "STLS"}
                   \cup StreamFrames \cup OddKinds,
             arg0 : Nat, arg1 : Nat]

(* Types, and what the flags of the loop mean for each other: a result      *)
(* exactly when it has ended, a key offered only after a signature, a timer *)
(* within auth_wait, and a policy whose payload limit is one a peer can use.*)
TypeOK ==
    /\ at \in {"start", "recv", "done"} /\ result \in Results
    /\ (result = "none") = (at # "done")
    /\ sentSignature \in BOOLEAN /\ sentPubkey \in BOOLEAN
    /\ sentPubkey => sentSignature
    /\ skipped \in Nat
    /\ config \in ConfigType
    /\ timer \in 0 .. AuthWait /\ waited \in Nat
    /\ link \in {"up", "down"}
    /\ h2d \in Seq(Messages) /\ d2h \in Seq(Messages)
    /\ trusts \in BOOLEAN /\ auth \in {"none", "rsa", "tls"}
    /\ devVersion \in Versions /\ devOffer \in Offers
    /\ dev \in {"offline", "challenged", "asking", "tls", "online"}
    /\ token \in Nat /\ old \in Nat /\ odd \in BOOLEAN

(* A device of a version the host accepts, which has sent nothing out of    *)
(* place and asks for no TLS, on a link that holds.                         *)
Compliant == /\ devVersion >= VersionMin
             /\ auth # "tls" /\ ~odd /\ link = "up"

(* The frames of an earlier session never cost a device that knows the key, *)
(* or asks for none, its connection, as long as there are no more of them   *)
(* than the host skips (handshake.rs:60-65): the only end is success.       *)
KnownKeyConnects ==
    Compliant /\ (trusts \/ auth = "none") /\ old <= MaxStale
        => result \in {"none", "ok"}

(* A user is asked to allow a key only by a device that does not know it:   *)
(* the key is not offered before the signature has been turned down.        *)
OfferedOnlyIfUnknown ==
    sentPubkey \/ dev = "asking" => odd \/ (auth = "rsa" /\ ~trusts)

(* Both ends of an established connection follow one policy: the host       *)
(* computes and verifies data_check exactly if the device is so old that it *)
(* does, and takes a payload as long as the device may send, which is never *)
(* more than the host has offered to take.                                  *)
DeviceLimit == LesserOf(IF devOffer = 0 THEN LegacyMaxPayload ELSE devOffer,
                        MaxPayload)
PoliciesAgree ==
    result = "ok" =>
        /\ dev = "online"
        /\ config.compute = (devVersion < Version)
        /\ config.verify = config.compute
        /\ config.max = DeviceLimit

(* A handshake ends: refused, failed, accepted, or for want of an answer    *)
(* from the user (handshake.rs:38-39).                                      *)
HandshakeEnds == (at # "done") ~> (at = "done")

(* handshake.rs:38: auth_wait bounds how long we wait for the user to       *)
(* accept our key after we have offered it.                                 *)
WaitIsBounded == waited <= AuthWait

=============================================================================
