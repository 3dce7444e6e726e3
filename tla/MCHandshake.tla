---------------------------- MODULE MCHandshake ----------------------------
(* Instances of Handshake for TLC: version 0 is too old, 1 is VERSION_MIN,  *)
(* 2 is VERSION, 3 a later one; payloads are counted in units of the legacy *)
(* limit.                                                                   *)
EXTENDS HandshakeProps

AllVersions == 0 .. 3
AllOffers   == {0, 2, 4}

=============================================================================
