----------------------------- MODULE MCSession -----------------------------
(* Instances of Session for TLC. *)
EXTENDS SessionChannel, TLC

RemoteIds1 == {100}
RemoteIds2 == {100, 101}
NoStrays   == {}

StreamSymmetry == Permutations(Streams)

=============================================================================
