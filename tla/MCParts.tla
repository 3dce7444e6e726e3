------------------------------ MODULE MCParts ------------------------------
(***************************************************************************)
(* One run for the parts that share nothing: in every behaviour one of     *)
(* them moves, the scene, and the others stay where they begin.            *)
(***************************************************************************)
EXTENDS MCContent, MCFraming, HostServer, KeyFile, Tracker

VARIABLE scene

Scenes == {"content", "framing", "host", "key", "tracker"}
Others(s) == scene # s

PartsInit ==
    /\ scene \in Scenes
    /\ ContentInit /\ (Others("content") => table = <<>> /\ properties \in PlainProps)
    /\ (properties \in PlainProps \/ table = <<>>)
    /\ FramingInit /\ (Others("framing") => kind = "usb" /\ config = INITIAL)
    /\ HostInit /\ (Others("host") => \A s \in Serials : states[s] = "absent")
    /\ KeyInit /\ (Others("key") => private = Absent /\ public = Absent)
    /\ TrackerInit /\ (Others("tracker") => bus = {} /\ mode = "watch")

ContentMoves == /\ scene = "content" /\ ContentNext
                /\ UNCHANGED <<scene, framingVars, hostVars, keyVars, trackerVars>>
FramingMoves == /\ scene = "framing" /\ FramingNext
                /\ UNCHANGED <<scene, contentVars, hostVars, keyVars, trackerVars>>
HostMoves    == /\ scene = "host" /\ HostNext
                /\ UNCHANGED <<scene, contentVars, framingVars, keyVars, trackerVars>>
KeyMoves     == /\ scene = "key" /\ KeyNext
                /\ UNCHANGED <<scene, contentVars, framingVars, hostVars, trackerVars>>
TrackerMoves == /\ scene = "tracker" /\ TrackerNext
                /\ UNCHANGED <<scene, contentVars, framingVars, hostVars, keyVars>>

PartsNext == ContentMoves \/ FramingMoves \/ HostMoves \/ KeyMoves \/ TrackerMoves

PartsSpec == PartsInit /\ [][PartsNext]_<<scene, contentVars, framingVars, hostVars,
                                          keyVars, trackerVars>>

=============================================================================
