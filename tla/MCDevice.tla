------------------------------ MODULE MCDevice ------------------------------
(* Instances of Device for TLC. *)
EXTENDS DeviceProps, TLC

Blocks(k) == [i \in 1 .. k |-> Piece(i)]

MCFiles0 == [p \in Names |-> IF p = "b" THEN Absent ELSE File(3, 2, Blocks(3))]
MCBodies == {<<Piece(7), Piece(8), Piece(9)>>, <<>>}
AllV2    == {"stat_v2", "ls_v2", "sendrecv_v2", "shell_v2"}
MCFeatureSets == {{}, AllV2}

=============================================================================
