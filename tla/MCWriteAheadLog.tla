--------------------------- MODULE MCWriteAheadLog ---------------------------
(* Small instances of WriteAheadLog for TLC. *)
EXTENDS WriteAheadLog

MCPayloadSizes == {0, 1}

AllFaults == FaultKinds
PowerOnly == {"power"}
==============================================================================
