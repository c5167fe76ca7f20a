------------------------------- MODULE MCBTree -------------------------------
(* Small instances of BTree for TLC. *)
EXTENDS BTree, TLC

CONSTANTS v1, v2

Keys2 == 1..2
Keys3 == 1..3
Keys4 == 1..4
OneValue  == {v1}
TwoValues == {v1, v2}

NoFaults  == {}
CrashOnly == {"crash"}
AllFaults == FaultKinds
==============================================================================
