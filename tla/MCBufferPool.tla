----------------------------- MODULE MCBufferPool -----------------------------
(* Small instances of BufferPool for TLC. *)
EXTENDS BufferPool, TLC

CONSTANTS h1, h2

MCPages == {0, 1, 2}
MCPins  == {h1, h2}

(* A machine without faults, one whose log cannot be synced, and one whose *)
(* page I/O fails.                                                         *)
MCFaultSets == {{}, {"fsync"}, {"read", "write", "short"}}

PinSymmetry == Permutations(MCPins)
===============================================================================
