------------------------------ MODULE MCPadMgr ------------------------------
(* An instance of the controller manager for TLC. *)
EXTENDS PadMgr

CONSTANTS irqT, graphT

MCQCap == [c \in Client |-> 2]
=============================================================================
