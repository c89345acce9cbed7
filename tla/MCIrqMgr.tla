------------------------------ MODULE MCIrqMgr ------------------------------
(* An instance of the interrupt manager and the timers for TLC. *)
EXTENDS IrqMgr

CONSTANTS irqT, graphT, pad, aud

MCQCap == [c \in Client |-> 1]
=============================================================================
