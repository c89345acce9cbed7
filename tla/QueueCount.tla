----------------------------- MODULE QueueCount -----------------------------
(***************************************************************************)
(* How many times a queue holds a message.  The message queues of the     *)
(* program are sequences here, and what a queue owes to the state of the   *)
(* threads around it is a statement about these counts.                    *)
(***************************************************************************)
EXTENDS Integers, Sequences, FiniteSets

Positions(q, m) == {i \in DOMAIN q : q[i] = m}

Count(q, m) == Cardinality(Positions(q, m))
=============================================================================
