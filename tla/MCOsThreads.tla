---------------------------- MODULE MCOsThreads ----------------------------
(* Instances of the threads and queues for TLC.                              *)
EXTENDS OsThreads, TLC

CONSTANTS t1, t2, m1, m2, q1

CapTwo == [q \in Queue |-> 2]
(* The runs check safety only, and no definition tells these apart.        *)
Alike == Permutations(Thread \ {Idle}) \cup Permutations(Msg)
=============================================================================
