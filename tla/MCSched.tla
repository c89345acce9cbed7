------------------------------ MODULE MCSched ------------------------------
(* Instances of the scheduler for TLC.                                      *)
EXTENDS SchedInv, SchedService, TLC

CONSTANTS gfx, aud, jpeg, null, c0, c1, f0, f1

MCType == [t \in Task |-> CASE t = gfx -> "GFX" [] t = aud -> "AUD"
                            [] t = jpeg -> "NJPEG" [] OTHER -> "NUL"]
MCMsgQCap == [t \in Task |-> 1]

(* The audio manager primes its queue and then sends before it reads.       *)
Primed == [t \in Task |-> IF Type[t] = "AUD" THEN 2 ELSE 1]
OneEach == [t \in Task |-> 1]

(* No definition tells the frame buffers, or the CfbInfo entries, apart.    *)
Symmetry == Permutations({f0, f1}) \cup Permutations({c0, c1})
=============================================================================
