---------------------------- MODULE MCRcpClients ----------------------------
(* Instances of the scheduler and its clients for TLC.                      *)
EXTENDS RcpClients

CONSTANTS c0, c1, c2, f0, f1

MCType == [t \in Task |-> CASE t = gfx -> "GFX" [] t = aud -> "AUD"
                            [] t = jpeg -> "NJPEG" [] OTHER -> "NUL"]
MCMsgQCap == [t \in Task |-> IF Type[t] = "GFX" THEN 8 ELSE 1]
MCCredit == [t \in Task |-> IF Type[t] = "AUD" THEN 2 ELSE 1]

(* The ring has three entries in the code; two are enough, and fewer states.*)
MCCfbRing == IF c2 \in Cfb THEN <<c0, c1, c2>> ELSE <<c0, c1>>
MCFbPtr == <<f0, f1>>
=============================================================================
