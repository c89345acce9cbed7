------------------------------ MODULE SchedInv ------------------------------
(***************************************************************************)
(* The inductive invariant of the scheduler, in named parts.  TLC checks   *)
(* it on the small instances, SchedProofs proves it for all of them.       *)
(***************************************************************************)
EXTENDS Sched

(* A task is being completed exactly between a handler's first part and     *)
(* the end of Sched_IsComplete.                                             *)
ControlOK == pc = "complete" <=> done # NULL

(* Only graphics tasks have a frame buffer, and every CfbInfo the scheduler *)
(* can reach has been filled in.                                            *)
FramesOK ==
    /\ \A t \in Task : swap[t] => framebuffer[t] # NULL
    /\ \A t \in Task : framebuffer[t] # NULL =>
           Type[t] = "GFX" /\ swapBuffer[framebuffer[t]] \in Fb
    /\ pendingSwapBuf1 # NULL => swapBuffer[pendingSwapBuf1] \in Fb
    /\ \A t \in Task : InProgress(t) /\ Type[t] = "GFX" => framebuffer[t] # NULL

(* The lists hold tasks of their own kind, a queued task has no work left   *)
(* from its previous submission, and doAudio is never a stale flag.         *)
ListsOK ==
    /\ \A t \in Task : Count(audioList, t) > 0 => Type[t] = "AUD"
    /\ \A t \in Task : Count(gfxList, t) > 0 => Type[t] # "AUD"
    /\ \A t \in Task : InCmdQ(t) => Completes(t) /\ done # t
    /\ doAudio => audioList # <<>>

OwnersOK ==
    /\ curRSPTask # NULL => Type[curRSPTask] # "NUL"
    /\ curRDPTask # NULL => Type[curRDPTask] = "GFX" /\ "DP" \in state[curRDPTask]

(* Only tasks of the kinds that can yield are asked to, and a graphics task *)
(* that has been given to the RDP and not finished on the RSP is either on  *)
(* the RSP or has yielded it.                                               *)
YieldersOK ==
    \A t \in Task :
        /\ state[t] \cap {"YIELD", "YIELDED"} # {} => Type[t] \notin {"AUD", "NUL"}
        /\ Type[t] = "GFX" /\ "SP" \in state[t] /\ ("DP" \notin state[t] \/ curRDPTask = t) =>
               curRSPTask = t \/ "YIELDED" \in state[t]

(* What holds whatever the interrupt queue does. *)
CoreInv == TypeOK /\ ControlOK /\ FramesOK /\ ListsOK /\ OwnersOK
           /\ YieldersOK /\ OnePlace /\ OneReplyEach

(* There is room for every message the interrupt queue may still be sent. *)
QueueBound ==
    /\ Count(interruptQ, "RETRACE") <= RetraceBacklog
    /\ Count(interruptQ, "ENTRY") <= EntryBacklog
    /\ Count(interruptQ, "RESET") <= IF resetStatus > 0 THEN 1 ELSE 0
    /\ Count(interruptQ, "NMI") <= IF resetStatus > 1 THEN 1 ELSE 0
    /\ resetStatus > 0 => MayReset
    /\ frozen => Count(interruptQ, "RDP_DONE") <= IF curRDPTask # NULL THEN 1 ELSE 0

EventInv == QueueBound /\ EventsMatchOwners

(* A task that yielded is at the head of gfxList, and only the audio task   *)
(* that it made way for runs meanwhile.                                     *)
YieldOK ==
    \A t \in Task : "YIELDED" \in state[t] =>
        /\ gfxList # <<>> /\ Head(gfxList) = t
        /\ "SP" \in state[t]
        /\ curRSPTask # NULL => Type[curRSPTask] = "AUD"

(* A graphics task that has been started and not yet answered: at most one, *)
(* and no frame waits to be shown meanwhile.                                *)
Active(t) ==
    /\ Type[t] = "GFX"
    /\ curRSPTask = t \/ curRDPTask = t \/ "YIELDED" \in state[t]

ActiveOK ==
    /\ \A t, u \in Task : Active(t) /\ Active(u) => t = u
    /\ \A t \in Task : Active(t) => pendingSwapBuf1 = NULL
    /\ pc = "complete" /\ Type[done] = "GFX" /\ Completes(done) =>
           pendingSwapBuf1 = NULL /\ \A t \in Task : ~Active(t)

(* The next VI context differs from the current one only while a swap is    *)
(* pending, and then shows the pending buffer.                              *)
ViOK ==
    IF pendingSwapBuf1 = NULL THEN viNext = viCurr
    ELSE viNext \in {viCurr, swapBuffer[pendingSwapBuf1]}

DisplayInv == YieldOK /\ YieldedFirst /\ ActiveOK /\ ViOK /\ NoTearing

SchedInvariant == CoreInv /\ EventInv /\ NoAssertFails /\ DisplayInv
=============================================================================
