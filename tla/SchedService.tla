---------------------------- MODULE SchedService ----------------------------
(***************************************************************************)
(* The scheduler implements RcpService.  A task is started when it leaves  *)
(* audioList or gfxList for the first time; a preempted task that is back  *)
(* in gfxList stays active.                                                *)
(***************************************************************************)
EXTENDS Sched

IsAudio(t) == Type[t] = "AUD"
IsOther(t) == Type[t] # "AUD"
NotStarted(t) == "YIELDED" \notin state[t]

Started(t) == \/ t \in {curRSPTask, curRDPTask, done}
              \/ "YIELDED" \in state[t]

Service == INSTANCE RcpService WITH
    askedAudio <- audioList \o SelectSeq(cmdQ, IsAudio),
    asked      <- SelectSeq(gfxList, NotStarted) \o SelectSeq(cmdQ, IsOther),
    active     <- {t \in Task : Started(t)},
    replies    <- msgQ

(* sched.c:95-129, 181-216, 246-288: the order in which tasks are started,  *)
(* which ones may overlap, and the barrier the null task is.                *)
ImplementsService == Service!ServiceSpec
=============================================================================
