------------------------------- MODULE Sched -------------------------------
(***************************************************************************)
(* The RCP task scheduler of src/src/code/sched.c: one thread that hands   *)
(* the tasks of the audio manager and of the graph thread to the signal    *)
(* processor (RSP) and the display processor (RDP), lets an audio task     *)
(* preempt a graphics task, answers each task when both processors are     *)
(* done with it, and swaps the frame buffers at the vertical retrace.      *)
(*                                                                         *)
(* The scheduler thread is a loop around osRecvMesg(&sc->interruptQ).  A   *)
(* handler is a chain of steps, pc naming the next one, because interrupts *)
(* (and the interrupt manager, whose priority is higher) can post messages *)
(* and change the displayed buffer in the middle of a handler.  The clients*)
(* run at a lower priority: they move only while the scheduler waits.      *)
(***************************************************************************)
EXTENDS Integers, Sequences, FiniteSets, QueueCount

CONSTANTS
    Task,           \* the OSScTask structures that are ever submitted
    Type,           \* the microcode type of each task, list.t.type
    Cfb,            \* the CfbInfo entries, sGraphCfbInfos
    Fb,             \* the frame buffers of sys_cfb.c
    Boot,           \* the buffer the VI shows before the first frame
    NULL,
    IntQCap,        \* capacity of interruptQ (8 in Sched_Init)
    CmdQCap,        \* capacity of cmdQ (8 in Sched_Init)
    MsgQCap,        \* capacity of the reply queue of each task
    Credit,         \* submissions of a task a client makes before it reads a reply
    MaxRate,        \* largest updateRate a frame asks for
    RetraceBacklog, \* bound: retrace messages that can be pending at once
    EntryBacklog,   \* bound: ENTRY messages that can be pending at once
    MayReset,       \* TRUE: the reset button may be pressed
    MayHang,        \* TRUE: the RCP may stop making progress
    ResetRace       \* TRUE: a task that runs for over a second may still end

Types == {"AUD", "GFX", "NJPEG", "NUL"}

ASSUME ConstantsAssumption ==
    /\ Type \in [Task -> Types]
    /\ Boot \notin Fb
    /\ NULL \notin Task /\ NULL \notin Cfb
    /\ IntQCap \in Nat /\ CmdQCap \in Nat /\ MaxRate \in Nat
    /\ MsgQCap \in [Task -> Nat] /\ Credit \in [Task -> Nat]
    /\ RetraceBacklog \in Nat /\ EntryBacklog \in Nat
    /\ MayReset \in BOOLEAN /\ MayHang \in BOOLEAN /\ ResetRace \in BOOLEAN

(* Only the audio manager submits audio tasks, and it has one structure. *)
ASSUME OneAudioTask ==
    \A t, u \in Task : Type[t] = "AUD" /\ Type[u] = "AUD" => t = u

(* The two done messages and those of the reset find room behind the rest. *)
ASSUME QueueRoom ==
    RetraceBacklog + EntryBacklog + (IF MayReset THEN 4 ELSE 2) <= IntQCap

VARIABLES
    pc,             \* the scheduler thread's next step
    done,           \* the task Sched_IsComplete is called with
    interruptQ, cmdQ, msgQ,
    audioList, gfxList, doAudio, curRSPTask, curRDPTask,
    curBuf, pendingSwapBuf1,
    state,          \* OSScTask.state of each task, a set of OS_SC_ bits
    framebuffer,    \* OSScTask.framebuffer
    swap,           \* OSScTask.flags & OS_SC_SWAPBUFFER
    swapBuffer, updateRate, updateRate2,    \* the fields of each CfbInfo
    viCurr, viNext, \* the buffers of __osViCurr and __osViNext
    rspTask,        \* the task the RSP executes
    yieldSig, yielded,  \* the RSP's yield request and SP_STATUS_YIELDED
    rdp,            \* what the RDP is doing
    frozen,         \* the RDP was frozen by func_800FBFD8
    hung,           \* the RCP stopped making progress
    sending,        \* the client has sent its task but not yet ENTRY
    owed,           \* history: submissions of each task minus replies read
    resetStatus,    \* IrqMgr.resetStatus: 0 idle, 1 PRE-NMI, 2 NMI
    failed          \* an __assert stopped the thread

queueVars == <<interruptQ, cmdQ, msgQ>>
listVars  == <<audioList, gfxList, doAudio>>
curVars   == <<curRSPTask, curRDPTask>>
bufVars   == <<curBuf, pendingSwapBuf1>>
taskVars  == <<state, framebuffer, swap>>
cfbVars   == <<swapBuffer, updateRate, updateRate2>>
viVars    == <<viCurr, viNext>>
rspVars   == <<rspTask, yieldSig, yielded>>
rdpVars   == <<rdp, frozen>>
envVars   == <<hung, sending, owed, resetStatus>>
vars == <<pc, done, queueVars, listVars, curVars, bufVars, taskVars, cfbVars,
          viVars, rspVars, rdpVars, envVars, failed>>

Messages == {"RETRACE", "ENTRY", "RSP_DONE", "RDP_DONE", "RESET", "NMI"}
Bits == {"SP", "DP", "YIELD", "YIELDED"}

NeedsRDP(t) == Type[t] \in {"GFX", "NUL"}

ThreadTyped ==
    /\ pc \in {"recv", "entry", "complete", "schedule"} /\ done \in Task \cup {NULL}
    /\ failed \in BOOLEAN
QueuesTyped ==
    /\ interruptQ \in Seq(Messages) /\ Len(interruptQ) <= IntQCap
    /\ cmdQ \in Seq(Task) /\ Len(cmdQ) <= CmdQCap
RepliesTyped ==
    /\ msgQ \in [Task -> Nat] /\ \A t \in Task : msgQ[t] <= MsgQCap[t]
    /\ owed \in [Task -> Nat] /\ \A t \in Task : owed[t] <= Credit[t]
    /\ sending \in [Task -> BOOLEAN]
ListsTyped ==
    audioList \in Seq(Task) /\ gfxList \in Seq(Task) /\ doAudio \in BOOLEAN
OwnersTyped ==
    curRSPTask \in Task \cup {NULL} /\ curRDPTask \in Task \cup {NULL}
StateTyped == state \in [Task -> SUBSET Bits]
FramesTyped ==
    /\ framebuffer \in [Task -> Cfb \cup {NULL}] /\ swap \in [Task -> BOOLEAN]
    /\ swapBuffer \in [Cfb -> Fb \cup {NULL}] /\ updateRate \in [Cfb -> 0..MaxRate]
DisplayTyped ==
    /\ curBuf \in Cfb \cup {NULL} /\ pendingSwapBuf1 \in Cfb \cup {NULL}
    /\ updateRate2 \in [Cfb -> 0..MaxRate]
    /\ viCurr \in Fb \cup {Boot} /\ viNext \in Fb \cup {Boot}
HardwareTyped ==
    /\ rspTask \in Task \cup {NULL} /\ yieldSig \in BOOLEAN /\ yielded \in BOOLEAN
    /\ rdp \in {"idle", "fed", "sync"} /\ frozen \in BOOLEAN
    /\ hung \in BOOLEAN /\ resetStatus \in 0..2

TypeOK == /\ ThreadTyped /\ QueuesTyped /\ RepliesTyped /\ ListsTyped /\ OwnersTyped
          /\ StateTyped /\ FramesTyped /\ DisplayTyped /\ HardwareTyped

Init ==
    /\ pc = "recv" /\ done = NULL
    /\ interruptQ = <<>> /\ cmdQ = <<>> /\ msgQ = [t \in Task |-> 0]
    /\ audioList = <<>> /\ gfxList = <<>> /\ doAudio = FALSE
    /\ curRSPTask = NULL /\ curRDPTask = NULL
    /\ curBuf = NULL /\ pendingSwapBuf1 = NULL
    /\ state = [t \in Task |-> {}]
    /\ framebuffer = [t \in Task |-> NULL]
    /\ swap = [t \in Task |-> FALSE]
    /\ swapBuffer = [c \in Cfb |-> NULL]
    /\ updateRate = [c \in Cfb |-> 0] /\ updateRate2 = [c \in Cfb |-> 0]
    /\ viCurr = Boot /\ viNext = Boot
    /\ rspTask = NULL /\ yieldSig = FALSE /\ yielded = FALSE
    /\ rdp = "idle" /\ frozen = FALSE /\ hung = FALSE
    /\ sending = [t \in Task |-> FALSE] /\ owed = [t \in Task |-> 0]
    /\ resetStatus = 0 /\ failed = FALSE
-----------------------------------------------------------------------------
(* The frame buffer being swapped in: osViSwapBuffer changes only the next  *)
(* VI context; the retrace makes it current.                                *)

Sched_SwapFrameBuffer(c, rates) ==
    /\ viNext' = swapBuffer[c]
    /\ updateRate2' = [rates EXCEPT ![c] = updateRate[c]]

NoSwap(rates) == updateRate2' = rates /\ viNext' = viNext

(* Mutants of func_800C89D4: one of its two conditions is forgotten.        *)
func_800C89D4_AnyVi(t) == pendingSwapBuf1 = NULL
func_800C89D4_AnyPending(t) == viCurr # swapBuffer[framebuffer[t]]

(* The frame buffer of a task is free when no swap is pending and the VI    *)
(* does not show it.  pendingSwapBuf2 is never anything but NULL.           *)
func_800C89D4(t) ==
    /\ pendingSwapBuf1 = NULL
    /\ viCurr # swapBuffer[framebuffer[t]]

func_800C8BC4(t) ==
    IF pendingSwapBuf1 = NULL
    THEN /\ pendingSwapBuf1' = framebuffer[t]
         /\ IF curBuf = NULL \/ updateRate2[curBuf] < 1
            THEN Sched_SwapFrameBuffer(framebuffer[t], updateRate2)
            ELSE NoSwap(updateRate2)
    ELSE pendingSwapBuf1' = pendingSwapBuf1 /\ NoSwap(updateRate2)

-----------------------------------------------------------------------------
(* The scheduler thread.                                                    *)

Recv(m) ==
    /\ pc = "recv"
    /\ interruptQ # <<>> /\ Head(interruptQ) = m
    /\ interruptQ' = Tail(interruptQ)

Assert_Fails ==
    /\ failed' = TRUE
    /\ UNCHANGED <<pc, done, cmdQ, msgQ, listVars, curVars, bufVars, taskVars,
                   cfbVars, viVars, rspVars, rdpVars, envVars>>

RecvEntry ==
    /\ Recv("ENTRY")
    /\ pc' = "entry"
    /\ UNCHANGED <<done, cmdQ, msgQ, listVars, curVars, bufVars, taskVars,
                   cfbVars, viVars, rspVars, rdpVars, envVars, failed>>

(* Mutants: a graphics task is queued at the head; doAudio is not set.      *)
Sched_QueueTask_AtHead(t) ==
    /\ gfxList' = IF Type[t] = "AUD" THEN gfxList ELSE <<t>> \o gfxList
    /\ audioList' = IF Type[t] = "AUD" THEN Append(audioList, t) ELSE audioList
    /\ doAudio' = (doAudio \/ Type[t] = "AUD")
    /\ state' = [state EXCEPT ![t] = IF NeedsRDP(t) THEN {"SP", "DP"} ELSE {"SP"}]

Sched_QueueTask_NoFlag(t) ==
    /\ gfxList' = IF Type[t] = "AUD" THEN gfxList ELSE Append(gfxList, t)
    /\ audioList' = IF Type[t] = "AUD" THEN Append(audioList, t) ELSE audioList
    /\ doAudio' = doAudio
    /\ state' = [state EXCEPT ![t] = IF NeedsRDP(t) THEN {"SP", "DP"} ELSE {"SP"}]

Sched_QueueTask(t) ==
    /\ IF Type[t] = "AUD"
       THEN /\ audioList' = Append(audioList, t)
            /\ doAudio' = TRUE
            /\ gfxList' = gfxList
       ELSE /\ gfxList' = Append(gfxList, t)
            /\ UNCHANGED <<audioList, doAudio>>
    /\ state' = [state EXCEPT ![t] = IF NeedsRDP(t) THEN {"SP", "DP"} ELSE {"SP"}]

(* One turn of the loop that empties cmdQ in Sched_HandleEntry. *)
DrainCmdQ ==
    /\ pc = "entry" /\ cmdQ # <<>>
    /\ cmdQ' = Tail(cmdQ)
    /\ Sched_QueueTask(Head(cmdQ))
    /\ UNCHANGED <<pc, done, interruptQ, msgQ, curVars, bufVars, framebuffer, swap,
                   cfbVars, viVars, rspVars, rdpVars, envVars, failed>>

Sched_Yield ==
    /\ pc = "entry" /\ cmdQ = <<>> /\ doAudio /\ curRSPTask # NULL
    /\ IF "YIELD" \in state[curRSPTask]
       THEN pc' = "recv" /\ UNCHANGED <<state, yieldSig, failed>>
       ELSE IF Type[curRSPTask] = "AUD"
       THEN failed' = TRUE /\ UNCHANGED <<pc, state, yieldSig>>
       ELSE /\ state' = [state EXCEPT ![curRSPTask] = @ \cup {"YIELD"}]
            /\ yieldSig' = TRUE
            /\ pc' = "recv" /\ UNCHANGED failed
    /\ UNCHANGED <<done, queueVars, listVars, curVars, bufVars, framebuffer, swap,
                   cfbVars, viVars, rspTask, yielded, rdpVars, envVars>>

(* Sched_HandleRetrace up to its call of Sched_HandleEntry. *)
Sched_HandleRetrace ==
    LET shown == pendingSwapBuf1 # NULL /\ viCurr = swapBuffer[pendingSwapBuf1]
        buf   == IF shown THEN pendingSwapBuf1 ELSE curBuf
        pend  == IF shown THEN NULL ELSE pendingSwapBuf1
        rates == IF buf # NULL /\ updateRate2[buf] > 0
                 THEN [updateRate2 EXCEPT ![buf] = @ - 1] ELSE updateRate2
    IN  /\ Recv("RETRACE")
        /\ curBuf' = buf /\ pendingSwapBuf1' = pend
        /\ IF buf # NULL /\ pend # NULL /\ rates[buf] <= 0
           THEN Sched_SwapFrameBuffer(pend, rates)
           ELSE NoSwap(rates)
        /\ pc' = "entry"
        /\ UNCHANGED <<done, cmdQ, msgQ, listVars, curVars, taskVars, swapBuffer,
                       updateRate, viCurr, rspVars, rdpVars, envVars, failed>>

Sched_HandleRSPDone ==
    /\ Recv("RSP_DONE")
    /\ IF curRSPTask = NULL
       THEN Assert_Fails
       ELSE /\ curRSPTask' = NULL
            /\ IF "YIELD" \in state[curRSPTask] /\ yielded
               THEN /\ state' = [state EXCEPT ![curRSPTask] = @ \cup {"YIELDED"}]
                    /\ gfxList' = <<curRSPTask>> \o gfxList
                    /\ pc' = "schedule" /\ done' = done
               ELSE /\ state' = [state EXCEPT ![curRSPTask] = @ \ {"SP"}]
                    /\ gfxList' = gfxList
                    /\ pc' = "complete" /\ done' = curRSPTask
            /\ UNCHANGED <<cmdQ, msgQ, audioList, doAudio, curRDPTask, bufVars,
                           framebuffer, swap, cfbVars, viVars, rspVars, rdpVars,
                           envVars, failed>>

Sched_HandleRDPDone ==
    /\ Recv("RDP_DONE")
    /\ IF curRDPTask = NULL \/ (curRDPTask # NULL /\ Type[curRDPTask] # "GFX")
       THEN Assert_Fails
       ELSE /\ curRDPTask' = NULL
            /\ state' = [state EXCEPT ![curRDPTask] = @ \ {"DP"}]
            /\ pc' = "complete" /\ done' = curRDPTask
            /\ UNCHANGED <<cmdQ, msgQ, listVars, curRSPTask, bufVars, framebuffer,
                           swap, cfbVars, viVars, rspVars, rdpVars, envVars, failed>>

(* Mutant: the time limit is too short for the events to be handled.        *)
MayBeLate_TooSoon == ResetRace \/ hung

(* A task is over a second old.  Without ResetRace only a task that hangs   *)
(* gets that old, and its events, if any, were handled long ago.            *)
MayBeLate ==
    \/ ResetRace
    \/ /\ hung
       /\ Count(interruptQ, "RSP_DONE") = 0 /\ Count(interruptQ, "RDP_DONE") = 0

(* A message posted with OS_MESG_NOBLOCK is dropped when the queue is full. *)
Send(q, m) == IF Len(q) < IntQCap THEN Append(q, m) ELSE q

(* A graphics task that has run for more than a second is stopped           *)
(* (func_800FBFD8 halts the RSP and freezes the RDP) and its two done       *)
(* messages are made up.                                                    *)
Sched_HandleReset ==
    /\ pc = "recv"
    /\ interruptQ # <<>> /\ Head(interruptQ) = "RESET"
    /\ \/ /\ interruptQ' = Tail(interruptQ)
          /\ UNCHANGED <<rspTask, hung, frozen>>
       \/ /\ curRSPTask # NULL /\ framebuffer[curRSPTask] # NULL /\ MayBeLate
          /\ LET q == Send(Tail(interruptQ), "RSP_DONE")
             IN  interruptQ' = IF curRDPTask # NULL THEN Send(q, "RDP_DONE") ELSE q
          /\ rspTask' = NULL /\ frozen' = TRUE /\ hung' = FALSE
    /\ UNCHANGED <<pc, done, cmdQ, msgQ, listVars, curVars, bufVars, taskVars,
                   cfbVars, viVars, yieldSig, yielded, rdp, sending, owed, resetStatus, failed>>

(* Sched_HandleStart changes only the video mode. *)
Sched_HandleStart ==
    /\ Recv("NMI")
    /\ UNCHANGED <<pc, done, cmdQ, msgQ, listVars, curVars, bufVars, taskVars,
                   cfbVars, viVars, rspVars, rdpVars, envVars, failed>>

(* The null task needs no processor: it is complete as soon as both are     *)
(* free, and the handler ends without scheduling another task.              *)
AfterComplete == IF Type[done] = "NUL" THEN "recv" ELSE "schedule"

(* Mutants: the bits of one processor only are looked at.                   *)
Completes_SpOnly(t) == "SP" \notin state[t]
Completes_DpOnly(t) == "DP" \notin state[t]

Completes(t) == state[t] \cap {"SP", "DP"} = {}

(* Mutant: the reply is sent whether or not there is room for it.           *)
Blocked_Never == FALSE

Blocked == pc = "complete" /\ Completes(done) /\ msgQ[done] >= MsgQCap[done]

Sched_IsComplete ==
    /\ pc = "complete" /\ ~Blocked
    /\ IF Completes(done)
       THEN /\ msgQ' = [msgQ EXCEPT ![done] = @ + 1]
            /\ IF swap[done] THEN func_800C8BC4(done)
               ELSE UNCHANGED pendingSwapBuf1 /\ NoSwap(updateRate2)
       ELSE UNCHANGED <<msgQ, pendingSwapBuf1>> /\ NoSwap(updateRate2)
    /\ pc' = AfterComplete /\ done' = NULL
    /\ UNCHANGED <<interruptQ, cmdQ, listVars, curVars, curBuf, taskVars,
                   swapBuffer, updateRate, viCurr, rspVars, rdpVars, envVars, failed>>

(* Every handler ends with Sched_Schedule and, if it takes a task from a    *)
(* list, Sched_RunTask.                                                     *)
Scheduling ==
    \/ pc = "schedule"
    \/ pc = "entry" /\ cmdQ = <<>> /\ ~(doAudio /\ curRSPTask # NULL)

(* Mutant: audio does not wait for the RSP.                                 *)
PickAudio_RspBusy == doAudio

PickAudio == doAudio /\ curRSPTask = NULL

(* Mutant: a preempted task is treated as a new one.                        *)
Resumable_NoYielded(t) == ~NeedsRDP(t)

Resumable(t) == "YIELDED" \in state[t] \/ ~NeedsRDP(t)

PickResume ==
    /\ ~PickAudio /\ gfxList # <<>> /\ curRSPTask = NULL
    /\ Resumable(Head(gfxList))

(* Mutant: a task is started although the RDP still draws.                  *)
PickStart_RdpBusy ==
    /\ ~PickAudio /\ gfxList # <<>> /\ curRSPTask = NULL
    /\ ~Resumable(Head(gfxList))
    /\ framebuffer[Head(gfxList)] # NULL => func_800C89D4(Head(gfxList))

PickStart ==
    /\ ~PickAudio /\ gfxList # <<>> /\ curRSPTask = NULL /\ curRDPTask = NULL
    /\ ~Resumable(Head(gfxList))
    /\ framebuffer[Head(gfxList)] # NULL => func_800C89D4(Head(gfxList))

(* osSpTaskLoad clears the yield signals, osSpTaskStartGo starts the RSP. *)
StartRsp(t) ==
    /\ curRSPTask' = t
    /\ rspTask' = t /\ yieldSig' = FALSE /\ yielded' = FALSE
    /\ state' = [state EXCEPT ![t] = @ \ {"YIELD", "YIELDED"}]
    /\ pc' = "recv" /\ done' = done

ScheduleAudio ==
    /\ Scheduling /\ PickAudio
    /\ audioList' = Tail(audioList) /\ doAudio' = FALSE
    /\ StartRsp(Head(audioList))
    /\ UNCHANGED <<queueVars, gfxList, curRDPTask, bufVars, framebuffer, swap,
                   cfbVars, viVars, rdpVars, envVars, failed>>

ScheduleResume ==
    /\ Scheduling /\ PickResume
    /\ gfxList' = Tail(gfxList)
    /\ StartRsp(Head(gfxList))
    /\ UNCHANGED <<queueVars, audioList, doAudio, curRDPTask, bufVars, framebuffer,
                   swap, cfbVars, viVars, rdpVars, envVars, failed>>

ScheduleStart ==
    /\ Scheduling /\ PickStart
    /\ gfxList' = Tail(gfxList)
    /\ IF Type[Head(gfxList)] = "NUL"
       THEN /\ state' = [state EXCEPT ![Head(gfxList)] = @ \ {"SP", "DP"}]
            /\ pc' = "complete" /\ done' = Head(gfxList)
            /\ UNCHANGED <<curVars, rspVars, rdp>>
       ELSE /\ StartRsp(Head(gfxList))
            /\ curRDPTask' = Head(gfxList) /\ rdp' = "fed"
    /\ UNCHANGED <<queueVars, audioList, doAudio, bufVars, framebuffer, swap,
                   cfbVars, viVars, frozen, envVars, failed>>

ScheduleNone ==
    /\ Scheduling /\ ~PickAudio /\ ~PickResume /\ ~PickStart
    /\ pc' = "recv"
    /\ UNCHANGED <<done, queueVars, listVars, curVars, bufVars, taskVars, cfbVars,
                   viVars, rspVars, rdpVars, envVars, failed>>

SchedThread ==
    \/ RecvEntry \/ DrainCmdQ \/ Sched_Yield
    \/ Sched_HandleRetrace \/ Sched_HandleRSPDone \/ Sched_HandleRDPDone
    \/ Sched_HandleReset \/ Sched_HandleStart \/ Sched_IsComplete
    \/ ScheduleAudio \/ ScheduleResume \/ ScheduleStart \/ ScheduleNone
-----------------------------------------------------------------------------
(* The hardware.  Each event is a message in interruptQ.                    *)

RspFinish ==
    /\ rspTask # NULL /\ ~hung
    /\ Type[rspTask] = "GFX" => rdp # "fed"
    /\ rspTask' = NULL
    /\ interruptQ' = Send(interruptQ, "RSP_DONE")
    /\ UNCHANGED <<pc, done, cmdQ, msgQ, listVars, curVars, bufVars, taskVars,
                   cfbVars, viVars, yieldSig, yielded, rdpVars, envVars, failed>>

(* The graphics microcode saves its state between two commands and stops.   *)
RspYield ==
    /\ rspTask # NULL /\ ~hung /\ yieldSig
    /\ Type[rspTask] \in {"GFX", "NJPEG"}
    /\ rspTask' = NULL /\ yielded' = TRUE
    /\ interruptQ' = Send(interruptQ, "RSP_DONE")
    /\ UNCHANGED <<pc, done, cmdQ, msgQ, listVars, curVars, bufVars, taskVars,
                   cfbVars, viVars, yieldSig, rdpVars, envVars, failed>>

(* The display list ends with gDPFullSync: the RDP interrupts after it.     *)
RspFullSync ==
    /\ rspTask # NULL /\ ~hung /\ Type[rspTask] = "GFX" /\ rdp = "fed"
    /\ rdp' = "sync"
    /\ UNCHANGED <<pc, done, queueVars, listVars, curVars, bufVars, taskVars,
                   cfbVars, viVars, rspVars, frozen, envVars, failed>>

RdpFinish ==
    /\ rdp = "sync" /\ ~hung /\ ~frozen
    /\ rdp' = "idle"
    /\ interruptQ' = Send(interruptQ, "RDP_DONE")
    /\ UNCHANGED <<pc, done, cmdQ, msgQ, listVars, curVars, bufVars, taskVars,
                   cfbVars, viVars, rspVars, frozen, envVars, failed>>

Hang ==
    /\ MayHang /\ ~hung /\ ~frozen
    /\ rspTask # NULL /\ Type[rspTask] = "GFX"
    /\ hung' = TRUE
    /\ UNCHANGED <<pc, done, queueVars, listVars, curVars, bufVars, taskVars,
                   cfbVars, viVars, rspVars, rdpVars, sending, owed, resetStatus,
                   failed>>

(* The VI manager swaps its contexts and the interrupt manager forwards the *)
(* retrace, both at a higher priority than the scheduler.                   *)
ViRetrace ==
    /\ Count(interruptQ, "RETRACE") < RetraceBacklog
    /\ viCurr' = viNext
    /\ interruptQ' = Send(interruptQ, "RETRACE")
    /\ UNCHANGED <<pc, done, cmdQ, msgQ, listVars, curVars, bufVars, taskVars,
                   cfbVars, viNext, rspVars, rdpVars, hung, sending, owed, resetStatus, failed>>

PreNmi ==
    /\ MayReset /\ resetStatus = 0
    /\ resetStatus' = 1
    /\ interruptQ' = Send(interruptQ, "RESET")
    /\ UNCHANGED <<pc, done, cmdQ, msgQ, listVars, curVars, bufVars, taskVars,
                   cfbVars, viVars, rspVars, rdpVars, hung, sending, owed, failed>>

(* 450 ms after the reset button, the interrupt manager's second message.   *)
Nmi ==
    /\ resetStatus = 1
    /\ resetStatus' = 2
    /\ interruptQ' = Send(interruptQ, "NMI")
    /\ UNCHANGED <<pc, done, cmdQ, msgQ, listVars, curVars, bufVars, taskVars,
                   cfbVars, viVars, rspVars, rdpVars, hung, sending, owed, failed>>

Hardware == RspFinish \/ RspYield \/ RspFullSync \/ RdpFinish \/ Hang
            \/ ViRetrace \/ PreNmi \/ Nmi
-----------------------------------------------------------------------------
(* The clients.  A client fills in its task, sends it to cmdQ and then      *)
(* ENTRY to interruptQ; it may do so again once the scheduler is done with  *)
(* the structure, before it has read the reply, as the audio manager does.  *)
(* Sending its own reply queue a message (ClientPrime) is how the audio     *)
(* manager and GameState_Init start the protocol.                           *)

SchedWaits == (pc = "recv" /\ interruptQ = <<>>) \/ Blocked

InCmdQ(t) == \E i \in DOMAIN cmdQ : cmdQ[i] = t

InProgress(t) == InCmdQ(t) \/ ~Completes(t) \/ done = t

(* The CfbInfo entries that a client must not overwrite. *)
CfbInUse == {pendingSwapBuf1} \cup {framebuffer[u] : u \in {v \in Task : InProgress(v)}}

FillGfx(t, c, b, rate, s) ==
    /\ framebuffer' = [framebuffer EXCEPT ![t] = c]
    /\ swap' = [swap EXCEPT ![t] = s]
    /\ swapBuffer' = [swapBuffer EXCEPT ![c] = b]
    /\ updateRate' = [updateRate EXCEPT ![c] = rate]

FillOther == UNCHANGED <<framebuffer, swap, swapBuffer, updateRate>>

SendCmd(t) ==
    /\ SchedWaits /\ ~sending[t] /\ Len(cmdQ) < CmdQCap
    /\ cmdQ' = Append(cmdQ, t)
    /\ sending' = [sending EXCEPT ![t] = TRUE]
    /\ owed' = [owed EXCEPT ![t] = @ + 1]
    /\ UNCHANGED <<pc, done, interruptQ, msgQ, listVars, curVars, bufVars, state,
                   updateRate2, viVars, rspVars, rdpVars, hung, resetStatus, failed>>

(* What the scheduler needs of its clients: a task is not handed over while *)
(* it is in progress, nor a CfbInfo that is in use.                         *)
ClientSubmit(t) ==
    /\ ~InProgress(t) /\ owed[t] < Credit[t]
    /\ SendCmd(t)
    /\ IF Type[t] = "GFX"
       THEN \E c \in Cfb \ CfbInUse, b \in Fb, rate \in 1..MaxRate, s \in BOOLEAN :
                FillGfx(t, c, b, rate, s)
       ELSE FillOther

Sched_SendEntryMsg(t) ==
    /\ SchedWaits /\ sending[t]
    /\ Len(interruptQ) < IntQCap /\ Count(interruptQ, "ENTRY") < EntryBacklog
    /\ interruptQ' = Append(interruptQ, "ENTRY")
    /\ sending' = [sending EXCEPT ![t] = FALSE]
    /\ UNCHANGED <<pc, done, cmdQ, msgQ, listVars, curVars, bufVars, taskVars,
                   cfbVars, viVars, rspVars, rdpVars, hung, owed, resetStatus, failed>>

ClientReceive(t) ==
    /\ SchedWaits /\ ~sending[t] /\ msgQ[t] > 0
    /\ msgQ' = [msgQ EXCEPT ![t] = @ - 1]
    /\ owed' = [owed EXCEPT ![t] = @ - 1]
    /\ UNCHANGED <<pc, done, interruptQ, cmdQ, listVars, curVars, bufVars, taskVars,
                   cfbVars, viVars, rspVars, rdpVars, hung, sending, resetStatus,
                   failed>>

ClientPrime(t) ==
    /\ SchedWaits /\ ~sending[t] /\ owed[t] = 0 /\ Credit[t] > 0 /\ MsgQCap[t] > 0
    /\ msgQ' = [msgQ EXCEPT ![t] = @ + 1]
    /\ owed' = [owed EXCEPT ![t] = @ + 1]
    /\ UNCHANGED <<pc, done, interruptQ, cmdQ, listVars, curVars, bufVars, taskVars,
                   cfbVars, viVars, rspVars, rdpVars, hung, sending, resetStatus,
                   failed>>

Clients == \E t \in Task : \/ ClientSubmit(t) \/ Sched_SendEntryMsg(t)
                           \/ ClientReceive(t) \/ ClientPrime(t)

Next == ~failed /\ (SchedThread \/ Hardware \/ Clients)

Spec == Init /\ [][Next]_vars
-----------------------------------------------------------------------------
(* Properties *)

(* sched.c:354-432: a done interrupt is neither lost nor handled twice.  A  *)
(* processor's done message is queued exactly when the scheduler counts the *)
(* processor as owned and the hardware has stopped; a task the RSP executes *)
(* is always the task the scheduler believes it executes.                   *)
EventsMatchOwners ==
    /\ Count(interruptQ, "RSP_DONE") =
           IF curRSPTask # NULL /\ rspTask = NULL THEN 1 ELSE 0
    /\ rspTask # NULL => rspTask = curRSPTask
    /\ ~frozen => Count(interruptQ, "RDP_DONE") =
                      IF curRDPTask # NULL /\ rdp = "idle" THEN 1 ELSE 0
    /\ rdp # "idle" /\ ~frozen => curRDPTask # NULL

(* The assertions of Sched_Yield, Sched_HandleRSPDone, Sched_HandleRDPDone  *)
(* (sched.c:133, 362, 415, 418) never fail.                                 *)
NoAssertFails == ~failed

(* Sched_IsComplete (sched.c:230-244) answers a task exactly when no        *)
(* processor owes it work any more: every submission gets one reply, which  *)
(* is never early, never sent twice and never lost.                         *)
OneReplyEach ==
    \A t \in Task : owed[t] = msgQ[t] + (IF InProgress(t) THEN 1 ELSE 0)

(* The scheduler waits in osSendMesg for room in a reply queue              *)
(* (sched.c:233), unable to answer interrupts, only for a client that has   *)
(* more submissions outstanding than its queue holds replies.               *)
NeverBlocked == Blocked => Credit[done] > MsgQCap[done]

(* Each unanswered task is in one place only, and the RSP part of its work  *)
(* is pending exactly while it is there: tasks are not lost between the     *)
(* queue, the lists and the RSP, and no list holds one twice.               *)
Places(t) == Count(cmdQ, t) + Count(audioList, t) + Count(gfxList, t)
             + (IF curRSPTask = t THEN 1 ELSE 0)
OnePlace ==
    \A t \in Task : Places(t) = IF InCmdQ(t) \/ "SP" \in state[t] THEN 1 ELSE 0

(* func_800C89D4 (sched.c:147-179): while the RDP draws a frame, the VI     *)
(* neither shows that frame buffer nor is about to.                         *)
NoTearing ==
    curRDPTask # NULL /\ framebuffer[curRDPTask] # NULL =>
        swapBuffer[framebuffer[curRDPTask]] \notin {viCurr, viNext}

(* func_800C8BC4 (sched.c:218-228) ignores a finished frame when another    *)
(* one is pending; that never happens, every finished frame is shown.       *)
NoFrameDropped ==
    pc = "complete" /\ Completes(done) /\ swap[done] => pendingSwapBuf1 = NULL

(* A preempted task goes back to the head of gfxList (sched.c:383-388) and  *)
(* stays there: nothing but audio runs before it is resumed.                *)
YieldedFirst ==
    \A i \in DOMAIN gfxList : "YIELDED" \in state[gfxList[i]] => i = 1

(* The assertion of Sched_Yield (sched.c:133): the task asked to yield is   *)
(* not an audio task.                                                       *)
YieldAssertion ==
    pc = "entry" /\ cmdQ = <<>> /\ doAudio /\ curRSPTask # NULL =>
        "YIELD" \in state[curRSPTask] \/ Type[curRSPTask] # "AUD"

(* The assertion of Sched_HandleRSPDone (sched.c:362): a done message of    *)
(* the RSP is about the current task.                                       *)
RspDoneAssertion ==
    pc = "recv" /\ interruptQ # <<>> /\ Head(interruptQ) = "RSP_DONE" =>
        curRSPTask # NULL
=============================================================================
