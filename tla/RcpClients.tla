----------------------------- MODULE RcpClients -----------------------------
(***************************************************************************)
(* The two threads that give the scheduler its tasks, composed with it:    *)
(* the graph thread of src/src/code/graph.c (with game.c, z_play.c,        *)
(* z_msgevent.c and z_jpeg.c, which it calls) and the audio manager of     *)
(* src/src/code/audioMgr.c.  A step of theirs is a client step of Sched    *)
(* with the arguments the code gives it, or leaves the scheduler alone.    *)
(* Both have a lower priority than the scheduler, hence SchedWaits.        *)
(***************************************************************************)
EXTENDS Sched, FiniteSetsExt

CONSTANTS
    gfx,            \* GraphicsContext.task
    aud,            \* AudioMgr.unk_8
    jpeg,           \* JpegContext.scTask
    null,           \* the task of MsgEvent_SendNullTask
    CfbRing,        \* sGraphCfbInfos, a sequence
    FbPtr,          \* sSysCfbFbPtr, a sequence of the two frame buffers
    AudioQCap,      \* capacity of AudioMgr.unk_74 (8)
    MayTimeOut,     \* TRUE: three seconds may pass before a frame is answered
    MayOverflow,    \* TRUE: a display list may outgrow its buffer
    MayTakePicture, \* TRUE: there are pauses and transitions
    SlowAudio       \* TRUE: an audio task may take longer than a frame

ASSUME ClientsAssumption ==
    /\ gfx \in Task /\ Type[gfx] = "GFX"
    /\ aud \in Task => Type[aud] = "AUD"
    /\ jpeg \in Task => Type[jpeg] = "NJPEG"
    /\ null \in Task => Type[null] = "NUL"
    /\ CfbRing \in Seq(Cfb) /\ Len(CfbRing) > 1
    /\ \A i, j \in DOMAIN CfbRing : CfbRing[i] = CfbRing[j] => i = j
    /\ \A t \in Task : Credit[t] >= IF t = aud THEN 2 ELSE 1
    /\ FbPtr \in Seq(Fb) /\ Len(FbPtr) = 2
    /\ MaxRate > 0 /\ AudioQCap \in Nat
    /\ MayTimeOut \in BOOLEAN /\ MayOverflow \in BOOLEAN
    /\ MayTakePicture \in BOOLEAN /\ SlowAudio \in BOOLEAN

VARIABLES
    gpc,            \* the graph thread's next step
    fbIdx,          \* gfxCtx->fbIdx % 2
    cfbIdx,         \* sGraphCfbInfoIdx
    noSwap,         \* SREG(33) & 1
    pausing,        \* R_PAUSE_MENU_MODE = 2
    cvgSave,        \* preRenderCtx.cvgSave: where a picture was taken
    timer,          \* the timer of Graph_TaskSet00 is set
    timeoutAt,      \* replies ahead of the message 666 in gfxCtx->queue, or -1
    late,           \* history: the timer ran out before the reply
    apc,            \* the audio manager's next step
    retraces,       \* messages in AudioMgr.unk_74
    audioTask       \* AudioMgr.unk_70 is not NULL

graphVars == <<gpc, fbIdx, cfbIdx, noSwap, pausing, cvgSave>>
timerVars == <<timer, timeoutAt, late>>
audioVars == <<apc, retraces, audioTask>>
clientVars == <<vars, graphVars, timerVars, audioVars>>

ClientsInit ==
    /\ Init
    /\ gpc = "init" /\ fbIdx = 0 /\ cfbIdx = 0 /\ noSwap = FALSE
    /\ pausing = FALSE /\ cvgSave = NULL
    /\ timer = FALSE /\ timeoutAt = -1 /\ late = FALSE
    /\ apc = "prime" /\ retraces = 0 /\ audioTask = FALSE

curFrameBuffer == FbPtr[fbIdx + 1]
-----------------------------------------------------------------------------
(* The graph thread outside Graph_TaskSet00.  The audio manager, whose      *)
(* priority is higher, does not wait between its two sends to the scheduler.*)

Graph_Goto(from, to) ==
    SchedWaits /\ apc # "entry" /\ gpc = from /\ gpc' = to

GraphKeeps == UNCHANGED <<fbIdx, cfbIdx, noSwap, pausing, cvgSave, timerVars, audioVars>>

(* GameState_Init ends by giving the first frame a reply to read.           *)
GameState_Init ==
    /\ Graph_Goto("init", "update") /\ ClientPrime(gfx) /\ GraphKeeps

(* Gameplay_Draw, first part.  MsgEvent_SendNullTask waits until both       *)
(* processors are idle, before PreRender_Calc reads a picture and before    *)
(* Jpeg_Decode uses the output buffer of the graphics task as work buffer.  *)
MsgEvent_SendNullTask ==
    /\ null \in Task
    /\ Graph_Goto("update", "nullEntry")
    /\ SendCmd(null) /\ FillOther /\ GraphKeeps

MsgEvent_Entry ==
    Graph_Goto("nullEntry", "nullRecv") /\ Sched_SendEntryMsg(null) /\ GraphKeeps

MsgEvent_Recv ==
    /\ Graph_Goto("nullRecv", IF pausing THEN "prerender" ELSE "decode")
    /\ ClientReceive(null) /\ GraphKeeps

PreRender_Calc ==
    /\ Graph_Goto("prerender", "draw") /\ pausing' = FALSE
    /\ UNCHANGED <<vars, fbIdx, cfbIdx, noSwap, cvgSave, timerVars, audioVars>>

(* Jpeg_Decode sends one task after another and reads each reply.           *)
Jpeg_SendTask ==
    /\ jpeg \in Task
    /\ Graph_Goto("decode", "jpegEntry")
    /\ SendCmd(jpeg) /\ FillOther /\ GraphKeeps

Jpeg_Entry ==
    Graph_Goto("jpegEntry", "jpegRecv") /\ Sched_SendEntryMsg(jpeg) /\ GraphKeeps

Jpeg_Recv ==
    Graph_Goto("jpegRecv", "decode") /\ ClientReceive(jpeg) /\ GraphKeeps

(* The rest of the frame.  It may take a picture of itself, for the pause   *)
(* menu or for a transition, and is then not to be shown.                   *)
Gameplay_Draw(takesPicture) ==
    /\ noSwap' = (noSwap \/ takesPicture)
    /\ \E pause \in {FALSE, takesPicture /\ null \in Task} :
           /\ pausing' = pause
           /\ cvgSave' = IF pause THEN curFrameBuffer ELSE cvgSave

Drawing == \/ gpc \in {"draw", "decode"}
           \/ gpc = "update" /\ ~pausing

(* Graph_Update ends with Graph_TaskSet00, which sets a timer before it     *)
(* waits for the reply to the previous frame, ...                           *)
TaskSet_SetTimer ==
    /\ Drawing /\ Graph_Goto(gpc, "wait")
    /\ \E takesPicture \in {FALSE, MayTakePicture} : Gameplay_Draw(takesPicture)
    /\ timer' = TRUE /\ late' = FALSE
    /\ UNCHANGED <<vars, fbIdx, cfbIdx, timeoutAt, audioVars>>

(* ... unless the display lists overflowed.                                 *)
Graph_Problem ==
    /\ MayOverflow /\ Drawing /\ Graph_Goto(gpc, "update")
    /\ \E takesPicture \in {FALSE, MayTakePicture} : Gameplay_Draw(takesPicture)
    /\ UNCHANGED <<vars, fbIdx, cfbIdx, timerVars, audioVars>>

(* A state that runs no longer is destroyed once the last frame is answered.*)
GameState_Destroy ==
    /\ \/ Graph_Goto("update", "init") \/ Graph_Goto("update", "end")
    /\ ClientReceive(gfx)
    /\ pausing' = FALSE
    /\ UNCHANGED <<fbIdx, cfbIdx, noSwap, cvgSave, timerVars, audioVars>>
-----------------------------------------------------------------------------
(* Graph_TaskSet00 after osSetTimer.  The timer's message 666 and the reply *)
(* to the previous frame come to the same queue.                            *)

RunsOut ==
    /\ MayTimeOut /\ timer
    /\ timer' = FALSE
    /\ timeoutAt' = IF msgQ[gfx] < MsgQCap[gfx] THEN msgQ[gfx] ELSE -1

TimerExpires ==
    /\ RunsOut
    /\ late' = (gpc = "wait" /\ msgQ[gfx] = 0)
    /\ UNCHANGED <<vars, graphVars, audioVars>>

(* osRecvMesg with OS_MESG_BLOCK, when a reply is at the head.              *)
TaskSet_Recv ==
    /\ timeoutAt # 0 /\ Graph_Goto("wait", "stop") /\ ClientReceive(gfx)
    /\ timeoutAt' = IF timeoutAt > 0 THEN timeoutAt - 1 ELSE timeoutAt
    /\ UNCHANGED <<fbIdx, cfbIdx, noSwap, pausing, cvgSave, timer, late, audioVars>>

(* "RCP is HUNG UP!!" *)
TaskSet_HungUp ==
    /\ timeoutAt = 0 /\ Graph_Goto("wait", "hungup")
    /\ timeoutAt' = -1 /\ timer' = FALSE
    /\ UNCHANGED <<vars, fbIdx, cfbIdx, noSwap, pausing, cvgSave, late, audioVars>>

(* osStopTimer finds the timer set, which then runs out before interrupts   *)
(* are disabled: the thread ends in an exception (OsTimers).                *)
TaskSet_StopFaults ==
    /\ Graph_Goto("stop", "fault") /\ RunsOut
    /\ UNCHANGED <<vars, fbIdx, cfbIdx, noSwap, pausing, cvgSave, late, audioVars>>

(* Mutant: the queue is not drained.                                        *)
Drained_Not == timeoutAt

(* The drain removes the message at the head of the queue.                  *)
Drained == IF timeoutAt = -1 THEN -1 ELSE timeoutAt - 1

(* osStopTimer, then osRecvMesg with OS_MESG_NOBLOCK: it removes the        *)
(* message 666 of a timer that ran out after the reply came.                *)
TaskSet_Drain ==
    /\ Graph_Goto("stop", "fill")
    /\ timer' = FALSE
    /\ timeoutAt' = Drained
    /\ IF timeoutAt # 0 /\ msgQ[gfx] > 0 THEN ClientReceive(gfx) ELSE UNCHANGED vars
    /\ UNCHANGED <<fbIdx, cfbIdx, noSwap, pausing, cvgSave, late, audioVars>>

(* Mutants of the three definitions below: the ring of CfbInfo entries is   *)
(* not advanced; a picture is shown; a picture takes a turn.                *)
NextCfb_Same == cfbIdx
Shown_Always == TRUE
FbIdxSent_NextTurn == fbIdx

NextCfb == (cfbIdx + 1) % Len(CfbRing)

(* OS_SC_SWAPBUFFER *)
Shown == ~noSwap

FbIdxSent == IF noSwap THEN 1 - fbIdx ELSE fbIdx

TaskSet_Send ==
    /\ Graph_Goto("fill", "entry")
    /\ \E rate \in 1..MaxRate :
           FillGfx(gfx, CfbRing[cfbIdx + 1], curFrameBuffer, rate, Shown)
    /\ SendCmd(gfx)
    /\ fbIdx' = FbIdxSent
    /\ noSwap' = FALSE
    /\ cfbIdx' = NextCfb
    /\ UNCHANGED <<pausing, cvgSave, timerVars, audioVars>>

TaskSet_Entry ==
    /\ Graph_Goto("entry", "update") /\ Sched_SendEntryMsg(gfx)
    /\ fbIdx' = 1 - fbIdx
    /\ UNCHANGED <<cfbIdx, noSwap, pausing, cvgSave, timerVars, audioVars>>

Graph_Update ==
    \/ MsgEvent_SendNullTask \/ MsgEvent_Entry \/ MsgEvent_Recv \/ PreRender_Calc
    \/ Jpeg_SendTask \/ Jpeg_Entry \/ Jpeg_Recv
    \/ TaskSet_SetTimer \/ Graph_Problem

Graph_TaskSet00 ==
    \/ TaskSet_Recv \/ TaskSet_HungUp \/ TaskSet_StopFaults \/ TaskSet_Drain
    \/ TaskSet_Send \/ TaskSet_Entry

GraphThread ==
    GameState_Init \/ Graph_Update \/ Graph_TaskSet00 \/ GameState_Destroy
-----------------------------------------------------------------------------
(* The audio manager.                                                       *)

Audio_Goto(from, to) == SchedWaits /\ apc = from /\ apc' = to

AudioKeeps == UNCHANGED <<retraces, audioTask, graphVars, timerVars>>

AudioMgr_Init == Audio_Goto("prime", "wait") /\ ClientPrime(aud) /\ AudioKeeps

(* AudioMgr_HandleRetrace sends the one task structure it has.  Without     *)
(* SlowAudio a task takes less than the frame since it was sent.            *)
AudioMgr_Send ==
    /\ audioTask /\ retraces > 0 /\ Audio_Goto("wait", "entry")
    /\ SlowAudio \/ ~InProgress(aud)
    /\ SendCmd(aud) /\ FillOther
    /\ retraces' = retraces - 1
    /\ UNCHANGED <<audioTask, graphVars, timerVars>>

AudioMgr_Entry ==
    Audio_Goto("entry", "compute") /\ Sched_SendEntryMsg(aud) /\ AudioKeeps

(* AudioMgr_ThreadEntry throws away the retraces that came meanwhile.       *)
AudioMgr_NextRetrace ==
    /\ audioTask' \in BOOLEAN /\ retraces' = 0
    /\ UNCHANGED <<graphVars, timerVars>>

(* No task to send: func_800E4FE0 prepares the next one.  SREG(20) drops    *)
(* the task there is.                                                       *)
AudioMgr_Silent ==
    /\ retraces > 0 /\ Audio_Goto("wait", "wait")
    /\ UNCHANGED vars /\ AudioMgr_NextRetrace

(* Mutant: the reply is not read.                                           *)
AudioMgr_Reply_Unread ==
    Audio_Goto("compute", "wait") /\ UNCHANGED vars /\ AudioMgr_NextRetrace

(* func_800E4FE0 prepares the next task, then the reply is read.            *)
AudioMgr_Reply ==
    Audio_Goto("compute", "wait") /\ ClientReceive(aud) /\ AudioMgr_NextRetrace

AudioThread ==
    /\ aud \in Task
    /\ AudioMgr_Init \/ AudioMgr_Send \/ AudioMgr_Entry \/ AudioMgr_Silent \/ AudioMgr_Reply
-----------------------------------------------------------------------------
(* The interrupt manager forwards a retrace to the audio manager as well,   *)
(* which registers when its thread starts.                                  *)
Retrace ==
    /\ ViRetrace
    /\ retraces' = IF apc = "prime" THEN retraces ELSE Min({retraces + 1, AudioQCap})
    /\ UNCHANGED <<graphVars, timerVars, apc, audioTask>>

Rcp == RspFinish \/ RspYield \/ RspFullSync \/ RdpFinish \/ Hang

SchedulerStep ==
    SchedThread \/ Rcp \/ PreNmi \/ Nmi

(* An assertion, "RCP is HUNG UP!!" or an exception stops the machine in the *)
(* debugger.                                                                *)
ClientsNext ==
    /\ ~failed /\ gpc \notin {"hungup", "fault"}
    /\ \/ SchedulerStep /\ UNCHANGED <<graphVars, timerVars, audioVars>>
       \/ Retrace \/ TimerExpires \/ GraphThread \/ AudioThread

ClientsSpec == ClientsInit /\ [][ClientsNext]_clientVars

(* The scheduler and the VI go on; the RSP makes progress on a task even    *)
(* if audio preempts it over and over; the scheduler handles its messages   *)
(* faster than retraces come, so that its clients get the processor again   *)
(* and again; a client that could move again and again moves.               *)
Alone(A) == A /\ UNCHANGED <<graphVars, timerVars, audioVars>>

Fairness ==
    /\ []<>SchedWaits
    /\ WF_clientVars(Alone(SchedThread)) /\ WF_clientVars(Retrace)
    /\ WF_clientVars(Alone(RdpFinish))
    /\ \A t \in Task : SF_clientVars(rspTask = t /\ Alone(RspFinish))
    /\ SF_clientVars(Alone(RspFullSync))
    /\ SF_clientVars(GraphThread) /\ SF_clientVars(AudioThread)

FairClientsSpec == ClientsSpec /\ Fairness
-----------------------------------------------------------------------------
(* Properties *)

(* The clients follow the rules that Sched states for them in ClientSubmit: *)
(* a task is not handed over, nor its CfbInfo overwritten, while the        *)
(* scheduler or the VI uses it (graph.c:242-253, audioMgr.c:19-27), and no  *)
(* more submissions are outstanding than their Credit.  What is proved      *)
(* about Sched!Spec thus holds of the threads that use it.                  *)
ObeysRules == Spec

(* graph.c:168-192: a frame that is answered in time never counts as hung,  *)
(* whatever the order of the reply, the timer, osStopTimer and the drain;   *)
(* the message 666 of one wait never reaches a later one.                   *)
NoFalseHang ==
    /\ gpc = "hungup" => late
    /\ timeoutAt # -1 => gpc \in {"wait", "stop", "fault"}

(* z_play.c:1163-1165: when PreRender_Calc reads the picture the last frame *)
(* took of itself, the RCP has finished that frame and draws no other one.  *)
(* A frame that Graph_Update dropped took no picture.                       *)
PictureIsReady ==
    gpc = "prerender" =>
        /\ ~InProgress(gfx) /\ curRDPTask = NULL
        /\ MayOverflow \/ (framebuffer[gfx] # NULL /\ swapBuffer[framebuffer[gfx]] = cvgSave)

(* graph.c:233-237: the frame that took the picture left its coverage, not  *)
(* an image, in the frame buffer: the VI does not show it.                  *)
PictureNotShown ==
    gpc = "prerender" /\ ~MayOverflow => cvgSave \notin {viCurr, viNext}

(* z_jpeg.c:230: the JPEG task works in the output buffer of the graphics   *)
(* task, which is therefore not in progress, nor is the null task.          *)
JpegAlone ==
    jpeg \in Task /\ InProgress(jpeg) =>
        ~InProgress(gfx) /\ curRDPTask = NULL /\ ~InProgress(null)

(* The graph thread waits for the previous frame only so long: the frame    *)
(* is drawn, answered and its buffer shown.                                 *)
FrameAnswered == gpc = "wait" ~> gpc # "wait"

(* sched.c:233: the scheduler, blocked because the audio manager has not    *)
(* read the previous reply, goes on.                                        *)
BlockEnds == Blocked ~> ~Blocked

(* audioMgr.c:27, sched.c:186: an audio task that was sent is played, even  *)
(* though the scheduler may have to stop a graphics task for it, or waits   *)
(* for the audio manager itself.                                            *)
AudioPlayed == InProgress(aud) ~> ~InProgress(aud)
=============================================================================
