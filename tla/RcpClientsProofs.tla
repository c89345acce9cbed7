-------------------------- MODULE RcpClientsProofs --------------------------
(***************************************************************************)
(* The graph thread and the audio manager keep the rules that Sched states *)
(* for its clients, so that what is proved of Sched holds of the threads   *)
(* that use it; and what the graph thread may rely on when it reads a      *)
(* picture or decodes one, and when it takes the RCP for hung.             *)
(***************************************************************************)
EXTENDS RcpClients, SchedEventProofs

(* Which submissions each thread has outstanding, by the place it is at.    *)
NullAsked == gpc \in {"nullEntry", "nullRecv"}
JpegAsked == gpc \in {"jpegEntry", "jpegRecv"}

Owes(t) ==
    IF t = gfx THEN IF gpc \in {"init", "stop", "fault", "fill", "end"} THEN 0 ELSE 1
    ELSE IF t = aud THEN IF apc = "prime" THEN 0 ELSE IF apc = "wait" THEN 1 ELSE 2
    ELSE IF (t = null /\ NullAsked) \/ (t = jpeg /\ JpegAsked) THEN 1 ELSE 0

OwesOK ==
    /\ \A t \in Task : owed[t] = Owes(t)
    /\ NullAsked \/ JpegAsked \/ gpc = "decode" => null \in Task
    /\ JpegAsked => jpeg \in Task

(* The CfbInfo of the last frame is the one before the next in the ring,    *)
(* and no older one waits to be shown once that frame is finished.          *)
RingOK ==
    /\ cfbIdx \in 0 .. Len(CfbRing) - 1 /\ fbIdx \in {0, 1}
    /\ framebuffer[gfx] # NULL =>
           \E k \in 0 .. Len(CfbRing) - 1 :
               framebuffer[gfx] = CfbRing[k + 1] /\ cfbIdx = (k + 1) % Len(CfbRing)
    /\ ~InProgress(gfx) => pendingSwapBuf1 \in {NULL, framebuffer[gfx]}

(* The message 666 is in the queue, or the timer set, only between          *)
(* osSetTimer and the drain, and is ahead of the reply only if it was late. *)
TimerOK ==
    /\ timeoutAt \in {-1, 0, 1}
    /\ timer => gpc \in {"wait", "stop"}
    /\ timeoutAt # -1 => gpc \in {"wait", "stop", "fault"} /\ ~timer
    /\ timeoutAt = 1 => gpc = "wait"
    /\ timeoutAt = 0 /\ gpc = "wait" => late
    /\ gpc = "hungup" => late

(* A graphics task that waits for the RDP only, or has begun, is the one    *)
(* the RDP works on.                                                        *)
RdpOwned ==
    \A t \in Task :
        /\ Type[t] = "GFX" /\ "DP" \in state[t]
        /\ "SP" \notin state[t] \/ curRSPTask = t \/ "YIELDED" \in state[t]
        => curRDPTask = t

Behind(q) == \A i, j \in DOMAIN q : q[i] = gfx /\ q[j] = null => i < j

(* The null task is behind the last frame all the way, and is answered when *)
(* that frame is finished.                                                  *)
Following ==
    /\ done # null /\ Behind(cmdQ) /\ Behind(gfxList)
    /\ InCmdQ(gfx) => InCmdQ(null)

BarrierOK ==
    /\ null \in Task /\ InProgress(null) /\ InProgress(gfx) => Following
    /\ NullAsked /\ ~InProgress(null) => ~InProgress(gfx)
    /\ JpegAsked \/ gpc \in {"decode", "prerender"} => ~InProgress(gfx)

(* A frame that is not to be shown is drawn into a buffer the VI does not   *)
(* show, and no swap is pending from then on.                               *)
HiddenOK ==
    /\ framebuffer[gfx] # NULL /\ ~swap[gfx] /\ ~InCmdQ(gfx)
    /\ "DP" \notin state[gfx] \/ curRDPTask = gfx
    => /\ pendingSwapBuf1 = NULL
       /\ swapBuffer[framebuffer[gfx]] \notin {viCurr, viNext}

(* The picture is first the frame being built, then the last one sent.      *)
PictureOK ==
    /\ gpc = "prerender" => pausing
    /\ pausing => gpc \in {"wait", "stop", "fault", "fill", "hungup", "entry", "update",
                           "nullEntry", "nullRecv", "prerender"}
    /\ ~MayOverflow /\ pausing /\ gpc \in {"wait", "stop", "fill"} =>
           noSwap /\ cvgSave = curFrameBuffer
    /\ ~MayOverflow /\ pausing /\ gpc \in {"entry", "update", "nullEntry", "nullRecv", "prerender"} =>
           framebuffer[gfx] # NULL /\ ~swap[gfx] /\ swapBuffer[framebuffer[gfx]] = cvgSave

ClientInv == OwesOK /\ RingOK /\ TimerOK /\ RdpOwned /\ BarrierOK /\ HiddenOK /\ PictureOK

-----------------------------------------------------------------------------
(* What the scheduler and the RCP leave alone, and what they answer.        *)

LEMMA ClientTypes ==
    /\ gfx \in Task /\ Type[gfx] = "GFX" /\ NULL \notin Task /\ NULL \notin Cfb /\ gfx # NULL
    /\ aud \in Task => Type[aud] = "AUD" /\ aud # gfx /\ aud # null /\ aud # jpeg
    /\ jpeg \in Task => Type[jpeg] = "NJPEG" /\ jpeg # gfx /\ jpeg # null
    /\ null \in Task => Type[null] = "NUL" /\ null # gfx
    /\ \A t \in Task : Credit[t] \in Nat /\ MsgQCap[t] \in Nat
    /\ \A t \in Task : Credit[t] >= IF t = aud THEN 2 ELSE 1
BY ClientsAssumption, ConstantsAssumption

LEMMA Idle ==
    ASSUME CoreInv, NEW t \in Task
    PROVE  /\ owed[t] = 0 => ~InProgress(t) /\ msgQ[t] = 0
           /\ owed[t] = 1 /\ InProgress(t) => msgQ[t] = 0
           /\ msgQ[t] <= owed[t] /\ msgQ[t] \in Nat
<1>1. owed[t] = msgQ[t] + (IF InProgress(t) THEN 1 ELSE 0) /\ msgQ[t] \in Nat
    BY DEF CoreInv, OneReplyEach, TypeOK, RepliesTyped
<1> QED
    BY <1>1

LEMMA EngineKeeps ==
    ASSUME SchedThread \/ Hardware
    PROVE  UNCHANGED <<owed, framebuffer, swap, swapBuffer>>
<1>1. CASE SchedThread
    BY <1>1 DEF SchedThread, RecvEntry, DrainCmdQ, Sched_Yield, Sched_HandleRetrace,
       Sched_HandleRSPDone, Sched_HandleRDPDone, Sched_HandleReset, Sched_HandleStart,
       Sched_IsComplete, ScheduleAudio, ScheduleResume, ScheduleStart, ScheduleNone,
       Assert_Fails, envVars, taskVars, cfbVars
<1>2. CASE Hardware
    BY <1>2 DEF Hardware, RspFinish, RspYield, RspFullSync, RdpFinish, Hang, ViRetrace, PreNmi, Nmi,
       envVars, taskVars, cfbVars
<1> QED
    BY <1>1, <1>2

(* Only Sched_IsComplete adds a reply, to the queue of the task done. *)
LEMMA EngineReplies ==
    ASSUME SchedThread \/ Hardware
    PROVE  \/ msgQ' = msgQ
           \/ /\ Sched_IsComplete /\ pc = "complete" /\ Completes(done)
              /\ msgQ' = [msgQ EXCEPT ![done] = @ + 1]
<1>1. CASE Sched_IsComplete
    BY <1>1 DEF Sched_IsComplete
<1>2. CASE SchedThread /\ ~Sched_IsComplete
    BY <1>2 DEF SchedThread, RecvEntry, DrainCmdQ, Sched_Yield, Sched_HandleRetrace,
       Sched_HandleRSPDone, Sched_HandleRDPDone, Sched_HandleReset, Sched_HandleStart,
       ScheduleAudio, ScheduleResume, ScheduleStart, ScheduleNone,
       Assert_Fails, queueVars
<1>3. CASE Hardware
    BY <1>3 DEF Hardware, RspFinish, RspYield, RspFullSync, RdpFinish, Hang, ViRetrace, PreNmi, Nmi,
       queueVars
<1> QED
    BY <1>1, <1>2, <1>3

(* A submission is in progress until Sched_IsComplete answers it. *)
LEMMA EngineProgress ==
    ASSUME CoreInv, SchedThread \/ Hardware, NEW t \in Task
    PROVE  /\ InProgress(t)' => InProgress(t)
           /\ InProgress(t) /\ ~InProgress(t)' =>
                  Sched_IsComplete /\ pc = "complete" /\ done = t /\ Completes(t)
           /\ Sched_IsComplete /\ Completes(done) /\ done = t => ~InProgress(t)'
<1> DEFINE P == InProgress(t)
           Q == InProgress(t)'
<1>1. CoreInv'
    BY CoreNext, CoreHardware, CoreRecvEntry, CoreDrainCmdQ, CoreYield, CoreHandleRetrace,
       CoreHandleRSPDone, CoreHandleRDPDone, CoreHandleReset, CoreHandleStart, CoreIsComplete,
       CoreSchedule DEF SchedThread
<1>2. owed[t] = msgQ[t] + (IF P THEN 1 ELSE 0) /\ msgQ[t] \in Nat /\ msgQ \in [Task -> Nat]
    BY DEF CoreInv, OneReplyEach, TypeOK, RepliesTyped
<1>3. owed'[t] = msgQ'[t] + (IF Q THEN 1 ELSE 0)
    BY <1>1 DEF CoreInv, OneReplyEach
<1>4. owed' = owed
    BY EngineKeeps
<1>5. Sched_IsComplete /\ Completes(done) => msgQ' = [msgQ EXCEPT ![done] = @ + 1]
    BY DEF Sched_IsComplete
<1> HIDE DEF P, Q
<1>6. CASE msgQ' = msgQ
  <2>1. Q <=> P
      BY <1>2, <1>3, <1>4, <1>6
  <2>2. ~(Sched_IsComplete /\ Completes(done) /\ done = t)
      BY <1>2, <1>5, <1>6
  <2> QED
      BY <2>1, <2>2 DEF P, Q
<1>7. CASE /\ Sched_IsComplete /\ pc = "complete" /\ Completes(done)
           /\ msgQ' = [msgQ EXCEPT ![done] = @ + 1]
  <2>1. CASE done = t
    <3>1. msgQ'[t] = msgQ[t] + 1
        BY <1>2, <1>7, <2>1
    <3>2. P /\ ~Q
        BY <1>2, <1>3, <1>4, <3>1
    <3> QED
        BY <1>7, <2>1, <3>2 DEF P, Q
  <2>2. CASE done # t
    <3>1. msgQ'[t] = msgQ[t]
        BY <1>2, <1>7, <2>2
    <3>2. P <=> Q
        BY <1>2, <1>3, <1>4, <3>1
    <3> QED
        BY <2>2, <3>2 DEF P, Q
  <2> QED
      BY <2>1, <2>2
<1> QED
    BY <1>6, <1>7, EngineReplies

-----------------------------------------------------------------------------
(* The rules of Sched.                                                      *)

(* The graph thread's is the only graphics task there is. *)
LEMMA OnlyFrame ==
    ASSUME CoreInv, OwesOK, NEW t \in Task, Type[t] = "GFX", InProgress(t)
    PROVE  t = gfx
<1>1. owed[t] # 0
    BY Idle
<1>2. t # aud /\ t # null /\ t # jpeg
    BY ClientTypes
<1> QED
    BY <1>1, <1>2 DEF OwesOK, Owes

LEMMA NextTurn ==
    ASSUME NEW n \in Nat, n > 1, NEW k \in 0 .. n - 1
    PROVE  (k + 1) % n \in 0 .. n - 1 /\ (k + 1) % n # k
<1>1. CASE k + 1 < n
  <2>1. (k + 1) % n = k + 1
      BY <1>1
  <2> QED
      BY <1>1, <2>1
<1>2. CASE k + 1 = n
  <2>1. (k + 1) % n = 0
      BY <1>2
  <2> QED
      BY <1>2, <2>1
<1> QED
    BY <1>1, <1>2

(* graph.c:242-253: with two entries in the ring or more the next one is    *)
(* neither shown, nor waiting to be, nor that of a task.                    *)
LEMMA NextCfbFree ==
    ASSUME CoreInv, OwesOK, RingOK, ~InProgress(gfx)
    PROVE  CfbRing[cfbIdx + 1] \in Cfb \ CfbInUse
<1> DEFINE c == CfbRing[cfbIdx + 1]
           n == Len(CfbRing)
<1>1. /\ n \in Nat /\ n > 1 /\ DOMAIN CfbRing = 1 .. n
      /\ \A i \in 1 .. n : CfbRing[i] \in Cfb
      /\ \A i, j \in 1 .. n : CfbRing[i] = CfbRing[j] => i = j
    BY ClientsAssumption
<1>2. cfbIdx \in 0 .. n - 1
    BY DEF RingOK
<1>3. c \in Cfb
    BY <1>1, <1>2
<1>4. framebuffer[gfx] # c
  <2> SUFFICES ASSUME framebuffer[gfx] = c PROVE FALSE
      OBVIOUS
  <2>1. framebuffer[gfx] # NULL
      BY <1>3, ClientTypes
  <2>2. PICK k \in 0 .. n - 1 : framebuffer[gfx] = CfbRing[k + 1] /\ cfbIdx = (k + 1) % n
      BY <2>1 DEF RingOK
  <2>3. (k + 1) % n # k
      BY <1>1, NextTurn
  <2>4. CfbRing[k + 1] = CfbRing[cfbIdx + 1] /\ k + 1 \in 1 .. n /\ cfbIdx + 1 \in 1 .. n
      BY <1>1, <1>2, <2>2
  <2>5. k + 1 = cfbIdx + 1
      BY <1>1, <2>4
  <2> QED
      BY <1>2, <2>2, <2>3, <2>5
<1>5. pendingSwapBuf1 # c
    BY <1>3, <1>4, ClientTypes DEF RingOK
<1>6. ASSUME NEW u \in Task, InProgress(u) PROVE framebuffer[u] # c
  <2>1. framebuffer[u] # NULL => Type[u] = "GFX"
      BY DEF CoreInv, FramesOK
  <2>2. Type[u] = "GFX" => u = gfx
      BY <1>6, OnlyFrame
  <2> QED
      BY <1>3, <1>6, <2>1, <2>2, ClientTypes
<1> QED
    BY <1>3, <1>5, <1>6 DEF CfbInUse

(* Each step of a thread is one of Sched or none. *)
LEMMA GraphObeys ==
    ASSUME CoreInv, OwesOK, RingOK, GraphThread
    PROVE  Clients \/ UNCHANGED vars
<1> USE ClientTypes
<1>1. CASE GameState_Init \/ GameState_Destroy \/ TaskSet_Recv
    BY <1>1 DEF GameState_Init, GameState_Destroy, TaskSet_Recv, Clients
<1>2. CASE TaskSet_Entry \/ MsgEvent_Entry \/ Jpeg_Entry
  <2>1. CASE TaskSet_Entry
      BY <2>1 DEF TaskSet_Entry, Clients
  <2>2. CASE MsgEvent_Entry
      BY <2>2 DEF MsgEvent_Entry, Clients, Graph_Goto, OwesOK, NullAsked
  <2>3. CASE Jpeg_Entry
      BY <2>3 DEF Jpeg_Entry, Clients, Graph_Goto, OwesOK, JpegAsked
  <2> QED
      BY <1>2, <2>1, <2>2, <2>3
<1>3. CASE MsgEvent_Recv \/ Jpeg_Recv
  <2>1. CASE MsgEvent_Recv
      BY <2>1 DEF MsgEvent_Recv, Clients, Graph_Goto, OwesOK, NullAsked
  <2>2. CASE Jpeg_Recv
      BY <2>2 DEF Jpeg_Recv, Clients, Graph_Goto, OwesOK, JpegAsked
  <2> QED
      BY <1>3, <2>1, <2>2
<1>4. CASE MsgEvent_SendNullTask
  <2>1. null \in Task /\ gpc = "update" /\ SendCmd(null) /\ FillOther
      BY <1>4 DEF MsgEvent_SendNullTask, Graph_Goto
  <2>2. owed[null] = 0 /\ null # gfx /\ null # aud
      BY <2>1 DEF OwesOK, Owes, NullAsked, JpegAsked
  <2>3. ~InProgress(null) /\ owed[null] < Credit[null]
      BY <2>1, <2>2, Idle
  <2> QED
      BY <2>1, <2>3 DEF ClientSubmit, Clients
<1>5. CASE Jpeg_SendTask
  <2>1. jpeg \in Task /\ gpc = "decode" /\ SendCmd(jpeg) /\ FillOther
      BY <1>5 DEF Jpeg_SendTask, Graph_Goto
  <2>2. owed[jpeg] = 0 /\ jpeg # gfx /\ jpeg # aud
      BY <2>1 DEF OwesOK, Owes, NullAsked, JpegAsked
  <2>3. ~InProgress(jpeg) /\ owed[jpeg] < Credit[jpeg]
      BY <2>1, <2>2, Idle
  <2> QED
      BY <2>1, <2>3 DEF ClientSubmit, Clients
<1>6. CASE TaskSet_Send
  <2>1. gpc = "fill" /\ SendCmd(gfx)
      BY <1>6 DEF TaskSet_Send, Graph_Goto
  <2>2. owed[gfx] = 0
      BY <2>1 DEF OwesOK, Owes
  <2>3. ~InProgress(gfx) /\ owed[gfx] < Credit[gfx]
      BY <2>2, Idle
  <2>4. PICK rate \in 1 .. MaxRate :
            FillGfx(gfx, CfbRing[cfbIdx + 1], curFrameBuffer, rate, Shown)
      BY <1>6 DEF TaskSet_Send
  <2>5. CfbRing[cfbIdx + 1] \in Cfb \ CfbInUse
      BY <2>3, NextCfbFree
  <2>6. curFrameBuffer \in Fb
    <3>1. FbPtr \in Seq(Fb) /\ Len(FbPtr) = 2
        BY ClientsAssumption
    <3>2. 1 \in 1 .. Len(FbPtr) /\ 2 \in 1 .. Len(FbPtr)
        BY <3>1
    <3>3. FbPtr[1] \in Fb /\ FbPtr[2] \in Fb
        BY <3>1, <3>2, ElementOfSeq
    <3>4. fbIdx + 1 = 1 \/ fbIdx + 1 = 2
        BY DEF RingOK
    <3> QED
        BY <3>3, <3>4 DEF curFrameBuffer
  <2>7. Shown \in BOOLEAN
      BY DEF Shown
  <2>8. ClientSubmit(gfx)
      BY <2>1, <2>3, <2>4, <2>5, <2>6, <2>7 DEF ClientSubmit
  <2> QED
      BY <2>8 DEF Clients
<1>7. CASE TaskSet_Drain
    BY <1>7 DEF TaskSet_Drain, Clients
<1>8. CASE PreRender_Calc \/ TaskSet_SetTimer \/ Graph_Problem \/ TaskSet_HungUp \/ TaskSet_StopFaults
    BY <1>8 DEF PreRender_Calc, TaskSet_SetTimer, Graph_Problem, TaskSet_HungUp, TaskSet_StopFaults
<1> QED
    BY <1>1, <1>2, <1>3, <1>4, <1>5, <1>6, <1>7, <1>8 DEF GraphThread, Graph_Update, Graph_TaskSet00

LEMMA AudioObeys ==
    ASSUME ~SlowAudio, CoreInv, OwesOK, AudioThread
    PROVE  Clients \/ UNCHANGED vars
<1>1. aud \in Task /\ aud # gfx /\ Credit[aud] \in Nat /\ Credit[aud] >= 2 /\ Type[aud] = "AUD"
    BY ClientTypes DEF AudioThread
<1>2. CASE AudioMgr_Init \/ AudioMgr_Entry \/ AudioMgr_Reply
    BY <1>1, <1>2 DEF AudioMgr_Init, AudioMgr_Entry, AudioMgr_Reply, Clients
<1>3. CASE AudioMgr_Send
  <2>1. apc = "wait" /\ SendCmd(aud) /\ FillOther /\ ~InProgress(aud)
      BY <1>3 DEF AudioMgr_Send, Audio_Goto
  <2>2. owed[aud] = 1
      BY <1>1, <2>1 DEF OwesOK, Owes
  <2> QED
      BY <1>1, <2>1, <2>2 DEF ClientSubmit, Clients
<1>4. CASE AudioMgr_Silent
    BY <1>4 DEF AudioMgr_Silent
<1> QED
    BY <1>2, <1>3, <1>4 DEF AudioThread

LEMMA EachStepObeys ==
    ASSUME ~SlowAudio, CoreInv, OwesOK, RingOK, [ClientsNext]_clientVars
    PROVE  [Next]_vars
<1>1. CASE SchedulerStep /\ ~failed
    BY <1>1 DEF SchedulerStep, Rcp, Next, Hardware
<1>2. CASE Retrace /\ ~failed
    BY <1>2 DEF Retrace, Next, Hardware
<1>3. CASE TimerExpires
    BY <1>3 DEF TimerExpires
<1>4. CASE GraphThread /\ ~failed
    BY <1>4, GraphObeys DEF Next
<1>5. CASE AudioThread /\ ~failed
    BY <1>5, AudioObeys DEF Next
<1>6. CASE UNCHANGED clientVars
    BY <1>6 DEF clientVars
<1> QED
    BY <1>1, <1>2, <1>3, <1>4, <1>5, <1>6 DEF ClientsNext

-----------------------------------------------------------------------------
(* The parts of the invariant, one after the other.                         *)

LEMMA GraphOwes ==
    ASSUME CoreInv, OwesOK, GraphThread
    PROVE  OwesOK'
<1> USE ClientTypes
<1>1. owed \in [Task -> Nat] /\ gfx \in Task /\ apc' = apc
    BY DEF CoreInv, TypeOK, RepliesTyped, GraphThread, Graph_Update, Graph_TaskSet00,
       GameState_Init, GameState_Destroy, MsgEvent_SendNullTask, MsgEvent_Entry, MsgEvent_Recv,
       PreRender_Calc, Jpeg_SendTask, Jpeg_Entry, Jpeg_Recv, TaskSet_SetTimer,
       Graph_Problem, TaskSet_Recv, TaskSet_HungUp, TaskSet_StopFaults, TaskSet_Drain,
         TaskSet_Send, TaskSet_Entry,
       GraphKeeps, audioVars
<1>2. CASE GameState_Init
  <2>1. gpc = "init" /\ gpc' = "update" /\ owed' = [owed EXCEPT ![gfx] = @ + 1]
      BY <1>2 DEF GameState_Init, Graph_Goto, ClientPrime
  <2> QED
      BY <1>1, <2>1 DEF OwesOK, Owes, NullAsked, JpegAsked
<1>3. CASE GameState_Destroy
  <2>1. gpc = "update" /\ gpc' \in {"init", "end"} /\ owed' = [owed EXCEPT ![gfx] = @ - 1]
      BY <1>3 DEF GameState_Destroy, Graph_Goto, ClientReceive
  <2> QED
      BY <1>1, <2>1 DEF OwesOK, Owes, NullAsked, JpegAsked
<1>4. CASE TaskSet_Recv
  <2>1. gpc = "wait" /\ gpc' = "stop" /\ owed' = [owed EXCEPT ![gfx] = @ - 1]
      BY <1>4 DEF TaskSet_Recv, Graph_Goto, ClientReceive
  <2> QED
      BY <1>1, <2>1 DEF OwesOK, Owes, NullAsked, JpegAsked
<1>5. CASE TaskSet_Send
  <2>1. gpc = "fill" /\ gpc' = "entry" /\ owed' = [owed EXCEPT ![gfx] = @ + 1]
      BY <1>5 DEF TaskSet_Send, Graph_Goto, SendCmd
  <2> QED
      BY <1>1, <2>1 DEF OwesOK, Owes, NullAsked, JpegAsked
<1>6. CASE MsgEvent_SendNullTask
  <2>1. /\ null \in Task /\ gpc = "update" /\ gpc' = "nullEntry"
        /\ owed' = [owed EXCEPT ![null] = @ + 1]
      BY <1>6 DEF MsgEvent_SendNullTask, Graph_Goto, SendCmd
  <2> QED
      BY <1>1, <2>1 DEF OwesOK, Owes, NullAsked, JpegAsked
<1>7. CASE MsgEvent_Recv
  <2>1. /\ gpc = "nullRecv" /\ gpc' \in {"prerender", "decode"}
        /\ owed' = [owed EXCEPT ![null] = @ - 1]
      BY <1>7 DEF MsgEvent_Recv, Graph_Goto, ClientReceive
  <2> QED
      BY <1>1, <2>1 DEF OwesOK, Owes, NullAsked, JpegAsked
<1>8. CASE Jpeg_SendTask
  <2>1. /\ jpeg \in Task /\ gpc = "decode" /\ gpc' = "jpegEntry"
        /\ owed' = [owed EXCEPT ![jpeg] = @ + 1]
      BY <1>8 DEF Jpeg_SendTask, Graph_Goto, SendCmd
  <2> QED
      BY <1>1, <2>1 DEF OwesOK, Owes, NullAsked, JpegAsked
<1>9. CASE Jpeg_Recv
  <2>1. /\ gpc = "jpegRecv" /\ gpc' = "decode" /\ owed' = [owed EXCEPT ![jpeg] = @ - 1]
      BY <1>9 DEF Jpeg_Recv, Graph_Goto, ClientReceive
  <2> QED
      BY <1>1, <2>1 DEF OwesOK, Owes, NullAsked, JpegAsked
<1>10. CASE MsgEvent_Entry \/ Jpeg_Entry \/ TaskSet_Entry
  <2>1. /\ \/ gpc = "nullEntry" /\ gpc' = "nullRecv"
           \/ gpc = "jpegEntry" /\ gpc' = "jpegRecv"
           \/ gpc = "entry" /\ gpc' = "update"
        /\ owed' = owed
      BY <1>10 DEF MsgEvent_Entry, Jpeg_Entry, TaskSet_Entry, Graph_Goto, Sched_SendEntryMsg
  <2> QED
      BY <1>1, <2>1 DEF OwesOK, Owes, NullAsked, JpegAsked
<1>11. CASE PreRender_Calc \/ TaskSet_SetTimer \/ Graph_Problem \/ TaskSet_HungUp \/ TaskSet_StopFaults
  <2>1. /\ \/ gpc = "prerender" /\ gpc' = "draw"
           \/ gpc \in {"update", "decode", "draw"} /\ gpc' \in {"wait", "update"}
           \/ gpc = "wait" /\ gpc' = "hungup"
           \/ gpc = "stop" /\ gpc' = "fault"
        /\ owed' = owed
      BY <1>11 DEF PreRender_Calc, TaskSet_SetTimer, Graph_Problem, TaskSet_HungUp,
         TaskSet_StopFaults, Graph_Goto,
         Drawing, vars, envVars
  <2> QED
      BY <1>1, <2>1 DEF OwesOK, Owes, NullAsked, JpegAsked
<1>12. CASE TaskSet_Drain
  <2>1. gpc = "stop" /\ gpc' = "fill"
      BY <1>12 DEF TaskSet_Drain, Graph_Goto
  <2>2. msgQ[gfx] = 0
      BY <2>1, Idle DEF OwesOK, Owes
  <2>3. owed' = owed
      BY <1>12, <2>2 DEF TaskSet_Drain, vars, envVars
  <2> QED
      BY <1>1, <2>1, <2>3 DEF OwesOK, Owes, NullAsked, JpegAsked
<1> QED
    BY <1>2, <1>3, <1>4, <1>5, <1>6, <1>7, <1>8, <1>9, <1>10, <1>11, <1>12
       DEF GraphThread, Graph_Update, Graph_TaskSet00

LEMMA AudioOwes ==
    ASSUME CoreInv, OwesOK, AudioThread
    PROVE  OwesOK'
<1>1. owed \in [Task -> Nat] /\ aud \in Task /\ aud # gfx /\ gpc' = gpc
    BY ClientTypes DEF CoreInv, TypeOK, RepliesTyped, AudioThread, AudioMgr_Init, AudioMgr_Send,
       AudioMgr_Entry, AudioMgr_Silent, AudioMgr_Reply, AudioKeeps, AudioMgr_NextRetrace, graphVars
<1>2. CASE AudioMgr_Init \/ AudioMgr_Send
  <2>1. /\ \/ apc = "prime" /\ apc' = "wait"
           \/ apc = "wait" /\ apc' = "entry"
        /\ owed' = [owed EXCEPT ![aud] = @ + 1]
      BY <1>2 DEF AudioMgr_Init, AudioMgr_Send, Audio_Goto, ClientPrime, SendCmd
  <2> QED
      BY <1>1, <2>1 DEF OwesOK, Owes, NullAsked, JpegAsked
<1>3. CASE AudioMgr_Reply
  <2>1. apc = "compute" /\ apc' = "wait" /\ owed' = [owed EXCEPT ![aud] = @ - 1]
      BY <1>3 DEF AudioMgr_Reply, Audio_Goto, ClientReceive
  <2> QED
      BY <1>1, <2>1 DEF OwesOK, Owes, NullAsked, JpegAsked
<1>4. CASE AudioMgr_Entry \/ AudioMgr_Silent
  <2>1. /\ \/ apc = "entry" /\ apc' = "compute"
           \/ apc = "wait" /\ apc' = "wait"
        /\ owed' = owed
      BY <1>4 DEF AudioMgr_Entry, AudioMgr_Silent, Audio_Goto, Sched_SendEntryMsg, vars, envVars
  <2> QED
      BY <1>1, <2>1 DEF OwesOK, Owes, NullAsked, JpegAsked
<1> QED
    BY <1>2, <1>3, <1>4 DEF AudioThread

(* The steps beside the two threads. *)
Engine ==
    /\ SchedThread \/ Hardware
    /\ UNCHANGED <<graphVars, timerVars, apc>>

LEMMA Steps ==
    ASSUME [ClientsNext]_clientVars
    PROVE  Engine \/ TimerExpires \/ GraphThread \/ AudioThread \/ UNCHANGED clientVars
BY DEF ClientsNext, SchedulerStep, Rcp, Hardware, Retrace, Engine, audioVars

LEMMA OwesKept ==
    ASSUME CoreInv, OwesOK, [ClientsNext]_clientVars
    PROVE  OwesOK'
<1>1. CASE Engine \/ TimerExpires \/ UNCHANGED clientVars
  <2>1. UNCHANGED <<owed, gpc, apc>>
      BY <1>1, EngineKeeps DEF Engine, TimerExpires, clientVars, vars, envVars, graphVars, audioVars
  <2> QED
      BY <2>1 DEF OwesOK, Owes, NullAsked, JpegAsked
<1> QED
    BY <1>1, Steps, GraphOwes, AudioOwes

-----------------------------------------------------------------------------
LEMMA TimerKept ==
    ASSUME CoreInv, OwesOK, TimerOK, [ClientsNext]_clientVars
    PROVE  TimerOK'
<1>1. CASE Engine \/ AudioThread \/ UNCHANGED clientVars
  <2>1. UNCHANGED <<gpc, timer, timeoutAt, late>>
      BY <1>1 DEF Engine, clientVars, graphVars, timerVars, AudioThread, AudioMgr_Init,
         AudioMgr_Send, AudioMgr_Entry, AudioMgr_Silent, AudioMgr_Reply, AudioKeeps,
         AudioMgr_NextRetrace
  <2> QED
      BY <2>1 DEF TimerOK
<1>2. CASE TimerExpires
  <2>1. msgQ[gfx] \in Nat /\ msgQ[gfx] <= owed[gfx] /\ gpc \in {"wait", "stop"}
        /\ owed[gfx] = IF gpc = "stop" THEN 0 ELSE 1
      BY <1>2, Idle, ClientTypes DEF TimerExpires, RunsOut, TimerOK, OwesOK, Owes
  <2>3. msgQ[gfx] = 0 \/ (msgQ[gfx] = 1 /\ gpc = "wait")
      BY <2>1
  <2>2. /\ gpc' = gpc /\ ~timer' /\ timeoutAt' \in {msgQ[gfx], -1}
        /\ late' = (gpc = "wait" /\ msgQ[gfx] = 0)
      BY <1>2 DEF TimerExpires, RunsOut, graphVars
  <2>4. gpc # "hungup"
      BY <2>1
  <2>5. timeoutAt' \in {-1, 0, 1} /\ (timeoutAt' = 1 => gpc' = "wait")
      BY <2>2, <2>3
  <2>6. timeoutAt' = 0 /\ gpc' = "wait" => late'
    <3>1. timeoutAt' = 0 /\ gpc' = "wait" => gpc = "wait" /\ msgQ[gfx] = 0
        BY <2>2, <2>3
    <3> QED
        BY <2>2, <3>1
  <2>7. ~timer' /\ gpc' \in {"wait", "stop"} /\ gpc' # "hungup"
      BY <2>1, <2>2
  <2> QED
      BY <2>5, <2>6, <2>7 DEF TimerOK
<1>3. CASE TaskSet_Recv
  <2>1. /\ gpc = "wait" /\ gpc' = "stop" /\ timeoutAt # 0 /\ timer' = timer
        /\ timeoutAt' = IF timeoutAt > 0 THEN timeoutAt - 1 ELSE timeoutAt
      BY <1>3 DEF TaskSet_Recv, Graph_Goto
  <2>2. (timeoutAt = 1 /\ timeoutAt' = 0) \/ (timeoutAt = -1 /\ timeoutAt' = -1)
    <3>1. timeoutAt = 1 \/ timeoutAt = -1
        BY <2>1 DEF TimerOK
    <3> QED
        BY <2>1, <3>1
  <2>3. timeoutAt' # -1 => ~timer'
      BY <2>1, <2>2 DEF TimerOK
  <2>4. timeoutAt' \in {-1, 0, 1} /\ timeoutAt' # 1 /\ gpc' = "stop"
      BY <2>1, <2>2
  <2> QED
      BY <2>3, <2>4 DEF TimerOK
<1>4. CASE TaskSet_Drain
  <2>1. gpc = "stop" /\ gpc' = "fill" /\ ~timer' /\ timeoutAt' = Drained
      BY <1>4 DEF TaskSet_Drain, Graph_Goto
  <2>2. timeoutAt = -1 \/ timeoutAt = 0
      BY <2>1 DEF TimerOK
  <2>3. timeoutAt' = -1
      BY <2>1, <2>2 DEF Drained
  <2> QED
      BY <2>1, <2>3 DEF TimerOK
<1>6. CASE TaskSet_SetTimer
  <2>1. gpc \notin {"wait", "stop", "fault"} /\ gpc' = "wait" /\ timeoutAt' = timeoutAt
      BY <1>6 DEF TaskSet_SetTimer, Graph_Goto, Drawing
  <2> QED
      BY <2>1 DEF TimerOK
<1>7. CASE TaskSet_HungUp
  <2>1. /\ gpc = "wait" /\ gpc' = "hungup" /\ timeoutAt = 0 /\ timeoutAt' = -1
        /\ ~timer' /\ late' = late
      BY <1>7 DEF TaskSet_HungUp, Graph_Goto
  <2> QED
      BY <2>1 DEF TimerOK
<1>8. CASE TaskSet_StopFaults
  <2>1. /\ gpc = "stop" /\ gpc' = "fault" /\ ~timer' /\ late' = late
        /\ timeoutAt' \in {msgQ[gfx], -1}
      BY <1>8 DEF TaskSet_StopFaults, RunsOut, Graph_Goto
  <2>2. msgQ[gfx] = 0
      BY <2>1, Idle, ClientTypes DEF OwesOK, Owes
  <2> QED
      BY <2>1, <2>2 DEF TimerOK
<1>5. CASE GraphThread /\ ~(\/ TaskSet_Recv \/ TaskSet_HungUp \/ TaskSet_StopFaults
                           \/ TaskSet_Drain \/ TaskSet_SetTimer)
  <2>1. /\ UNCHANGED <<timer, timeoutAt, late>>
        /\ gpc \notin {"wait", "stop", "fault"} /\ gpc' \notin {"wait", "stop", "hungup"}
      BY <1>5 DEF GraphThread, Graph_Update, Graph_TaskSet00,
         GameState_Init, GameState_Destroy, MsgEvent_SendNullTask, MsgEvent_Entry, MsgEvent_Recv,
         PreRender_Calc, Jpeg_SendTask, Jpeg_Entry, Jpeg_Recv, Graph_Problem,
         TaskSet_Send, TaskSet_Entry, Graph_Goto, Drawing, GraphKeeps, timerVars
  <2> QED
      BY <2>1 DEF TimerOK
<1> QED
    BY <1>1, <1>2, <1>3, <1>4, <1>5, <1>6, <1>7, <1>8, Steps DEF GraphThread, Graph_Update, Graph_TaskSet00

-----------------------------------------------------------------------------
(* A step of a client leaves the scheduler's lists, the processors and the  *)
(* display alone; what it may do is send a task.                            *)
Still == UNCHANGED <<done, state, gfxList, curRSPTask, curRDPTask, pendingSwapBuf1, viCurr, viNext>>

Filled == UNCHANGED <<framebuffer, swap, swapBuffer>>

Sends(t) == Still /\ cmdQ' = Append(cmdQ, t)

LEMMA ClientKinds ==
    ASSUME TimerExpires \/ GraphThread \/ AudioThread \/ UNCHANGED clientVars
    PROVE  \/ Still /\ cmdQ' = cmdQ /\ Filled
           \/ TaskSet_Send /\ Sends(gfx)
           \/ MsgEvent_SendNullTask /\ Sends(null) /\ Filled
           \/ Jpeg_SendTask /\ Sends(jpeg) /\ Filled
           \/ AudioMgr_Send /\ aud \in Task /\ Sends(aud) /\ Filled
<1> USE DEF Still, Filled, Sends, listVars, curVars, bufVars, viVars, taskVars, cfbVars
<1>1. ASSUME NEW t, SendCmd(t) PROVE Sends(t)
    BY <1>1 DEF SendCmd
<1>2. ASSUME NEW t, Sched_SendEntryMsg(t) \/ ClientReceive(t) \/ ClientPrime(t)
      PROVE  Still /\ cmdQ' = cmdQ /\ Filled
    BY <1>2 DEF Sched_SendEntryMsg, ClientReceive, ClientPrime
<1>3. UNCHANGED vars => Still /\ cmdQ' = cmdQ /\ Filled
    BY DEF vars, queueVars
<1>4. FillOther => Filled
    BY DEF FillOther
<1> HIDE DEF Still, Filled, Sends
<1>5. CASE TimerExpires \/ UNCHANGED clientVars
    BY <1>3, <1>5 DEF TimerExpires, RunsOut, clientVars
<1>6. CASE AudioThread
    BY <1>1, <1>2, <1>3, <1>4, <1>6 DEF AudioThread, AudioMgr_Init, AudioMgr_Send, AudioMgr_Entry,
       AudioMgr_Silent, AudioMgr_Reply
<1>7. CASE TaskSet_Send \/ MsgEvent_SendNullTask \/ Jpeg_SendTask
    BY <1>1, <1>4, <1>7 DEF TaskSet_Send, MsgEvent_SendNullTask, Jpeg_SendTask
<1>8. CASE GraphThread /\ ~(TaskSet_Send \/ MsgEvent_SendNullTask \/ Jpeg_SendTask)
    BY <1>2, <1>3, <1>8 DEF GraphThread, Graph_Update, Graph_TaskSet00,
       GameState_Init, GameState_Destroy, MsgEvent_Entry, MsgEvent_Recv,
       PreRender_Calc, Jpeg_Entry, Jpeg_Recv, TaskSet_SetTimer,
       Graph_Problem, TaskSet_Recv, TaskSet_HungUp, TaskSet_StopFaults, TaskSet_Drain, TaskSet_Entry
<1> QED
    BY <1>5, <1>6, <1>7, <1>8

LEMMA SendsProgress ==
    ASSUME CoreInv, NEW u \in Task, Sends(u), NEW t \in Task
    PROVE  /\ InCmdQ(t)' <=> InCmdQ(t) \/ t = u
           /\ InProgress(t)' <=> InProgress(t) \/ t = u
<1>1. cmdQ \in Seq(Task) /\ cmdQ' = Append(cmdQ, u)
    BY DEF CoreInv, TypeOK, QueuesTyped, Sends
<1>2. /\ DOMAIN cmdQ = 1 .. Len(cmdQ) /\ DOMAIN cmdQ' = 1 .. Len(cmdQ) + 1 /\ Len(cmdQ) \in Nat
      /\ cmdQ'[Len(cmdQ) + 1] = u /\ \A i \in DOMAIN cmdQ : cmdQ'[i] = cmdQ[i]
    BY <1>1
<1>3. InCmdQ(t)' <=> InCmdQ(t) \/ t = u
  <2>1. \A i \in DOMAIN cmdQ' : i \in DOMAIN cmdQ \/ i = Len(cmdQ) + 1
      BY <1>2
  <2>2. DOMAIN cmdQ \subseteq DOMAIN cmdQ' /\ Len(cmdQ) + 1 \in DOMAIN cmdQ'
      BY <1>2
  <2> QED
      BY <1>2, <2>1, <2>2 DEF InCmdQ
<1>4. Completes(t)' <=> Completes(t)
    BY DEF Sends, Still, Completes
<1>5. done' = done
    BY DEF Sends, Still
<1> QED
    BY <1>3, <1>4, <1>5 DEF InProgress

LEMMA StillProgress ==
    ASSUME Still, cmdQ' = cmdQ, NEW t
    PROVE  (InCmdQ(t)' <=> InCmdQ(t)) /\ (InProgress(t)' <=> InProgress(t))
BY DEF Still, InProgress, InCmdQ, Completes

-----------------------------------------------------------------------------
(* What a step of the scheduler does to the pending swap. *)
LEMMA PendingSteps ==
    ASSUME SchedThread \/ Hardware
    PROVE  \/ pendingSwapBuf1' \in {pendingSwapBuf1, NULL}
           \/ /\ Sched_IsComplete /\ pc = "complete" /\ Completes(done) /\ swap[done]
              /\ pendingSwapBuf1 = NULL /\ pendingSwapBuf1' = framebuffer[done]
<1>1. CASE Sched_IsComplete
    BY <1>1 DEF Sched_IsComplete, func_800C8BC4
<1>2. CASE Sched_HandleRetrace
    BY <1>2 DEF Sched_HandleRetrace
<1>3. CASE SchedThread /\ ~Sched_IsComplete /\ ~Sched_HandleRetrace
    BY <1>3 DEF SchedThread, RecvEntry, DrainCmdQ, Sched_Yield,
       Sched_HandleRSPDone, Sched_HandleRDPDone, Sched_HandleReset, Sched_HandleStart,
       ScheduleAudio, ScheduleResume, ScheduleStart, ScheduleNone, Assert_Fails, bufVars
<1>4. CASE Hardware
    BY <1>4 DEF Hardware, RspFinish, RspYield, RspFullSync, RdpFinish, Hang, ViRetrace, PreNmi, Nmi,
       bufVars
<1> QED
    BY <1>1, <1>2, <1>3, <1>4

LEMMA DoneIsTask ==
    ASSUME CoreInv, pc = "complete"
    PROVE  done \in Task /\ InProgress(done)
BY DEF CoreInv, ControlOK, TypeOK, ThreadTyped, InProgress

LEMMA RingEngine ==
    ASSUME CoreInv, Display, OwesOK, RingOK, Engine
    PROVE  RingOK'
<1>1. UNCHANGED <<framebuffer, fbIdx, cfbIdx>>
    BY EngineKeeps DEF Engine, graphVars
<1>2. ASSUME ~InProgress(gfx)' PROVE pendingSwapBuf1' \in {NULL, framebuffer[gfx]}
  <2>1. CASE pendingSwapBuf1' = NULL
      BY <2>1
  <2>2. CASE pendingSwapBuf1' = pendingSwapBuf1 /\ pendingSwapBuf1 # NULL
    <3>1. CASE InProgress(gfx)
      <4>1. pc = "complete" /\ done = gfx /\ Completes(gfx)
          BY <1>2, <3>1, EngineProgress, ClientTypes DEF Engine
      <4> QED
          BY <2>2, <4>1, ClientTypes DEF Display, ActiveOK
    <3> QED
        BY <2>2, <3>1 DEF RingOK
  <2>3. CASE pc = "complete" /\ swap[done] /\ pendingSwapBuf1' = framebuffer[done]
    <3>1. done \in Task /\ InProgress(done)
        BY <2>3, DoneIsTask
    <3>2. Type[done] = "GFX"
        BY <2>3, <3>1 DEF CoreInv, FramesOK
    <3> QED
        BY <2>3, <3>1, <3>2, OnlyFrame
  <2> QED
      BY <2>1, <2>2, <2>3, PendingSteps DEF Engine
<1> QED
    BY <1>1, <1>2 DEF RingOK

LEMMA RingKept ==
    ASSUME CoreInv, Display, OwesOK, RingOK, [ClientsNext]_clientVars
    PROVE  RingOK'
<1>1. CASE Engine
    BY <1>1, RingEngine
<1>2. CASE TaskSet_Send /\ Sends(gfx)
  <2>1. CfbRing[cfbIdx + 1] \in Cfb /\ Len(CfbRing) \in Nat /\ Len(CfbRing) > 1
    <3>1. CfbRing \in Seq(Cfb) /\ Len(CfbRing) > 1 /\ cfbIdx + 1 \in 1 .. Len(CfbRing)
        BY ClientsAssumption DEF RingOK
    <3> QED
        BY <3>1, ElementOfSeq
  <2>2. framebuffer'[gfx] = CfbRing[cfbIdx + 1] /\ cfbIdx' = (cfbIdx + 1) % Len(CfbRing)
      BY <1>2, ClientTypes
         DEF TaskSet_Send, FillGfx, NextCfb, CoreInv, TypeOK, FramesTyped
  <2>3. cfbIdx \in 0 .. Len(CfbRing) - 1 /\ cfbIdx' \in 0 .. Len(CfbRing) - 1
      BY <2>1, <2>2, NextTurn DEF RingOK
  <2>4. fbIdx' \in {0, 1}
      BY <1>2 DEF TaskSet_Send, FbIdxSent, RingOK
  <2>5. InProgress(gfx)'
      BY <1>2, SendsProgress, ClientTypes
  <2> QED
      BY <2>2, <2>3, <2>4, <2>5 DEF RingOK
<1>3. ASSUME Filled, Still, cmdQ' = cmdQ \/ \E u \in Task : Sends(u),
             ~TaskSet_Send, TimerExpires \/ GraphThread \/ AudioThread \/ UNCHANGED clientVars
      PROVE  RingOK'
  <2>1. cfbIdx' = cfbIdx /\ fbIdx' \in {fbIdx, 1 - fbIdx}
      BY <1>3 DEF GraphThread, Graph_Update, Graph_TaskSet00,
         GameState_Init, GameState_Destroy, MsgEvent_SendNullTask, MsgEvent_Entry, MsgEvent_Recv,
         PreRender_Calc, Jpeg_SendTask, Jpeg_Entry, Jpeg_Recv, TaskSet_SetTimer,
         Graph_Problem, TaskSet_Recv, TaskSet_HungUp, TaskSet_StopFaults, TaskSet_Drain, TaskSet_Entry,
         GraphKeeps,
         AudioThread, AudioMgr_Init, AudioMgr_Send, AudioMgr_Entry, AudioMgr_Silent, AudioMgr_Reply,
         AudioKeeps, AudioMgr_NextRetrace, TimerExpires, RunsOut, clientVars, graphVars
  <2>2. InProgress(gfx) => InProgress(gfx)'
      BY <1>3, SendsProgress, StillProgress, ClientTypes
  <2>3. UNCHANGED <<framebuffer, pendingSwapBuf1>>
      BY <1>3 DEF Filled, Still
  <2> QED
      BY <2>1, <2>2, <2>3 DEF RingOK
<1>4. TaskSet_Send => Sends(gfx)
    BY DEF Sends, TaskSet_Send, SendCmd, Still, listVars, curVars, bufVars, viVars
<1>5. CASE ~TaskSet_Send /\ (TimerExpires \/ GraphThread \/ AudioThread \/ UNCHANGED clientVars)
  <2>1. Filled /\ Still /\ (cmdQ' = cmdQ \/ \E u \in Task : Sends(u))
      BY <1>5, ClientKinds, ClientTypes DEF MsgEvent_SendNullTask, Jpeg_SendTask, Sends
  <2> QED
      BY <1>3, <1>5, <2>1
<1> QED
    BY <1>1, <1>2, <1>4, <1>5, Steps

-----------------------------------------------------------------------------
LEMMA PictureKept ==
    ASSUME CoreInv, RingOK, PictureOK, [ClientsNext]_clientVars
    PROVE  PictureOK'
<1>1. CASE Engine \/ TimerExpires \/ AudioThread \/ UNCHANGED clientVars
  <2>1. UNCHANGED <<gpc, pausing, noSwap, cvgSave, fbIdx>>
      BY <1>1 DEF Engine, TimerExpires, clientVars, graphVars, AudioThread, AudioMgr_Init,
         AudioMgr_Send, AudioMgr_Entry, AudioMgr_Silent, AudioMgr_Reply, AudioKeeps,
         AudioMgr_NextRetrace
  <2>2. UNCHANGED <<framebuffer, swap, swapBuffer>>
    <3>1. CASE Engine
        BY <3>1, EngineKeeps DEF Engine
    <3>2. CASE TimerExpires \/ UNCHANGED clientVars
        BY <3>2 DEF TimerExpires, RunsOut, clientVars, vars, taskVars, cfbVars
    <3>3. CASE AudioThread
        BY <3>3 DEF AudioThread, AudioMgr_Init, AudioMgr_Send, AudioMgr_Entry, AudioMgr_Silent,
           AudioMgr_Reply, ClientPrime, FillOther, Sched_SendEntryMsg, ClientReceive, vars,
           taskVars, cfbVars
    <3> QED
        BY <1>1, <3>1, <3>2, <3>3
  <2> QED
      BY <2>1, <2>2 DEF PictureOK, curFrameBuffer
<1>2. CASE TaskSet_Send
  <2>1. gpc = "fill" /\ gpc' = "entry" /\ UNCHANGED <<pausing, cvgSave>>
      BY <1>2 DEF TaskSet_Send, Graph_Goto
  <2>2. CfbRing[cfbIdx + 1] \in Cfb
    <3>1. CfbRing \in Seq(Cfb) /\ cfbIdx + 1 \in 1 .. Len(CfbRing)
        BY ClientsAssumption DEF RingOK
    <3> QED
        BY <3>1, ElementOfSeq
  <2>3. /\ framebuffer'[gfx] = CfbRing[cfbIdx + 1]
        /\ swapBuffer'[CfbRing[cfbIdx + 1]] = curFrameBuffer
        /\ swap'[gfx] = Shown
      BY <1>2, <2>2, ClientTypes DEF TaskSet_Send, FillGfx, CoreInv, TypeOK, FramesTyped
  <2>4. ~MayOverflow /\ pausing => ~Shown /\ cvgSave = curFrameBuffer
      BY <2>1 DEF PictureOK, Shown
  <2>5. framebuffer'[gfx] # NULL
      BY <2>2, <2>3, ClientTypes
  <2> QED
      BY <2>1, <2>3, <2>4, <2>5 DEF PictureOK
<1>3. CASE TaskSet_SetTimer
  <2>1. gpc' = "wait" /\ gpc \in {"draw", "decode", "update"} /\ fbIdx' = fbIdx
      BY <1>3 DEF TaskSet_SetTimer, Graph_Goto, Drawing
  <2>2. pausing' => noSwap' /\ cvgSave' = curFrameBuffer
      BY <1>3 DEF TaskSet_SetTimer, Gameplay_Draw
  <2>3. curFrameBuffer' = curFrameBuffer
      BY <2>1 DEF curFrameBuffer
  <2> QED
      BY <2>1, <2>2, <2>3 DEF PictureOK
<1>4. CASE Graph_Problem
    BY <1>4 DEF Graph_Problem, Graph_Goto, PictureOK
<1>5. CASE PreRender_Calc \/ GameState_Destroy
    BY <1>5 DEF PreRender_Calc, GameState_Destroy, Graph_Goto, PictureOK
<1>6. CASE MsgEvent_Recv
  <2>1. /\ gpc = "nullRecv" /\ gpc' = IF pausing THEN "prerender" ELSE "decode"
        /\ UNCHANGED <<pausing, noSwap, cvgSave, fbIdx, framebuffer, swap, swapBuffer>>
      BY <1>6 DEF MsgEvent_Recv, Graph_Goto, GraphKeeps, ClientReceive, taskVars, cfbVars
  <2> QED
      BY <2>1 DEF PictureOK
<1>7. CASE TaskSet_Entry
  <2>1. /\ gpc = "entry" /\ gpc' = "update"
        /\ UNCHANGED <<pausing, noSwap, cvgSave, framebuffer, swap, swapBuffer>>
      BY <1>7 DEF TaskSet_Entry, Graph_Goto, Sched_SendEntryMsg, taskVars, cfbVars
  <2> QED
      BY <2>1 DEF PictureOK
<1>8. CASE TaskSet_Recv \/ TaskSet_HungUp \/ TaskSet_StopFaults \/ TaskSet_Drain
  <2>1. /\ gpc \in {"wait", "stop"} /\ gpc' \in {"stop", "fault", "fill", "hungup"}
        /\ UNCHANGED <<pausing, noSwap, cvgSave, fbIdx>>
      BY <1>8 DEF TaskSet_Recv, TaskSet_HungUp, TaskSet_StopFaults, TaskSet_Drain, Graph_Goto
  <2> QED
      BY <2>1 DEF PictureOK, curFrameBuffer
<1>9. CASE MsgEvent_SendNullTask \/ MsgEvent_Entry
  <2>1. /\ gpc \in {"update", "nullEntry"} /\ gpc' \in {"nullEntry", "nullRecv"}
        /\ UNCHANGED <<pausing, noSwap, cvgSave, fbIdx, framebuffer, swap, swapBuffer>>
      BY <1>9 DEF MsgEvent_SendNullTask, MsgEvent_Entry, Graph_Goto, GraphKeeps, FillOther,
         Sched_SendEntryMsg, taskVars, cfbVars
  <2> QED
      BY <2>1 DEF PictureOK
<1>10. CASE GameState_Init \/ Jpeg_SendTask \/ Jpeg_Entry \/ Jpeg_Recv
  <2>1. /\ gpc \in {"init", "decode", "jpegEntry", "jpegRecv"}
        /\ gpc' \in {"update", "decode", "jpegEntry", "jpegRecv"} /\ UNCHANGED pausing
      BY <1>10 DEF GameState_Init, Jpeg_SendTask, Jpeg_Entry, Jpeg_Recv, Graph_Goto, GraphKeeps
  <2> QED
      BY <2>1 DEF PictureOK
<1> QED
    BY <1>1, <1>2, <1>3, <1>4, <1>5, <1>6, <1>7, <1>8, <1>9, <1>10, Steps
       DEF GraphThread, Graph_Update, Graph_TaskSet00

-----------------------------------------------------------------------------
(* What the steps of the scheduler do to the owners of the processors.      *)

LEMMA Heads ==
    ASSUME CoreInv
    PROVE  /\ cmdQ # <<>> => /\ Head(cmdQ) \in Task /\ Tail(cmdQ) \in Seq(Task)
                             /\ InCmdQ(Head(cmdQ)) /\ Completes(Head(cmdQ))
                             /\ curRSPTask # Head(cmdQ) /\ curRDPTask # Head(cmdQ)
           /\ audioList # <<>> => Head(audioList) \in Task /\ Type[Head(audioList)] = "AUD"
           /\ gfxList # <<>> => Head(gfxList) \in Task /\ Tail(gfxList) \in Seq(Task)
<1>1. cmdQ \in Seq(Task) /\ audioList \in Seq(Task) /\ gfxList \in Seq(Task)
    BY DEF CoreInv, TypeOK, QueuesTyped, ListsTyped
<1>2. ASSUME cmdQ # <<>>
      PROVE  /\ Head(cmdQ) \in Task /\ Tail(cmdQ) \in Seq(Task)
             /\ InCmdQ(Head(cmdQ)) /\ Completes(Head(cmdQ))
             /\ curRSPTask # Head(cmdQ) /\ curRDPTask # Head(cmdQ)
  <2>1. PICK h \in Task : h = Head(cmdQ) /\ Tail(cmdQ) \in Seq(Task) /\ Count(cmdQ, h) > 0
      BY <1>1, <1>2, TakeHead
  <2>2. InCmdQ(h)
      BY <2>1, InCmdQIsCount DEF CoreInv, TypeOK
  <2>3. Completes(h)
      BY <2>2 DEF CoreInv, ListsOK
  <2>4. curRSPTask # h
      BY <2>1, PlacesFacts
  <2>5. curRDPTask # h
      BY <2>1, <2>3, ClientTypes DEF CoreInv, OwnersOK, Completes
  <2> QED
      BY <2>1, <2>2, <2>3, <2>4, <2>5
<1>3. audioList # <<>> => Head(audioList) \in Task /\ Type[Head(audioList)] = "AUD"
    BY <1>1, TakeHead DEF CoreInv, ListsOK
<1>4. gfxList # <<>> => Head(gfxList) \in Task /\ Tail(gfxList) \in Seq(Task)
    BY <1>1, TakeHead
<1> QED
    BY <1>2, <1>3, <1>4

(* One turn of the loop in Sched_HandleEntry takes one task. *)
LEMMA TailQueued ==
    ASSUME CoreInv, cmdQ # <<>>, cmdQ' = Tail(cmdQ), NEW t \in Task, Head(cmdQ) # t
    PROVE  InCmdQ(t)' <=> InCmdQ(t)
<1>1. cmdQ \in Seq(Task) /\ Tail(cmdQ) \in Seq(Task)
    BY Heads DEF CoreInv, TypeOK, QueuesTyped
<1>2. Count(cmdQ, t) \in Nat /\ Count(Tail(cmdQ), t) = Count(cmdQ, t) - (IF Head(cmdQ) = t THEN 1 ELSE 0)
    BY <1>1, PositionsFinite, CountTail
<1>3. Count(Tail(cmdQ), t) = Count(cmdQ, t)
    BY <1>2
<1>4. Count(cmdQ, t) > 0 <=> \E i \in DOMAIN cmdQ : cmdQ[i] = t
    BY <1>1, CountPositive
<1>5. Count(Tail(cmdQ), t) > 0 <=> \E i \in DOMAIN Tail(cmdQ) : Tail(cmdQ)[i] = t
    BY <1>1, CountPositive
<1> QED
    BY <1>3, <1>4, <1>5 DEF InCmdQ

LEMMA RdpEngine ==
    ASSUME CoreInv, RdpOwned, SchedThread \/ Hardware
    PROVE  RdpOwned'
<1> USE ClientTypes
<1>0. state \in [Task -> SUBSET Bits]
    BY DEF CoreInv, TypeOK, StateTyped
<1>1. CASE UNCHANGED <<state, curRSPTask, curRDPTask>>
    BY <1>1 DEF RdpOwned
<1>2. CASE DrainCmdQ
  <2>1. /\ cmdQ # <<>> /\ UNCHANGED <<curRSPTask, curRDPTask>>
        /\ \/ state' = [state EXCEPT ![Head(cmdQ)] = {"SP", "DP"}]
           \/ state' = [state EXCEPT ![Head(cmdQ)] = {"SP"}]
      BY <1>2 DEF DrainCmdQ, Sched_QueueTask, curVars
  <2> QED
      BY <1>0, <2>1, Heads DEF RdpOwned
<1>3. CASE Sched_Yield
  <2>1. /\ UNCHANGED <<curRSPTask, curRDPTask>> /\ curRSPTask \in Task
        /\ state' = state \/ state' = [state EXCEPT ![curRSPTask] = @ \cup {"YIELD"}]
      BY <1>3 DEF Sched_Yield, curVars, CoreInv, TypeOK, OwnersTyped
  <2> QED
      BY <1>0, <2>1 DEF RdpOwned
<1>4. CASE Sched_HandleRSPDone /\ curRSPTask # NULL
  <2>1. /\ curRSPTask \in Task /\ curRSPTask' = NULL /\ curRDPTask' = curRDPTask
        /\ \/ state' = [state EXCEPT ![curRSPTask] = @ \cup {"YIELDED"}]
           \/ state' = [state EXCEPT ![curRSPTask] = @ \ {"SP"}]
      BY <1>4 DEF Sched_HandleRSPDone, CoreInv, TypeOK, OwnersTyped
  <2> QED
      BY <1>0, <2>1 DEF RdpOwned
<1>5. CASE Sched_HandleRDPDone /\ ~(curRDPTask = NULL \/ Type[curRDPTask] # "GFX")
  <2>1. /\ curRDPTask \in Task /\ curRDPTask' = NULL /\ curRSPTask' = curRSPTask
        /\ state' = [state EXCEPT ![curRDPTask] = @ \ {"DP"}]
      BY <1>5 DEF Sched_HandleRDPDone, CoreInv, TypeOK, OwnersTyped
  <2> QED
      BY <1>0, <2>1 DEF RdpOwned
<1>6. CASE ScheduleAudio
  <2>1. audioList # <<>>
      BY <1>6 DEF ScheduleAudio, PickAudio, CoreInv, ListsOK
  <2>2. PICK h \in Task : h = Head(audioList) /\ Type[h] = "AUD"
      BY <2>1, Heads
  <2>3. /\ curRSPTask' = h /\ curRDPTask' = curRDPTask
        /\ state' = [state EXCEPT ![h] = @ \ {"YIELD", "YIELDED"}]
      BY <1>6, <2>2 DEF ScheduleAudio, StartRsp
  <2> QED
      BY <1>0, <2>2, <2>3 DEF RdpOwned
<1>7. CASE ScheduleResume
  <2>1. gfxList # <<>> /\ Resumable(Head(gfxList))
      BY <1>7 DEF ScheduleResume, PickResume
  <2>2. PICK h \in Task : h = Head(gfxList) /\ (Type[h] = "GFX" => "YIELDED" \in state[h])
      BY <2>1, Heads DEF Resumable, NeedsRDP
  <2>3. /\ curRSPTask' = h /\ curRDPTask' = curRDPTask
        /\ state' = [state EXCEPT ![h] = @ \ {"YIELD", "YIELDED"}]
      BY <1>7, <2>2 DEF ScheduleResume, StartRsp
  <2> QED
      BY <1>0, <2>2, <2>3 DEF RdpOwned
<1>8. CASE ScheduleStart
  <2>1. gfxList # <<>> /\ curRDPTask = NULL /\ curRSPTask = NULL
      BY <1>8 DEF ScheduleStart, PickStart
  <2>2. PICK h \in Task : h = Head(gfxList)
      BY <2>1, Heads
  <2>3. \/ /\ Type[h] = "NUL" /\ state' = [state EXCEPT ![h] = @ \ {"SP", "DP"}]
           /\ UNCHANGED <<curRSPTask, curRDPTask>>
        \/ /\ curRSPTask' = h /\ curRDPTask' = h
           /\ state' = [state EXCEPT ![h] = @ \ {"YIELD", "YIELDED"}]
      BY <1>8, <2>2 DEF ScheduleStart, StartRsp, curVars
  <2> QED
      BY <1>0, <2>1, <2>2, <2>3 DEF RdpOwned
<1>9. CASE \/ RecvEntry \/ Sched_HandleRetrace \/ Sched_HandleReset \/ Sched_HandleStart
           \/ Sched_IsComplete \/ ScheduleNone \/ Hardware \/ Assert_Fails
    BY <1>1, <1>9 DEF RecvEntry, Sched_HandleRetrace, Sched_HandleReset, Sched_HandleStart,
       Sched_IsComplete, ScheduleNone, Assert_Fails, curVars, taskVars,
       Hardware, RspFinish, RspYield, RspFullSync, RdpFinish, Hang, ViRetrace, PreNmi, Nmi
<1> QED
    BY <1>2, <1>3, <1>4, <1>5, <1>6, <1>7, <1>8, <1>9
       DEF SchedThread, Sched_HandleRSPDone, Sched_HandleRDPDone

LEMMA RdpKept ==
    ASSUME CoreInv, RdpOwned, [ClientsNext]_clientVars
    PROVE  RdpOwned'
<1>1. CASE Engine
    BY <1>1, RdpEngine DEF Engine
<1>2. CASE Still
    BY <1>2 DEF Still, RdpOwned
<1> QED
    BY <1>1, <1>2, ClientKinds, Steps DEF Sends

-----------------------------------------------------------------------------
(* The display of a frame that is not to be shown.                          *)

Drawn == ~InCmdQ(gfx) /\ ("DP" \notin state[gfx] \/ curRDPTask = gfx)

(* The RDP is given the frame's buffer by ScheduleStart only. *)
LEMMA DrawnSteps ==
    ASSUME CoreInv, SchedThread \/ Hardware, Drawn', ~Drawn
    PROVE  /\ gfxList # <<>> /\ Head(gfxList) = gfx /\ ScheduleStart
           /\ framebuffer[gfx] # NULL => func_800C89D4(gfx)
<1> USE ClientTypes
<1>0. state \in [Task -> SUBSET Bits]
    BY DEF CoreInv, TypeOK, StateTyped
<1>1. CASE UNCHANGED <<cmdQ, state, curRDPTask>>
    BY <1>1 DEF Drawn, InCmdQ
<1>2. CASE DrainCmdQ
  <2>1. /\ cmdQ # <<>> /\ cmdQ' = Tail(cmdQ) /\ curRDPTask' = curRDPTask
        /\ state' = [state EXCEPT ![Head(cmdQ)] =
                         IF NeedsRDP(Head(cmdQ)) THEN {"SP", "DP"} ELSE {"SP"}]
      BY <1>2 DEF DrainCmdQ, Sched_QueueTask, curVars
  <2>2. CASE Head(cmdQ) = gfx
    <3>1. "DP" \in state'[gfx] /\ curRDPTask' # gfx
        BY <1>0, <2>1, <2>2, Heads DEF NeedsRDP
    <3> QED
        BY <3>1 DEF Drawn
  <2>3. CASE Head(cmdQ) # gfx
    <3>1. state'[gfx] = state[gfx]
        BY <1>0, <2>1, <2>3
    <3>2. InCmdQ(gfx) => InCmdQ(gfx)'
        BY <2>1, <2>3, TailQueued
    <3> QED
        BY <2>1, <3>1, <3>2 DEF Drawn
  <2> QED
      BY <2>2, <2>3
<1>3. CASE Sched_Yield
  <2>1. /\ UNCHANGED <<cmdQ, curRDPTask>> /\ curRSPTask \in Task
        /\ state' = state \/ state' = [state EXCEPT ![curRSPTask] = @ \cup {"YIELD"}]
      BY <1>3 DEF Sched_Yield, curVars, queueVars, CoreInv, TypeOK, OwnersTyped
  <2> QED
      BY <1>0, <2>1 DEF Drawn, InCmdQ
<1>4. CASE Sched_HandleRSPDone /\ curRSPTask # NULL
  <2>1. /\ curRSPTask \in Task /\ cmdQ' = cmdQ /\ curRDPTask' = curRDPTask
        /\ \/ state' = [state EXCEPT ![curRSPTask] = @ \cup {"YIELDED"}]
           \/ state' = [state EXCEPT ![curRSPTask] = @ \ {"SP"}]
      BY <1>4 DEF Sched_HandleRSPDone, CoreInv, TypeOK, OwnersTyped
  <2> QED
      BY <1>0, <2>1 DEF Drawn, InCmdQ
<1>5. CASE Sched_HandleRDPDone /\ ~(curRDPTask = NULL \/ Type[curRDPTask] # "GFX")
  <2>1. /\ curRDPTask \in Task /\ curRDPTask' = NULL /\ cmdQ' = cmdQ
        /\ state' = [state EXCEPT ![curRDPTask] = @ \ {"DP"}]
      BY <1>5 DEF Sched_HandleRDPDone, CoreInv, TypeOK, OwnersTyped
  <2> QED
      BY <1>0, <2>1 DEF Drawn, InCmdQ
<1>6. CASE ScheduleAudio \/ ScheduleResume
  <2>1. \/ audioList # <<>> /\ ScheduleAudio
        \/ gfxList # <<>> /\ ScheduleResume
      BY <1>6 DEF ScheduleAudio, PickAudio, ScheduleResume, PickResume, CoreInv, ListsOK
  <2>2. PICK h \in Task : StartRsp(h) /\ UNCHANGED <<cmdQ, curRDPTask>>
      BY <2>1, Heads DEF ScheduleAudio, ScheduleResume, queueVars
  <2>3. state' = [state EXCEPT ![h] = @ \ {"YIELD", "YIELDED"}]
      BY <2>2 DEF StartRsp
  <2> QED
      BY <1>0, <2>2, <2>3 DEF Drawn, InCmdQ
<1>7. CASE ScheduleStart
  <2>1. /\ gfxList # <<>> /\ cmdQ' = cmdQ
        /\ framebuffer[Head(gfxList)] # NULL => func_800C89D4(Head(gfxList))
      BY <1>7 DEF ScheduleStart, PickStart, queueVars
  <2>2. PICK h \in Task : h = Head(gfxList)
      BY <2>1, Heads
  <2>3. \/ /\ Type[h] = "NUL" /\ state' = [state EXCEPT ![h] = @ \ {"SP", "DP"}]
           /\ curRDPTask' = curRDPTask
        \/ /\ curRDPTask' = h
           /\ state' = [state EXCEPT ![h] = @ \ {"YIELD", "YIELDED"}]
      BY <1>7, <2>2 DEF ScheduleStart, StartRsp, curVars
  <2>4. h = gfx
      BY <1>0, <2>1, <2>3 DEF Drawn, InCmdQ
  <2> QED
      BY <1>7, <2>1, <2>2, <2>4
<1>8. CASE \/ RecvEntry \/ Sched_HandleRetrace \/ Sched_HandleReset \/ Sched_HandleStart
           \/ Sched_IsComplete \/ ScheduleNone \/ Hardware \/ Assert_Fails
    BY <1>1, <1>8 DEF RecvEntry, Sched_HandleRetrace, Sched_HandleReset, Sched_HandleStart,
       Sched_IsComplete, ScheduleNone, Assert_Fails, curVars, taskVars, queueVars,
       Hardware, RspFinish, RspYield, RspFullSync, RdpFinish, Hang, ViRetrace, PreNmi, Nmi
<1> QED
    BY <1>2, <1>3, <1>4, <1>5, <1>6, <1>7, <1>8
       DEF SchedThread, Sched_HandleRSPDone, Sched_HandleRDPDone

(* Nothing but the frame of a finished task replaces what the VI shows next.*)
LEMMA DisplaySteps ==
    ASSUME CoreInv, SchedThread \/ Hardware, pendingSwapBuf1' = NULL
    PROVE  viNext' = viNext /\ viCurr' \in {viCurr, viNext}
<1>1. CASE Sched_IsComplete
  <2>1. Completes(done) /\ swap[done] => framebuffer[done] # NULL
    <3>1. done \in Task
        BY <1>1, DoneIsTask DEF Sched_IsComplete
    <3> QED
        BY <3>1 DEF CoreInv, FramesOK
  <2> QED
      BY <1>1, <2>1 DEF Sched_IsComplete, func_800C8BC4, NoSwap
<1>2. CASE Sched_HandleRetrace
    BY <1>2 DEF Sched_HandleRetrace, NoSwap
<1>3. CASE SchedThread /\ ~Sched_IsComplete /\ ~Sched_HandleRetrace
    BY <1>3 DEF SchedThread, RecvEntry, DrainCmdQ, Sched_Yield,
       Sched_HandleRSPDone, Sched_HandleRDPDone, Sched_HandleReset, Sched_HandleStart,
       ScheduleAudio, ScheduleResume, ScheduleStart, ScheduleNone, Assert_Fails, viVars
<1>4. CASE Hardware
    BY <1>4 DEF Hardware, RspFinish, RspYield, RspFullSync, RdpFinish, Hang, ViRetrace, PreNmi, Nmi,
       viVars
<1> QED
    BY <1>1, <1>2, <1>3, <1>4

LEMMA HiddenEngine ==
    ASSUME CoreInv, Display, OwesOK, HiddenOK, Engine
    PROVE  HiddenOK'
<1>1. UNCHANGED <<framebuffer, swap, swapBuffer>> /\ (SchedThread \/ Hardware)
    BY EngineKeeps DEF Engine
<1>2. SUFFICES ASSUME framebuffer[gfx] # NULL, ~swap[gfx], Drawn'
               PROVE  /\ pendingSwapBuf1' = NULL
                      /\ swapBuffer[framebuffer[gfx]] \notin {viCurr', viNext'}
    BY <1>1 DEF HiddenOK, Drawn
<1>3. pendingSwapBuf1 = NULL /\ swapBuffer[framebuffer[gfx]] \notin {viCurr, viNext}
  <2>1. CASE Drawn
      BY <1>2, <2>1 DEF HiddenOK, Drawn
  <2>2. CASE ~Drawn
    <3>1. pendingSwapBuf1 = NULL /\ viCurr # swapBuffer[framebuffer[gfx]]
        BY <1>1, <1>2, <2>2, DrawnSteps DEF func_800C89D4
    <3> QED
        BY <3>1 DEF Display, ViOK
  <2> QED
      BY <2>1, <2>2
<1>4. pendingSwapBuf1' = NULL
  <2>1. ASSUME pc = "complete", swap[done] PROVE FALSE
    <3>1. done \in Task /\ InProgress(done)
        BY <2>1, DoneIsTask
    <3>2. Type[done] = "GFX"
        BY <2>1, <3>1 DEF CoreInv, FramesOK
    <3>3. done = gfx
        BY <3>1, <3>2, OnlyFrame
    <3> QED
        BY <1>2, <2>1, <3>3
  <2> QED
      BY <1>1, <1>3, <2>1, PendingSteps
<1> QED
    BY <1>1, <1>3, <1>4, DisplaySteps

LEMMA HiddenKept ==
    ASSUME CoreInv, Display, OwesOK, HiddenOK, [ClientsNext]_clientVars
    PROVE  HiddenOK'
<1>1. CASE Engine
    BY <1>1, HiddenEngine
<1>2. CASE TaskSet_Send /\ Sends(gfx)
  <2>1. InCmdQ(gfx)'
      BY <1>2, SendsProgress, ClientTypes
  <2> QED
      BY <2>1 DEF HiddenOK
<1>3. ASSUME Filled, Still, InCmdQ(gfx) => InCmdQ(gfx)'
      PROVE  HiddenOK'
    BY <1>3 DEF Filled, Still, HiddenOK
<1>4. ASSUME TimerExpires \/ GraphThread \/ AudioThread \/ UNCHANGED clientVars
      PROVE  HiddenOK'
  <2>1. CASE Still /\ cmdQ' = cmdQ /\ Filled
      BY <1>3, <2>1 DEF InCmdQ
  <2>2. ASSUME NEW u \in Task, Sends(u), Filled PROVE HiddenOK'
      BY <1>3, <2>2, SendsProgress, ClientTypes DEF Sends
  <2> QED
      BY <1>2, <1>4, <2>1, <2>2, ClientKinds, ClientTypes DEF MsgEvent_SendNullTask, Jpeg_SendTask
<1> QED
    BY <1>1, <1>4, Steps

-----------------------------------------------------------------------------
(* The null task is behind the frame.                                       *)

LEMMA BehindTail ==
    ASSUME NEW q \in Seq(Task), q # <<>>, Behind(q)
    PROVE  Behind(Tail(q))
<1> DEFINE r == Tail(q)
<1>1. /\ Len(q) \in Nat /\ DOMAIN q = 1 .. Len(q) /\ DOMAIN r = 1 .. Len(q) - 1
      /\ \A i \in DOMAIN r : r[i] = q[i + 1]
    OBVIOUS
<1> HIDE DEF r
<1>2. ASSUME NEW i \in DOMAIN r, NEW j \in DOMAIN r, r[i] = gfx, r[j] = null
      PROVE  i < j
  <2>1. i + 1 \in DOMAIN q /\ j + 1 \in DOMAIN q /\ q[i + 1] = gfx /\ q[j + 1] = null
      BY <1>1, <1>2
  <2>2. i + 1 < j + 1
      BY <2>1 DEF Behind
  <2> QED
      BY <1>1, <2>2
<1>3. Behind(r)
    BY <1>2 DEF Behind
<1> QED
    BY <1>3 DEF r

LEMMA BehindAppend ==
    ASSUME NEW q \in Seq(Task), NEW x \in Task, Behind(q), gfx # null,
           x # gfx \/ \A j \in DOMAIN q : q[j] # null
    PROVE  Behind(Append(q, x))
<1> DEFINE r == Append(q, x)
<1>1. /\ Len(q) \in Nat /\ DOMAIN q = 1 .. Len(q) /\ DOMAIN r = 1 .. Len(q) + 1
      /\ \A i \in DOMAIN q : r[i] = q[i]
      /\ r[Len(q) + 1] = x
    OBVIOUS
<1> HIDE DEF r
<1>2. ASSUME NEW i \in DOMAIN r, NEW j \in DOMAIN r, r[i] = gfx, r[j] = null
      PROVE  i < j
  <2>1. CASE i \in DOMAIN q /\ j \in DOMAIN q
      BY <1>1, <1>2, <2>1 DEF Behind
  <2>2. CASE i \in DOMAIN q /\ j = Len(q) + 1
      BY <1>1, <2>2
  <2>3. CASE i = Len(q) + 1
    <3>1. x = gfx /\ j # i
        BY <1>1, <1>2, <2>3
    <3>2. j \in DOMAIN q
        BY <1>1, <2>3, <3>1
    <3> QED
        BY <1>1, <1>2, <3>1, <3>2
  <2> QED
      BY <1>1, <2>1, <2>2, <2>3
<1>3. Behind(r)
    BY <1>2 DEF Behind
<1> QED
    BY <1>3 DEF r

LEMMA BehindCons ==
    ASSUME NEW q \in Seq(Task), NEW x \in Task, Behind(q), x # null
    PROVE  Behind(<<x>> \o q)
<1> DEFINE r == <<x>> \o q
<1>1. /\ Len(q) \in Nat /\ DOMAIN q = 1 .. Len(q) /\ DOMAIN r = 1 .. Len(q) + 1 /\ r[1] = x
      /\ \A i \in 2 .. Len(q) + 1 : r[i] = q[i - 1]
  <2>1. <<x>> \in Seq(Task) /\ Len(<<x>>) = 1 /\ <<x>>[1] = x
      OBVIOUS
  <2>2. r \in Seq(Task) /\ Len(r) = Len(q) + 1 /\ Len(q) \in Nat /\ DOMAIN q = 1 .. Len(q)
      BY <2>1
  <2>3. \A i \in 1 .. Len(r) : r[i] = IF i <= 1 THEN <<x>>[i] ELSE q[i - 1]
      BY <2>1, <2>2
  <2> QED
      BY <2>1, <2>2, <2>3
<1> HIDE DEF r
<1>2. ASSUME NEW i \in DOMAIN r, NEW j \in DOMAIN r, r[i] = gfx, r[j] = null
      PROVE  i < j
  <2>1. j # 1
      BY <1>1, <1>2
  <2>2. j \in 2 .. Len(q) + 1 /\ j - 1 \in DOMAIN q /\ q[j - 1] = null
      BY <1>1, <1>2, <2>1
  <2>3. CASE i = 1
      BY <1>1, <2>2, <2>3
  <2>4. CASE i # 1
    <3>1. i \in 2 .. Len(q) + 1 /\ i - 1 \in DOMAIN q /\ q[i - 1] = gfx
        BY <1>1, <1>2, <2>4
    <3>2. i - 1 < j - 1
        BY <2>2, <3>1 DEF Behind
    <3> QED
        BY <2>2, <3>1, <3>2
  <2> QED
      BY <2>3, <2>4
<1>3. Behind(r)
    BY <1>2 DEF Behind
<1> QED
    BY <1>3 DEF r

LEMMA InList ==
    ASSUME CoreInv, NEW t \in Task, NEW i \in DOMAIN gfxList, gfxList[i] = t
    PROVE  "SP" \in state[t] /\ ~InCmdQ(t)
<1>1. gfxList \in Seq(Task)
    BY DEF CoreInv, TypeOK, ListsTyped
<1>2. Count(gfxList, t) > 0
    BY <1>1, CountPositive
<1>3. "SP" \in state[t] /\ Count(cmdQ, t) = 0
    BY <1>2, PlacesFacts
<1> QED
    BY <1>3, InCmdQIsCount DEF CoreInv, TypeOK

(* The null task is not taken from gfxList before the frame is finished.    *)
LEMMA NullWaits ==
    ASSUME CoreInv, RdpOwned, null \in Task, Following, InProgress(gfx),
           gfxList # <<>>, Head(gfxList) = null,
           curRSPTask = NULL, curRDPTask = NULL, done = NULL
    PROVE  FALSE
<1> USE ClientTypes
<1>1. gfxList \in Seq(Task) /\ 1 \in DOMAIN gfxList /\ gfxList[1] = null
    BY DEF CoreInv, TypeOK, ListsTyped
<1>2. ~InCmdQ(null) /\ ~InCmdQ(gfx)
    BY <1>1, InList DEF Following
<1>3. ~Completes(gfx)
    BY <1>2 DEF InProgress
<1>4. CASE "SP" \in state[gfx]
  <2>1. Count(cmdQ, gfx) = 0
    <3>1. Count(cmdQ, gfx) \in Nat /\ ~(Count(cmdQ, gfx) > 0)
        BY <1>2, PlacesFacts, InCmdQIsCount DEF CoreInv, TypeOK
    <3> QED
        BY <3>1
  <2>2. Count(audioList, gfx) = 0
    <3>1. Count(audioList, gfx) \in Nat /\ ~(Count(audioList, gfx) > 0)
        BY PlacesFacts DEF CoreInv, ListsOK
    <3> QED
        BY <3>1
  <2>3. Places(gfx) = 1 /\ Count(gfxList, gfx) \in Nat
      BY <1>4, PlacesFacts
  <2>4. Count(gfxList, gfx) > 0
      BY <2>1, <2>2, <2>3 DEF Places
  <2>5. PICK i \in DOMAIN gfxList : gfxList[i] = gfx
      BY <1>1, <2>4, CountPositive
  <2>6. i < 1 /\ i \in 1 .. Len(gfxList) /\ Len(gfxList) \in Nat
      BY <1>1, <2>5 DEF Following, Behind
  <2> QED
      BY <2>6
<1>5. CASE "SP" \notin state[gfx]
  <2>1. "DP" \in state[gfx]
      BY <1>3, <1>5 DEF Completes
  <2> QED
      BY <1>5, <2>1 DEF RdpOwned
<1> QED
    BY <1>4, <1>5

(* What the scheduler does to its lists and to the task it answers.         *)
LEMMA ListSteps ==
    ASSUME CoreInv, SchedThread \/ Hardware
    PROVE  /\ \/ cmdQ' = cmdQ
              \/ cmdQ # <<>> /\ cmdQ' = Tail(cmdQ)
           /\ \/ gfxList' = gfxList
              \/ cmdQ # <<>> /\ cmdQ' = Tail(cmdQ) /\ gfxList' = Append(gfxList, Head(cmdQ))
              \/ gfxList # <<>> /\ gfxList' = Tail(gfxList)
              \/ curRSPTask # NULL /\ gfxList' = <<curRSPTask>> \o gfxList
           /\ \/ done' \in {done, NULL}
              \/ curRSPTask # NULL /\ done' = curRSPTask
              \/ curRDPTask # NULL /\ Type[curRDPTask] = "GFX" /\ done' = curRDPTask
              \/ /\ gfxList # <<>> /\ done' = Head(gfxList) /\ done = NULL
                 /\ curRSPTask = NULL /\ curRDPTask = NULL
<1>1. CASE DrainCmdQ
    BY <1>1 DEF DrainCmdQ, Sched_QueueTask
<1>2. CASE Sched_HandleRSPDone
    BY <1>2 DEF Sched_HandleRSPDone, Assert_Fails, listVars
<1>3. CASE Sched_HandleRDPDone
    BY <1>3 DEF Sched_HandleRDPDone, Assert_Fails, listVars
<1>4. CASE Sched_IsComplete
    BY <1>4 DEF Sched_IsComplete, listVars
<1>5. CASE ScheduleStart
  <2>1. pc # "complete"
      BY <1>5 DEF ScheduleStart, Scheduling
  <2>2. done = NULL
      BY <2>1 DEF CoreInv, ControlOK
  <2> QED
      BY <1>5, <2>2 DEF ScheduleStart, PickStart, StartRsp, queueVars
<1>6. CASE ScheduleAudio \/ ScheduleResume \/ ScheduleNone
    BY <1>6 DEF ScheduleAudio, ScheduleResume, PickResume, ScheduleNone, StartRsp, queueVars, listVars
<1>7. CASE RecvEntry \/ Sched_Yield \/ Sched_HandleRetrace \/ Sched_HandleReset \/ Sched_HandleStart
    BY <1>7 DEF RecvEntry, Sched_Yield, Sched_HandleRetrace, Sched_HandleReset, Sched_HandleStart,
       queueVars, listVars
<1>8. CASE Hardware
    BY <1>8 DEF Hardware, RspFinish, RspYield, RspFullSync, RdpFinish, Hang, ViRetrace, PreNmi, Nmi,
       queueVars, listVars
<1> QED
    BY <1>1, <1>2, <1>3, <1>4, <1>5, <1>6, <1>7, <1>8 DEF SchedThread

LEMMA FollowingEngine ==
    ASSUME CoreInv, RdpOwned, null \in Task, Following, InProgress(gfx), SchedThread \/ Hardware
    PROVE  Following'
<1> USE ClientTypes
<1>1. cmdQ \in Seq(Task) /\ gfxList \in Seq(Task)
    BY DEF CoreInv, TypeOK, QueuesTyped, ListsTyped
<1>2. curRSPTask # NULL => curRSPTask \in Task /\ curRSPTask # null
    BY DEF CoreInv, TypeOK, OwnersTyped, OwnersOK
<1>3. done' # null
  <2>1. CASE /\ gfxList # <<>> /\ done' = Head(gfxList) /\ done = NULL
             /\ curRSPTask = NULL /\ curRDPTask = NULL
      BY <2>1, NullWaits
  <2>2. CASE curRDPTask # NULL /\ Type[curRDPTask] = "GFX" /\ done' = curRDPTask
      BY <2>2
  <2> QED
      BY <1>2, <2>1, <2>2, ListSteps DEF Following
<1>4. CASE cmdQ' = cmdQ
  <2>1. Behind(cmdQ') /\ (InCmdQ(gfx)' => InCmdQ(null)')
      BY <1>4 DEF Following, InCmdQ
  <2>2. CASE gfxList' = gfxList
      BY <1>3, <2>1, <2>2 DEF Following, Behind
  <2>3. CASE gfxList # <<>> /\ gfxList' = Tail(gfxList)
    <3>1. Behind(gfxList')
        BY <1>1, <2>3, BehindTail DEF Following
    <3> QED
        BY <1>3, <2>1, <3>1 DEF Following, Behind
  <2>4. CASE curRSPTask # NULL /\ gfxList' = <<curRSPTask>> \o gfxList
    <3>1. Behind(gfxList')
        BY <1>1, <1>2, <2>4, BehindCons DEF Following
    <3> QED
        BY <1>3, <2>1, <3>1 DEF Following, Behind
  <2>5. CASE cmdQ # <<>> /\ cmdQ' = Tail(cmdQ)
    <3>1. Len(Tail(cmdQ)) = Len(cmdQ) - 1 /\ Len(cmdQ) \in Nat
        BY <1>1, <2>5
    <3> QED
        BY <1>4, <2>5, <3>1
  <2> QED
      BY <2>2, <2>3, <2>4, <2>5, ListSteps
<1>5. CASE cmdQ # <<>> /\ cmdQ' = Tail(cmdQ)
  <2>1. PICK h \in Task : h = Head(cmdQ) /\ InCmdQ(h) /\ Tail(cmdQ) \in Seq(Task)
      BY <1>5, Heads
  <2>2. Behind(cmdQ')
      BY <1>1, <1>5, BehindTail DEF Following
  <2>3. InCmdQ(gfx)' => InCmdQ(null)'
    <3>1. CASE h # null
      <4>1. InCmdQ(null)' <=> InCmdQ(null)
          BY <1>5, <2>1, <3>1, TailQueued
      <4>2. InCmdQ(gfx)' => InCmdQ(gfx)
        <5>1. CASE h = gfx
            BY <2>1, <5>1
        <5>2. CASE h # gfx
            BY <1>5, <2>1, <5>2, TailQueued
        <5> QED
            BY <5>1, <5>2
      <4> QED
          BY <4>1, <4>2 DEF Following
    <3>2. CASE h = null
      <4>1. InCmdQ(gfx)' <=> InCmdQ(gfx)
          BY <1>5, <2>1, <3>2, TailQueued
      <4>2. ~InCmdQ(gfx)
        <5>1. 1 \in DOMAIN cmdQ /\ cmdQ[1] = null /\ DOMAIN cmdQ = 1 .. Len(cmdQ) /\ Len(cmdQ) \in Nat
            BY <1>1, <1>5, <2>1, <3>2
        <5>2. \A i \in DOMAIN cmdQ : cmdQ[i] = gfx => i < 1
            BY <5>1 DEF Following, Behind
        <5>3. \A i \in DOMAIN cmdQ : ~(i < 1)
            BY <5>1
        <5> QED
            BY <5>2, <5>3 DEF InCmdQ
      <4> QED
          BY <4>1, <4>2
    <3> QED
        BY <3>1, <3>2
  <2>4. Behind(gfxList')
    <3>1. CASE gfxList' = gfxList
        BY <3>1 DEF Following
    <3>2. CASE gfxList' = Append(gfxList, Head(cmdQ))
      <4>1. ASSUME h = gfx, NEW j \in DOMAIN gfxList PROVE gfxList[j] # null
        <5>1. InCmdQ(null)
            BY <2>1, <4>1 DEF Following
        <5> QED
            BY <5>1, InList
      <4>2. h # gfx \/ \A j \in DOMAIN gfxList : gfxList[j] # null
          BY <4>1
      <4>3. Behind(Append(gfxList, h))
          BY <1>1, <4>2, BehindAppend DEF Following
      <4> QED
          BY <2>1, <3>2, <4>3
    <3>3. CASE gfxList # <<>> /\ gfxList' = Tail(gfxList)
        BY <1>1, <3>3, BehindTail DEF Following
    <3>4. CASE curRSPTask # NULL /\ gfxList' = <<curRSPTask>> \o gfxList
        BY <1>1, <1>2, <3>4, BehindCons DEF Following
    <3> QED
        BY <3>1, <3>2, <3>3, <3>4, ListSteps
  <2> QED
      BY <1>3, <2>2, <2>3, <2>4 DEF Following, Behind
<1> QED
    BY <1>4, <1>5, ListSteps

LEMMA BarrierEngine ==
    ASSUME CoreInv, OwesOK, RdpOwned, BarrierOK, Engine
    PROVE  BarrierOK'
<1> USE ClientTypes
<1>1. gpc' = gpc /\ (SchedThread \/ Hardware)
    BY DEF Engine, graphVars
<1>2. InProgress(gfx)' => InProgress(gfx)
    BY <1>1, EngineProgress
<1>3. ASSUME null \in Task, InProgress(null)', InProgress(gfx)' PROVE Following'
  <2>1. InProgress(null)
      BY <1>1, <1>3, EngineProgress
  <2> QED
      BY <1>1, <1>2, <1>3, <2>1, FollowingEngine DEF BarrierOK
<1>4. ASSUME NullAsked, ~InProgress(null)', InProgress(gfx) PROVE FALSE
  <2>1. null \in Task
      BY <1>4 DEF OwesOK
  <2>2. InProgress(null)
      BY <1>4 DEF BarrierOK
  <2>3. done = null
      BY <1>1, <1>4, <2>1, <2>2, EngineProgress
  <2> QED
      BY <1>4, <2>1, <2>2, <2>3 DEF BarrierOK, Following
<1>5. (NullAsked' <=> NullAsked) /\ (JpegAsked' <=> JpegAsked)
    BY <1>1 DEF NullAsked, JpegAsked
<1> QED
    BY <1>1, <1>2, <1>3, <1>4, <1>5 DEF BarrierOK

(* MsgEvent_SendNullTask sends the null task behind whatever is there.      *)
LEMMA BarrierSent ==
    ASSUME CoreInv, OwesOK, BarrierOK, MsgEvent_SendNullTask, Sends(null), Filled
    PROVE  BarrierOK'
<1> USE ClientTypes
<1>1. null \in Task /\ gpc = "update" /\ gpc' = "nullEntry"
    BY DEF MsgEvent_SendNullTask, Graph_Goto
<1>2. ~InProgress(null)
    BY <1>1, Idle DEF OwesOK, Owes, NullAsked, JpegAsked
<1>3. InProgress(null)' /\ InCmdQ(null)'
    BY <1>1, SendsProgress
<1>4. /\ cmdQ \in Seq(Task) /\ cmdQ' = Append(cmdQ, null)
      /\ UNCHANGED <<done, gfxList>> /\ gfxList \in Seq(Task)
    BY DEF CoreInv, TypeOK, QueuesTyped, ListsTyped, Sends, Still
<1>5. done # null /\ \A j \in DOMAIN cmdQ : cmdQ[j] # null
    BY <1>2 DEF InProgress, InCmdQ
<1>6. \A j \in DOMAIN gfxList : gfxList[j] # null
  <2>1. ASSUME NEW j \in DOMAIN gfxList, gfxList[j] = null PROVE FALSE
    <3>1. "SP" \in state[null]
        BY <1>1, <2>1, InList
    <3> QED
        BY <1>2, <3>1 DEF InProgress, Completes
  <2> QED
      BY <2>1
<1>7. Behind(cmdQ')
  <2>1. Behind(cmdQ)
      BY <1>5 DEF Behind
  <2> QED
      BY <1>1, <1>4, <2>1, BehindAppend
<1>8. Behind(gfxList')
    BY <1>4, <1>6 DEF Behind
<1>9. Following'
    BY <1>3, <1>4, <1>5, <1>7, <1>8 DEF Following, Behind
<1> QED
    BY <1>1, <1>3, <1>9 DEF BarrierOK, NullAsked, JpegAsked

(* Where the graph thread goes, as far as the barrier is concerned.         *)
LEMMA BarrierPlaces ==
    ASSUME OwesOK, BarrierOK, CoreInv, GraphThread, ~MsgEvent_SendNullTask
    PROVE  /\ NullAsked' => NullAsked
           /\ JpegAsked' \/ gpc' \in {"decode", "prerender"} => ~InProgress(gfx)
<1> USE ClientTypes
<1>1. CASE MsgEvent_Recv
  <2>1. gpc = "nullRecv" /\ gpc' \in {"prerender", "decode"} /\ msgQ[null] > 0
      BY <1>1 DEF MsgEvent_Recv, Graph_Goto, ClientReceive
  <2>2. null \in Task /\ NullAsked /\ owed[null] = 1
      BY <2>1 DEF OwesOK, Owes, NullAsked, JpegAsked
  <2>3. ~InProgress(null)
      BY <2>1, <2>2, Idle
  <2> QED
      BY <2>1, <2>2, <2>3 DEF BarrierOK, NullAsked
<1>2. CASE Jpeg_SendTask \/ Jpeg_Entry \/ Jpeg_Recv
  <2>1. gpc \in {"decode", "jpegEntry", "jpegRecv"} /\ gpc' \in {"decode", "jpegEntry", "jpegRecv"}
      BY <1>2 DEF Jpeg_SendTask, Jpeg_Entry, Jpeg_Recv, Graph_Goto
  <2> QED
      BY <2>1 DEF BarrierOK, NullAsked, JpegAsked
<1>3. CASE MsgEvent_Entry
  <2>1. gpc = "nullEntry" /\ gpc' = "nullRecv"
      BY <1>3 DEF MsgEvent_Entry, Graph_Goto
  <2> QED
      BY <2>1 DEF NullAsked, JpegAsked
<1>4. CASE GraphThread /\ ~(\/ MsgEvent_SendNullTask \/ MsgEvent_Recv \/ MsgEvent_Entry
                            \/ Jpeg_SendTask \/ Jpeg_Entry \/ Jpeg_Recv)
  <2>1. gpc' \notin {"nullEntry", "nullRecv", "jpegEntry", "jpegRecv", "decode", "prerender"}
      BY <1>4 DEF GraphThread, Graph_Update, Graph_TaskSet00,
         GameState_Init, GameState_Destroy, PreRender_Calc, TaskSet_SetTimer,
         Graph_Problem, TaskSet_Recv, TaskSet_HungUp, TaskSet_StopFaults, TaskSet_Drain,
         TaskSet_Send, TaskSet_Entry,
         Graph_Goto
  <2> QED
      BY <2>1 DEF NullAsked, JpegAsked
<1> QED
    BY <1>1, <1>2, <1>3, <1>4

LEMMA BarrierKept ==
    ASSUME CoreInv, OwesOK, RdpOwned, BarrierOK, [ClientsNext]_clientVars
    PROVE  BarrierOK'
<1> USE ClientTypes
<1>1. CASE Engine
    BY <1>1, BarrierEngine
<1>2. CASE MsgEvent_SendNullTask
  <2>1. Sends(null) /\ Filled
      BY <1>2 DEF MsgEvent_SendNullTask, SendCmd, Sends, Still, FillOther, Filled, listVars,
         curVars, bufVars, viVars
  <2> QED
      BY <1>2, <2>1, BarrierSent
<1>3. CASE TaskSet_Send
  <2>1. gpc = "fill" /\ gpc' = "entry"
      BY <1>3 DEF TaskSet_Send, Graph_Goto
  <2>2. Sends(gfx)
      BY <1>3 DEF TaskSet_Send, SendCmd, Sends, Still, listVars, curVars, bufVars, viVars
  <2>3. null \in Task => ~InProgress(null)'
    <3>1. null \in Task => owed[null] = 0
        BY <2>1 DEF OwesOK, Owes, NullAsked, JpegAsked
    <3> QED
        BY <2>2, <3>1, Idle, SendsProgress
  <2> QED
      BY <2>1, <2>3 DEF BarrierOK, NullAsked, JpegAsked
<1>4. ASSUME ~MsgEvent_SendNullTask, ~TaskSet_Send,
             TimerExpires \/ GraphThread \/ AudioThread \/ UNCHANGED clientVars
      PROVE  BarrierOK'
  <2>1. /\ NullAsked' => NullAsked
        /\ JpegAsked' \/ gpc' \in {"decode", "prerender"} => ~InProgress(gfx)
    <3>1. CASE GraphThread
        BY <1>4, <3>1, BarrierPlaces
    <3>2. CASE TimerExpires \/ AudioThread \/ UNCHANGED clientVars
      <4>1. gpc' = gpc
          BY <3>2 DEF TimerExpires, RunsOut, clientVars, graphVars, AudioThread, AudioMgr_Init,
             AudioMgr_Send, AudioMgr_Entry, AudioMgr_Silent, AudioMgr_Reply, AudioKeeps,
             AudioMgr_NextRetrace
      <4> QED
          BY <4>1 DEF BarrierOK, NullAsked, JpegAsked
    <3> QED
        BY <1>4, <3>1, <3>2
  <2>2. ASSUME Still, cmdQ' = cmdQ PROVE BarrierOK'
    <3>1. (InProgress(gfx)' <=> InProgress(gfx)) /\ (InProgress(null)' <=> InProgress(null))
        BY <2>2, StillProgress
    <3>2. Following => Following'
        BY <2>2 DEF Following, Behind, Still, InCmdQ
    <3> QED
        BY <2>1, <3>1, <3>2 DEF BarrierOK
  <2>3. ASSUME NEW u \in Task, Sends(u), u \notin {gfx, null} PROVE BarrierOK'
    <3>1. /\ InProgress(gfx)' <=> InProgress(gfx)
          /\ null \in Task => (InProgress(null)' <=> InProgress(null))
        BY <2>3, SendsProgress
    <3>2. ASSUME null \in Task, Following PROVE Following'
      <4>1. cmdQ \in Seq(Task) /\ cmdQ' = Append(cmdQ, u) /\ UNCHANGED <<done, gfxList>>
          BY <2>3 DEF Sends, Still, CoreInv, TypeOK, QueuesTyped
      <4>2. Behind(cmdQ')
          BY <2>3, <3>2, <4>1, BehindAppend DEF Following
      <4>3. InCmdQ(gfx)' => InCmdQ(null)'
          BY <2>3, <3>2, SendsProgress DEF Following
      <4> QED
          BY <3>2, <4>1, <4>2, <4>3 DEF Following, Behind
    <3>3. NullAsked' => null \in Task
        BY <2>1 DEF OwesOK
    <3> QED
        BY <2>1, <3>1, <3>2, <3>3 DEF BarrierOK
  <2> QED
      BY <1>4, <2>2, <2>3, ClientKinds DEF Jpeg_SendTask
<1> QED
    BY <1>1, <1>2, <1>3, <1>4, Steps

-----------------------------------------------------------------------------
(* The invariant of the composition, and what follows from it.              *)

ComposedInv == CoreInv /\ Display /\ ClientInv

LEMMA ClientsInitInv == ClientsInit => ComposedInv
<1> SUFFICES ASSUME ClientsInit PROVE ComposedInv
    OBVIOUS
<1> USE ClientTypes
<1>1. CoreInv /\ Display
    BY CoreInit, DisplayInit DEF ClientsInit
<1>2. OwesOK
    BY DEF ClientsInit, Init, OwesOK, Owes, NullAsked, JpegAsked
<1>3. ~InProgress(gfx)
    BY <1>2, <1>1, Idle DEF OwesOK, Owes, ClientsInit
<1>4. RingOK
  <2>1. Len(CfbRing) \in Nat /\ Len(CfbRing) > 1
      BY ClientsAssumption
  <2> QED
      BY <2>1 DEF ClientsInit, Init, RingOK
<1>5. TimerOK /\ PictureOK
    BY DEF ClientsInit, TimerOK, PictureOK
<1>6. RdpOwned /\ HiddenOK
    BY DEF ClientsInit, Init, RdpOwned, HiddenOK
<1>7. BarrierOK
    BY <1>3 DEF ClientsInit, BarrierOK, NullAsked, JpegAsked
<1> QED
    BY <1>1, <1>2, <1>4, <1>5, <1>6, <1>7 DEF ComposedInv, ClientInv

LEMMA ComposedStep ==
    ASSUME ~SlowAudio
    PROVE  ComposedInv /\ [ClientsNext]_clientVars => ComposedInv' /\ [Next]_vars
<1> SUFFICES ASSUME ComposedInv, [ClientsNext]_clientVars PROVE ComposedInv' /\ [Next]_vars
    OBVIOUS
<1>1. CoreInv /\ Display /\ OwesOK /\ RingOK /\ TimerOK /\ RdpOwned /\ BarrierOK /\ HiddenOK /\ PictureOK
    BY DEF ComposedInv, ClientInv
<1>2. [Next]_vars
    BY <1>1, EachStepObeys
<1>3. CoreInv' /\ Display'
    BY <1>1, <1>2, CoreNext, DisplayNext
<1>4. OwesOK' /\ RingOK' /\ TimerOK'
    BY <1>1, OwesKept, RingKept, TimerKept
<1>5. RdpOwned' /\ BarrierOK' /\ HiddenOK' /\ PictureOK'
    BY <1>1, RdpKept, BarrierKept, HiddenKept, PictureKept
<1> QED
    BY <1>2, <1>3, <1>4, <1>5 DEF ComposedInv, ClientInv

THEOREM ComposedInvariant == ASSUME ~SlowAudio PROVE ClientsSpec => []ComposedInv
<1>1. ComposedInv /\ [ClientsNext]_clientVars => ComposedInv'
    BY ComposedStep
<1> QED
    BY <1>1, ClientsInitInv, PTL DEF ClientsSpec

(* The graph thread and the audio manager keep the rules of ClientSubmit    *)
(* (graph.c:242-253, audioMgr.c:19-27): no task or CfbInfo is overwritten   *)
(* while it is in use.  Every theorem about Sched!Spec holds of them too.   *)
THEOREM ClientsObeyRules == ASSUME ~SlowAudio PROVE ClientsSpec => ObeysRules
<1>1. ClientsInit => Init
    BY DEF ClientsInit
<1>2. ComposedInv /\ [ClientsNext]_clientVars => [Next]_vars
    BY ComposedStep
<1> QED
    BY <1>1, <1>2, ComposedInvariant, PTL DEF ClientsSpec, ObeysRules, Spec

(* graph.c:168-192: a frame that is answered within three seconds is never  *)
(* taken for hung, and no message 666 is left for a later wait.             *)
THEOREM FramesNotHung == ASSUME ~SlowAudio PROVE ClientsSpec => []NoFalseHang
<1>1. ComposedInv => NoFalseHang
    BY DEF ComposedInv, ClientInv, TimerOK, NoFalseHang
<1> QED
    BY <1>1, ComposedInvariant, PTL

LEMMA FrameFinished ==
    ASSUME ComposedInv, ~InProgress(gfx)
    PROVE  curRDPTask = NULL
<1> SUFFICES ASSUME curRDPTask # NULL PROVE FALSE
    OBVIOUS
<1>1. CoreInv /\ ActiveOK /\ OwesOK
    BY DEF ComposedInv, ClientInv, Display
<1>2. curRDPTask \in Task /\ InProgress(curRDPTask)
    BY <1>1, RdpActive
<1>3. Type[curRDPTask] = "GFX"
    BY <1>1 DEF CoreInv, OwnersOK
<1> QED
    BY <1>1, <1>2, <1>3, OnlyFrame

(* z_play.c:1163-1165: PreRender_Calc reads the picture of the last frame   *)
(* after the RCP has finished it, and nothing else is being drawn.          *)
THEOREM PicturesReady == ASSUME ~SlowAudio PROVE ClientsSpec => []PictureIsReady
<1>1. ComposedInv => PictureIsReady
  <2> SUFFICES ASSUME ComposedInv, gpc = "prerender"
               PROVE  /\ ~InProgress(gfx) /\ curRDPTask = NULL
                      /\ MayOverflow \/ (framebuffer[gfx] # NULL /\ swapBuffer[framebuffer[gfx]] = cvgSave)
      BY DEF PictureIsReady
  <2>1. ~InProgress(gfx)
      BY DEF ComposedInv, ClientInv, BarrierOK
  <2>2. curRDPTask = NULL
      BY <2>1, FrameFinished
  <2>3. MayOverflow \/ (framebuffer[gfx] # NULL /\ swapBuffer[framebuffer[gfx]] = cvgSave)
      BY DEF ComposedInv, ClientInv, PictureOK
  <2> QED
      BY <2>1, <2>2, <2>3
<1> QED
    BY <1>1, ComposedInvariant, PTL

(* graph.c:233-237: the VI does not show the buffer the picture is read     *)
(* from.                                                                    *)
THEOREM PicturesNotShown == ASSUME ~SlowAudio PROVE ClientsSpec => []PictureNotShown
<1>1. ComposedInv => PictureNotShown
  <2> SUFFICES ASSUME ComposedInv, gpc = "prerender", ~MayOverflow
               PROVE  cvgSave \notin {viCurr, viNext}
      BY DEF PictureNotShown
  <2>1. ~InProgress(gfx)
      BY DEF ComposedInv, ClientInv, BarrierOK
  <2>2. ~InCmdQ(gfx) /\ "DP" \notin state[gfx]
      BY <2>1 DEF InProgress, Completes
  <2>3. framebuffer[gfx] # NULL /\ ~swap[gfx] /\ swapBuffer[framebuffer[gfx]] = cvgSave
      BY DEF ComposedInv, ClientInv, PictureOK
  <2> QED
      BY <2>2, <2>3 DEF ComposedInv, ClientInv, HiddenOK
<1> QED
    BY <1>1, ComposedInvariant, PTL

(* z_jpeg.c:230: while the JPEG task works in the output buffer of the      *)
(* graphics task, neither that task nor the null task is in progress.       *)
THEOREM JpegWorksAlone == ASSUME ~SlowAudio PROVE ClientsSpec => []JpegAlone
<1>1. ComposedInv => JpegAlone
  <2> SUFFICES ASSUME ComposedInv, jpeg \in Task, InProgress(jpeg)
               PROVE  ~InProgress(gfx) /\ curRDPTask = NULL /\ ~InProgress(null)
      BY DEF JpegAlone
  <2>1. CoreInv /\ OwesOK /\ BarrierOK
      BY DEF ComposedInv, ClientInv
  <2>2. JpegAsked
    <3>1. owed[jpeg] # 0 /\ jpeg # gfx /\ jpeg # aud /\ jpeg # null
        BY <2>1, Idle, ClientTypes
    <3> QED
        BY <2>1, <3>1 DEF OwesOK, Owes
  <2>3. ~InProgress(gfx)
      BY <2>1, <2>2 DEF BarrierOK
  <2>4. curRDPTask = NULL
      BY <2>3, FrameFinished
  <2>5. ~InProgress(null)
    <3>1. null \in Task /\ owed[null] = 0
        BY <2>1, <2>2, ClientTypes DEF OwesOK, Owes, NullAsked, JpegAsked
    <3> QED
        BY <2>1, <3>1, Idle
  <2> QED
      BY <2>3, <2>4, <2>5
<1> QED
    BY <1>1, ComposedInvariant, PTL
=============================================================================
