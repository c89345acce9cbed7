# Models and proofs for *Ocarina of Time*

This directory holds TLA+ models, TLC configurations and TLAPS proofs for the
parts of the game where the order of events decides: the operating system's threads,
queues and timers, the RCP scheduler and its clients, the interrupt and controller
managers, the heap, and what the game loads and frees while the RCP and the DMA
manager work. Paths below are relative to the directory that holds `src/`.

## 1. Inventory

The program is a Nintendo 64 game. About nine tenths of its C code is game logic
(actors, overlays, cameras, messages) that runs in one thread and in sequence.
The concurrency is in a few small files. Each thread has a fixed priority
(`src/src/code/main.c:36-115`); a thread runs until it waits, unless a thread of a
higher priority or an interrupt becomes ready.

| component | state | operations | talks to | hard to get right | correct means |
|---|---|---|---|---|---|
| RCP scheduler, `sched.c`, priority 15 | `interruptQ`, `cmdQ`, the audio and graphics lists, `doAudio`, `curRSPTask`, `curRDPTask`, `curBuf`, `pendingSwapBuf1`, each task's `state` bits | handlers for `ENTRY`, retrace, RSP done, RDP done, reset, NMI | RSP and RDP (start, yield, interrupts), VI (swap), clients (`cmdQ`, reply queues) | preemption of a running task, two done interrupts in either order, double buffering, a blocking send in the interrupt thread | one reply per task, no lost task, no tearing, no lost frame, assertions hold |
| Graph thread, `graph.c`, `game.c`, `z_play.c`, `z_msgevent.c`, priority 11 | `fbIdx`, `sGraphCfbInfoIdx`, one `OSScTask`, a queue for replies and for the timer, `SREG(33)`, `R_PAUSE_MENU_MODE` | build a frame, wait for the previous one (3 s timer), submit, null-task barrier, start and end of a game state | scheduler, timers, JPEG decoder | timer against reply, structures reused each frame, a frame read back by the CPU | no structure is reused too early, no false hang-up, pictures are complete |
| JPEG decoding, `z_jpeg.c`, in the graph thread | one task, one reply queue | null task, then one RSP task per batch | scheduler | shares a buffer with the graphics task | runs alone |
| Audio manager, `audioMgr.c`, priority 12 | one task structure, reply queue of one message (primed), retrace queue | send at a retrace, prepare the next task, read the reply | scheduler, interrupt manager, audio library | the structure is sent again before the reply is read; retraces thrown away | every task is played, the structure is not sent while in use |
| Interrupt manager, `irqmgr.c`, priority 17 | list of clients, `resetStatus`, one timer | add and remove a client; forward retrace, PRE-NMI, NMI; the chain of reset timers | all clients' queues, timers | a client added during a reset, full queues, a timer set twice | each client with room learns of the reset, the reset ends |
| VI manager, `vimgr.c`, priority 254 | current and next VI context | swap at each retrace | interrupt manager | the shown buffer changes under the scheduler | - |
| Message queues, `osSendMesg.c`, `osRecvMesg.c`, `osJamMesg.c` | ring buffer, two lists of waiting threads | send, receive, jam, blocking or not | run queue | wake-ups, several senders | a bounded FIFO, no lost wake-up |
| Threads, `osStartThread.c`, `osStopThread.c`, ... | run queue, thread states | start, stop, yield, change priority, destroy, end | message queues | a thread in two lists | each thread in the list its state says, the highest priority runs |
| Timers, `osSetTimer.c`, `osStopTimer.c`, `timerintr.c` | list of delta times | set, stop, interrupt | message queues | a timer that runs out inside `osStopTimer`, one set twice, late interrupts | no timer is early, no timer is set twice |
| Controller manager, `padmgr.c`, `mempak.c`, priority 14 | two queues used as locks, rumble state of each port, inputs | retrace handler, rumble, NMI exit, the game's request for inputs, memory-pak calls | interrupt manager, SI, graph thread | the lock between copy and clear, failed commands to a motor, the reset | transfers do not overlap, each press is reported once, motors stop |
| DMA and PI managers, `z_std_dma.c`, `__osDevMgrMain.c`, `osEPiStartDma.c`, priority 16 | request queue, access token | split into chunks, start, answer | cartridge, 64DD | the token on an error path | each request is answered, in order |
| Heap, `__osMalloc.c`, `gamealloc.c`, `TwoHeadArena.c` | doubly linked list of blocks | malloc, mallocR, free, realloc, check | everybody | splitting and merging, realloc | blocks tile the arena, areas are disjoint, NULL only for want of room, or from realloc for a block that can hardly shrink |
| Rooms, objects and actors, `z_room.c`, `z_scene.c`, `z_actor.c`, `z_play.c`, `z_en_holl.c`, in the graph thread | two room buffers, the object bank, actor lists, transition entries | ask for a room, swap, give up; ask for objects; spawn, init, kill, destroy, delete an actor | DMA manager, RCP (display list) | two things are loaded while a third is drawn; a plane that gives up rooms in its own update | nothing is overwritten or freed while drawn, one actor per plane |
| Fault manager, audio library, rest of the game | - | - | - | - | not modelled, see section 7 |

Almost all of this is reached by interrupts at any moment, so a test can hardly
choose the order of events; `PROJECT.json` lists the hazards by source line.

## 2. Modules

| module | what it is |
|---|---|
| `Sched` | the scheduler thread, the RSP, the RDP and the VI, and clients that are constrained only by the rules the scheduler needs |
| `QueueCount` | how often a queue holds a message |
| `SchedInv` | the inductive invariants `CoreInv`, `EventInv`, `DisplayInv`, in named parts |
| `RcpService` | the abstract specification: what those who send tasks may rely on |
| `SchedService` | the refinement mapping from `Sched` to `RcpService` |
| `RcpClients` | the graph thread and the audio manager composed with `Sched` |
| `OsThreads` | the operating system's threads, run queue and message queues |
| `BoundedFifo` | the abstract specification of the message queues |
| `OsTimers` | the list of timers and its three operations |
| `IrqMgr` | the interrupt manager, over `OsTimers`, with its clients' queues |
| `PadMgr` | the controller manager as a client of `IrqMgr`, the game and the memory-pak users |
| `Arena` | the block list of `__osMalloc.c` |
| `Heap` | the abstract specification of a heap |
| `Loading` | rooms, objects and the DMA manager that fills them: state and functions |
| `Actors` | actor lists, transition entries; how an actor is made and removed |
| `Game` | a frame of the game over `Loading` and `Actors`, the loading planes, the RCP |
| `MCSched`, `MCRcpClients`, `MCOsThreads`, `MCIrqMgr`, `MCPadMgr`, `MCArena`, `MCGame` | constants for TLC |
| `SchedProofs`, `SchedEventProofs`, `RcpClientsProofs`, `OsThreadsProofs`, `ArenaProofs`, `IrqProofs`, `PadProofs`, `GameProofs` | the TLAPS proofs; `SchedProofs` begins with the lemmas about `Count` |

### Sched: state and steps

A handler of `Sched_ThreadEntry` is a chain of atomic steps; `pc` names the next:

    recv --ENTRY--------------------------> entry
    recv --RETRACE: Sched_HandleRetrace---> entry
    recv --RSP_DONE: Sched_HandleRSPDone--> complete, or schedule if it yielded
    recv --RDP_DONE: Sched_HandleRDPDone--> complete
    recv --RESET, NMI---------------------> recv
    entry: DrainCmdQ (a turn of the loop), then Sched_Yield -> recv, or Schedule...
    complete: Sched_IsComplete -> schedule (recv after a null task)
    schedule: ScheduleAudio | ScheduleResume | ScheduleStart | ScheduleNone -> recv

Each boundary between two steps is a place where an interrupt or a thread of a
higher priority can change what the handler reads next: a message appended to
`interruptQ`, the RSP stopping, the VI taking the next buffer. Within a step the
scheduler touches nothing that they change more than once. The clients have lower
priorities, so they move only when the scheduler waits (`SchedWaits`): for a message,
or in `osSendMesg` for room in a reply queue (`Blocked`).

`list.t.type` and `flags` are the constant `Type`, except for `OS_SC_SWAPBUFFER`
(`swap`). `state[t]` is the set of `OS_SC_*` bits. The linked lists and the queues are
sequences. A reply carries no data, so a reply queue is a number, `msgQ[t]`. Of a
`CfbInfo` there are `swapBuffer` (equal to `fb1`), `updateRate` and `updateRate2`.
`pendingSwapBuf2` is left out: no code assigns it anything but NULL.

The hardware: `RspFinish`, `RspYield`, `RspFullSync`, `RdpFinish`. A graphics task ends
with a full sync that the RSP passes to the RDP, and the RDP may interrupt before or
after the RSP. `RspYield` needs the yield request; a task that was asked to yield may
still finish instead. Each event is a message in `interruptQ`, dropped if it is full
(`Send`). `Hang` stops both processors.

`ClientSubmit` states what the scheduler needs of its clients, and no more: a task is
not handed over while it is in progress, nor a `CfbInfo` in use overwritten, and at
most `Credit[t]` submissions are ahead of the replies read.

### RcpClients

`gpc` is the graph thread's place in `GameState_Init`, `Graph_Update`,
`Graph_TaskSet00` and `GameState_Destroy`; `apc` the audio manager's. Each step is a
client step of `Sched` with the arguments the code gives it, or leaves the scheduler
alone. The order of priorities appears as two guards: `SchedWaits`, and that the graph
thread does not run while the audio manager is between its two sends. The message 666
of the timer shares the reply queue: `timeoutAt` is its distance from the head. It may run out as late as
inside `osStopTimer` (`TaskSet_StopFaults`), which stops the machine as "RCP is HUNG UP!!" does. The
order in which several replies of the same value are read does not matter.

Preemption does not cut the steps finer than this: the two sends and each wait are
separate steps; what lies between touches only the thread's own state and the
task it is about to send.

### OsThreads and BoundedFifo

`os` holds `__osRunningThread` and what the structures of the threads say: `state`,
`priority`, `queue` (the list `thread->queue` points to), and the lists themselves, as
sequences. The code's helpers (`__osEnqueueThread`, `__osPopThread`,
`__osDispatchThread`, `__osEnqueueAndYield` from `src/asm/exceptasm.s`) are functions on
that record; each call of `src/src/libultra_boot_O1` is an action of the running thread.

A call runs with interrupts disabled until it returns or gives the processor away, and
`__osEnqueueAndYield` saves a status register with interrupts off, so that a thread
that waited in a call re-enters its loop with interrupts still off. Therefore one turn of
the loop in `osSendMesg`, `osJamMesg` or `osRecvMesg` is one action, and an exception
(`send_mesg`, then `redispatch`) happens only between calls. `call[t]` is the call a
waiting thread is in. What other threads see between these points is what the code
lets them see: a woken thread that has not looked yet, a message taken by somebody
else, a thread stopped, destroyed or re-prioritised where it waits.

`__osException` differs from the C code: it puts the woken thread into the run queue
without changing its state, and re-queues the running thread only when outranked; else
it goes back in front of its equals. Both are modelled.

`buf` maps the ring buffers to the sequences of `BoundedFifo`. That is also what
`Sched` and `RcpClients` use queues as: bounded sequences, with a blocked thread as a
step that is not enabled.

### OsTimers, IrqMgr and PadMgr

`timers` is the list from `__osTimerList->next` on and `value` the time each timer waits
after the one before it. The counter and the compare register appear as `elapsed` (since
`__osTimerCounter`) and `left` (until the interrupt). `due` is not in the code: it is the
time each timer still has to wait, counted down by `CountUp`, and what `NeverEarly`
compares the list with. The interrupt may come up to `Latency` late, since
`osSetTimer` and `osStopTimer` disable interrupts. `osStopTimer` looks whether the timer is
set before it does so (`osStopTimer.c:7` and 11): it is two steps here, with `stopCall[t]` between them, and if
the timer has run out meanwhile the thread ends at a TLB exception, since the links the second half
follows are NULL (`osStopTimer_Fault`). The code does nothing against it; what holds, holds with it.

A handler of `IrqMgr_ThreadEntry` is one action, since no thread of the program has a
higher priority; `IrqMgr_AddClient` runs in the client's thread and is three: the link, the
look at the status for PRE-NMI, the one for NMI. `told` and `missed` record which reset
messages each client got or had no room for. `OtherThread` is the graph thread, which
uses the same timer list; it goes on setting and stopping its timer until it has ended inside `osStopTimer`.
When the SP still runs 480 ms after the button, `IrqMgr_HandlePRENMI480` sets its timer a second
time; what the damaged list leads to is left out (`damaged`).

`PadMgr` extends `IrqMgr` and takes its messages from `queue[pad]`. `pc` is the place of
its thread: `lock` (waits for the serial lock), `read` and `query` (wait for the SI),
`rumble`. `serialMsgQ` and `lockMsgQ` hold who took the message out of the queue used as a
lock. Bus commands to the paks may fail (`F`), with or without having reached the pak. One
button stands for the inputs: `press.pressed` is what the game will read, `owed` what it
should. `GameRuns` holds where padmgr's thread waits, since it has the higher priority.

### Arena and Heap

`node` maps the address of each block to its `ArenaNode`; next and previous links are kept
as the code keeps them, so that a forgotten link is a wrong state and not just a wrong
picture. Units are 16 bytes (`ALIGN16`). A call holds the arena's lock from its start to its
end and is one step. `Heap` knows only a set of areas and the last call with its result;
`Get` allows NULL only if no hole has room, and `Resize` allows it also where the code gives
up although the block could simply stay as it is (`__osMalloc.c:641`).

### Loading, Actors and Game

The functions of `Loading` and `Actors` take the state of a part (`bank`, `roomCtx`,
`actorCtx`) and return it changed; the actions of `Game` compose them in the order of
`Gameplay_Main`, `Gameplay_Draw` and `Actor_UpdateAll`. `pc` is the place in the frame:

    start --StartFrame: Object_UpdateBank--> room | draw | picture (paused)
    room --HandleRoom: func_800973FC--> actors
    actors --StartActors: spawn the room's actors--> update
    update --UpdateActor: one actor--> update | draw
    draw, picture --Draw, DrawPicture--> start

Between any two of them the DMA manager may end a transfer (`Answer`) and the RCP the last
display list (`RcpDone`). `dma` is its queue of requests; a request names where its answer
goes. `buffer` says which room is in each half of the room memory, `bank[i].state` how far
an object is: asked, sent, answered, loaded. `list` is what the RCP still reads.

`actorCtx.entered[p]` is the sign of a transition entry's id. Room actors die when they
like, and any of them may be out of view; the planes are `En_Holl`: `func_80A58DD4` for
those one walks through, `func_80A59014` and `EnHoll_NextAction` for those one steps
through. The player is a number, his place on a way through the planes. He may also get round a plane
(`WaysRound`, the `@bug` of `z_en_holl.c:68`): then the game's current room is not the one he is in, and the next
plane may load a room a second time. `round` remembers that he has. When such a plane gives up one of
the two copies it has been given the other room and deletes itself in the middle of its own
update; `Actor_UpdateAll` then goes on from the freed memory, whose `next` is NULL (or is that of the plane
spawned in its place), as `UpdateActor` does.

## 3. What the runs check

| run | instance | states | question |
|---|---|---|---|
| `SchedBarrier` | graphics, audio, null | 443 142 | `YieldedFirst`; `ImplementsService`: order of starts, what may overlap, the null task as a barrier |
| `SchedReset` | graphics, audio one ahead; reset, hang | 2 751 172 | `TypeOK`, `EventsMatchOwners`, `NoAssertFails`, `OneReplyEach`, `OnePlace`, `NoTearing`, `NoFrameDropped` |
| `ClientsPictures` | graph thread with pictures, null task, JPEG, timer, hang; ring of 3 | 361 478 | `ObeysRules`, `PictureIsReady`, `PictureNotShown`, `JpegAlone`, `NoFalseHang` |
| `ClientsLive` | graph thread, audio manager, dropped frames | 55 214 | `ObeysRules`; `FrameAnswered`, `BlockEnds`, `AudioPlayed` under fairness |
| `ClientsPicturesLive` | graph thread with pictures, null task, JPEG | 81 759 | `FrameAnswered` under fairness |
| `OsThreads` | 2 threads and idle, 2 priorities, 2 different messages, queue of 2; stop, destroy, end | 236 249 | `TypeOK`, `InOneList`, `PriorityRespected`, `NoLostWakeup`; `ImplementsFifo`: what is sent comes last, what is jammed first |
| `IrqMgr` | 2 clients, one of them added at any time; a second timer, stopped as it runs out; late interrupts; an SP that may not halt | 391 931 | `NeverEarly`, `OnlyRetryDamages`, `ResetTold`; `ResetEnds` under fairness |
| `PadMgr` | 1 controller, the game, a memory-pak user, one failure, reset | 1 893 332 | `TypeOK`, `OwnAnswer`, `NoPressLost`, `QuietAtEnd` |
| `Arena` | region of 16 units, headers of 3, requests of 0, 1 and 3 | 8 215 | `Whole`, `ImplementsHeap` |
| `Game` | 3 rooms, 2 planes of different kinds and ways round them, 3 objects, 7 actor places | 1 750 927 | `RcpReadsWhole`, `RoomMatches`, `PlanesKept`, `ObjectsKept`, `NoSelfDelete`, `SelfDeleteBetweenTwins` |
| `SchedResetRace` | graphics; reset race | - | finds `RspDoneAssertion` violated |
| `ClientsSlowAudio` | graph thread, audio manager, slow audio | - | finds `YieldAssertion` violated |

`ObeysRules` is what joins two levels: it says that the code of the clients keeps
the rules under which everything about `Sched!Spec` is checked and proved. Deadlock is
checked in all runs but three where the machine really stops: `ClientsPictures` ("RCP is
HUNG UP!!", the fault in `osStopTimer`), `IrqMgr` and `PadMgr` (half a second after the reset button).

What the game's run shows. Nothing in `z_room.c` asks whether the RCP still reads the room
that is overwritten, and nothing in `z_actor.c` whether a display list still holds an actor,
but for `isDrawn`. `RcpReadsWhole` holds because a room is given up a frame or more before
the next one is asked for and because an actor that was drawn is deleted a frame later.
`RoomMatches` depends on `unk_30` being turned by every load and every swap. `PlanesKept`
depends on `Actor_Destroy` clearing `actor->destroy`, so that a plane destroyed early and
deleted later does not turn the sign of its entry twice. All four hold after the player has got
round a plane, too. `NoSelfDelete` is about the time before: a plane has then always moved itself to a room that
stays before it gives up the other. Afterwards planes do delete themselves, but only between two
copies of one room (`SelfDeleteBetweenTwins`), and never one that the RCP draws. All of this depends on the loads being
faster than the player (`MayOutrun = FALSE`); section 4 says more.

What the timers' run shows. No timer is early although waits are relative, timers are stopped and the interrupt is late. A timer is
set while it is in the list at one line only, `irqmgr.c:148` (`OnlyRetryDamages`): the stages of the
reset share one timer, but each sets it when it has run out. Otherwise the reset runs to its
end, also after the graph thread has ended inside `osStopTimer`.

### Two disagreements with the code's own assertions

*Reset race* (`SchedResetRace`). When the reset button is pressed and the current
graphics task is more than a second old, `Sched_HandleReset` (`sched.c:74-86`) stops the
RSP and posts the done messages itself. If the task ended just then, the interrupt's own
`RSP_DONE_MSG` is already in `interruptQ`: two messages for one task, and the second
handler call finds `curRSPTask == NULL`, which `sched.c:363` asserts never happens. It
needs a task that runs for over a second yet ends; the constant `ResetRace` is the
assumption, and everything else is checked without it.

*Slow audio* (`ClientsSlowAudio`). `AudioMgr_Init` primes the reply queue
(`audioMgr.c:104`), so the reply the manager reads is that of the task before. It then
sends its one structure again at the next retrace whether or not the RSP is done with
it. If it is not, `Sched_HandleEntry` sees `doAudio` and a current task and asks it to
yield; it is the audio task itself, against the assertion at `sched.c:134`. It needs
an audio task (waiting included) that takes longer than a frame; the constant
`SlowAudio` is the assumption, and `ObeysRules` holds without it.

## 4. Bounds

- `IntQCap = CmdQCap = 8` and reply queues of 8 (graph thread) and 1 (others), as in the code.
- `RetraceBacklog = 1`: the scheduler handles a retrace in microseconds, the next comes
  16.7 ms later. `EntryBacklog = 3`: one `ENTRY` for each client thread and one
  more. The assumption `QueueRoom` is what the proofs use: the backlogs, the two done
  messages and the two of the reset fit into `interruptQ`.
- At most three of the four tasks at a time: gfx+aud, gfx+aud+null, and gfx+jpeg+null in
  `RcpClients`. The JPEG and the null task come from the graph
  thread, which sends one at a time and waits for it. The proofs have no such bound.
- `Credit` 2 for the audio task (primed, then sent) in `SchedReset`;
  1 in `SchedBarrier`. With 2 and unconstrained clients a third task can
  fill the `ENTRY` backlog while the scheduler waits for the audio client, which the
  priorities exclude; `RcpClients` has the real order.
- Two frame buffers, as in `sys_cfb.c`. Two or three entries of the `CfbInfo` ring; the
  code has three. Two already give every overlap (one shown, one drawn), and make reuse
  more likely. `ClientsPictures` uses three. `MaxRate` is 1: a swap is armed at once. Higher rates, in which it waits for
  further retraces, are covered by `PictureIsWhole` and `FramesAllShown` only, which hold for any `MaxRate`.
- `AudioQCap = 1`: the manager empties its retrace queue after each frame, so that only
  "none" and "some" differ.
- Symmetry over frame buffers and `CfbInfo` entries in the runs of `MCSched`,
  not in those of `RcpClients`: no definition of `Sched` tells them apart. (`RcpClients` does: the ring.)
- `OsThreads`: two threads that may both wait and the idle thread, which runs then and sends to, stops
  or outranks them, as an interrupt does; two priorities are "higher" and "equal". Two messages that differ, in a queue of two
  places, so that both its ends, the turn of the ring and the order of what is in it occur. One queue: no call uses two, and threads
  move between lists of one queue as between those of two. Symmetry over the messages and over the threads but the
  idle one. `MayRob = FALSE`, see section 7. All five properties are proved for any number of
  threads, messages, queues, places and priorities, `NoLostWakeup` for `MayRob = FALSE`, the others for either value.
- `IrqMgr`: 450, 30 and 20 ms become 3, 1 and 1 units and the graph thread's three seconds 4, so that its
  timer is in front of, behind and between those of the reset. Interrupts
  come up to one unit late. Clients' queues of one message, so that they overflow.
- `PadMgr`: one controller; ports share the bus, the locks and `frame`, and nothing in the
  handler compares two of them (the proofs have any number). The counts 240, 3, 3 and 255 become 1, 2, 1 and 1: one more
  `OffFrames` than failures, as in the code, where three attempts stop a motor. At most one failure of the bus. No memory pak in a
  controller: `pakType` 2 and 0 lead to the same branches. `ProbeMayFail = FALSE`: a test run of
  a motor that starts it but does not stop it would need one more attempt.
- `Arena`: room for four blocks with their headers. Three neighbours are what one call can touch
  (a release between two free blocks); requests of 0, 1 and `HDR` units reach each
  comparison on both sides. The proofs have no such bound.
- `Game`: three rooms give a room behind, one here and one ahead, and a room that is left and entered
  again; two planes are one of each kind that adjoin the same room. Two of the three object lists differ in
  the second entry, and one is shorter. Of seven places for actors one is always free, so that
  no spawn fails for want of memory (with two places `PlanesKept` fails, at
  `z_actor.c:2820`).
- `MayOutrun = FALSE` in `Game`: a room and its objects are loaded a frame before the player has
  crossed the plane, or turned round and left it. A transfer takes a few frames; the zones of a plane are
  25 to 50 units wide (`z_en_holl.c:71-74`), some frames' walk, but a fast player could be through
  before the room is there. The code waits for nothing (`func_8009728C` only refuses to
  ask while another room is on its way); in the model the player does. With `TRUE` the properties fail, from the
  hazards at `z_room.c:585` and `z_scene.c:90` on: those cases are not covered.
- `Spare = 5` in `Game`: each plane the player has got round may load a room once more, and the actors of
  the room are spawned once more, without end. Once he has got round a plane, he goes on only while five of
  the seven places are free, so that the run is finite and the arena never full. Rooms loaded twice
  and planes that delete themselves are reached (without its first disjunct `NoSelfDelete` fails).

## 5. Fairness

`FairClientsSpec` assumes: weak fairness of the scheduler thread, of the retrace and
of the RDP; strong fairness of `RspFullSync` and of the end of each RSP task, because
audio can take the RSP away again and again, yet each time the display list has advanced
and it is finite; strong fairness of each client thread, which is enabled only between
handlers; and `[]<>SchedWaits`: the scheduler, whose handlers take microseconds
between retraces of 16.7 ms, does run out of messages. None of this is assumed
when the RCP may hang, and the runs with fairness have `MayHang = FALSE`.

`IrqSpec` assumes weak fairness of the thread and of the retrace, and strong fairness of the
timer interrupt: a call of `osSetTimer` by another thread may set the compare register anew just
before it, but not for ever, since each call lets time pass that the list has counted.
`ResetEnds` allows for a timer that was set twice.

## 6. What is proved

Theorems 1 to 3 are about `Sched!Spec` for any number of tasks, buffers and entries and
any capacities that satisfy the named assumptions `ConstantsAssumption`, `OneAudioTask`
and `QueueRoom`. Theorem 4 says that they apply to the threads of `RcpClients`.

1. `CoreInvariant`: `CoreInv = TypeOK /\ ControlOK /\ FramesOK /\ ListsOK /\ OwnersOK /\
   YieldersOK /\ OnePlace /\ OneReplyEach` is inductive by itself, whatever the interrupt
   queue does (even when the reset race makes up messages). `OneReplyEach` is not
   inductive alone: that a reply is sent once needs that a task has `SP` or `DP`
   exactly until both handlers ran (`OnePlace`, `OwnersOK`), and that a task is only in
   `complete` for one handler (`ControlOK`); that the head of a list can be started needs
   `ListsOK`. From it: `TypeCorrect`, `RepliesExact`, `TasksInOnePlace`,
   `BlocksOnlyOnExcess` (of `NeverBlocked`, which no run lists: it follows from `OneReplyEach` and `Credit`).
2. `EventsMatch`, `AssertionsHold`, for `~ResetRace`: `EventInv` adds to `CoreInv` a count
   of each kind of message in `interruptQ`. `QueueBound` and `QueueRoom` show
   that `Send` never drops one; then each processor's done message is in the queue
   exactly when the scheduler counts it as owned and the hardware has stopped.
3. `DisplayInvariant`: at most one graphics task is started and not answered, and
   while there is one no swap is pending and the VI shows what it will show
   (`ActiveOK`, `ViOK`). From it: `PictureIsWhole`, `FramesAllShown`,
   `PreemptedRunsNext`.
4. `ClientsObeyRules`: every step of the graph thread, the audio manager and the machine is
   one of `Sched` or a stutter, so that theorems 1 to 3 hold of the composed system. It needs
   `~SlowAudio`; `ClientsSlowAudio` shows the step that is lost without it. The
   invariant `ClientInv` has two parts for it. `OwesOK` gives `owed`, which `Sched` counts, by the
   places the threads are at; with `OneReplyEach` a thread that has read its reply knows that its
   task is in no queue or list and on no processor (`Idle`). `RingOK` says which entry of
   the ring the last frame has, and that when the frame is finished at most this entry waits to be shown: the
   next one, which `TaskSet_Send` overwrites, is another one. This is why `ClientsAssumption` wants a ring of
   two different entries at least.
   The other parts give what the graph thread relies on. `TimerOK`: at which places the timer
   is set or the message 666 in the queue, and that it is ahead of the reply only if the reply was late
   (`FramesNotHung`). `BarrierOK`: the null task is behind the last frame in `cmdQ`, in `gfxList`
   and to the end, so that its reply means that the frame is finished; for this the graphics
   task that has begun must be the one the RDP works on (`RdpOwned`). `PictureOK`: the picture is first the frame
   being built, then the last one sent (`PicturesReady`). `HiddenOK`: a frame that is not shown
   is drawn into a buffer that the VI does not show, with no swap pending (`PicturesNotShown`). From
   `BarrierOK` also `JpegWorksAlone`.
5. `FifoRefinement`: `OsThreads!Spec` implements `BoundedFifo`, for any threads, queues
   and capacities. `MesgSteps` shows that every call, thread step and exception either
   leaves the rings alone or does one of `PutLast`, `PutFirst`, `Take` under its guard;
   `MesgTypeCorrect` that indices stay in the ring; `PutLastAppends`, `PutFirstPrepends`
   and `TakeRemovesHead` that the index arithmetic modulo the capacity is what it should
   be on sequences. `CallsKept` adds which call does which: a send that need not wait appends, a jam puts in
   front, a receive takes the first.
6. `ThreadsSound`, from which `TypeCorrect`, `EachInOneList`, `PrioritiesRespected`: for any threads,
   priorities and queues. `ThreadInv` ties a thread's state, its queue pointer and the list it is in to each
   other, and the call it waits in to the list of that call; lists are sorted. Each
   helper of the scheduler (`Enqueue`, `Dequeue`, `Pop`, `Dispatch`) has a lemma of its own on a record like `os`;
   the calls are compositions of them. `PriorityRespected` comes from `Dispatch`, which takes the first of a sorted list.
   `NoWakeupLost` needs `~MayRob` (section 7). What it counts is, for each queue, the messages and the
   threads woken for them and not yet run. Each step keeps both, wakes one thread for one message, lets a woken thread take
   one (or find none), or leaves nobody waiting; stopping or destroying a woken thread is what would break it.
7. `ArenaWhole`, `HeapRefinement`: for any region, header size and request sizes. The
   invariant is `Whole`, stated of any list (`WholeList`), which is inductive with its parts together: without
   "no gap" the block behind `After(N, a)` need not exist, and without "linked both ways" a merge or a
   split would have to search for the neighbour. Each of the four changes of the list (`Split`,
   `Merge`, `Shift`, `SetFree`) keeps it, with one lemma for each; a release is up to two merges. The refinement has one step per call: what
   the call does to the set of areas, and, for NULL, that a hole with room would be a free block that fits; but for the NULL
   of a realloc that shrinks, which `Heap.Resize` allows as the code returns it.
8. `ClientsTold`, `RetriesDamage`: for any clients, queues and times. The invariant `OneChain` says
   that the reset has one thread of control only: a message in `irqQ`, or the timer that will send it,
   or the button not pressed yet. Thus a handler that sets the timer finds it out of the list, and only
   the second try of `IrqMgr_HandlePRENMI480` sets it twice. `ToldOK` follows a client through `IrqMgr_AddClient`: it is in
   the list before it looks at the status, and a handler sets the status before it goes through the list.
9. `TimersInTime`: no timer is early, for any timers and times, even when one runs out between the two halves of `osStopTimer`. `NeverEarly` compares `due` with sums over
   the list, which are folds; `TimersInv` bounds these sums through insertion, removal and expiry. A fold is no
   RECURSIVE operator: it unfolds by its definition, and what holds for every length is proved by
   taking the least length for which it fails.
10. `AnswersApart`, `PressesReported`: the two locks of the controller manager, for any number of ports.
   `BusInv` ties each place of the thread and of a memory-pak call to the holder of the lock and to the
   answer on its way; `PressInv` says that what the game has copied is still there when it clears it.
   `PadTypeCorrect` is the type invariant of `PadMgr` and of `IrqMgr` under it.
11. `MotorsQuiet`: no motor runs once the thread of the controller manager has ended, for any ports and
   counts, unless its queue overflowed. The hypotheses are that the bus fails less often than
   `OffFrames` and than there are retraces between PRE-NMI and NMI (`T450`); in the code the numbers are 3 attempts
   and 27 frames. The invariant counts: from the PRE-NMI message on, each retrace that is served either stops all motors or
   uses up a failure, and the retraces still to come, in the queue and before the timer runs out, are more than the failures left.

12. `GameInvariant`, from which `GameReadsWhole`, `GameRoomMatches`, `GamePlanesKept`, `GameObjectsKept`,
   `GameNoSelfDelete`: for any rooms, object lists, planes of both kinds and places for actors, until the player gets
   round a plane: what is inductive is `round \/ GameInv`. (`PlayerWhole` below says which rooms are there at each place of
   the player; it is false once he has got round one, and what holds then is model-checked only.) `GameInv` has four layers.
   `ActorsWhole` and `PlanesWhole`: the two lists hold each actor once, the planes come last, one live actor for each
   negative entry. `RoomsWhole` and `RequestsWhole`: `unk_30` names the buffer that is free or that of the room behind,
   at most one room is on its way, and the objects asked for before it come before it. `PlayerWhole`, `LoadingWhole` and
   `EnteredWhole`: at each place of the way, which rooms may be there (`Possible`) and which are left once the plane there
   has been updated (`Settled`). `AskedWhole`, `InitsWhole` and `ListWhole`: whoever still waits for an object, and whatever
   the RCP still reads from the free buffer, is at a place where no plane asks for a room (`NoneAsks`, `Waiting`). The last
   layer is why nothing collides although the code checks nothing: the frame that could ask for a room
   comes only after the loads have ended (`~MayOutrun`), and after the RCP has left what it overwrites, since a
   frame's list is sent when the one before has been executed. `DroppedIs` is the lemma about `func_80031B14`,
   `SpawnedPlanes` and `SpawnedActors` those about the loops that spawn. The hypotheses are `~MayOutrun` and
   `[]HasRoom`, that there is always room for another actor: without the first the properties fail,
   without the second `PlanesKept` (section 4).

Assumptions of the proofs: the named ones of the constants, and `~ResetRace`, `~SlowAudio`, `~MayRob`, the counts
of 11 and the hypotheses of 12 where the theorem says so. `ActorsAssumption` and `GameAssumption` say of the scene's data that a plane
joins two different rooms and that the rooms behind one another are the player's way. None of them is about the clients'
behaviour, which `Sched` and `PadMgr` have as actions.

Only model-checked: `ImplementsService`, `SelfDeleteBetweenTwins`, `Game` after the player has got round a plane, and all liveness. Liveness under fairness is out of reach
of the prover. The induction theorems of the library are, too, but not induction itself: over
sequences and folds the least counterexample does (9).

## 7. Not modelled, and why

- Times (`gRSPGFXTotalTime`, ...), logging, cache write-backs, the video mode, `HREG`
  debugging: no control flow modelled here depends on them.
- The fade-out of audio at PRE-NMI and the `PreNMI` game state: game logic.
- The start-up handshake of the audio manager (`unk_C8`): once, before the loop.
- A null task answers before it is freed: `MsgEvent_SendNullTask` has its task and its
  queue on the stack; it waits for the reply, and after it the scheduler reads
  only `task->flags`. The model's null task outlives its call. The scheduler's
  priority is higher, so that it reads the flags before the graph thread returns.
- The registers of a thread, the interrupt masks, which cause sends which event, and the
  exceptions that stop a thread (`panic`, break): no list depends on them.
- A thread that was woken for a message and is destroyed before it runs leaves the message
  in the queue while other receivers wait. `NoLostWakeup` is therefore checked with
  `MayRob = FALSE`: the program destroys another thread in two places only
  (`main.c:112`, `fault.c:97`), whose queues nobody else waits on.
- The DMA manager beyond "requests are answered in order": chunks, the access token of
  `__osDevMgrMain.c`, decompression. Its error path needs a 64DD, which no game code uses.
- Timers with an interval: the program sets none. What follows after a timer is set twice
  (`damaged`): the list is corrupted, and the model stops there.
- Of the heap, the checks and fill patterns for debugging, and `gamealloc.c` and `TwoHeadArena.c`, which
  only move a pointer.
- In `func_80A59014`: that a cutscene's camera stands for the player (`useViewEye`), and the one cutscene in which a plane asks from
  everywhere and never goes on (`EnHoll_IsKokiriSetup8`). A player who enters the zones of a plane from the side.
- In `PadMgr_ProcessInputs`: the error code that is none of the known ones, at which the machine stops (`padmgr.c:251-253`).
- Of the game: doors, vertical planes, culling, the actor overlays and their
  reference counts, actors seen through the lens, cutscenes, the change of scenes. Doors use the same
  functions as the planes, but ask for a room only when they are opened, while the player is held.
- Fault manager: it draws and waits for buttons after the machine has stopped.
- Audio library: arithmetic on samples in one thread; large parts are still assembly.
- The rest of the game: the overlays of some 400 actors (the player's alone has 14 000 lines), cameras,
  collisions, messages, HUD, effects, and the headers with constants and display-list macros. They run in
  sequence in the graph thread, on data of their own; most of it is arithmetic on positions and
  animations, whose right result is what it looks like. They are most of the implementation's lines, so that the
  models, which cover the shared and concurrent code, cover a small share of them. Modelling a
  timer or a switch of a single actor would restate its code and say nothing that could be wrong.


## 8. Plan

The plan of the first version is carried out but for these, which would be the next:

1. `DmaMgr`: requests, chunks, the access token of `__osDevMgrMain`, under `Loading`.
2. Doors and the change of scenes in `Game`; the actor overlays and their reference counts.
3. A proof of `ImplementsService`: each step of `Sched` is one of `RcpService` or a stutter.
4. `OneChain` carried over to `PadMgr`, where clients are removed, too.
