------------------------------- MODULE PadMgr -------------------------------
(***************************************************************************)
(* The controller manager (src/src/code/padmgr.c) as a client of the       *)
(* interrupt manager: it reads the controllers at each retrace, keeps what  *)
(* was pressed for the game, and runs the motors of the rumble paks.  The   *)
(* serial bus is shared with the memory-pak users (mempak.c) through the    *)
(* message in serialMsgQ, the inputs with the game through the one in       *)
(* lockMsgQ; each of these two queues is a lock.                           *)
(***************************************************************************)
EXTENDS IrqMgr

CONSTANTS
    pad,            \* the client padmgr->irqClient
    Port,           \* the controller ports, 0 .. 3 in the code
    Pak,            \* what may be in a controller
    OnFrames,       \* what rumbleOnFrames is set to, 240
    OffFrames,      \* what rumbleOffFrames is set to, 3
    Stops,          \* how often a motor is stopped, 3
    Lost,           \* rumbleCounter of an unplugged controller, 255
    MaxErrors,      \* bound on the failures of the communication with a pak
    ProbeMayFail    \* TRUE: it may also fail for the test run of a new pak

ASSUME PadAssumption ==
    /\ pad \in Early /\ Pak \subseteq {"none", "rumble", "memory"} /\ "none" \in Pak
    /\ IsFiniteSet(Port) /\ Port = 0 .. Cardinality(Port) - 1 /\ Port # {}
    /\ {OnFrames, OffFrames, Stops, Lost, MaxErrors} \subseteq Nat /\ Stops <= Lost
    /\ ProbeMayFail \in BOOLEAN

VARIABLES
    pc,             \* where the thread is
    serialMsgQ,     \* who holds the serial bus
    mempak,         \* a call of mempak.c is in the middle of a transfer
    siQ,            \* siIntMsgQ: whose transfer the message in it answers, or NULL
    lockMsgQ,       \* who holds the inputs
    preNMIShutdown, rumbleOnFrames, rumbleOffFrames, frame,
    ctrlr,          \* what padmgr knows of each port
    motor,          \* the motors that run
    inPak,          \* what is in each controller
    press,          \* inputs[0].press, for one button, and its cur
    owed,           \* the button went down and the game was not told yet
    copied,         \* what the game has copied, before it clears the original
    errors          \* failures so far

rumbleVars == <<preNMIShutdown, rumbleOnFrames, rumbleOffFrames, frame, ctrlr, motor, inPak, errors>>
inputVars == <<lockMsgQ, press, owed, copied>>
busVars == <<serialMsgQ, mempak, siQ>>
padVars == <<pc, busVars, rumbleVars, inputVars>>
vars == <<timerVars, irqVars, clientVars, padVars>>

Known == [connected : BOOLEAN, status : BOOLEAN, pakType : 0 .. 2,
          rumbleEnable : BOOLEAN, rumbleCounter : Nat]

TypeOK ==
    /\ IrqTypeOK
    /\ pc \in {"wait", "lock", "read", "query", "rumble", "end"}
    /\ {serialMsgQ, siQ} \subseteq {"none", "pad", "mempak"} /\ mempak \in BOOLEAN
    /\ lockMsgQ \in {"none", "game"}
    /\ preNMIShutdown \in BOOLEAN
    /\ rumbleOnFrames \in 0 .. OnFrames /\ rumbleOffFrames \in 0 .. OffFrames
    /\ frame \in Port /\ ctrlr \in [Port -> Known]
    /\ \A i \in Port : ctrlr[i].rumbleCounter <= Lost
    /\ motor \subseteq Port /\ inPak \in [Port -> Pak]
    /\ press \in [pressed : BOOLEAN, cur : BOOLEAN] /\ {owed, copied} \subseteq BOOLEAN
    /\ errors \in 0 .. MaxErrors

(* PadMgr_Init has made padmgr a client and its thread waits for a message. *)
Init ==
    /\ IrqInit
    /\ pc = "wait" /\ serialMsgQ = "none" /\ siQ = "none" /\ lockMsgQ = "none"
    /\ mempak = FALSE /\ preNMIShutdown = FALSE /\ rumbleOnFrames = 0 /\ rumbleOffFrames = 0 /\ frame = 0
    /\ ctrlr = [i \in Port |-> [connected |-> FALSE, status |-> FALSE, pakType |-> 0,
                                rumbleEnable |-> FALSE, rumbleCounter |-> 0]]
    /\ motor = {} /\ inPak \in [Port -> Pak] /\ errors = 0
    /\ press = [pressed |-> FALSE, cur |-> FALSE] /\ owed = FALSE /\ copied = FALSE

-----------------------------------------------------------------------------
(* Rumble.  F is the set of ports whose pak does not answer this time; a     *)
(* command that fails may have reached the pak.                             *)

HasRumble(i, F) == inPak[i] = "rumble" /\ i \notin F

(* A command goes out for these ports. *)
Tried_AlsoStopped ==
    {i \in Port : ctrlr[i].connected /\ ctrlr[i].status /\ ctrlr[i].pakType = 1}
Tried ==
    {i \in Port : LET c == ctrlr[i] IN
        /\ c.connected /\ c.status /\ c.pakType = 1
        /\ IF c.rumbleEnable THEN c.rumbleCounter < Stops ELSE c.rumbleCounter # 0}

Commanded(i, F) ==
    LET c == ctrlr[i]
    IN  IF i \notin Tried
        THEN IF c.connected /\ ~c.status THEN [c EXCEPT !.pakType = 0] ELSE c
        ELSE IF ~HasRumble(i, F) THEN [c EXCEPT !.pakType = 0]
        ELSE [c EXCEPT !.rumbleCounter = IF c.rumbleEnable THEN Stops ELSE @ - 1]

(* Without a command, one port is asked what pak it has; a motor found is    *)
(* switched on and off.                                                     *)
Probed == {i \in {frame} : Tried = {} /\ ctrlr[i].connected /\ ctrlr[i].status
                              /\ ctrlr[i].pakType # 1}

Found(i, F) ==
    IF HasRumble(i, F) THEN [ctrlr[i] EXCEPT !.pakType = 1]
    ELSE IF inPak[i] = "memory" /\ i \notin F THEN [ctrlr[i] EXCEPT !.pakType = 2]
    ELSE ctrlr[i]

PadMgr_RumbleControl(F) ==
    /\ ctrlr' = [i \in Port |-> IF i \in Probed THEN Found(i, F) ELSE Commanded(i, F)]
    /\ \E took \in SUBSET (F \cap Tried), on \in SUBSET Probed :
           /\ ProbeMayFail \/ on = {}
           /\ motor' = {i \in Port :
                  IF i \in Tried /\ inPak[i] = "rumble" /\ (i \notin F \/ i \in took)
                  THEN ctrlr[i].rumbleEnable
                  ELSE IF i \in Probed /\ HasRumble(i, F) THEN i \in on
                  ELSE i \in motor}
    /\ frame' = (frame + 1) % Cardinality(Port)

PadMgr_RumbleStop(F) ==
    /\ motor' = {i \in motor : ~HasRumble(i, F)}
    /\ UNCHANGED <<ctrlr, frame>>

(* After a crash (fault) the motors are only stopped. *)
Rumble_NoOff(fault, F) ==
    \/ rumbleOnFrames = 0 /\ PadMgr_RumbleStop(F) /\ UNCHANGED <<rumbleOnFrames, rumbleOffFrames>>
    \/ /\ rumbleOnFrames > 0 /\ ~preNMIShutdown /\ PadMgr_RumbleControl(F)
       /\ rumbleOnFrames' = rumbleOnFrames - 1 /\ UNCHANGED rumbleOffFrames
    \/ /\ rumbleOnFrames > 0 /\ preNMIShutdown
       /\ UNCHANGED <<ctrlr, motor, frame, rumbleOnFrames, rumbleOffFrames>>
Rumble(fault, F) ==
    CASE fault ->
            PadMgr_RumbleStop(F) /\ UNCHANGED <<rumbleOnFrames, rumbleOffFrames>>
      [] ~fault /\ rumbleOffFrames > 0 ->
            /\ PadMgr_RumbleStop(F)
            /\ rumbleOffFrames' = rumbleOffFrames - 1 /\ UNCHANGED rumbleOnFrames
      [] ~fault /\ rumbleOffFrames = 0 /\ rumbleOnFrames = 0 ->
            PadMgr_RumbleStop(F) /\ UNCHANGED <<rumbleOnFrames, rumbleOffFrames>>
      [] ~fault /\ rumbleOffFrames = 0 /\ rumbleOnFrames > 0 /\ ~preNMIShutdown ->
            /\ PadMgr_RumbleControl(F)
            /\ rumbleOnFrames' = rumbleOnFrames - 1 /\ UNCHANGED rumbleOffFrames
      [] OTHER -> UNCHANGED <<ctrlr, motor, frame, rumbleOnFrames, rumbleOffFrames>>

-----------------------------------------------------------------------------
(* The thread.                                                              *)

BusFree_Always == TRUE
BusFree == serialMsgQ = "none"

Takes(m) ==
    /\ pc = "wait" /\ queue[pad] # <<>> /\ Head(queue[pad]) = m
    /\ queue' = [queue EXCEPT ![pad] = Tail(@)]
    /\ UNCHANGED <<timerVars, told, missed, busVars, inputVars>>

PadMgr_HandlePreNMI ==
    /\ Takes("prenmi")
    /\ preNMIShutdown' = TRUE /\ rumbleOffFrames' = OffFrames
    /\ UNCHANGED <<irqVars, pc, rumbleOnFrames, frame, ctrlr, motor, inPak, errors>>

PadMgr_Exit ==
    /\ Takes("nmi")
    /\ IrqMgr_RemoveClient(pad)
    /\ pc' = "end"
    /\ UNCHANGED rumbleVars

PadMgr_TakeRetrace ==
    /\ Takes("retrace")
    /\ pc' = "lock"
    /\ UNCHANGED <<irqVars, rumbleVars>>

(* The callback is NULL or func_800A9F30, with which the game drives the      *)
(* first controller's motor; when rumble is switched on or off in a menu,   *)
(* the types of all paks are forgotten.                                     *)
retraceCallback ==
    \/ UNCHANGED <<ctrlr, rumbleOnFrames>>
    \/ \E on \in BOOLEAN, forget \in BOOLEAN :
          /\ ctrlr' = [i \in Port |->
                 [ctrlr[i] EXCEPT !.rumbleEnable = (i = 0 /\ on /\ ~forget),
                                  !.pakType = IF forget THEN 0 ELSE @]]
          /\ rumbleOnFrames' = OnFrames

PadMgr_StartRead ==
    /\ pc = "lock" /\ BusFree
    /\ serialMsgQ' = "pad" /\ siQ' = "pad" /\ pc' = "read" /\ UNCHANGED mempak
    /\ retraceCallback
    /\ UNCHANGED <<timerVars, irqVars, clientVars, inputVars, preNMIShutdown, rumbleOffFrames,
                   frame, motor, inPak, errors>>

(* Mutant: without the lock. *)
InputsFree_Always == TRUE
InputsFree == lockMsgQ = "none"

(* The button goes down or up; a controller that does not answer (gone) has  *)
(* no pak either, one with an overrun keeps its last input.                 *)
(* Left out: the error code that is none of these, for which the machine     *)
(* stops (Fault_AddHungupAndCrash, the default of the switch).              *)
PadMgr_ProcessInputs(gone, overrun, down) ==
    /\ ctrlr' = [i \in Port |->
          IF i \in gone /\ ctrlr[i].connected
          THEN [ctrlr[i] EXCEPT !.connected = FALSE, !.pakType = 0, !.rumbleCounter = Lost]
          ELSE IF i \in gone \cup overrun THEN ctrlr[i]
          ELSE [ctrlr[i] EXCEPT !.connected = TRUE]]
    /\ LET cur == IF 0 \in overrun THEN press.cur ELSE down /\ 0 \notin gone
       IN  /\ press' = [pressed |-> press.pressed \/ (cur /\ ~press.cur), cur |-> cur]
           /\ owed' = (owed \/ (cur /\ ~press.cur))

PadMgr_ReadInputs ==
    /\ pc = "read" /\ siQ # "none" /\ InputsFree
    /\ \E gone, overrun \in SUBSET Port, down \in BOOLEAN :
          /\ IF preNMIShutdown THEN PadMgr_ProcessInputs({}, {}, FALSE)
             ELSE PadMgr_ProcessInputs(gone, overrun \ gone, down)
          /\ motor' = motor \ gone
          /\ inPak' = [i \in Port |-> IF i \in gone THEN "none" ELSE inPak[i]]
    /\ siQ' = "pad" /\ pc' = "query"
    /\ UNCHANGED <<timerVars, irqVars, clientVars, serialMsgQ, mempak, lockMsgQ, copied, preNMIShutdown,
                   rumbleOnFrames, rumbleOffFrames, frame, errors>>

PadMgr_Query ==
    /\ pc = "query" /\ siQ # "none"
    /\ \E answered \in SUBSET Port :
          ctrlr' = [i \in Port |-> IF i \in answered
                                  THEN [ctrlr[i] EXCEPT !.status = inPak[i] # "none"]
                                  ELSE ctrlr[i]]
    /\ serialMsgQ' = "none" /\ siQ' = "none" /\ pc' = "rumble"
    /\ UNCHANGED <<timerVars, irqVars, clientVars, mempak, inputVars, preNMIShutdown, rumbleOnFrames,
                   rumbleOffFrames, frame, motor, inPak, errors>>

PadMgr_Rumble ==
    /\ pc = "rumble" /\ BusFree
    /\ \E fault \in BOOLEAN, F \in SUBSET Port :
          /\ errors + Cardinality(F) <= MaxErrors
          /\ errors' = errors + Cardinality(F)
          /\ Rumble(fault, F)
    /\ pc' = "wait"
    /\ UNCHANGED <<timerVars, irqVars, clientVars, busVars, inputVars, preNMIShutdown, inPak>>

PadMgr_ThreadEntry ==
    \/ PadMgr_HandlePreNMI \/ PadMgr_Exit \/ PadMgr_TakeRetrace
    \/ PadMgr_StartRead \/ PadMgr_ReadInputs \/ PadMgr_Query \/ PadMgr_Rumble

-----------------------------------------------------------------------------
(* The graph thread and the players.  padmgr's thread has the higher         *)
(* priority: others run while it waits.                                     *)

Waiting ==
    \/ pc = "end"
    \/ pc = "wait" /\ queue[pad] = <<>>
    \/ pc = "lock" /\ ~BusFree

GameRuns == Waiting \/ pc \in {"read", "query"}

(* PadMgr_RequestPadData with a mode other than 0 *)
RequestPadData ==
    /\ GameRuns /\ lockMsgQ = "none" /\ ~mempak
    /\ lockMsgQ' = "game" /\ copied' = press.pressed
    /\ UNCHANGED <<timerVars, irqVars, clientVars, pc, busVars, rumbleVars, press, owed>>

RequestPadData_Clear ==
    /\ GameRuns /\ lockMsgQ = "game" /\ lockMsgQ' = "none"
    /\ press' = [press EXCEPT !.pressed = FALSE]
    /\ owed' = (owed /\ ~copied) /\ copied' = FALSE
    /\ UNCHANGED <<timerVars, irqVars, clientVars, pc, busVars, rumbleVars>>

(* A call of mempak.c by the game: one or more transfers under the lock. *)
Mempak_Lock ==
    /\ GameRuns /\ BusFree /\ lockMsgQ = "none" /\ ~mempak
    /\ serialMsgQ' = "mempak" /\ siQ' = "mempak" /\ mempak' = TRUE
    /\ UNCHANGED <<timerVars, irqVars, clientVars, pc, rumbleVars, inputVars>>

Mempak_Unlock ==
    /\ GameRuns /\ mempak /\ siQ # "none"
    /\ serialMsgQ' = "none" /\ siQ' = "none" /\ mempak' = FALSE
    /\ UNCHANGED <<timerVars, irqVars, clientVars, pc, rumbleVars, inputVars>>

PakMoves ==
    /\ \E i \in Port, p \in Pak :
          /\ (p = "none") # (inPak[i] = "none")
          /\ inPak' = [inPak EXCEPT ![i] = p] /\ motor' = motor \ {i}
    /\ Waiting /\ pc # "end"
    /\ UNCHANGED <<timerVars, irqVars, clientVars, pc, busVars, inputVars, preNMIShutdown,
                   rumbleOnFrames, rumbleOffFrames, frame, ctrlr, errors>>

-----------------------------------------------------------------------------
IrqThread == IrqMgr_ThreadEntry /\ UNCHANGED padVars
Interrupt == TimerInterrupt /\ UNCHANGED padVars

Button == ResetButton /\ UNCHANGED padVars

(* The threads above have run as far as they can when the next retrace comes. *)
PadFrame == Waiting /\ Frame /\ UNCHANGED padVars

Next ==
    \/ IrqThread \/ Interrupt \/ PadFrame \/ Button
    \/ PadMgr_ThreadEntry
    \/ RequestPadData \/ RequestPadData_Clear \/ Mempak_Lock \/ Mempak_Unlock \/ PakMoves

Spec == Init /\ [][Next]_vars

-----------------------------------------------------------------------------
(* Each user of the serial bus reads the answer to its own transfer: the     *)
(* retrace handler and the memory-pak calls never overlap.                  *)
OwnAnswer ==
    /\ pc \in {"read", "query"} => siQ = "pad"
    /\ mempak => siQ = "mempak"

(* A press is reported to the game, whenever retraces fall between the two   *)
(* halves of PadMgr_RequestPadData, and reported once.                      *)
NoPressLost == owed = press.pressed

(* After the reset the motors are at rest when the thread ends, also if the  *)
(* bus fails twice, unless it could not keep up with its queue.             *)
QuietAtEnd == pc = "end" /\ pad \notin missed => motor = {}
=============================================================================
