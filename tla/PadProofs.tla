------------------------------ MODULE PadProofs -----------------------------
(***************************************************************************)
(* The two locks of the controller manager do their work, and after a reset *)
(* the motors are at rest when its thread ends: for any number of ports,    *)
(* whatever the game, the memory-pak users, the players and the reset       *)
(* button do, and in whatever order.                                        *)
(***************************************************************************)
EXTENDS PadMgr, IrqProofs

(* Who holds the serial bus, and whose answer is on its way. *)
BusInv ==
    /\ mempak \in BOOLEAN
    /\ pc \in {"read", "query"} <=> serialMsgQ = "pad"
    /\ mempak <=> serialMsgQ = "mempak"
    /\ pc \in {"read", "query"} => siQ = "pad"
    /\ mempak => siQ = "mempak"

(* What the game has copied, under the lock of the inputs, is what is there. *)
PressInv ==
    /\ owed \in BOOLEAN /\ copied \in BOOLEAN
    /\ press \in [pressed : BOOLEAN, cur : BOOLEAN]
    /\ owed = press.pressed
    /\ lockMsgQ = "game" => copied = press.pressed

(* The steps of IrqMgr and of the players touch none of it. *)
LEMMA OthersStep ==
    ASSUME IrqThread \/ Interrupt \/ PadFrame \/ Button \/ PakMoves
    PROVE  UNCHANGED <<pc, busVars, inputVars>>
BY DEF IrqThread, Interrupt, PadFrame, Button, PakMoves, padVars

-----------------------------------------------------------------------------
LEMMA BusInit == Init => BusInv
BY DEF Init, BusInv

(* A lock is taken when it is free, and given back with the message read. *)
LEMMA BusStep == BusInv /\ [Next]_vars => BusInv'
<1> SUFFICES ASSUME BusInv, [Next]_vars PROVE BusInv'
    OBVIOUS
<1> USE DEF BusInv, busVars
<1>1. CASE IrqThread \/ Interrupt \/ PadFrame \/ Button \/ PakMoves
    BY <1>1, OthersStep
<1>2. CASE PadMgr_HandlePreNMI
    BY <1>2 DEF PadMgr_HandlePreNMI, Takes
<1>3. CASE PadMgr_Exit
    BY <1>3 DEF PadMgr_Exit, Takes
<1>4. CASE PadMgr_TakeRetrace
    BY <1>4 DEF PadMgr_TakeRetrace, Takes
<1>5. CASE PadMgr_StartRead
    BY <1>5 DEF PadMgr_StartRead, BusFree
<1>6. CASE PadMgr_ReadInputs
    BY <1>6 DEF PadMgr_ReadInputs
<1>7. CASE PadMgr_Query
    BY <1>7 DEF PadMgr_Query
<1>8. CASE PadMgr_Rumble
    BY <1>8 DEF PadMgr_Rumble
<1>9. CASE RequestPadData \/ RequestPadData_Clear
    BY <1>9 DEF RequestPadData, RequestPadData_Clear
<1>10. CASE Mempak_Lock
    BY <1>10 DEF Mempak_Lock, BusFree
<1>11. CASE Mempak_Unlock
    BY <1>11 DEF Mempak_Unlock
<1>12. CASE UNCHANGED vars
    BY <1>12 DEF vars, padVars
<1> QED
    BY <1>1, <1>2, <1>3, <1>4, <1>5, <1>6, <1>7, <1>8, <1>9, <1>10, <1>11, <1>12
       DEF Next, PadMgr_ThreadEntry

(* A transfer and the message that answers it belong together, since the    *)
(* retrace handler and the memory-pak users exclude each other.             *)
THEOREM AnswersApart == Spec => []OwnAnswer
<1>1. BusInv => OwnAnswer
    BY DEF BusInv, OwnAnswer
<1> QED
    BY BusInit, BusStep, <1>1, PTL DEF Spec

-----------------------------------------------------------------------------
LEMMA PressInit == Init => PressInv
<1> SUFFICES ASSUME Init PROVE PressInv
    OBVIOUS
<1>1. /\ owed = FALSE /\ copied = FALSE /\ lockMsgQ = "none"
      /\ press = [pressed |-> FALSE, cur |-> FALSE]
    BY DEF Init
<1>2. press \in [pressed : BOOLEAN, cur : BOOLEAN] /\ press.pressed = FALSE
    BY <1>1
<1> QED
    BY <1>1, <1>2 DEF PressInv

LEMMA InputStep ==
    ASSUME PressInv, NEW gone, NEW overrun, NEW down \in BOOLEAN,
           PadMgr_ProcessInputs(gone, overrun, down)
    PROVE  /\ owed' \in BOOLEAN /\ press' \in [pressed : BOOLEAN, cur : BOOLEAN]
           /\ owed' = press'.pressed
<1> DEFINE cur == IF 0 \in overrun THEN press.cur ELSE down /\ 0 \notin gone
           new == cur /\ ~press.cur
<1>1. cur \in BOOLEAN /\ new \in BOOLEAN
    BY DEF PressInv
<1>2. /\ press' = [pressed |-> press.pressed \/ new, cur |-> cur]
      /\ owed' = (owed \/ new)
    BY DEF PadMgr_ProcessInputs
<1> HIDE DEF cur, new
<1> QED
    BY <1>1, <1>2 DEF PressInv

(* The inputs change only while nobody holds them, and are cleared of what  *)
(* was copied and of nothing else.                                          *)
LEMMA PressStep == PressInv /\ [Next]_vars => PressInv'
<1> SUFFICES ASSUME PressInv, [Next]_vars PROVE PressInv'
    OBVIOUS
<1> USE DEF PressInv, inputVars
<1>1. CASE IrqThread \/ Interrupt \/ PadFrame \/ Button \/ PakMoves
    BY <1>1, OthersStep
<1>2. CASE PadMgr_HandlePreNMI
    BY <1>2 DEF PadMgr_HandlePreNMI, Takes
<1>3. CASE PadMgr_Exit
    BY <1>3 DEF PadMgr_Exit, Takes
<1>4. CASE PadMgr_TakeRetrace
    BY <1>4 DEF PadMgr_TakeRetrace, Takes
<1>5. CASE PadMgr_StartRead
    BY <1>5 DEF PadMgr_StartRead
<1>6. CASE PadMgr_ReadInputs
  <2>1. PICK gone, overrun \in SUBSET Port, down \in BOOLEAN :
            IF preNMIShutdown THEN PadMgr_ProcessInputs({}, {}, FALSE)
            ELSE PadMgr_ProcessInputs(gone, overrun \ gone, down)
      BY <1>6 DEF PadMgr_ReadInputs
  <2>2. /\ owed' \in BOOLEAN /\ press' \in [pressed : BOOLEAN, cur : BOOLEAN]
        /\ owed' = press'.pressed
      BY <2>1, InputStep
  <2>3. lockMsgQ' = "none" /\ copied' = copied
      BY <1>6 DEF PadMgr_ReadInputs, InputsFree
  <2> QED
      BY <2>2, <2>3
<1>7. CASE PadMgr_Query
    BY <1>7 DEF PadMgr_Query
<1>8. CASE PadMgr_Rumble
    BY <1>8 DEF PadMgr_Rumble
<1>9. CASE RequestPadData
    BY <1>9 DEF RequestPadData
<1>10. CASE RequestPadData_Clear
  <2>1. /\ press' = [press EXCEPT !.pressed = FALSE] /\ copied = press.pressed
        /\ owed' = (owed /\ ~copied) /\ copied' = FALSE /\ lockMsgQ' = "none"
      BY <1>10 DEF RequestPadData_Clear
  <2>2. owed' = FALSE /\ press' \in [pressed : BOOLEAN, cur : BOOLEAN] /\ press'.pressed = FALSE
      BY <2>1
  <2> QED
      BY <2>1, <2>2
<1>11. CASE Mempak_Lock \/ Mempak_Unlock
    BY <1>11 DEF Mempak_Lock, Mempak_Unlock
<1>12. CASE UNCHANGED vars
    BY <1>12 DEF vars, padVars
<1> QED
    BY <1>1, <1>2, <1>3, <1>4, <1>5, <1>6, <1>7, <1>8, <1>9, <1>10, <1>11, <1>12
       DEF Next, PadMgr_ThreadEntry

(* Every press of the button reaches the game once, although the game       *)
(* copies the inputs and clears them in two steps.                          *)
THEOREM PressesReported == Spec => []NoPressLost
<1>1. PressInv => NoPressLost
    BY DEF PressInv, NoPressLost
<1> QED
    BY PressInit, PressStep, <1>1, PTL DEF Spec

-----------------------------------------------------------------------------
(* What the interrupt manager's side of the model is made of.               *)

Letter == {"retrace", "prenmi", "nmi"}

(* What IrqTypeOK says and IrqInv and TimersInv leave open. *)
IrqRest ==
    /\ Len(irqQ) <= IrqQCap /\ irqMsg # "PRE_NMI" /\ irqAlive \in BOOLEAN
    /\ IsInjective(clients)
    /\ queue \in [Client -> Seq(Letter)] /\ \A c \in Client : Len(queue[c]) <= QCap[c]

LEMMA IrqTypes == IrqInv /\ TimersInv /\ IrqRest => IrqTypeOK
<1> SUFFICES ASSUME IrqInv, TimersInv, IrqRest PROVE IrqTypeOK
    OBVIOUS
<1>1. irqMsg \in {"PRENMI450", "PRENMI480", "PRENMI500"}
    BY DEF IrqInv, Typed, IrqRest, Mesg
<1>2. \A c \in Client : queue[c] \in Seq({"retrace", "prenmi", "nmi"}) /\ Len(queue[c]) <= QCap[c]
    BY DEF IrqRest, Letter
<1> QED
    BY <1>1, <1>2 DEF IrqTypeOK, IrqInv, TimersInv, Typed, IrqRest, Mesg, Told, Stage,
                      STATUS_IDLE, STATUS_PRENMI, STATUS_NMI

(* What a client finds that IrqMgr_SendMesgForClient sends m to. *)
LEMMA QueueSent ==
    ASSUME IrqRest, NEW C, NEW m \in Letter, SendTo(C, m)
    PROVE  /\ queue' \in [Client -> Seq(Letter)] /\ \A c \in Client : Len(queue'[c]) <= QCap[c]
           /\ \A c \in Client :
                 \/ queue'[c] = queue[c]
                 \/ c \in C /\ queue'[c] = Append(queue[c], m)
           /\ pressed => missed \subseteq missed'
           /\ pressed => \A c \in Client : c \in C \ missed' => queue'[c] = Append(queue[c], m)
<1> DEFINE gets == {c \in C : HasRoom(c)}
<1>1. /\ queue' = [c \in Client |-> IF c \in gets THEN Append(queue[c], m) ELSE queue[c]]
      /\ missed' = IF pressed THEN missed \cup (C \ gets) ELSE missed
      /\ gets \subseteq C
    BY DEF SendTo
<1>2. ASSUME NEW c \in Client
      PROVE  /\ queue[c] \in Seq(Letter) /\ Len(queue[c]) <= QCap[c] /\ QCap[c] \in Nat
             /\ Append(queue[c], m) \in Seq(Letter)
             /\ c \in gets => Len(Append(queue[c], m)) <= QCap[c]
  <2>1. queue[c] \in Seq(Letter) /\ Len(queue[c]) <= QCap[c]
      BY DEF IrqRest
  <2>2. QCap[c] \in Nat
      BY IrqAssumption
  <2>3. c \in gets => Len(queue[c]) < QCap[c]
      BY DEF HasRoom
  <2>4. Append(queue[c], m) \in Seq(Letter) /\ Len(Append(queue[c], m)) = Len(queue[c]) + 1
      BY <2>1
  <2>5. Len(queue[c]) \in Nat
      BY <2>1
  <2> HIDE DEF gets
  <2> QED
      BY <2>1, <2>2, <2>3, <2>4, <2>5
<1> HIDE DEF gets
<1>3. \A c \in Client : queue'[c] = IF c \in gets THEN Append(queue[c], m) ELSE queue[c]
    BY <1>1
<1>4. queue' \in [Client -> Seq(Letter)]
    BY <1>1, <1>2
<1>5. \A c \in Client : Len(queue'[c]) <= QCap[c]
    BY <1>2, <1>3
<1> QED
    BY <1>1, <1>3, <1>4, <1>5

LEMMA PostFits ==
    ASSUME irqQ \in Seq(Mesg), Len(irqQ) <= IrqQCap, NEW m \in Mesg, Post(m)
    PROVE  Len(irqQ') <= IrqQCap
BY IrqAssumption DEF Post

(* A client takes the message at the head of its queue. *)
LEMMA QueueRead ==
    ASSUME queue \in [Client -> Seq(Letter)], \A c \in Client : Len(queue[c]) <= QCap[c],
           NEW c \in Client, queue[c] # <<>>, queue' = [queue EXCEPT ![c] = Tail(@)]
    PROVE  /\ queue' \in [Client -> Seq(Letter)] /\ \A d \in Client : Len(queue'[d]) <= QCap[d]
           /\ queue'[c] = Tail(queue[c])
<1>1. queue[c] \in Seq(Letter) /\ Tail(queue[c]) \in Seq(Letter) /\ Len(Tail(queue[c])) = Len(queue[c]) - 1
    OBVIOUS
<1>2. \A d \in Client : queue'[d] = IF d = c THEN Tail(queue[c]) ELSE queue[d]
    OBVIOUS
<1>3. queue' \in [Client -> Seq(Letter)]
    BY <1>1, <1>2
<1>4. Len(Tail(queue[c])) <= QCap[c]
  <2>1. QCap[c] \in Nat
      BY IrqAssumption
  <2>2. Len(queue[c]) \in Nat
      BY <1>1
  <2>3. Len(queue[c]) <= QCap[c]
      OBVIOUS
  <2> QED
      BY <1>1, <2>1, <2>2, <2>3
<1> QED
    BY <1>1, <1>2, <1>3, <1>4

(* The list of the clients without c. *)
LEMMA ClientRemoved ==
    ASSUME NEW s \in Seq(Client), IsInjective(s), NEW c
    PROVE  /\ RemoveFirst(s, c) \in Seq(Client) /\ IsInjective(RemoveFirst(s, c))
           /\ \A d \in Range(s) : d # c => d \in Range(RemoveFirst(s, c))
<1>1. CASE ~\E i \in 1 .. Len(s) : s[i] = c
    BY <1>1 DEF RemoveFirst
<1>2. ASSUME NEW p \in 1 .. Len(s), s[p] = c
      PROVE  /\ RemoveFirst(s, c) \in Seq(Client) /\ IsInjective(RemoveFirst(s, c))
             /\ \A d \in Range(s) : d # c => d \in Range(RemoveFirst(s, c))
  <2>1. {i \in 1 .. Len(s) : s[i] = c} = {p}
      BY <1>2 DEF IsInjective
  <2>2. Min({p}) = p
      BY <1>2 DEF Min
  <2>3. SelectInSeq(s, LAMBDA v : v = c) = p
      BY <2>1, <2>2 DEF SelectInSeq
  <2>4. RemoveFirst(s, c) = RemoveAt(s, p)
      BY <1>2, <2>3 DEF RemoveFirst
  <2>5. TakenOutAt(Client, RemoveAt(s, p), s, p) /\ IsInjective(RemoveAt(s, p))
      BY <1>2, RemoveAtIs, Removed
  <2> DEFINE t == RemoveAt(s, p)
  <2>6. /\ t \in Seq(Client) /\ Len(t) = Len(s) - 1
        /\ \A j \in 1 .. Len(s) - 1 : t[j] = IF j < p THEN s[j] ELSE s[j + 1]
      BY <2>5 DEF TakenOutAt
  <2> HIDE DEF t
  <2>7. ASSUME NEW d \in Range(s), d # c PROVE d \in Range(t)
    <3>1. PICK i \in 1 .. Len(s) : s[i] = d
        BY <2>7 DEF Range
    <3>2. Len(s) \in Nat /\ i # p /\ DOMAIN t = 1 .. Len(s) - 1
        BY <1>2, <2>6, <2>7, <3>1
    <3>3. CASE i < p
        BY <1>2, <2>6, <3>1, <3>2, <3>3 DEF Range
    <3>4. CASE i > p
      <4>1. i - 1 \in 1 .. Len(s) - 1 /\ ~(i - 1 < p) /\ i - 1 + 1 = i
          BY <1>2, <3>2, <3>4
      <4>2. t[i - 1] = d
          BY <2>6, <3>1, <4>1
      <4> QED
          BY <3>2, <4>1, <4>2 DEF Range
    <3> QED
        BY <1>2, <3>2, <3>3, <3>4
  <2> QED
      BY <2>4, <2>5, <2>6, <2>7 DEF t
<1> QED
    BY <1>1, <1>2

(* The interrupt manager and the interrupts. *)
LEMMA IrqRestStep ==
    ASSUME IrqInv, IrqRest, IrqMgr_ThreadEntry \/ TimerInterrupt \/ Frame \/ ResetButton
    PROVE  IrqRest'
<1>0. irqQ \in Seq(Mesg) /\ irqMsg \in Mesg
    BY DEF IrqInv, Typed
<1>1. ASSUME UNCHANGED <<irqMsg, clients, irqAlive, clientVars>>, Len(irqQ') <= IrqQCap
      PROVE  IrqRest'
    BY <1>1 DEF IrqRest, clientVars
<1>2. CASE IrqMgr_ThreadEntry
  <2>1. Len(irqQ') <= IrqQCap /\ UNCHANGED clients
    <3>1. irqQ # <<>> /\ irqQ' = Tail(irqQ) /\ UNCHANGED clients /\ Len(irqQ) <= IrqQCap /\ IrqQCap \in Nat
        BY <1>2, IrqAssumption DEF IrqMgr_ThreadEntry, IrqRest
    <3>2. Len(irqQ') = Len(irqQ) - 1 /\ Len(irqQ) \in Nat
        BY <1>0, <3>1
    <3> QED
        BY <3>1, <3>2
  <2>2. ASSUME NEW m \in Letter, SendTo(Range(clients), m)
        PROVE  queue' \in [Client -> Seq(Letter)] /\ \A c \in Client : Len(queue'[c]) <= QCap[c]
      BY <2>2, QueueSent
  <2>3. ASSUME IrqMgr_HandlePreNMI \/ IrqMgr_HandlePRENMI450 \/ IrqMgr_HandleRetrace
        PROVE  irqMsg' # "PRE_NMI" /\ irqAlive' = irqAlive /\ \E m \in Letter : SendTo(Range(clients), m)
      BY <2>3 DEF IrqMgr_HandlePreNMI, IrqMgr_HandlePRENMI450, IrqMgr_HandleRetrace, SetTimer,
                  IrqMgr_SendMesgForClient, Letter, IrqRest
  <2>4. ASSUME IrqMgr_HandlePRENMI480 \/ IrqMgr_HandlePRENMI500
        PROVE  irqMsg' # "PRE_NMI" /\ irqAlive' \in BOOLEAN /\ UNCHANGED clientVars
      BY <2>4 DEF IrqMgr_HandlePRENMI480, IrqMgr_HandlePRENMI500, SetTimer, IrqRest
  <2>5. CASE IrqMgr_HandlePreNMI \/ IrqMgr_HandlePRENMI450 \/ IrqMgr_HandleRetrace
    <3>1. queue' \in [Client -> Seq(Letter)] /\ \A c \in Client : Len(queue'[c]) <= QCap[c]
        BY <2>2, <2>3, <2>5
    <3>2. irqMsg' # "PRE_NMI" /\ irqAlive' = irqAlive
        BY <2>3, <2>5
    <3> QED
        BY <2>1, <3>1, <3>2 DEF IrqRest
  <2>6. CASE IrqMgr_HandlePRENMI480 \/ IrqMgr_HandlePRENMI500
      BY <2>1, <2>4, <2>6 DEF IrqRest, clientVars
  <2> QED
      BY <1>2, <2>5, <2>6 DEF IrqMgr_ThreadEntry
<1>3. ASSUME NEW m \in Mesg, Post(m) \/ UNCHANGED irqQ
      PROVE  Len(irqQ') <= IrqQCap
    BY <1>0, <1>3, PostFits DEF IrqRest
<1>4. CASE TimerInterrupt
    BY <1>0, <1>1, <1>3, <1>4 DEF TimerInterrupt
<1>5. CASE Frame
    BY <1>1, <1>3, <1>5 DEF Frame, Retrace, Mesg
<1>6. CASE ResetButton
    BY <1>1, <1>3, <1>6 DEF ResetButton, Mesg
<1> QED
    BY <1>2, <1>4, <1>5, <1>6

(* For the interrupt manager the thread of padmgr is a client that reads its *)
(* queue, until it leaves.                                                  *)
LEMMA PadIsClient ==
    ASSUME [Next]_vars, ~PadMgr_Exit
    PROVE  /\ [IrqNext]_irqMgrVars
           /\ \/ IrqMgr_ThreadEntry \/ TimerInterrupt \/ Frame \/ ResetButton
              \/ ClientReads(pad) \/ UNCHANGED irqMgrVars
<1>1. CASE IrqThread \/ Interrupt \/ PadFrame \/ Button
    BY <1>1 DEF IrqThread, Interrupt, PadFrame, Button, IrqNext
<1>2. ASSUME ClientReads(pad) \/ UNCHANGED irqMgrVars
      PROVE  [IrqNext]_irqMgrVars
    BY <1>2, PadAssumption, IrqAssumption DEF IrqNext
<1>3. CASE PadMgr_HandlePreNMI
    BY <1>2, <1>3 DEF PadMgr_HandlePreNMI, Takes, ClientReads
<1>4. CASE PadMgr_TakeRetrace
    BY <1>2, <1>4 DEF PadMgr_TakeRetrace, Takes, ClientReads
<1>5. CASE PadMgr_StartRead \/ PadMgr_ReadInputs \/ PadMgr_Query \/ PadMgr_Rumble
    BY <1>2, <1>5 DEF PadMgr_StartRead, PadMgr_ReadInputs, PadMgr_Query, PadMgr_Rumble, irqMgrVars
<1>6. CASE RequestPadData \/ RequestPadData_Clear \/ Mempak_Lock \/ Mempak_Unlock \/ PakMoves
    BY <1>2, <1>6 DEF RequestPadData, RequestPadData_Clear, Mempak_Lock, Mempak_Unlock, PakMoves, irqMgrVars
<1>7. CASE UNCHANGED vars
    BY <1>2, <1>7 DEF vars, irqMgrVars
<1> QED
    BY <1>1, <1>3, <1>4, <1>5, <1>6, <1>7 DEF Next, PadMgr_ThreadEntry

(* The thread of padmgr leaves the list of the clients and ends. *)
LEMMA ExitStep ==
    ASSUME IrqInv, TimersInv, IrqRest, PadMgr_Exit
    PROVE  IrqInv' /\ TimersInv' /\ IrqRest'
<1>1. /\ queue[pad] # <<>> /\ queue' = [queue EXCEPT ![pad] = Tail(@)]
      /\ clients' = RemoveFirst(clients, pad) /\ adding' = [adding EXCEPT ![pad] = "removed"]
      /\ UNCHANGED <<timerVars, told, missed, irqQ, irqMsg, resetStatus, irqAlive, pressed>>
    BY DEF PadMgr_Exit, Takes, IrqMgr_RemoveClient
<1>2. pad \in Client /\ clients \in Seq(Client) /\ IsInjective(clients)
    BY PadAssumption, IrqAssumption DEF IrqInv, Typed, IrqRest
<1>3. /\ clients' \in Seq(Client) /\ IsInjective(clients')
      /\ \A d \in Range(clients) : d # pad => d \in Range(clients')
    BY <1>1, <1>2, ClientRemoved
<1>4. \A c \in Client : adding'[c] = IF c = pad THEN "removed" ELSE adding[c]
    BY <1>1 DEF IrqInv, Typed
<1>5. Typed'
    BY <1>1, <1>3 DEF IrqInv, Typed, TimersOK, timerVars, listVars, Stage
<1>6. OneChain'
    BY <1>1 DEF IrqInv, OneChain, Active, timerVars, listVars
<1>7. ToldOK'
    BY <1>1, <1>3, <1>4 DEF IrqInv, ToldOK
<1>8. TimersInv'
  <2>1. damaged' \in BOOLEAN /\ stopCall' \in StopCalls
      BY <1>1 DEF TimersInv, TimersTypeOK, StopCalls, timerVars, listVars
  <2> QED
      BY <1>1, <2>1, TimersUnchanged DEF timerVars, listVars
<1>9. IrqRest'
  <2>1. queue' \in [Client -> Seq(Letter)] /\ \A d \in Client : Len(queue'[d]) <= QCap[d]
      BY <1>1, <1>2, QueueRead DEF IrqRest
  <2> QED
      BY <1>1, <1>3, <2>1 DEF IrqRest
<1> QED
    BY <1>5, <1>6, <1>7, <1>8, <1>9 DEF IrqInv

LEMMA IrqSideStep ==
    ASSUME IrqInv, TimersInv, IrqRest, [Next]_vars
    PROVE  IrqInv' /\ TimersInv' /\ IrqRest'
<1>1. CASE PadMgr_Exit
    BY <1>1, ExitStep
<1>2. CASE ~PadMgr_Exit
  <2>1. [IrqNext]_irqMgrVars
      BY <1>2, PadIsClient
  <2>2. IrqInv' /\ TimersInv'
      BY <2>1, IrqStep, IrqTimers
  <2>3. IrqRest'
    <3>1. CASE IrqMgr_ThreadEntry \/ TimerInterrupt \/ Frame \/ ResetButton
        BY <3>1, IrqRestStep
    <3>2. CASE ClientReads(pad)
      <4>1. /\ queue[pad] # <<>> /\ queue' = [queue EXCEPT ![pad] = Tail(@)]
            /\ UNCHANGED <<irqQ, irqMsg, irqAlive, clients>>
          BY <3>2 DEF ClientReads, irqVars
      <4>2. queue' \in [Client -> Seq(Letter)] /\ \A d \in Client : Len(queue'[d]) <= QCap[d]
        <5>1. pad \in Client
            BY PadAssumption, IrqAssumption
        <5> QED
            BY <4>1, <5>1, QueueRead DEF IrqRest
      <4> QED
          BY <4>1, <4>2 DEF IrqRest
    <3>3. CASE UNCHANGED irqMgrVars
        BY <3>3 DEF IrqRest, irqMgrVars, irqVars, clientVars
    <3> QED
        BY <1>2, <3>1, <3>2, <3>3, PadIsClient
  <2> QED
      BY <2>2, <2>3
<1> QED
    BY <1>1, <1>2

LEMMA IrqSideInit == Init => IrqInv /\ TimersInv /\ IrqRest
<1> SUFFICES ASSUME Init PROVE IrqInv /\ TimersInv /\ IrqRest
    OBVIOUS
<1>1. IrqInv /\ TimersInv
    BY IrqInitInv, TimersInitInv DEF Init, IrqInit
<1>2. IrqRest
  <2>1. /\ irqQ = <<>> /\ irqMsg = "PRENMI450" /\ irqAlive = TRUE
        /\ clients = SetToSeq(Early) /\ queue = [c \in Client |-> <<>>]
      BY DEF Init, IrqInit
  <2>2. IsInjective(clients)
    <3>1. IsInjective(SetToSeq(Early))
        BY EarlyInList
    <3> QED
        BY <2>1, <3>1
  <2>3. queue \in [Client -> Seq(Letter)]
      BY <2>1
  <2>4. \A c \in Client : Len(queue[c]) <= QCap[c]
      BY <2>1, IrqAssumption
  <2>5. Len(irqQ) <= IrqQCap
      BY <2>1, IrqAssumption
  <2> QED
      BY <2>1, <2>2, <2>3, <2>4, <2>5 DEF IrqRest
<1> QED
    BY <1>1, <1>2

-----------------------------------------------------------------------------
(* The types.                                                               *)

BusTypes ==
    /\ pc \in {"wait", "lock", "read", "query", "rumble", "end"}
    /\ serialMsgQ \in {"none", "pad", "mempak"} /\ siQ \in {"none", "pad", "mempak"}
    /\ lockMsgQ \in {"none", "game"}

(* What is known of a port. *)
Sound(c) == c \in Known /\ c.rumbleCounter <= Lost

RumbleTypes ==
    /\ preNMIShutdown \in BOOLEAN
    /\ rumbleOnFrames \in 0 .. OnFrames /\ rumbleOffFrames \in 0 .. OffFrames
    /\ frame \in Port
    /\ ctrlr \in [Port -> Known] /\ \A i \in Port : Sound(ctrlr[i])
    /\ motor \subseteq Port /\ inPak \in [Port -> Pak]
    /\ errors \in 0 .. MaxErrors

PadInv == IrqInv /\ TimersInv /\ IrqRest /\ BusInv /\ PressInv /\ BusTypes /\ RumbleTypes

LEMMA PadTypes == PadInv => TypeOK
<1> SUFFICES ASSUME PadInv PROVE TypeOK
    OBVIOUS
<1>1. IrqTypeOK
    BY IrqTypes DEF PadInv
<1>2. /\ {serialMsgQ, siQ} \subseteq {"none", "pad", "mempak"} /\ mempak \in BOOLEAN
      /\ {owed, copied} \subseteq BOOLEAN
    BY DEF PadInv, BusTypes, BusInv, PressInv
<1>3. \A i \in Port : ctrlr[i].rumbleCounter <= Lost
    BY DEF PadInv, RumbleTypes, Sound
<1> QED
    BY <1>1, <1>2, <1>3 DEF TypeOK, PadInv, BusTypes, RumbleTypes, PressInv

LEMMA BusTypesStep == BusTypes /\ [Next]_vars => BusTypes'
<1> SUFFICES ASSUME BusTypes, [Next]_vars PROVE BusTypes'
    OBVIOUS
<1> USE DEF BusTypes, busVars, inputVars
<1>1. CASE IrqThread \/ Interrupt \/ PadFrame \/ Button \/ PakMoves
    BY <1>1, OthersStep
<1>2. CASE PadMgr_HandlePreNMI \/ PadMgr_Exit \/ PadMgr_TakeRetrace
    BY <1>2 DEF PadMgr_HandlePreNMI, PadMgr_Exit, PadMgr_TakeRetrace, Takes
<1>3. CASE PadMgr_StartRead \/ PadMgr_ReadInputs \/ PadMgr_Query \/ PadMgr_Rumble
    BY <1>3 DEF PadMgr_StartRead, PadMgr_ReadInputs, PadMgr_Query, PadMgr_Rumble
<1>4. CASE RequestPadData \/ RequestPadData_Clear \/ Mempak_Lock \/ Mempak_Unlock
    BY <1>4 DEF RequestPadData, RequestPadData_Clear, Mempak_Lock, Mempak_Unlock
<1>5. CASE UNCHANGED vars
    BY <1>5 DEF vars, padVars
<1> QED
    BY <1>1, <1>2, <1>3, <1>4, <1>5 DEF Next, PadMgr_ThreadEntry

LEMMA FieldsSound ==
    ASSUME NEW c, Sound(c)
    PROVE  /\ \A b \in BOOLEAN :
                 /\ Sound([c EXCEPT !.connected = b]) /\ Sound([c EXCEPT !.status = b])
                 /\ Sound([c EXCEPT !.rumbleEnable = b])
                 /\ \A t \in 0 .. 2 : Sound([c EXCEPT !.rumbleEnable = b, !.pakType = t])
           /\ \A t \in 0 .. 2 : Sound([c EXCEPT !.pakType = t])
           /\ \A n \in Nat : n <= Lost => Sound([c EXCEPT !.rumbleCounter = n])
<1>1. c \in Known /\ c.rumbleCounter <= Lost
    BY DEF Sound
<1>2. ASSUME NEW b \in BOOLEAN
      PROVE  /\ Sound([c EXCEPT !.connected = b]) /\ Sound([c EXCEPT !.status = b])
             /\ Sound([c EXCEPT !.rumbleEnable = b])
    BY <1>1 DEF Sound, Known
<1>3. ASSUME NEW d, Sound(d), NEW t \in 0 .. 2 PROVE Sound([d EXCEPT !.pakType = t])
    BY <1>3 DEF Sound, Known
<1>4. ASSUME NEW b \in BOOLEAN, NEW t \in 0 .. 2
      PROVE  Sound([c EXCEPT !.rumbleEnable = b, !.pakType = t])
  <2> DEFINE d == [c EXCEPT !.rumbleEnable = b]
  <2>1. Sound([d EXCEPT !.pakType = t])
    <3>1. Sound(d)
        BY <1>2
    <3> HIDE DEF d
    <3> QED
        BY <1>3, <3>1
  <2> QED
      BY <2>1
<1>5. ASSUME NEW n \in Nat, n <= Lost PROVE Sound([c EXCEPT !.rumbleCounter = n])
    BY <1>1, <1>5 DEF Sound, Known
<1> QED
    BY <1>2, <1>3, <1>4, <1>5

(* What is learnt of a port keeps to its type. *)
LEMMA FoundSound ==
    ASSUME RumbleTypes, NEW F, NEW i \in Port
    PROVE  Sound(Found(i, F))
<1> DEFINE c == ctrlr[i]
<1>1. c \in Known /\ c.rumbleCounter <= Lost
    BY DEF RumbleTypes, Sound
<1> HIDE DEF c
<1>2. ASSUME NEW t \in 0 .. 2 PROVE Sound([c EXCEPT !.pakType = t])
    BY <1>1, <1>2 DEF Known, Sound
<1>3. Found(i, F) = c \/ \E t \in 0 .. 2 : Found(i, F) = [c EXCEPT !.pakType = t]
    BY DEF Found, c
<1>4. Sound(c)
    BY <1>1 DEF Sound
<1> QED
    BY <1>2, <1>3, <1>4

LEMMA CommandedSound ==
    ASSUME RumbleTypes, NEW F, NEW i \in Port
    PROVE  Sound(Commanded(i, F))
<1> DEFINE c == ctrlr[i]
<1>1. c \in Known /\ c.rumbleCounter <= Lost /\ c.rumbleCounter \in Nat /\ Lost \in Nat /\ Stops \in Nat /\ Stops <= Lost
    BY PadAssumption DEF RumbleTypes, Sound, Known
<1>2. i \in Tried /\ ~c.rumbleEnable => c.rumbleCounter # 0
    BY DEF Tried
<1>3. \/ Commanded(i, F) = c
      \/ Commanded(i, F) = [c EXCEPT !.pakType = 0]
      \/ Commanded(i, F) = [c EXCEPT !.rumbleCounter = Stops]
      \/ /\ c.rumbleCounter # 0
         /\ Commanded(i, F) = [c EXCEPT !.rumbleCounter = @ - 1]
    BY <1>2 DEF Commanded
<1> HIDE DEF c
<1>4. Sound(c)
    BY <1>1 DEF Sound
<1>5. Sound([c EXCEPT !.pakType = 0])
    BY <1>1 DEF Sound, Known
<1>6. ASSUME NEW n \in Nat, n <= Lost PROVE Sound([c EXCEPT !.rumbleCounter = n])
    BY <1>1, <1>6 DEF Sound, Known
<1>7. Sound([c EXCEPT !.rumbleCounter = Stops])
    BY <1>1, <1>6
<1>8. ASSUME c.rumbleCounter # 0 PROVE Sound([c EXCEPT !.rumbleCounter = @ - 1])
  <2>1. c.rumbleCounter - 1 \in Nat /\ c.rumbleCounter - 1 <= Lost
      BY <1>1, <1>8
  <2> QED
      BY <1>6, <2>1
<1> QED
    BY <1>3, <1>4, <1>5, <1>7, <1>8

LEMMA NextFrame == \A f \in Port : (f + 1) % Cardinality(Port) \in Port
<1> DEFINE n == Cardinality(Port)
<1>1. Port = 0 .. n - 1 /\ n \in Nat /\ Port # {}
    BY PadAssumption, FS_CardinalityType
<1> HIDE DEF n
<1>2. n \in Nat \ {0}
    BY <1>1
<1>3. \A f \in Port : (f + 1) % n \in 0 .. n - 1
    BY <1>1, <1>2
<1> QED
    BY <1>1, <1>3 DEF n

LEMMA ControlTypes ==
    ASSUME RumbleTypes, NEW F, PadMgr_RumbleControl(F)
    PROVE  /\ ctrlr' \in [Port -> Known] /\ \A i \in Port : Sound(ctrlr'[i])
           /\ motor' \subseteq Port /\ frame' \in Port
<1>1. /\ ctrlr' = [i \in Port |-> IF i \in Probed THEN Found(i, F) ELSE Commanded(i, F)]
      /\ motor' \subseteq Port
      /\ frame' = (frame + 1) % Cardinality(Port)
    BY DEF PadMgr_RumbleControl
<1>2. \A i \in Port : Sound(Found(i, F)) /\ Sound(Commanded(i, F))
    BY FoundSound, CommandedSound
<1>3. \A i \in Port : Sound(ctrlr'[i])
    BY <1>1, <1>2
<1>4. ctrlr' \in [Port -> Known]
    BY <1>1, <1>2 DEF Sound
<1>5. frame' \in Port
    BY <1>1, NextFrame DEF RumbleTypes
<1> QED
    BY <1>1, <1>3, <1>4, <1>5

LEMMA StopTypes ==
    ASSUME RumbleTypes, NEW F, PadMgr_RumbleStop(F)
    PROVE  /\ ctrlr' = ctrlr /\ frame' = frame /\ motor' \subseteq motor
BY DEF PadMgr_RumbleStop

LEMMA RumbleTyped ==
    ASSUME RumbleTypes, NEW fault \in BOOLEAN, NEW F, Rumble(fault, F)
    PROVE  /\ ctrlr' \in [Port -> Known] /\ \A i \in Port : Sound(ctrlr'[i])
           /\ motor' \subseteq Port /\ frame' \in Port
           /\ rumbleOnFrames' \in 0 .. OnFrames /\ rumbleOffFrames' \in 0 .. OffFrames
<1>0. rumbleOnFrames \in Nat /\ rumbleOffFrames \in Nat /\ OnFrames \in Nat /\ OffFrames \in Nat
    BY PadAssumption DEF RumbleTypes
<1>1. ASSUME PadMgr_RumbleStop(F), rumbleOnFrames' = rumbleOnFrames,
             \/ rumbleOffFrames' = rumbleOffFrames
             \/ rumbleOffFrames > 0 /\ rumbleOffFrames' = rumbleOffFrames - 1
      PROVE  /\ ctrlr' \in [Port -> Known] /\ \A i \in Port : Sound(ctrlr'[i])
             /\ motor' \subseteq Port /\ frame' \in Port
             /\ rumbleOnFrames' \in 0 .. OnFrames /\ rumbleOffFrames' \in 0 .. OffFrames
  <2>1. ctrlr' = ctrlr /\ frame' = frame /\ motor' \subseteq motor
      BY <1>1, StopTypes
  <2>2. rumbleOffFrames' \in 0 .. OffFrames
      BY <1>0, <1>1 DEF RumbleTypes
  <2> QED
      BY <1>1, <2>1, <2>2 DEF RumbleTypes
<1>2. ASSUME PadMgr_RumbleControl(F), rumbleOnFrames > 0, rumbleOnFrames' = rumbleOnFrames - 1,
             rumbleOffFrames' = rumbleOffFrames
      PROVE  /\ ctrlr' \in [Port -> Known] /\ \A i \in Port : Sound(ctrlr'[i])
             /\ motor' \subseteq Port /\ frame' \in Port
             /\ rumbleOnFrames' \in 0 .. OnFrames /\ rumbleOffFrames' \in 0 .. OffFrames
  <2>1. /\ ctrlr' \in [Port -> Known] /\ \A i \in Port : Sound(ctrlr'[i])
        /\ motor' \subseteq Port /\ frame' \in Port
      BY <1>2, ControlTypes
  <2>2. rumbleOnFrames' \in 0 .. OnFrames
      BY <1>0, <1>2 DEF RumbleTypes
  <2> QED
      BY <1>2, <2>1, <2>2 DEF RumbleTypes
<1>3. ASSUME UNCHANGED <<ctrlr, motor, frame, rumbleOnFrames, rumbleOffFrames>>
      PROVE  /\ ctrlr' \in [Port -> Known] /\ \A i \in Port : Sound(ctrlr'[i])
             /\ motor' \subseteq Port /\ frame' \in Port
             /\ rumbleOnFrames' \in 0 .. OnFrames /\ rumbleOffFrames' \in 0 .. OffFrames
    BY <1>3 DEF RumbleTypes
<1>4. CASE fault
    BY <1>1, <1>4 DEF Rumble
<1>5. CASE ~fault /\ rumbleOffFrames > 0
    BY <1>0, <1>1, <1>5 DEF Rumble
<1>6. CASE ~fault /\ rumbleOffFrames = 0 /\ rumbleOnFrames = 0
    BY <1>1, <1>6 DEF Rumble
<1>7. CASE ~fault /\ rumbleOffFrames = 0 /\ rumbleOnFrames > 0 /\ ~preNMIShutdown
    BY <1>0, <1>2, <1>7 DEF Rumble
<1>8. CASE ~fault /\ rumbleOffFrames = 0 /\ rumbleOnFrames > 0 /\ preNMIShutdown
    BY <1>0, <1>3, <1>8 DEF Rumble
<1> QED
    BY <1>0, <1>4, <1>5, <1>6, <1>7, <1>8 DEF RumbleTypes

(* A failure is counted. *)
LEMMA Failures ==
    ASSUME NEW F \in SUBSET Port, errors \in 0 .. MaxErrors, errors + Cardinality(F) <= MaxErrors,
           errors' = errors + Cardinality(F)
    PROVE  errors' \in 0 .. MaxErrors /\ errors' >= errors /\ (F # {} => errors' >= errors + 1)
<1>1. IsFiniteSet(F)
    BY PadAssumption, FS_Subset
<1>2. Cardinality(F) \in Nat /\ (F # {} => Cardinality(F) # 0)
    BY <1>1, FS_CardinalityType, FS_EmptySet
<1> QED
    BY <1>2, PadAssumption

LEMMA CallbackTypes ==
    ASSUME RumbleTypes, retraceCallback
    PROVE  /\ ctrlr' \in [Port -> Known] /\ \A i \in Port : Sound(ctrlr'[i])
           /\ rumbleOnFrames' \in 0 .. OnFrames
<1>1. CASE UNCHANGED <<ctrlr, rumbleOnFrames>>
    BY <1>1 DEF RumbleTypes
<1>2. ASSUME NEW on \in BOOLEAN, NEW forget \in BOOLEAN,
             ctrlr' = [i \in Port |->
                 [ctrlr[i] EXCEPT !.rumbleEnable = (i = 0 /\ on /\ ~forget),
                                  !.pakType = IF forget THEN 0 ELSE @]],
             rumbleOnFrames' = OnFrames
      PROVE  /\ ctrlr' \in [Port -> Known] /\ \A i \in Port : Sound(ctrlr'[i])
             /\ rumbleOnFrames' \in 0 .. OnFrames
  <2>1. ASSUME NEW c, Sound(c), NEW b \in BOOLEAN, NEW t \in 0 .. 2
        PROVE  Sound([c EXCEPT !.rumbleEnable = b, !.pakType = t])
      BY <2>1, FieldsSound
  <2>2. \A i \in Port : Sound(ctrlr'[i])
    <3>1. TAKE i \in Port
    <3> DEFINE b == i = 0 /\ on /\ ~forget
               t == IF forget THEN 0 ELSE ctrlr[i].pakType
    <3>2. b \in BOOLEAN /\ ctrlr'[i] = [ctrlr[i] EXCEPT !.rumbleEnable = b, !.pakType = t]
        BY <1>2
    <3>3. Sound(ctrlr[i])
        BY DEF RumbleTypes
    <3>4. t \in 0 .. 2
        BY <3>3 DEF Sound, Known
    <3> HIDE DEF b, t
    <3>5. Sound([ctrlr[i] EXCEPT !.rumbleEnable = b, !.pakType = t])
        BY <2>1, <3>2, <3>3, <3>4
    <3> QED
        BY <3>2, <3>5
  <2>3. ctrlr' \in [Port -> Known]
    <3>1. \A i \in Port : ctrlr'[i] \in Known
        BY <2>2 DEF Sound
    <3> QED
        BY <1>2, <3>1
  <2>4. rumbleOnFrames' \in 0 .. OnFrames
    <3>1. OnFrames \in Nat /\ rumbleOnFrames' = OnFrames
        BY <1>2, PadAssumption
    <3> QED
        BY <3>1
  <2> QED
      BY <2>2, <2>3, <2>4
<1> QED
    BY <1>1, <1>2 DEF retraceCallback

LEMMA InputTypes ==
    ASSUME RumbleTypes, NEW gone, NEW overrun, NEW down, PadMgr_ProcessInputs(gone, overrun, down)
    PROVE  ctrlr' \in [Port -> Known] /\ \A i \in Port : Sound(ctrlr'[i])
<1>1. ctrlr' = [i \in Port |->
          IF i \in gone /\ ctrlr[i].connected
          THEN [ctrlr[i] EXCEPT !.connected = FALSE, !.pakType = 0, !.rumbleCounter = Lost]
          ELSE IF i \in gone \cup overrun THEN ctrlr[i]
          ELSE [ctrlr[i] EXCEPT !.connected = TRUE]]
    BY DEF PadMgr_ProcessInputs
<1>2. ASSUME NEW c, Sound(c)
      PROVE  /\ Sound([c EXCEPT !.connected = FALSE, !.pakType = 0, !.rumbleCounter = Lost])
             /\ Sound([c EXCEPT !.connected = TRUE])
  <2>1. Lost \in Nat /\ Lost <= Lost
      BY PadAssumption
  <2>2. Sound([c EXCEPT !.connected = TRUE])
      BY <1>2, FieldsSound
  <2> DEFINE d == [c EXCEPT !.connected = FALSE]
             e == [d EXCEPT !.pakType = 0]
  <2>3. Sound(d)
      BY <1>2, FieldsSound
  <2> HIDE DEF d
  <2>4. Sound(e)
    <3>1. \A t \in 0 .. 2 : Sound([d EXCEPT !.pakType = t])
        BY <2>3, FieldsSound
    <3> QED
        BY <3>1
  <2> HIDE DEF e
  <2>5. Sound([e EXCEPT !.rumbleCounter = Lost])
      BY <2>1, <2>4, FieldsSound
  <2> QED
      BY <2>2, <2>5 DEF d, e
<1>3. ASSUME NEW i \in Port PROVE Sound(ctrlr'[i])
  <2>1. Sound(ctrlr[i])
      BY DEF RumbleTypes
  <2>2. \/ ctrlr'[i] = [ctrlr[i] EXCEPT !.connected = FALSE, !.pakType = 0, !.rumbleCounter = Lost]
        \/ ctrlr'[i] = ctrlr[i]
        \/ ctrlr'[i] = [ctrlr[i] EXCEPT !.connected = TRUE]
      BY <1>1
  <2> QED
      BY <1>2, <2>1, <2>2
<1>4. ctrlr' \in [Port -> Known]
  <2>1. \A i \in Port : ctrlr'[i] \in Known
      BY <1>3 DEF Sound
  <2> QED
      BY <1>1, <2>1
<1> QED
    BY <1>3, <1>4

LEMMA RumbleTypesStep == RumbleTypes /\ [Next]_vars => RumbleTypes'
<1> SUFFICES ASSUME RumbleTypes, [Next]_vars PROVE RumbleTypes'
    OBVIOUS
<1>0. ASSUME UNCHANGED rumbleVars PROVE RumbleTypes'
    BY <1>0 DEF RumbleTypes, rumbleVars
<1>1. CASE IrqThread \/ Interrupt \/ PadFrame \/ Button
    BY <1>0, <1>1 DEF IrqThread, Interrupt, PadFrame, Button, padVars
<1>2. CASE PadMgr_HandlePreNMI
  <2>1. OffFrames \in 0 .. OffFrames
      BY PadAssumption
  <2> QED
      BY <1>2, <2>1 DEF PadMgr_HandlePreNMI, RumbleTypes
<1>3. CASE PadMgr_Exit \/ PadMgr_TakeRetrace
    BY <1>0, <1>3 DEF PadMgr_Exit, PadMgr_TakeRetrace
<1>4. CASE PadMgr_StartRead
  <2>1. /\ ctrlr' \in [Port -> Known] /\ \A i \in Port : Sound(ctrlr'[i])
        /\ rumbleOnFrames' \in 0 .. OnFrames
      BY <1>4, CallbackTypes DEF PadMgr_StartRead
  <2>2. UNCHANGED <<preNMIShutdown, rumbleOffFrames, frame, motor, inPak, errors>>
      BY <1>4 DEF PadMgr_StartRead
  <2> QED
      BY <2>1, <2>2 DEF RumbleTypes
<1>5. CASE PadMgr_ReadInputs
  <2>1. PICK gone, overrun \in SUBSET Port, down \in BOOLEAN :
            /\ IF preNMIShutdown THEN PadMgr_ProcessInputs({}, {}, FALSE)
               ELSE PadMgr_ProcessInputs(gone, overrun \ gone, down)
            /\ motor' = motor \ gone
            /\ inPak' = [i \in Port |-> IF i \in gone THEN "none" ELSE inPak[i]]
      BY <1>5 DEF PadMgr_ReadInputs
  <2>2. ctrlr' \in [Port -> Known] /\ \A i \in Port : Sound(ctrlr'[i])
      BY <2>1, InputTypes
  <2>3. motor' \subseteq Port /\ inPak' \in [Port -> Pak]
      BY <2>1, PadAssumption DEF RumbleTypes
  <2>4. UNCHANGED <<preNMIShutdown, rumbleOnFrames, rumbleOffFrames, frame, errors>>
      BY <1>5 DEF PadMgr_ReadInputs
  <2> QED
      BY <2>2, <2>3, <2>4 DEF RumbleTypes
<1>6. CASE PadMgr_Query
  <2>1. PICK answered \in SUBSET Port :
            ctrlr' = [i \in Port |-> IF i \in answered
                                    THEN [ctrlr[i] EXCEPT !.status = inPak[i] # "none"]
                                    ELSE ctrlr[i]]
      BY <1>6 DEF PadMgr_Query
  <2>2. ASSUME NEW i \in Port PROVE Sound(ctrlr'[i])
    <3>1. Sound(ctrlr[i])
        BY DEF RumbleTypes
    <3>2. ASSUME NEW c, Sound(c), NEW b \in BOOLEAN PROVE Sound([c EXCEPT !.status = b])
        BY <3>2 DEF Sound, Known
    <3>3. (inPak[i] # "none") \in BOOLEAN
        OBVIOUS
    <3>4. ctrlr'[i] = ctrlr[i] \/ ctrlr'[i] = [ctrlr[i] EXCEPT !.status = inPak[i] # "none"]
        BY <2>1
    <3> QED
        BY <3>1, <3>2, <3>3, <3>4
  <2>3. ctrlr' \in [Port -> Known]
    <3>1. \A i \in Port : ctrlr'[i] \in Known
        BY <2>2 DEF Sound
    <3> QED
        BY <2>1, <3>1
  <2>4. UNCHANGED <<preNMIShutdown, rumbleOnFrames, rumbleOffFrames, frame, motor, inPak, errors>>
      BY <1>6 DEF PadMgr_Query
  <2> QED
      BY <2>2, <2>3, <2>4 DEF RumbleTypes
<1>7. CASE PadMgr_Rumble
  <2>1. PICK fault \in BOOLEAN, F \in SUBSET Port :
            /\ errors + Cardinality(F) <= MaxErrors
            /\ errors' = errors + Cardinality(F)
            /\ Rumble(fault, F)
      BY <1>7 DEF PadMgr_Rumble
  <2>2. errors' \in 0 .. MaxErrors
      BY <2>1, Failures DEF RumbleTypes
  <2>3. /\ ctrlr' \in [Port -> Known] /\ \A i \in Port : Sound(ctrlr'[i])
        /\ motor' \subseteq Port /\ frame' \in Port
        /\ rumbleOnFrames' \in 0 .. OnFrames /\ rumbleOffFrames' \in 0 .. OffFrames
      BY <2>1, RumbleTyped
  <2>4. UNCHANGED <<preNMIShutdown, inPak>>
      BY <1>7 DEF PadMgr_Rumble
  <2> QED
      BY <2>2, <2>3, <2>4 DEF RumbleTypes
<1>8. CASE RequestPadData \/ RequestPadData_Clear \/ Mempak_Lock \/ Mempak_Unlock
    BY <1>0, <1>8 DEF RequestPadData, RequestPadData_Clear, Mempak_Lock, Mempak_Unlock
<1>9. CASE PakMoves
  <2>1. PICK i \in Port, p \in Pak : inPak' = [inPak EXCEPT ![i] = p] /\ motor' = motor \ {i}
      BY <1>9 DEF PakMoves
  <2>2. UNCHANGED <<preNMIShutdown, rumbleOnFrames, rumbleOffFrames, frame, ctrlr, errors>>
      BY <1>9 DEF PakMoves
  <2> QED
      BY <2>1, <2>2 DEF RumbleTypes
<1>10. CASE UNCHANGED vars
    BY <1>0, <1>10 DEF vars, padVars
<1> QED
    BY <1>1, <1>2, <1>3, <1>4, <1>5, <1>6, <1>7, <1>8, <1>9, <1>10 DEF Next, PadMgr_ThreadEntry

LEMMA PadInit == Init => PadInv
<1> SUFFICES ASSUME Init PROVE PadInv
    OBVIOUS
<1>1. BusTypes
    BY DEF Init, BusTypes
<1>2. RumbleTypes
  <2>1. /\ preNMIShutdown = FALSE /\ rumbleOnFrames = 0 /\ rumbleOffFrames = 0 /\ frame = 0
        /\ ctrlr = [i \in Port |-> [connected |-> FALSE, status |-> FALSE, pakType |-> 0,
                                    rumbleEnable |-> FALSE, rumbleCounter |-> 0]]
        /\ motor = {} /\ inPak \in [Port -> Pak] /\ errors = 0
      BY DEF Init
  <2> DEFINE c == [connected |-> FALSE, status |-> FALSE, pakType |-> 0,
                   rumbleEnable |-> FALSE, rumbleCounter |-> 0]
  <2>2. c \in Known /\ c.rumbleCounter <= Lost
      BY PadAssumption DEF Known
  <2>3. ctrlr = [i \in Port |-> c]
      BY <2>1
  <2> HIDE DEF c
  <2>4. ctrlr \in [Port -> Known] /\ \A i \in Port : Sound(ctrlr[i])
      BY <2>2, <2>3 DEF Sound
  <2>5. 0 \in Port /\ 0 \in 0 .. OnFrames /\ 0 \in 0 .. OffFrames /\ 0 \in 0 .. MaxErrors
    <3>1. Cardinality(Port) \in Nat /\ Port = 0 .. Cardinality(Port) - 1 /\ Port # {}
        BY PadAssumption, FS_CardinalityType
    <3>2. 0 \in Port
        BY <3>1
    <3> QED
        BY <3>2, PadAssumption
  <2> QED
      BY <2>1, <2>4, <2>5 DEF RumbleTypes
<1> QED
    BY <1>1, <1>2, IrqSideInit, BusInit, PressInit DEF PadInv

LEMMA PadStep == PadInv /\ [Next]_vars => PadInv'
BY IrqSideStep, BusStep, PressStep, BusTypesStep, RumbleTypesStep DEF PadInv

(* The controller manager and the interrupt manager it listens to keep to   *)
(* their types: no queue holds more than it can, frame stays a port, a      *)
(* counter of a motor stays within its byte.                                *)
THEOREM PadTypeCorrect == Spec => []TypeOK
<1> QED
    BY PadInit, PadStep, PadTypes, PTL DEF Spec

-----------------------------------------------------------------------------
(* The motors at the end.  From the message "prenmi" on, each retrace that   *)
(* the thread serves stops all motors, or costs a failure of the bus; and   *)
(* T450 retraces are served before "nmi" ends the thread.                   *)

Mail == queue[pad]

(* What is on its way fits the status. *)
Stages ==
    /\ \A i \in DOMAIN irqQ :
          /\ irqQ[i] = "PRE_NMI" => resetStatus = 0
          /\ irqQ[i] = "PRENMI450" => resetStatus = 1
          /\ irqQ[i] \in {"PRENMI480", "PRENMI500"} => resetStatus = 2
    /\ Active(irqTimer) => \/ resetStatus = 1 /\ irqMsg = "PRENMI450"
                           \/ resetStatus = 2 /\ irqMsg \in {"PRENMI480", "PRENMI500"}

LEMMA StagesPost ==
    ASSUME Stages, irqQ \in Seq(Mesg), NEW m \in Mesg, Post(m),
           m = "PRE_NMI" => resetStatus = 0,
           m = "PRENMI450" => resetStatus = 1,
           m \in {"PRENMI480", "PRENMI500"} => resetStatus = 2,
           Active(irqTimer)' => Active(irqTimer), UNCHANGED <<resetStatus, irqMsg>>
    PROVE  Stages'
<1>1. \A i \in DOMAIN irqQ' : irqQ'[i] = m \/ (i \in DOMAIN irqQ /\ irqQ'[i] = irqQ[i])
  <2>1. CASE irqQ' = irqQ
      BY <2>1
  <2>2. CASE irqQ' = Append(irqQ, m)
      BY <2>2
  <2> QED
      BY <2>1, <2>2 DEF Post
<1> QED
    BY <1>1 DEF Stages

LEMMA StagesStep ==
    ASSUME IrqInv, IrqRest, Stages,
           IrqMgr_ThreadEntry \/ TimerInterrupt \/ Frame \/ ResetButton
    PROVE  Stages'
<1>0. irqQ \in Seq(Mesg) /\ irqMsg \in {"PRENMI450", "PRENMI480", "PRENMI500"} /\ resetStatus \in {0, 1, 2}
    BY DEF IrqInv, Typed, IrqRest, Mesg
<1>1. CASE IrqMgr_ThreadEntry
  <2>1. /\ irqQ' \in Seq(Mesg) /\ 1 \in DOMAIN irqQ
        /\ \A i \in DOMAIN irqQ' : i + 1 \in DOMAIN irqQ /\ i + 1 # 1 /\ irqQ'[i] = irqQ[i + 1]
      BY <1>0, <1>1, Read DEF IrqMgr_ThreadEntry
  <2>2. ASSUME irqQ[1] # "RETRACE"
        PROVE  ~Active(irqTimer) /\ \A i \in DOMAIN irqQ' : irqQ'[i] = "RETRACE"
      BY <2>1, <2>2 DEF IrqInv, OneChain
  <2>3. CASE IrqMgr_HandlePreNMI
    <3>1. irqQ[1] = "PRE_NMI" /\ resetStatus' = 1 /\ irqMsg' = "PRENMI450"
        BY <2>3 DEF IrqMgr_HandlePreNMI, SetTimer, STATUS_PRENMI
    <3> QED
        BY <2>2, <3>1 DEF Stages
  <2>4. CASE IrqMgr_HandlePRENMI450
    <3>1. irqQ[1] = "PRENMI450" /\ resetStatus' = 2 /\ irqMsg' = "PRENMI480"
        BY <2>4 DEF IrqMgr_HandlePRENMI450, SetTimer, STATUS_NMI
    <3> QED
        BY <2>2, <3>1 DEF Stages
  <2>5. CASE IrqMgr_HandlePRENMI480
    <3>1. irqQ[1] = "PRENMI480" /\ resetStatus' = resetStatus /\ irqMsg' \in {"PRENMI480", "PRENMI500"}
        BY <2>5 DEF IrqMgr_HandlePRENMI480, SetTimer
    <3>2. resetStatus = 2
        BY <2>1, <3>1 DEF Stages
    <3> QED
        BY <2>2, <3>1, <3>2 DEF Stages
  <2>6. CASE IrqMgr_HandlePRENMI500
    <3>1. irqQ[1] = "PRENMI500" /\ timers' = timers
        BY <2>6 DEF IrqMgr_HandlePRENMI500, timerVars, listVars
    <3> QED
        BY <2>2, <3>1 DEF Stages, Active
  <2>7. CASE IrqMgr_HandleRetrace
    <3>1. UNCHANGED <<resetStatus, irqMsg, timers>>
        BY <2>7 DEF IrqMgr_HandleRetrace, timerVars, listVars
    <3> QED
        BY <2>1, <3>1 DEF Stages, Active
  <2> QED
      BY <1>1, <2>3, <2>4, <2>5, <2>6, <2>7 DEF IrqMgr_ThreadEntry
<1>2. CASE TimerInterrupt
  <2>1. /\ \A u : Contains(timers', u) => Active(u)
        /\ \A u \in SentBy(Expired) : Active(u)
      BY <1>2, InterruptStep DEF TimerInterrupt, IrqInv, Typed
  <2>2. (Active(irqTimer)' => Active(irqTimer)) /\ UNCHANGED <<resetStatus, irqMsg>>
      BY <1>2, <2>1 DEF TimerInterrupt, Active
  <2>3. CASE irqTimer \in SentBy(Expired)
    <3>1. Post(irqMsg) /\ Active(irqTimer)
        BY <1>2, <2>1, <2>3 DEF TimerInterrupt
    <3>2. /\ irqMsg \in Mesg /\ irqMsg # "PRE_NMI"
          /\ irqMsg = "PRENMI450" => resetStatus = 1
          /\ irqMsg \in {"PRENMI480", "PRENMI500"} => resetStatus = 2
        BY <1>0, <3>1 DEF Stages, Mesg
    <3> QED
        BY <1>0, <2>2, <3>1, <3>2, StagesPost
  <2>4. CASE irqTimer \notin SentBy(Expired)
      BY <1>2, <2>2, <2>4 DEF TimerInterrupt, Stages
  <2> QED
      BY <2>3, <2>4
<1>3. CASE Frame
  <2>1. Post("RETRACE") /\ UNCHANGED <<resetStatus, irqMsg, timers>>
      BY <1>3 DEF Frame, Retrace, CountUp
  <2>2. (Active(irqTimer)' => Active(irqTimer)) /\ "RETRACE" \in Mesg
      BY <2>1 DEF Active, Mesg
  <2> QED
      BY <1>0, <2>1, <2>2, StagesPost
<1>4. CASE ResetButton
  <2>1. Post("PRE_NMI") /\ ~pressed /\ UNCHANGED <<resetStatus, irqMsg, timers>>
      BY <1>4 DEF ResetButton, timerVars, listVars
  <2>2. (Active(irqTimer)' => Active(irqTimer)) /\ "PRE_NMI" \in Mesg /\ resetStatus = 0
      BY <2>1 DEF Active, Mesg, IrqInv, OneChain
  <2> QED
      BY <1>0, <2>1, <2>2, StagesPost
<1> QED
    BY <1>1, <1>2, <1>3, <1>4

(* A motor runs only in a pak that has one. *)
InPlace == motor \subseteq {i \in Port : inPak[i] = "rumble"}

(* While motors run after "prenmi", the frames for which they are to be     *)
(* stopped were used up by failures.                                        *)
Tries == preNMIShutdown => motor = {} \/ rumbleOffFrames + errors >= OffFrames

(* How the motors go on in a frame after "prenmi". *)
LEMMA StopsAll ==
    ASSUME InPlace, NEW F \in SUBSET Port, PadMgr_RumbleStop(F)
    PROVE  motor' \subseteq motor /\ (F = {} => motor' = {})
<1>1. motor' = {i \in motor : ~HasRumble(i, F)}
    BY DEF PadMgr_RumbleStop
<1>2. ASSUME F = {} PROVE \A i \in motor : HasRumble(i, F)
    BY <1>2 DEF InPlace, HasRumble
<1> QED
    BY <1>1, <1>2

LEMMA RumbleInPlace ==
    ASSUME RumbleTypes, InPlace, NEW fault \in BOOLEAN, NEW F \in SUBSET Port, Rumble(fault, F), inPak' = inPak
    PROVE  InPlace'
<1>1. CASE motor' \subseteq motor
    BY <1>1 DEF InPlace
<1>2. CASE PadMgr_RumbleStop(F)
    BY <1>1, <1>2 DEF PadMgr_RumbleStop
<1>3. CASE PadMgr_RumbleControl(F)
  <2>1. PICK took \in SUBSET (F \cap Tried), on \in SUBSET Probed :
            motor' = {i \in Port :
                  IF i \in Tried /\ inPak[i] = "rumble" /\ (i \notin F \/ i \in took)
                  THEN ctrlr[i].rumbleEnable
                  ELSE IF i \in Probed /\ HasRumble(i, F) THEN i \in on
                  ELSE i \in motor}
      BY <1>3 DEF PadMgr_RumbleControl
  <2>2. \A i \in motor' : i \in Port /\ inPak[i] = "rumble"
      BY <2>1 DEF InPlace, HasRumble
  <2> QED
      BY <2>2 DEF InPlace
<1>4. rumbleOffFrames \in Nat /\ rumbleOnFrames \in Nat
    BY PadAssumption DEF RumbleTypes
<1> QED
    BY <1>1, <1>2, <1>3, <1>4 DEF Rumble

(* It stops them all, or there was a failure. *)
LEMMA RumbleTries ==
    ASSUME RumbleTypes, InPlace, Tries, preNMIShutdown, MaxErrors < OffFrames,
           NEW fault \in BOOLEAN, NEW F \in SUBSET Port,
           errors + Cardinality(F) <= MaxErrors, errors' = errors + Cardinality(F), Rumble(fault, F)
    PROVE  /\ motor' \subseteq motor
           /\ motor' = {} \/ (errors' >= errors + 1 /\ rumbleOffFrames' + errors' >= OffFrames)
<1>0. /\ errors \in Nat /\ errors <= MaxErrors /\ rumbleOffFrames \in Nat /\ rumbleOnFrames \in Nat
      /\ errors' \in Nat /\ OffFrames \in Nat /\ MaxErrors \in Nat
      /\ F # {} => errors' >= errors + 1
    BY PadAssumption, Failures DEF RumbleTypes
<1>1. ASSUME PadMgr_RumbleStop(F),
             \/ rumbleOffFrames' = rumbleOffFrames
             \/ rumbleOffFrames > 0 /\ rumbleOffFrames' = rumbleOffFrames - 1
      PROVE  /\ motor' \subseteq motor
             /\ motor' = {} \/ (errors' >= errors + 1 /\ rumbleOffFrames' + errors' >= OffFrames)
  <2>1. motor' \subseteq motor /\ (F = {} => motor' = {})
      BY <1>1, StopsAll
  <2>2. CASE motor' = {}
      BY <2>1, <2>2
  <2>3. CASE motor' # {}
    <3>1. F # {} /\ motor # {}
        BY <2>1, <2>3
    <3>2. rumbleOffFrames + errors >= OffFrames
        BY <3>1 DEF Tries
    <3> QED
        BY <1>0, <1>1, <2>1, <3>1, <3>2
  <2> QED
      BY <2>2, <2>3
<1>2. CASE fault
    BY <1>1, <1>2 DEF Rumble
<1>3. CASE ~fault /\ rumbleOffFrames > 0
    BY <1>0, <1>1, <1>3 DEF Rumble
<1>4. CASE ~fault /\ rumbleOffFrames = 0 /\ rumbleOnFrames = 0
    BY <1>1, <1>4 DEF Rumble
<1>5. CASE ~fault /\ rumbleOffFrames = 0 /\ rumbleOnFrames > 0
  <2>1. motor' = motor
      BY <1>0, <1>5 DEF Rumble
  <2>2. motor = {}
    <3>1. motor = {} \/ rumbleOffFrames + errors >= OffFrames
        BY DEF Tries
    <3> QED
        BY <1>0, <1>5, <3>1
  <2> QED
      BY <2>1, <2>2
<1> QED
    BY <1>0, <1>2, <1>3, <1>4, <1>5

Quiet == preNMIShutdown /\ motor = {}

(* The messages of the reset in padmgr's queue. *)
Letters ==
    /\ \A i, j \in DOMAIN Mail : Mail[i] = Mail[j] /\ Mail[i] # "retrace" => i = j
    /\ \A i, j \in DOMAIN Mail : Mail[i] = "prenmi" /\ Mail[j] = "nmi" => i < j
    /\ \A i \in DOMAIN Mail : Mail[i] = "prenmi" => ~preNMIShutdown /\ resetStatus # 0
    /\ \A i \in DOMAIN Mail : Mail[i] = "nmi" => resetStatus = 2
    /\ resetStatus = 0 => ~preNMIShutdown
    /\ resetStatus # 0 => preNMIShutdown \/ \E i \in DOMAIN Mail : Mail[i] = "prenmi"
    /\ resetStatus = 2 => \E i \in DOMAIN Mail : Mail[i] = "nmi"

(* "prenmi" is at place j of the queue, or was read (0). *)
Since(j) == (j = 0 /\ preNMIShutdown) \/ (j \in DOMAIN Mail /\ Mail[j] = "prenmi")

(* The retrace that is being served. *)
Passing(j) == IF j = 0 /\ pc # "wait" THEN 1 ELSE 0

(* How many retraces the interrupt manager will still send before "nmi". *)
Coming(n) ==
    \E m \in 1 .. Len(irqQ) + 1 :
        /\ m = Len(irqQ) + 1 \/ irqQ[m] = "PRENMI450"
        /\ n = m - 1 + due[irqTimer]

(* The retraces between "prenmi" and "nmi", with the failures up to now, are *)
(* T450 or more.                                                            *)
Before450 ==
    resetStatus = 1 =>
        \A j \in 0 .. Len(Mail), n \in Nat :
            Since(j) /\ Coming(n) => Quiet \/ Len(Mail) - j + Passing(j) + n + errors >= T450
After450 ==
    resetStatus = 2 =>
        \A j, k \in 0 .. Len(Mail) :
            Since(j) /\ k \in DOMAIN Mail /\ Mail[k] = "nmi" =>
                Quiet \/ k - j - 1 + Passing(j) + errors >= T450

Goes == Letters /\ Before450 /\ After450

LEMMA Appended ==
    ASSUME Mail \in Seq(Letter), NEW m \in Letter, Mail' = Append(Mail, m)
    PROVE  /\ Len(Mail) \in Nat /\ Len(Mail') = Len(Mail) + 1
           /\ DOMAIN Mail = 1 .. Len(Mail) /\ DOMAIN Mail' = 1 .. Len(Mail) + 1
           /\ Mail'[Len(Mail) + 1] = m
           /\ \A i \in 1 .. Len(Mail) : Mail'[i] = Mail[i]
           /\ \A i \in DOMAIN Mail' : i = Len(Mail) + 1 \/ i \in DOMAIN Mail
<1> DEFINE a == Mail
           b == Mail'
<1>1. a \in Seq(Letter) /\ b = Append(a, m)
    OBVIOUS
<1> HIDE DEF a, b
<1>2. Len(a) \in Nat /\ Len(b) = Len(a) + 1 /\ DOMAIN a = 1 .. Len(a) /\ DOMAIN b = 1 .. Len(a) + 1
    BY <1>1
<1>3. b[Len(a) + 1] = m /\ \A i \in 1 .. Len(a) : b[i] = a[i]
    BY <1>1
<1>4. \A i \in 1 .. Len(a) + 1 : i = Len(a) + 1 \/ i \in 1 .. Len(a)
    BY <1>2
<1> QED
    BY <1>2, <1>3, <1>4 DEF a, b

(* A retrace goes to the queue. *)
LEMMA SendRetrace ==
    ASSUME Goes, Mail \in Seq(Letter), Mail' = Append(Mail, "retrace"), errors \in Nat,
           UNCHANGED <<resetStatus, preNMIShutdown, motor, errors, pc>>,
           resetStatus = 1 => \A n \in Nat : Coming(n)' => Coming(n + 1)
    PROVE  Goes'
<1>0. /\ Len(Mail) \in Nat /\ Len(Mail') = Len(Mail) + 1
      /\ DOMAIN Mail = 1 .. Len(Mail) /\ DOMAIN Mail' = 1 .. Len(Mail) + 1
      /\ Mail'[Len(Mail) + 1] = "retrace"
      /\ \A i \in 1 .. Len(Mail) : Mail'[i] = Mail[i]
      /\ \A i \in DOMAIN Mail' : i = Len(Mail) + 1 \/ i \in DOMAIN Mail
    BY Appended DEF Letter
<1>1. Letters'
  <2>1. \A i \in DOMAIN Mail' : Mail'[i] # "retrace" => i \in DOMAIN Mail /\ Mail'[i] = Mail[i]
      BY <1>0
  <2>2. \A i \in DOMAIN Mail : i \in DOMAIN Mail' /\ Mail'[i] = Mail[i]
      BY <1>0
  <2> QED
      BY <2>1, <2>2 DEF Goes, Letters
<1>2. ASSUME NEW j \in 0 .. Len(Mail'), Since(j)'
      PROVE  j \in 0 .. Len(Mail) /\ Since(j) /\ Passing(j)' = Passing(j)
    BY <1>0, <1>2 DEF Since, Passing
<1>3. Quiet' = Quiet
    BY DEF Quiet
<1>4. \A j : Passing(j) \in Nat
    BY DEF Passing
<1>5. Before450'
  <2>1. ASSUME resetStatus = 1, NEW j \in 0 .. Len(Mail'), NEW n \in Nat, Since(j)', Coming(n)', ~Quiet'
        PROVE  Len(Mail') - j + Passing(j)' + n + errors' >= T450
    <3>1. j \in 0 .. Len(Mail) /\ Since(j) /\ Passing(j)' = Passing(j) /\ Coming(n + 1) /\ n + 1 \in Nat
        BY <1>2, <2>1
    <3>2. Len(Mail) - j + Passing(j) + (n + 1) + errors >= T450
        BY <1>3, <2>1, <3>1 DEF Goes, Before450
    <3>3. T450 \in Nat /\ errors' = errors /\ Passing(j) \in Nat
        BY <1>4, IrqAssumption
    <3> QED
        BY <1>0, <3>1, <3>2, <3>3
  <2> QED
      BY <2>1 DEF Before450
<1>6. After450'
  <2>1. ASSUME resetStatus = 2, NEW j \in 0 .. Len(Mail'), NEW k \in 0 .. Len(Mail'),
               Since(j)', k \in DOMAIN Mail', Mail'[k] = "nmi", ~Quiet'
        PROVE  k - j - 1 + Passing(j)' + errors' >= T450
    <3>1. j \in 0 .. Len(Mail) /\ Since(j) /\ Passing(j)' = Passing(j)
        BY <1>2, <2>1
    <3>2. k \in DOMAIN Mail /\ Mail[k] = "nmi" /\ k \in 0 .. Len(Mail)
        BY <1>0, <2>1
    <3>3. k - j - 1 + Passing(j) + errors >= T450
        BY <1>3, <2>1, <3>1, <3>2 DEF Goes, After450
    <3> QED
        BY <3>1, <3>3
  <2> QED
      BY <2>1 DEF After450
<1> QED
    BY <1>1, <1>5, <1>6 DEF Goes

(* The thread goes on, or a retrace is served; nothing comes or is read. *)
LEMMA GoesOn ==
    ASSUME Goes, Mail \in Seq(Letter), Mail' = Mail, UNCHANGED <<resetStatus, preNMIShutdown>>,
           errors \in Nat, errors' \in Nat, errors' >= errors, Quiet => Quiet',
           \/ pc = "wait" <=> pc' = "wait"
           \/ ~preNMIShutdown \/ Quiet' \/ errors' >= errors + 1,
           resetStatus = 1 => \A n \in Nat : Coming(n)' => \E x \in Nat : x <= n /\ Coming(x)
    PROVE  Goes'
<1>1. Letters'
    BY DEF Goes, Letters
<1>2. \A j : Since(j)' => Since(j)
    BY DEF Since
<1>3. \A j : Passing(j) \in {0, 1} /\ Passing(j)' \in {0, 1}
    BY DEF Passing
<1>4. ASSUME NEW j \in 0 .. Len(Mail), Since(j), ~Quiet'
      PROVE  Passing(j)' + errors' >= Passing(j) + errors
  <2>1. CASE pc = "wait" <=> pc' = "wait"
    <3>1. Passing(j)' = Passing(j)
        BY <2>1 DEF Passing
    <3> QED
        BY <1>3, <3>1
  <2>2. CASE errors' >= errors + 1
      BY <1>3, <2>2
  <2>3. CASE ~preNMIShutdown
    <3>1. Passing(j) = 0
        BY <1>4, <2>3 DEF Since, Passing
    <3>2. Passing(j)' = Passing(j)
        BY <1>4, <2>3 DEF Since, Passing
    <3> QED
        BY <1>3, <3>2
  <2> QED
      BY <1>4, <2>1, <2>2, <2>3
<1>5. Before450'
  <2>1. ASSUME resetStatus = 1, NEW j \in 0 .. Len(Mail), NEW n \in Nat, Since(j)', Coming(n)', ~Quiet'
        PROVE  Len(Mail) - j + Passing(j)' + n + errors' >= T450
    <3>1. PICK x \in Nat : x <= n /\ Coming(x)
        BY <2>1
    <3>2. Len(Mail) - j + Passing(j) + x + errors >= T450
        BY <1>2, <2>1, <3>1 DEF Goes, Before450
    <3>3. Passing(j)' + errors' >= Passing(j) + errors
        BY <1>2, <1>4, <2>1
    <3>4. Len(Mail) \in Nat /\ T450 \in Nat
        BY IrqAssumption
    <3>5. Passing(j) \in Int /\ Passing(j)' \in Int
        BY <1>3
    <3> QED
        BY <3>1, <3>2, <3>3, <3>4, <3>5, SMTT(40)
  <2> QED
      BY <2>1 DEF Before450
<1>6. After450'
  <2>1. ASSUME resetStatus = 2, NEW j \in 0 .. Len(Mail), NEW k \in 0 .. Len(Mail),
               Since(j)', k \in DOMAIN Mail, Mail[k] = "nmi", ~Quiet'
        PROVE  k - j - 1 + Passing(j)' + errors' >= T450
    <3>1. k - j - 1 + Passing(j) + errors >= T450
        BY <1>2, <2>1 DEF Goes, After450
    <3>2. Passing(j)' + errors' >= Passing(j) + errors
        BY <1>2, <1>4, <2>1
    <3>3. T450 \in Nat
        BY IrqAssumption
    <3> QED
        BY <1>3, <3>1, <3>2, <3>3
  <2> QED
      BY <2>1 DEF After450
<1> QED
    BY <1>1, <1>5, <1>6 DEF Goes

(* The handler of the button sends "prenmi" and sets the timer. *)
LEMMA SendPrenmi ==
    ASSUME Goes, Mail \in Seq(Letter), Mail' = Append(Mail, "prenmi"), errors \in Nat,
           UNCHANGED <<preNMIShutdown, motor, errors, pc>>, resetStatus = 0, resetStatus' = 1,
           \A n \in Nat : Coming(n)' => n >= T450
    PROVE  Goes'
<1>0. /\ Len(Mail) \in Nat /\ Len(Mail') = Len(Mail) + 1
      /\ DOMAIN Mail = 1 .. Len(Mail) /\ DOMAIN Mail' = 1 .. Len(Mail) + 1
      /\ Mail'[Len(Mail) + 1] = "prenmi"
      /\ \A i \in 1 .. Len(Mail) : Mail'[i] = Mail[i]
      /\ \A i \in DOMAIN Mail' : i = Len(Mail) + 1 \/ i \in DOMAIN Mail
    BY Appended DEF Letter
<1>1. Mail \in Seq(Letter) /\ \A i \in DOMAIN Mail : Mail[i] = "retrace"
  <2>1. \A i \in 1 .. Len(Mail) : Mail[i] \in Letter
      BY <1>0
  <2> QED
      BY <1>0, <2>1 DEF Goes, Letters, Letter
<1>2. \A i \in DOMAIN Mail' : Mail'[i] # "retrace" => i = Len(Mail) + 1 /\ Mail'[i] = "prenmi"
    BY <1>0, <1>1
<1>3. ~preNMIShutdown /\ ~preNMIShutdown'
    BY DEF Goes, Letters
<1>4. Len(Mail) + 1 \in DOMAIN Mail'
    BY <1>0
<1>5. Letters'
    BY <1>0, <1>2, <1>3, <1>4 DEF Letters
<1>6. Before450'
  <2>1. ASSUME NEW j \in 0 .. Len(Mail'), NEW n \in Nat, Since(j)', Coming(n)'
        PROVE  Len(Mail') - j + Passing(j)' + n + errors' >= T450
    <3>1. j = Len(Mail) + 1
        BY <1>2, <1>3, <2>1 DEF Since
    <3>2. Passing(j)' = 0 /\ n >= T450 /\ T450 \in Nat /\ errors' \in Nat
        BY <1>0, <2>1, <3>1, IrqAssumption DEF Passing
    <3> QED
        BY <1>0, <3>1, <3>2
  <2> QED
      BY <2>1 DEF Before450
<1>7. After450'
    BY DEF After450
<1> QED
    BY <1>5, <1>6, <1>7 DEF Goes

(* When the time has passed "nmi" is sent: no retrace comes before it now. *)
LEMMA SendNmi ==
    ASSUME Goes, Mail \in Seq(Letter), Mail' = Append(Mail, "nmi"), errors \in Nat,
           UNCHANGED <<preNMIShutdown, motor, errors, pc>>, resetStatus = 1, resetStatus' = 2,
           Coming(0)
    PROVE  Goes'
<1>0. /\ Len(Mail) \in Nat /\ Len(Mail') = Len(Mail) + 1
      /\ DOMAIN Mail = 1 .. Len(Mail) /\ DOMAIN Mail' = 1 .. Len(Mail) + 1
      /\ Mail'[Len(Mail) + 1] = "nmi"
      /\ \A i \in 1 .. Len(Mail) : Mail'[i] = Mail[i]
      /\ \A i \in DOMAIN Mail' : i = Len(Mail) + 1 \/ i \in DOMAIN Mail
    BY Appended DEF Letter
<1>1. /\ \A i \in DOMAIN Mail' : Mail'[i] # "nmi" => i \in DOMAIN Mail /\ Mail'[i] = Mail[i]
      /\ \A i \in DOMAIN Mail' : Mail'[i] = "nmi" => i = Len(Mail) + 1
      /\ Len(Mail) + 1 \in DOMAIN Mail'
      /\ \A i \in DOMAIN Mail : i \in DOMAIN Mail' /\ Mail'[i] = Mail[i] /\ i < Len(Mail) + 1
  <2>1. \A i \in DOMAIN Mail : Mail[i] # "nmi"
      BY DEF Goes, Letters
  <2> QED
      BY <1>0, <2>1
<1>2. Letters'
    BY <1>0, <1>1 DEF Goes, Letters
<1>3. Before450'
    BY DEF Before450
<1>4. After450'
  <2>1. ASSUME NEW j \in 0 .. Len(Mail'), NEW k \in 0 .. Len(Mail'),
               Since(j)', k \in DOMAIN Mail', Mail'[k] = "nmi", ~Quiet'
        PROVE  k - j - 1 + Passing(j)' + errors' >= T450
    <3>1. k = Len(Mail) + 1
        BY <1>1, <2>1
    <3>2. j \in 0 .. Len(Mail) /\ Since(j) /\ Passing(j)' = Passing(j)
        BY <1>0, <1>1, <2>1 DEF Since, Passing
    <3>3. Passing(j) \in Nat /\ ~Quiet
        BY <2>1 DEF Passing, Quiet
    <3>4. Len(Mail) - j + Passing(j) + 0 + errors >= T450
        BY <3>2, <3>3 DEF Goes, Before450
    <3>5. T450 \in Nat
        BY IrqAssumption
    <3> QED
        BY <1>0, <3>1, <3>2, <3>3, <3>4, <3>5
  <2> QED
      BY <2>1 DEF After450
<1> QED
    BY <1>2, <1>3, <1>4 DEF Goes

LEMMA Behead ==
    ASSUME Mail \in Seq(Letter), Mail # <<>>, Mail' = Tail(Mail)
    PROVE  /\ Len(Mail) \in Nat \ {0} /\ Len(Mail') = Len(Mail) - 1
           /\ DOMAIN Mail = 1 .. Len(Mail) /\ DOMAIN Mail' = 1 .. Len(Mail) - 1
           /\ Head(Mail) = Mail[1]
           /\ \A i \in DOMAIN Mail' : i + 1 \in DOMAIN Mail /\ Mail'[i] = Mail[i + 1]
           /\ \A i \in DOMAIN Mail : i # 1 => i - 1 \in DOMAIN Mail' /\ Mail'[i - 1] = Mail[i]
<1> DEFINE a == Mail
           b == Mail'
<1>1. a \in Seq(Letter) /\ a # <<>> /\ b = Tail(a)
    OBVIOUS
<1> HIDE DEF a, b
<1>2. /\ Len(a) \in Nat \ {0} /\ Len(b) = Len(a) - 1
      /\ DOMAIN a = 1 .. Len(a) /\ DOMAIN b = 1 .. Len(a) - 1 /\ Head(a) = a[1]
    BY <1>1
<1>3. \A i \in 1 .. Len(a) - 1 : b[i] = a[i + 1]
    BY <1>1
<1>4. \A i \in 1 .. Len(a) - 1 : i + 1 \in 1 .. Len(a)
    BY <1>2
<1>5. \A i \in 1 .. Len(a) : i # 1 => i - 1 \in 1 .. Len(a) - 1 /\ i - 1 + 1 = i
    BY <1>2
<1> QED
    BY <1>2, <1>3, <1>4, <1>5 DEF a, b

(* A message that is read moves the others up. *)
LEMMA LettersRead ==
    ASSUME Letters, Mail \in Seq(Letter), Mail # <<>>, Mail' = Tail(Mail), resetStatus' = resetStatus,
           \/ Head(Mail) = "retrace" /\ preNMIShutdown' = preNMIShutdown
           \/ Head(Mail) = "prenmi" /\ preNMIShutdown' = TRUE
    PROVE  Letters'
<1>0. /\ Head(Mail) = Mail[1] /\ 1 \in DOMAIN Mail
      /\ \A i \in DOMAIN Mail' : i + 1 \in DOMAIN Mail /\ i + 1 # 1 /\ Mail'[i] = Mail[i + 1] /\ i \in Nat
      /\ \A i \in DOMAIN Mail : i # 1 => i - 1 \in DOMAIN Mail' /\ Mail'[i - 1] = Mail[i]
      /\ \A i \in DOMAIN Mail : i \in Nat
  <2>1. /\ Len(Mail) \in Nat \ {0} /\ DOMAIN Mail = 1 .. Len(Mail) /\ DOMAIN Mail' = 1 .. Len(Mail) - 1
        /\ Head(Mail) = Mail[1]
        /\ \A i \in DOMAIN Mail' : i + 1 \in DOMAIN Mail /\ Mail'[i] = Mail[i + 1]
        /\ \A i \in DOMAIN Mail : i # 1 => i - 1 \in DOMAIN Mail' /\ Mail'[i - 1] = Mail[i]
      BY Behead
  <2>2. 1 \in DOMAIN Mail /\ \A i \in DOMAIN Mail : i \in Nat
      BY <2>1
  <2>3. \A i \in DOMAIN Mail' : i \in Nat /\ i + 1 # 1
      BY <2>1
  <2> QED
      BY <2>1, <2>2, <2>3
<1>1. \A i, j \in DOMAIN Mail' : Mail'[i] = Mail'[j] /\ Mail'[i] # "retrace" => i = j
  <2>1. ASSUME NEW i \in DOMAIN Mail', NEW j \in DOMAIN Mail', Mail'[i] = Mail'[j], Mail'[i] # "retrace"
        PROVE  i = j
    <3>1. i + 1 = j + 1
        BY <1>0, <2>1 DEF Letters
    <3> QED
        BY <1>0, <3>1
  <2> QED
      BY <2>1
<1>2. \A i, j \in DOMAIN Mail' : Mail'[i] = "prenmi" /\ Mail'[j] = "nmi" => i < j
  <2>1. ASSUME NEW i \in DOMAIN Mail', NEW j \in DOMAIN Mail', Mail'[i] = "prenmi", Mail'[j] = "nmi"
        PROVE  i < j
    <3>1. i + 1 < j + 1
        BY <1>0, <2>1 DEF Letters
    <3> QED
        BY <1>0, <3>1
  <2> QED
      BY <2>1
<1>3. \A i \in DOMAIN Mail' : Mail'[i] = "prenmi" => ~preNMIShutdown' /\ resetStatus' # 0
  <2>1. ASSUME NEW i \in DOMAIN Mail', Mail'[i] = "prenmi"
        PROVE  Mail[1] = "retrace" /\ ~preNMIShutdown /\ resetStatus # 0
      BY <1>0, <2>1 DEF Letters
  <2> QED
      BY <1>0, <2>1
<1>4. \A i \in DOMAIN Mail' : Mail'[i] = "nmi" => resetStatus' = 2
    BY <1>0 DEF Letters
<1>5. resetStatus' = 0 => ~preNMIShutdown'
    BY <1>0 DEF Letters
<1>6. resetStatus' # 0 => preNMIShutdown' \/ \E i \in DOMAIN Mail' : Mail'[i] = "prenmi"
  <2>1. ASSUME resetStatus # 0, ~preNMIShutdown' PROVE \E i \in DOMAIN Mail' : Mail'[i] = "prenmi"
    <3>1. ~preNMIShutdown /\ Mail[1] # "prenmi"
        BY <1>0, <2>1
    <3>2. PICK i \in DOMAIN Mail : Mail[i] = "prenmi"
        BY <2>1, <3>1 DEF Letters
    <3>3. i # 1
        BY <3>1, <3>2
    <3>4. i - 1 \in DOMAIN Mail' /\ Mail'[i - 1] = "prenmi"
        BY <1>0, <3>2, <3>3
    <3> QED
        BY <3>4
  <2> QED
      BY <2>1
<1>7. resetStatus' = 2 => \E i \in DOMAIN Mail' : Mail'[i] = "nmi"
  <2>1. ASSUME resetStatus = 2 PROVE \E i \in DOMAIN Mail' : Mail'[i] = "nmi"
    <3>1. PICK i \in DOMAIN Mail : Mail[i] = "nmi"
        BY <2>1 DEF Letters
    <3>2. i # 1
        BY <1>0, <3>1
    <3>3. i - 1 \in DOMAIN Mail' /\ Mail'[i - 1] = "nmi"
        BY <1>0, <3>1, <3>2
    <3> QED
        BY <3>3
  <2> QED
      BY <2>1
<1> QED
    BY <1>1, <1>2, <1>3, <1>4, <1>5, <1>6, <1>7 DEF Letters

LEMMA TakeRetrace ==
    ASSUME Goes, Mail \in Seq(Letter), Mail # <<>>, Head(Mail) = "retrace", Mail' = Tail(Mail),
           errors \in Nat, UNCHANGED <<resetStatus, preNMIShutdown, motor, errors>>,
           pc = "wait", pc' # "wait", \A n \in Nat : Coming(n)' => Coming(n)
    PROVE  Goes'
<1>0. /\ Len(Mail) \in Nat \ {0} /\ Len(Mail') = Len(Mail) - 1
      /\ DOMAIN Mail = 1 .. Len(Mail) /\ DOMAIN Mail' = 1 .. Len(Mail) - 1
      /\ \A i \in DOMAIN Mail' : i + 1 \in DOMAIN Mail /\ Mail'[i] = Mail[i + 1]
    BY Behead
<1>1. Letters'
    BY LettersRead DEF Goes
<1>2. ASSUME NEW j \in 0 .. Len(Mail'), Since(j)'
      PROVE  \E i \in 0 .. Len(Mail), p, r \in {0, 1} :
                 Since(i) /\ Passing(i) = p /\ Passing(j)' = r /\ i - p = j + 1 - r
  <2>1. CASE j = 0 /\ preNMIShutdown'
    <3>1. Since(0) /\ Passing(0) = 0 /\ Passing(0)' = 1 /\ 0 \in 0 .. Len(Mail)
        BY <1>0, <2>1 DEF Since, Passing
    <3> QED
        BY <2>1, <3>1
  <2>2. CASE j \in DOMAIN Mail' /\ Mail'[j] = "prenmi"
    <3>1. j + 1 \in DOMAIN Mail /\ Mail[j + 1] = "prenmi" /\ j # 0 /\ j + 1 # 0 /\ j + 1 \in 0 .. Len(Mail)
        BY <1>0, <2>2
    <3>2. Since(j + 1) /\ Passing(j + 1) = 0
        BY <3>1 DEF Since, Passing
    <3>3. Passing(j)' = 0
        BY <3>1 DEF Passing
    <3> QED
        BY <3>1, <3>2, <3>3
  <2> QED
      BY <1>2, <2>1, <2>2 DEF Since
<1>3. Quiet' = Quiet /\ T450 \in Nat /\ \A i : Passing(i) \in Nat /\ Passing(i)' \in Nat
    BY IrqAssumption DEF Quiet, Passing
<1>4. Before450'
  <2>1. ASSUME resetStatus = 1, NEW j \in 0 .. Len(Mail'), NEW n \in Nat, Since(j)', Coming(n)', ~Quiet'
        PROVE  Len(Mail') - j + Passing(j)' + n + errors' >= T450
    <3>1. PICK i \in 0 .. Len(Mail), p, r \in {0, 1} :
              Since(i) /\ Passing(i) = p /\ Passing(j)' = r /\ i - p = j + 1 - r
        BY <1>2, <2>1
    <3>2. Len(Mail) - i + Passing(i) + n + errors >= T450
        BY <1>3, <2>1, <3>1 DEF Goes, Before450
    <3>3. Len(Mail) - i + p + n + errors >= T450
        BY <3>1, <3>2
    <3>4. Len(Mail') - j + r + n + errors >= T450
        BY <1>0, <1>3, <3>1, <3>3
    <3> QED
        BY <3>1, <3>4
  <2> QED
      BY <2>1 DEF Before450
<1>5. After450'
  <2>1. ASSUME resetStatus = 2, NEW j \in 0 .. Len(Mail'), NEW k \in 0 .. Len(Mail'),
               Since(j)', k \in DOMAIN Mail', Mail'[k] = "nmi", ~Quiet'
        PROVE  k - j - 1 + Passing(j)' + errors' >= T450
    <3>1. PICK i \in 0 .. Len(Mail), p, r \in {0, 1} :
              Since(i) /\ Passing(i) = p /\ Passing(j)' = r /\ i - p = j + 1 - r
        BY <1>2, <2>1
    <3>2. k + 1 \in DOMAIN Mail /\ Mail[k + 1] = "nmi" /\ k + 1 \in 0 .. Len(Mail)
        BY <1>0, <2>1
    <3>3. k + 1 - i - 1 + Passing(i) + errors >= T450
        BY <1>3, <2>1, <3>1, <3>2, SMTT(40) DEF Goes, After450
    <3>4. k + 1 - i - 1 + p + errors >= T450
        BY <3>1, <3>3
    <3>5. k - j - 1 + r + errors >= T450
        BY <1>3, <3>1, <3>4
    <3> QED
        BY <3>1, <3>5
  <2> QED
      BY <2>1 DEF After450
<1> QED
    BY <1>1, <1>4, <1>5 DEF Goes

LEMMA TakePrenmi ==
    ASSUME Goes, Mail \in Seq(Letter), Mail # <<>>, Head(Mail) = "prenmi", Mail' = Tail(Mail),
           errors \in Nat, UNCHANGED <<resetStatus, motor, errors>>, preNMIShutdown' = TRUE,
           pc' = "wait", \A n \in Nat : Coming(n)' => Coming(n)
    PROVE  Goes'
<1>0. /\ Len(Mail) \in Nat \ {0} /\ Len(Mail') = Len(Mail) - 1
      /\ DOMAIN Mail = 1 .. Len(Mail) /\ DOMAIN Mail' = 1 .. Len(Mail) - 1 /\ Head(Mail) = Mail[1]
      /\ \A i \in DOMAIN Mail' : i + 1 \in DOMAIN Mail /\ Mail'[i] = Mail[i + 1]
    BY Behead
<1>1. Letters'
    BY LettersRead DEF Goes
<1>2. /\ 1 \in DOMAIN Mail /\ 1 \in 0 .. Len(Mail) /\ Since(1) /\ Passing(1) = 0 /\ ~Quiet
      /\ T450 \in Nat /\ Passing(0)' = 0
    BY <1>0, IrqAssumption DEF Goes, Letters, Since, Passing, Quiet
<1>3. ASSUME NEW j \in 0 .. Len(Mail'), Since(j)' PROVE j = 0
    BY <1>1, <1>3 DEF Since, Letters
<1>4. Before450'
  <2>1. ASSUME resetStatus = 1, NEW j \in 0 .. Len(Mail'), NEW n \in Nat, Since(j)', Coming(n)'
        PROVE  Len(Mail') - j + Passing(j)' + n + errors' >= T450
    <3>1. Len(Mail) - 1 + Passing(1) + n + errors >= T450
        BY <1>2, <2>1 DEF Goes, Before450
    <3>2. j = 0
        BY <1>3, <2>1
    <3> QED
        BY <1>0, <1>2, <3>1, <3>2
  <2> QED
      BY <2>1 DEF Before450
<1>5. After450'
  <2>1. ASSUME resetStatus = 2, NEW j \in 0 .. Len(Mail'), NEW k \in 0 .. Len(Mail'),
               Since(j)', k \in DOMAIN Mail', Mail'[k] = "nmi"
        PROVE  k - j - 1 + Passing(j)' + errors' >= T450
    <3>1. k + 1 \in DOMAIN Mail /\ Mail[k + 1] = "nmi" /\ k + 1 \in 0 .. Len(Mail)
        BY <1>0, <2>1
    <3>2. k + 1 - 1 - 1 + Passing(1) + errors >= T450
        BY <1>2, <2>1, <3>1 DEF Goes, After450
    <3>3. j = 0 /\ k \in Int
        BY <1>0, <1>3, <2>1
    <3> QED
        BY <1>2, <3>2, <3>3
  <2> QED
      BY <2>1 DEF After450
<1> QED
    BY <1>1, <1>4, <1>5 DEF Goes

(* "nmi" is read: by now the motors have stopped. *)
LEMMA TakeNmi ==
    ASSUME Goes, Mail \in Seq(Letter), Mail # <<>>, Head(Mail) = "nmi", pc = "wait",
           errors \in Nat, errors < T450
    PROVE  motor = {}
<1>0. Len(Mail) \in Nat /\ Head(Mail) = Mail[1] /\ DOMAIN Mail = 1 .. Len(Mail) /\ 1 \in DOMAIN Mail
    OBVIOUS
<1>1. resetStatus = 2 /\ \A i \in DOMAIN Mail : Mail[i] = "prenmi" => i < 1
    BY <1>0 DEF Goes, Letters
<1>2. preNMIShutdown
  <2>1. \A i \in DOMAIN Mail : Mail[i] # "prenmi"
      BY <1>0, <1>1
  <2> QED
      BY <1>1, <2>1 DEF Goes, Letters
<1>3. Since(0) /\ Passing(0) = 0 /\ 0 \in 0 .. Len(Mail) /\ 1 \in 0 .. Len(Mail)
    BY <1>0, <1>2 DEF Since, Passing
<1>4. Quiet \/ 1 - 0 - 1 + Passing(0) + errors >= T450
    BY <1>0, <1>1, <1>3 DEF Goes, After450
<1>5. T450 \in Nat
    BY IrqAssumption
<1> QED
    BY <1>3, <1>4, <1>5 DEF Quiet

-----------------------------------------------------------------------------
(* The interrupt manager keeps the count: a retrace that was to come is in   *)
(* irqQ, then in the queue; time that passes brings one.                    *)
LEMMA IrqThreadGoes ==
    ASSUME PadInv, Stages, pad \in Range(clients), Goes, pad \notin missed',
           IrqMgr_ThreadEntry, UNCHANGED padVars
    PROVE  Goes'
<1>0. /\ Mail \in Seq(Letter) /\ pad \in Client /\ errors \in Nat /\ irqQ \in Seq(Mesg)
      /\ resetStatus \in {0, 1, 2}
      /\ UNCHANGED <<preNMIShutdown, motor, errors, pc>> /\ errors' = errors
    BY PadAssumption, IrqAssumption DEF PadInv, IrqInv, Typed, IrqRest, RumbleTypes, padVars, rumbleVars, Mail
<1>1. /\ irqQ # <<>> /\ irqQ' = Tail(irqQ) /\ 1 \in DOMAIN irqQ /\ irqQ' \in Seq(Mesg)
      /\ \A i \in DOMAIN irqQ' : i + 1 \in DOMAIN irqQ /\ i + 1 # 1 /\ irqQ'[i] = irqQ[i + 1]
    BY <1>0, Read DEF IrqMgr_ThreadEntry
<1>2. ASSUME irqQ[1] # "RETRACE" PROVE pressed /\ ~Active(irqTimer)
    BY <1>1, <1>2 DEF PadInv, IrqInv, OneChain
<1>3. ASSUME NEW m \in Letter, SendTo(Range(clients), m)
      PROVE  /\ Mail' = Mail \/ Mail' = Append(Mail, m)
             /\ pressed => Mail' = Append(Mail, m)
  <2>1. \/ queue'[pad] = queue[pad]
        \/ queue'[pad] = Append(queue[pad], m)
      BY <1>0, <1>3, QueueSent DEF PadInv
  <2>2. pressed => queue'[pad] = Append(queue[pad], m)
    <3>1. pressed => \A c \in Client : c \in Range(clients) \ missed' => queue'[c] = Append(queue[c], m)
        BY <1>3, QueueSent DEF PadInv
    <3> QED
        BY <1>0, <3>1
  <2> QED
      BY <2>1, <2>2 DEF Mail
<1>4. Quiet => Quiet'
    BY <1>0 DEF Quiet
<1>5. CASE IrqMgr_HandlePreNMI
  <2>1. /\ irqQ[1] = "PRE_NMI" /\ resetStatus' = 1 /\ osSetTimer(irqTimer, T450)
        /\ SendTo(Range(clients), "prenmi")
      BY <1>5 DEF IrqMgr_HandlePreNMI, SetTimer, IrqMgr_SendMesgForClient, STATUS_PRENMI
  <2>2. resetStatus = 0 /\ pressed /\ ~Active(irqTimer)
      BY <1>1, <1>2, <2>1 DEF Stages
  <2>3. Mail' = Append(Mail, "prenmi")
      BY <1>3, <2>1, <2>2 DEF Letter
  <2>4. due'[irqTimer] = T450 /\ T450 \in Nat
    <3>1. irqTimer \in Timer /\ T450 \in Nat \ {0}
        BY IrqAssumption
    <3>2. due' = [due EXCEPT ![irqTimer] = T450]
        BY <2>1, <2>2, <3>1, SetKeeps DEF PadInv
    <3>3. due \in [Timer -> Nat]
        BY DEF PadInv, TimersInv, TimersTypeOK
    <3> QED
        BY <3>1, <3>2, <3>3
  <2>5. ASSUME NEW n \in Nat, Coming(n)' PROVE n >= T450
    <3>1. PICK m \in 1 .. Len(irqQ') + 1 : n = m - 1 + due'[irqTimer]
        BY <2>5 DEF Coming
    <3>2. n = m - 1 + T450
        BY <2>4, <3>1
    <3> QED
        BY <2>4, <3>1, <3>2
  <2> QED
      BY <1>0, <2>1, <2>2, <2>3, <2>5, SendPrenmi
<1>6. CASE IrqMgr_HandlePRENMI450
  <2>1. irqQ[1] = "PRENMI450" /\ resetStatus' = 2 /\ SendTo(Range(clients), "nmi")
      BY <1>6 DEF IrqMgr_HandlePRENMI450, SetTimer, IrqMgr_SendMesgForClient, STATUS_NMI
  <2>2. resetStatus = 1 /\ pressed /\ ~Active(irqTimer)
      BY <1>1, <1>2, <2>1 DEF Stages
  <2>3. Mail' = Append(Mail, "nmi")
      BY <1>3, <2>1, <2>2 DEF Letter
  <2>4. Coming(0)
    <3>1. due[irqTimer] = 0
        BY <2>2, IrqAssumption DEF PadInv, TimersInv
    <3>2. 1 \in 1 .. Len(irqQ) + 1 /\ 0 = 1 - 1 + 0
        BY <1>0
    <3> QED
        BY <2>1, <3>1, <3>2 DEF Coming
  <2> QED
      BY <1>0, <2>1, <2>2, <2>3, <2>4, SendNmi
<1>7. CASE IrqMgr_HandlePRENMI480 \/ IrqMgr_HandlePRENMI500
  <2>1. irqQ[1] \in {"PRENMI480", "PRENMI500"} /\ UNCHANGED <<resetStatus, clientVars>>
      BY <1>7 DEF IrqMgr_HandlePRENMI480, IrqMgr_HandlePRENMI500
  <2>2. resetStatus = 2 /\ Mail' = Mail
      BY <1>1, <2>1 DEF Stages, Mail, clientVars
  <2> QED
      BY <1>0, <1>4, <2>1, <2>2, GoesOn
<1>8. CASE IrqMgr_HandleRetrace
  <2>1. irqQ[1] = "RETRACE" /\ UNCHANGED <<resetStatus, due>> /\ SendTo(Range(clients), "retrace")
      BY <1>8 DEF IrqMgr_HandleRetrace, IrqMgr_SendMesgForClient, timerVars, listVars
  <2>2. /\ Mail' = Mail \/ Mail' = Append(Mail, "retrace")
        /\ pressed => Mail' = Append(Mail, "retrace")
      BY <1>3, <2>1 DEF Letter
  <2>3. CASE Mail' = Append(Mail, "retrace")
    <3>1. ASSUME NEW n \in Nat, Coming(n)' PROVE Coming(n + 1)
      <4>1. PICK m \in 1 .. Len(irqQ') + 1 :
                /\ m = Len(irqQ') + 1 \/ irqQ'[m] = "PRENMI450"
                /\ n = m - 1 + due[irqTimer]
          BY <2>1, <3>1 DEF Coming
      <4>2. /\ Len(irqQ) \in Nat /\ Len(irqQ') = Len(irqQ) - 1 /\ due[irqTimer] \in Nat
            /\ DOMAIN irqQ' = 1 .. Len(irqQ')
        <5>1. Len(irqQ) \in Nat /\ Len(irqQ') = Len(irqQ) - 1 /\ DOMAIN irqQ' = 1 .. Len(irqQ')
            BY <1>0, <1>1
        <5>2. due[irqTimer] \in Nat
            BY IrqAssumption DEF PadInv, TimersInv, TimersTypeOK
        <5> QED
            BY <5>1, <5>2
      <4>3. m + 1 \in 1 .. Len(irqQ) + 1 /\ n + 1 = m + 1 - 1 + due[irqTimer]
          BY <4>1, <4>2
      <4>4. m + 1 = Len(irqQ) + 1 \/ irqQ[m + 1] = "PRENMI450"
        <5>1. CASE m = Len(irqQ') + 1
            BY <4>2, <5>1
        <5>2. CASE m # Len(irqQ') + 1
          <6>1. m \in DOMAIN irqQ'
              BY <4>1, <4>2, <5>2
          <6> QED
              BY <1>1, <4>1, <5>2, <6>1
        <5> QED
            BY <5>1, <5>2
      <4> QED
          BY <4>3, <4>4 DEF Coming
    <3> QED
        BY <1>0, <2>1, <2>3, <3>1, SendRetrace
  <2>4. CASE Mail' = Mail /\ ~pressed
    <3>1. resetStatus = 0
        BY <2>4 DEF PadInv, IrqInv, OneChain
    <3> QED
        BY <1>0, <1>4, <2>1, <2>4, <3>1, GoesOn
  <2> QED
      BY <2>2, <2>3, <2>4 DEF PadInv, IrqInv, Typed
<1> QED
    BY <1>5, <1>6, <1>7, <1>8 DEF IrqMgr_ThreadEntry

LEMMA TimeGoes ==
    ASSUME PadInv, Stages, Goes, TimerInterrupt \/ Frame \/ ResetButton, UNCHANGED padVars
    PROVE  Goes'
<1>0. /\ Mail \in Seq(Letter) /\ errors \in Nat /\ irqQ \in Seq(Mesg) /\ irqMsg \in Mesg
      /\ Len(irqQ) \in Nat /\ irqTimer \in Timer /\ due[irqTimer] \in Nat
      /\ UNCHANGED <<preNMIShutdown, motor, errors, pc>> /\ errors' = errors /\ errors >= errors
  <2>1. pad \in Client /\ irqTimer \in Timer
      BY PadAssumption, IrqAssumption
  <2>2. Mail \in Seq(Letter) /\ irqQ \in Seq(Mesg) /\ irqMsg \in Mesg
      BY <2>1 DEF PadInv, IrqInv, Typed, IrqRest, Mail
  <2>3. errors \in Nat /\ errors >= errors
    <3>1. errors \in 0 .. MaxErrors
        BY DEF PadInv, RumbleTypes
    <3> QED
        BY <3>1
  <2>4. UNCHANGED <<preNMIShutdown, motor, errors, pc>>
      BY DEF padVars, rumbleVars
  <2>5. due[irqTimer] \in Nat
      BY <2>1 DEF PadInv, TimersInv, TimersTypeOK
  <2> QED
      BY <2>1, <2>2, <2>3, <2>4, <2>5
<1>1. Mail' = Mail /\ resetStatus' = resetStatus /\ (Quiet => Quiet')
    BY <1>0 DEF TimerInterrupt, Frame, Retrace, ResetButton, clientVars, Mail, Quiet
<1>2. SUFFICES ASSUME resetStatus = 1, NEW n \in Nat, Coming(n)'
               PROVE  \E x \in Nat : x <= n /\ Coming(x)
    BY <1>0, <1>1, GoesOn
<1>3. PICK m \in 1 .. Len(irqQ') + 1 :
          /\ m = Len(irqQ') + 1 \/ irqQ'[m] = "PRENMI450"
          /\ n = m - 1 + due'[irqTimer]
    BY <1>2 DEF Coming
<1>4. ASSUME irqQ' = irqQ, due'[irqTimer] = due[irqTimer] PROVE Coming(n)
    BY <1>3, <1>4 DEF Coming
<1>5. ASSUME NEW w \in Mesg, irqQ' = Append(irqQ, w)
      PROVE  /\ Len(irqQ') = Len(irqQ) + 1 /\ irqQ'[Len(irqQ) + 1] = w
             /\ \A i \in 1 .. Len(irqQ) : irqQ'[i] = irqQ[i]
    BY <1>0, <1>5
<1>6. CASE TimerInterrupt
  <2>1. due'[irqTimer] = due[irqTimer] /\ (irqTimer \in SentBy(Expired) => due[irqTimer] = 0)
      BY <1>0, <1>6, InterruptKeeps DEF TimerInterrupt, PadInv
  <2>2. CASE irqQ' = irqQ
    <3>1. Coming(n) /\ n <= n
        BY <1>4, <2>1, <2>2
    <3> QED
        BY <3>1
  <2>3. CASE irqQ' = Append(irqQ, irqMsg) /\ irqTimer \in SentBy(Expired)
    <3>1. n = m - 1 /\ due[irqTimer] = 0
        BY <1>3, <2>1, <2>3
    <3>2. CASE m >= Len(irqQ) + 1
      <4>1. Len(irqQ) + 1 \in 1 .. Len(irqQ) + 1 /\ Len(irqQ) = Len(irqQ) + 1 - 1 + 0 /\ Len(irqQ) <= n
          BY <1>0, <3>1, <3>2
      <4>2. Coming(Len(irqQ))
          BY <3>1, <4>1 DEF Coming
      <4> QED
          BY <1>0, <4>1, <4>2
    <3>3. CASE m < Len(irqQ) + 1
      <4>1. m \in 1 .. Len(irqQ) /\ m \in 1 .. Len(irqQ) + 1 /\ n = m - 1 + 0 /\ n <= n
          BY <1>0, <1>3, <3>1, <3>3
      <4>2. m # Len(irqQ') + 1 /\ irqQ'[m] = irqQ[m]
          BY <1>0, <1>5, <2>3, <3>3, <4>1
      <4>3. Coming(n)
          BY <1>3, <3>1, <4>1, <4>2 DEF Coming
      <4> QED
          BY <4>1, <4>3
    <3> QED
        BY <1>0, <1>3, <3>2, <3>3
  <2> QED
      BY <1>6, <2>2, <2>3 DEF TimerInterrupt, Post
<1>7. CASE Frame
  <2>1. irqQ = <<>> /\ Post("RETRACE") /\ CountUp
      BY <1>7 DEF Frame, Retrace
  <2>2. irqQ' = Append(irqQ, "RETRACE")
      BY <2>1, IrqAssumption DEF Post
  <2>3. Len(irqQ) = 0 /\ Len(irqQ') = 1 /\ irqQ'[1] = "RETRACE"
      BY <1>5, <2>1, <2>2 DEF Mesg
  <2>4. m = 2
      BY <1>3, <2>3
  <2>5. due'[irqTimer] = IF due[irqTimer] = 0 THEN 0 ELSE due[irqTimer] - 1
      BY <1>0, <2>1, CountKeeps DEF PadInv
  <2>6. due[irqTimer] <= n
      BY <1>0, <1>3, <2>4, <2>5
  <2>7. Coming(due[irqTimer])
    <3>1. 1 \in 1 .. Len(irqQ) + 1 /\ 1 = Len(irqQ) + 1 /\ due[irqTimer] = 1 - 1 + due[irqTimer]
        BY <1>0, <2>3
    <3> QED
        BY <3>1 DEF Coming
  <2> QED
      BY <1>0, <2>6, <2>7
<1>8. CASE ResetButton
    BY <1>2, <1>8 DEF ResetButton, PadInv, IrqInv, OneChain
<1> QED
    BY <1>6, <1>7, <1>8

-----------------------------------------------------------------------------
(* The invariant: while padmgr has missed no message of the reset, its      *)
(* queue goes as above, and once its thread has ended no motor runs.        *)
QuietInv ==
    /\ PadInv /\ Stages /\ InPlace /\ Tries
    /\ pc # "end" => pad \in Range(clients)
    /\ pad \notin missed => IF pc = "end" THEN motor = {} ELSE Goes

LEMMA MissedGrows == PadInv /\ [Next]_vars => missed \subseteq missed'
<1> SUFFICES ASSUME PadInv, [Next]_vars PROVE missed \subseteq missed'
    OBVIOUS
<1>1. CASE UNCHANGED missed
    BY <1>1
<1>2. CASE IrqMgr_ThreadEntry
  <2>1. Range(clients) \subseteq Client
      BY DEF PadInv, IrqInv, Typed, Range
  <2>2. ASSUME NEW m \in Told \cup {"retrace"}, SendTo(Range(clients), m) PROVE missed \subseteq missed'
      BY <2>1, <2>2, Sent DEF PadInv, IrqInv
  <2> QED
      BY <1>1, <1>2, <2>2 DEF IrqMgr_ThreadEntry, IrqMgr_HandlePreNMI, IrqMgr_HandlePRENMI450,
          IrqMgr_HandlePRENMI480, IrqMgr_HandlePRENMI500, IrqMgr_HandleRetrace,
          IrqMgr_SendMesgForClient, clientVars, Told
<1>3. CASE PadMgr_Exit
    BY <1>1, <1>3 DEF PadMgr_Exit, Takes
<1>4. CASE TimerInterrupt \/ Frame \/ ResetButton \/ ClientReads(pad) \/ UNCHANGED irqMgrVars
    BY <1>1, <1>4 DEF TimerInterrupt, Frame, Retrace, ResetButton, ClientReads, irqMgrVars, clientVars
<1> QED
    BY <1>2, <1>3, <1>4, PadIsClient

(* The motors in each step. *)
LEMMA MotorStep ==
    ASSUME PadInv, InPlace, Tries, MaxErrors < OffFrames, [Next]_vars
    PROVE  /\ InPlace' /\ Tries'
           /\ preNMIShutdown => preNMIShutdown' /\ motor' \subseteq motor
           /\ pc = "end" => motor' \subseteq motor
<1>1. ASSUME UNCHANGED rumbleVars
      PROVE  /\ InPlace' /\ Tries'
             /\ preNMIShutdown => preNMIShutdown' /\ motor' \subseteq motor
             /\ pc = "end" => motor' \subseteq motor
    BY <1>1 DEF rumbleVars, InPlace, Tries
<1>2. ASSUME UNCHANGED <<preNMIShutdown, rumbleOffFrames, errors>>, motor' \subseteq motor, InPlace'
      PROVE  /\ InPlace' /\ Tries'
             /\ preNMIShutdown => preNMIShutdown' /\ motor' \subseteq motor
             /\ pc = "end" => motor' \subseteq motor
    BY <1>2 DEF Tries
<1>3. CASE IrqThread \/ Interrupt \/ PadFrame \/ Button
    BY <1>1, <1>3 DEF IrqThread, Interrupt, PadFrame, Button, padVars
<1>4. CASE PadMgr_HandlePreNMI
  <2>1. /\ preNMIShutdown' = TRUE /\ rumbleOffFrames' = OffFrames
        /\ motor' = motor /\ inPak' = inPak /\ errors' = errors
      BY <1>4 DEF PadMgr_HandlePreNMI
  <2>2. rumbleOffFrames' + errors' >= OffFrames
    <3>1. OffFrames \in Nat /\ MaxErrors \in Nat /\ errors \in 0 .. MaxErrors
        BY PadAssumption DEF PadInv, RumbleTypes
    <3> QED
        BY <2>1, <3>1
  <2> QED
      BY <2>1, <2>2 DEF InPlace, Tries
<1>5. CASE PadMgr_Exit \/ PadMgr_TakeRetrace
    BY <1>1, <1>5 DEF PadMgr_Exit, PadMgr_TakeRetrace
<1>6. CASE PadMgr_StartRead \/ PadMgr_Query
  <2>1. UNCHANGED <<preNMIShutdown, rumbleOffFrames, errors, motor, inPak>>
      BY <1>6 DEF PadMgr_StartRead, PadMgr_Query
  <2> QED
      BY <1>2, <2>1 DEF InPlace
<1>7. CASE PadMgr_ReadInputs
  <2>1. UNCHANGED <<preNMIShutdown, rumbleOffFrames, errors>>
      BY <1>7 DEF PadMgr_ReadInputs
  <2>2. PICK gone \in SUBSET Port :
            /\ motor' = motor \ gone
            /\ inPak' = [i \in Port |-> IF i \in gone THEN "none" ELSE inPak[i]]
      BY <1>7 DEF PadMgr_ReadInputs
  <2>3. InPlace' /\ motor' \subseteq motor
      BY <2>2 DEF InPlace
  <2> QED
      BY <1>2, <2>1, <2>3
<1>8. CASE PadMgr_Rumble
  <2>1. PICK fault \in BOOLEAN, F \in SUBSET Port :
            /\ errors + Cardinality(F) <= MaxErrors
            /\ errors' = errors + Cardinality(F)
            /\ Rumble(fault, F)
      BY <1>8 DEF PadMgr_Rumble
  <2>2. inPak' = inPak /\ preNMIShutdown' = preNMIShutdown /\ pc = "rumble" /\ RumbleTypes
      BY <1>8 DEF PadMgr_Rumble, PadInv
  <2>3. InPlace'
      BY <2>1, <2>2, RumbleInPlace
  <2>4. ASSUME preNMIShutdown
        PROVE  /\ motor' \subseteq motor
               /\ motor' = {} \/ (errors' >= errors + 1 /\ rumbleOffFrames' + errors' >= OffFrames)
      BY <2>1, <2>2, <2>4, RumbleTries
  <2> QED
      BY <2>2, <2>3, <2>4 DEF Tries
<1>9. CASE RequestPadData \/ RequestPadData_Clear \/ Mempak_Lock \/ Mempak_Unlock
    BY <1>1, <1>9 DEF RequestPadData, RequestPadData_Clear, Mempak_Lock, Mempak_Unlock
<1>10. CASE PakMoves
  <2>1. UNCHANGED <<preNMIShutdown, rumbleOffFrames, errors>>
      BY <1>10 DEF PakMoves
  <2>2. PICK i \in Port, p \in Pak : inPak' = [inPak EXCEPT ![i] = p] /\ motor' = motor \ {i}
      BY <1>10 DEF PakMoves
  <2>3. inPak \in [Port -> Pak]
      BY DEF PadInv, RumbleTypes
  <2>4. InPlace' /\ motor' \subseteq motor
      BY <2>2, <2>3 DEF InPlace
  <2> QED
      BY <1>2, <2>1, <2>4
<1>11. CASE UNCHANGED vars
    BY <1>1, <1>11 DEF vars, padVars
<1> QED
    BY <1>3, <1>4, <1>5, <1>6, <1>7, <1>8, <1>9, <1>10, <1>11 DEF Next, PadMgr_ThreadEntry

(* The steps of the thread and of those that share the bus with it. *)
LEMMA PadGoes ==
    ASSUME PadInv, InPlace, Tries, Goes, MaxErrors < OffFrames, MaxErrors < T450, pc # "end",
           \/ PadMgr_ThreadEntry \/ RequestPadData \/ RequestPadData_Clear
           \/ Mempak_Lock \/ Mempak_Unlock \/ PakMoves \/ UNCHANGED vars
    PROVE  IF pc' = "end" THEN motor' = {} ELSE Goes'
<1>0. /\ Mail \in Seq(Letter) /\ errors \in Nat /\ errors' \in Nat /\ errors < T450 /\ errors >= errors
      /\ preNMIShutdown => preNMIShutdown' /\ motor' \subseteq motor
      /\ Quiet => Quiet'
  <2>1. [Next]_vars
      BY DEF Next
  <2>2. RumbleTypes /\ RumbleTypes'
      BY <2>1, RumbleTypesStep DEF PadInv
  <2>3. MaxErrors \in Nat /\ T450 \in Nat /\ errors \in 0 .. MaxErrors /\ errors' \in 0 .. MaxErrors
      BY <2>2, PadAssumption, IrqAssumption DEF RumbleTypes
  <2>4. Mail \in Seq(Letter)
      BY PadAssumption, IrqAssumption DEF PadInv, IrqRest, Mail
  <2>5. preNMIShutdown => preNMIShutdown' /\ motor' \subseteq motor
      BY <2>1, MotorStep
  <2> QED
      BY <2>3, <2>4, <2>5 DEF Quiet
<1>1. ASSUME UNCHANGED <<irqQ, due>> PROVE \A n \in Nat : Coming(n)' => Coming(n) /\ n <= n
    BY <1>1 DEF Coming
<1>2. ASSUME UNCHANGED <<timerVars, irqVars, clientVars, preNMIShutdown>>, errors' >= errors,
             \/ pc = "wait" <=> pc' = "wait"
             \/ ~preNMIShutdown \/ Quiet' \/ errors' >= errors + 1
      PROVE  Goes'
  <2>1. Mail' = Mail /\ UNCHANGED <<resetStatus, irqQ, due>>
      BY <1>2 DEF timerVars, listVars, irqVars, clientVars, Mail
  <2>2. \A n \in Nat : Coming(n)' => \E x \in Nat : x <= n /\ Coming(x)
      BY <1>1, <2>1
  <2> QED
      BY <1>0, <1>2, <2>1, <2>2, GoesOn
<1>3. ASSUME NEW m, Takes(m)
      PROVE  /\ pc = "wait" /\ Mail # <<>> /\ Head(Mail) = m /\ Mail' = Tail(Mail)
             /\ due' = due
  <2>1. queue' = [queue EXCEPT ![pad] = Tail(@)] /\ pad \in Client /\ queue \in [Client -> Seq(Letter)]
      BY <1>3, PadAssumption, IrqAssumption DEF Takes, PadInv, IrqRest
  <2>2. Mail' = Tail(Mail)
      BY <2>1 DEF Mail
  <2> QED
      BY <1>3, <2>2 DEF Takes, Mail, timerVars, listVars
<1>4. CASE PadMgr_HandlePreNMI
  <2>1. /\ Takes("prenmi") /\ preNMIShutdown' = TRUE /\ pc' = pc
        /\ UNCHANGED <<resetStatus, irqQ, motor, errors>>
      BY <1>4 DEF PadMgr_HandlePreNMI, irqVars
  <2>2. /\ pc = "wait" /\ Mail # <<>> /\ Head(Mail) = "prenmi" /\ Mail' = Tail(Mail) /\ due' = due
      BY <1>3, <2>1
  <2>3. \A n \in Nat : Coming(n)' => Coming(n)
      BY <1>1, <2>1, <2>2
  <2>4. Goes'
      BY <1>0, <2>1, <2>2, <2>3, TakePrenmi
  <2> QED
      BY <2>1, <2>2, <2>4
<1>5. CASE PadMgr_Exit
  <2>1. Takes("nmi") /\ pc' = "end" /\ motor' = motor
      BY <1>5 DEF PadMgr_Exit, rumbleVars
  <2>2. pc = "wait" /\ Mail # <<>> /\ Head(Mail) = "nmi"
      BY <1>3, <2>1
  <2>3. motor = {}
      BY <1>0, <2>2, TakeNmi
  <2> QED
      BY <2>1, <2>3
<1>6. CASE PadMgr_TakeRetrace
  <2>1. /\ Takes("retrace") /\ pc' = "lock"
        /\ UNCHANGED <<resetStatus, irqQ, preNMIShutdown, motor, errors>>
      BY <1>6 DEF PadMgr_TakeRetrace, irqVars, rumbleVars
  <2>2. /\ pc = "wait" /\ Mail # <<>> /\ Head(Mail) = "retrace" /\ Mail' = Tail(Mail) /\ due' = due
      BY <1>3, <2>1
  <2>3. \A n \in Nat : Coming(n)' => Coming(n)
      BY <1>1, <2>1, <2>2
  <2>4. pc' # "wait" /\ pc' # "end"
      BY <2>1
  <2>5. Goes'
      BY <1>0, <2>1, <2>2, <2>3, <2>4, TakeRetrace
  <2> QED
      BY <2>4, <2>5
<1>7. CASE PadMgr_StartRead \/ PadMgr_ReadInputs \/ PadMgr_Query
  <2>1. /\ UNCHANGED <<timerVars, irqVars, clientVars, preNMIShutdown, errors>>
        /\ pc # "wait" /\ pc' # "wait" /\ pc' # "end"
      BY <1>7 DEF PadMgr_StartRead, PadMgr_ReadInputs, PadMgr_Query
  <2>2. Goes'
      BY <1>0, <1>2, <2>1
  <2> QED
      BY <2>1, <2>2
<1>8. CASE PadMgr_Rumble
  <2>1. PICK fault \in BOOLEAN, F \in SUBSET Port :
            /\ errors + Cardinality(F) <= MaxErrors
            /\ errors' = errors + Cardinality(F)
            /\ Rumble(fault, F)
      BY <1>8 DEF PadMgr_Rumble
  <2>2. UNCHANGED <<timerVars, irqVars, clientVars, preNMIShutdown>> /\ pc' = "wait"
      BY <1>8 DEF PadMgr_Rumble
  <2>3. RumbleTypes
      BY DEF PadInv
  <2>4. errors' >= errors
      BY <2>1, <2>3, Failures DEF RumbleTypes
  <2>5. ASSUME preNMIShutdown PROVE motor' = {} \/ errors' >= errors + 1
      BY <2>1, <2>3, <2>5, RumbleTries
  <2>6. ~preNMIShutdown \/ Quiet' \/ errors' >= errors + 1
      BY <2>2, <2>5 DEF Quiet
  <2>7. Goes'
      BY <1>2, <2>2, <2>4, <2>6
  <2> QED
      BY <2>2, <2>7
<1>9. CASE RequestPadData \/ RequestPadData_Clear \/ Mempak_Lock \/ Mempak_Unlock \/ PakMoves \/ UNCHANGED vars
  <2>1. UNCHANGED <<timerVars, irqVars, clientVars, preNMIShutdown, errors, pc>>
      BY <1>9 DEF RequestPadData, RequestPadData_Clear, Mempak_Lock, Mempak_Unlock, PakMoves,
                  vars, padVars, rumbleVars
  <2>2. Goes'
      BY <1>0, <1>2, <2>1
  <2> QED
      BY <2>1, <2>2
<1> QED
    BY <1>4, <1>5, <1>6, <1>7, <1>8, <1>9 DEF PadMgr_ThreadEntry

LEMMA QuietStep ==
    ASSUME MaxErrors < OffFrames, MaxErrors < T450, QuietInv, [Next]_vars
    PROVE  QuietInv'
<1>1. PadInv /\ PadInv' /\ InPlace' /\ Tries' /\ missed \subseteq missed'
    BY PadStep, MotorStep, MissedGrows DEF QuietInv
<1>2. CASE IrqThread \/ Interrupt \/ PadFrame \/ Button
  <2>1. /\ IrqMgr_ThreadEntry \/ TimerInterrupt \/ Frame \/ ResetButton
        /\ UNCHANGED padVars /\ clients' = clients
      BY <1>2 DEF IrqThread, Interrupt, PadFrame, Button, IrqMgr_ThreadEntry, TimerInterrupt, Frame,
                  Retrace, ResetButton
  <2>2. pc' = pc /\ motor' = motor
      BY <2>1 DEF padVars, rumbleVars
  <2>3. Stages'
      BY <2>1, StagesStep DEF QuietInv, PadInv
  <2>4. ASSUME pad \notin missed', pc # "end" PROVE Goes'
    <3>1. Goes /\ pad \in Range(clients) /\ Stages
        BY <1>1, <2>4 DEF QuietInv
    <3> QED
        BY <1>1, <2>1, <2>4, <3>1, IrqThreadGoes, TimeGoes
  <2> QED
      BY <1>1, <2>1, <2>2, <2>3, <2>4 DEF QuietInv
<1>3. CASE \/ PadMgr_ThreadEntry \/ RequestPadData \/ RequestPadData_Clear
           \/ Mempak_Lock \/ Mempak_Unlock \/ PakMoves \/ UNCHANGED vars
  <2>1. UNCHANGED <<irqQ, resetStatus, timers, irqMsg>> /\ (pc' # "end" => pc # "end" /\ clients' = clients)
      BY <1>3 DEF PadMgr_ThreadEntry, PadMgr_HandlePreNMI, PadMgr_Exit, PadMgr_TakeRetrace, Takes,
          PadMgr_StartRead, PadMgr_ReadInputs, PadMgr_Query, PadMgr_Rumble, IrqMgr_RemoveClient,
          RequestPadData, RequestPadData_Clear, Mempak_Lock, Mempak_Unlock, PakMoves, vars, padVars,
          timerVars, listVars, irqVars
  <2>2. Stages'
      BY <2>1 DEF QuietInv, Stages, Active
  <2>3. CASE pc = "end"
    <3>1. pc' = "end" /\ motor' \subseteq motor
        BY <1>1, <2>1, <2>3, MotorStep DEF QuietInv
    <3> QED
        BY <1>1, <2>2, <2>3, <3>1 DEF QuietInv
  <2>4. CASE pc # "end"
    <3>1. ASSUME pad \notin missed' PROVE IF pc' = "end" THEN motor' = {} ELSE Goes'
      <4>1. Goes
          BY <1>1, <2>4, <3>1 DEF QuietInv
      <4> QED
          BY <1>3, <2>4, <4>1, PadGoes DEF QuietInv
    <3> QED
        BY <1>1, <2>1, <2>2, <3>1 DEF QuietInv
  <2> QED
      BY <2>3, <2>4
<1> QED
    BY <1>2, <1>3 DEF Next

LEMMA QuietInit == Init => QuietInv
<1> SUFFICES ASSUME Init PROVE QuietInv
    OBVIOUS
<1>1. /\ irqQ = <<>> /\ timers = <<>> /\ resetStatus = 0 /\ clients = SetToSeq(Early)
      /\ queue = [c \in Client |-> <<>>] /\ pc = "wait" /\ motor = {} /\ preNMIShutdown = FALSE
    BY DEF Init, IrqInit, TimersInit, STATUS_IDLE
<1>2. pad \in Client /\ pad \in Range(clients)
    BY <1>1, EarlyInList, PadAssumption, IrqAssumption
<1>3. Mail = <<>> /\ DOMAIN Mail = {}
  <2>1. Mail = <<>>
      BY <1>1, <1>2 DEF Mail
  <2> QED
      BY <2>1
<1>4. Stages
  <2>1. DOMAIN irqQ = {} /\ DOMAIN timers = {} /\ ~Active(irqTimer)
      BY <1>1 DEF Active, Contains
  <2> QED
      BY <2>1 DEF Stages
<1>5. Goes
    BY <1>1, <1>3 DEF Goes, Letters, Before450, After450
<1> QED
    BY <1>1, <1>2, <1>4, <1>5, PadInit DEF QuietInv, InPlace, Tries

(* When the thread of padmgr ends after a reset no motor runs, although a    *)
(* pak may fail to hear that it is to stop: from the first message of the   *)
(* reset each retrace it serves tells all of them, for as long as           *)
(* rumbleOffFrames counts, and T450 retraces come before the last message.  *)
(* That the bus fails less often than either is what MaxErrors says.        *)
THEOREM MotorsQuiet ==
    MaxErrors < OffFrames /\ MaxErrors < T450 => (Spec => []QuietAtEnd)
<1> SUFFICES ASSUME MaxErrors < OffFrames, MaxErrors < T450 PROVE Spec => []QuietAtEnd
    OBVIOUS
<1>1. QuietInv /\ [Next]_vars => QuietInv'
    BY QuietStep
<1>2. QuietInv => QuietAtEnd
    BY DEF QuietInv, QuietAtEnd
<1> QED
    BY QuietInit, <1>1, <1>2, PTL DEF Spec
=============================================================================
