------------------------------- MODULE IrqMgr -------------------------------
(***************************************************************************)
(* The interrupt manager (src/src/code/irqmgr.c): it forwards retraces to  *)
(* its clients and leads the machine through a reset, 450, 480 and 500 ms  *)
(* after the button is pressed, with one timer.  Its thread has the highest *)
(* priority of the program, so that a handler is one action; only a client  *)
(* that is being added may be overtaken between two steps.                  *)
(***************************************************************************)
EXTENDS OsTimers

CONSTANTS
    irqTimer,       \* irqMgr->timer
    otherTimer,     \* the timer of another thread: the graph thread's
    T450, T30, T20, TOther,    \* their times
    Client,         \* the IrqMgrClient structures
    Early,          \* those that are in the list when the model starts
    QCap,           \* the capacity of each client's queue
    IrqQCap         \* the capacity of irqMgr->queue

ASSUME IrqAssumption ==
    /\ Timer = {irqTimer, otherTimer} /\ irqTimer # otherTimer
    /\ {T450, T30, T20, TOther} \subseteq Nat \ {0}
    /\ Early \subseteq Client /\ IsFiniteSet(Early)
    /\ QCap \in [Client -> Nat \ {0}] /\ IrqQCap \in Nat \ {0}

STATUS_IDLE == 0
STATUS_PRENMI == 1
STATUS_NMI == 2

VARIABLES
    irqQ,           \* irqMgr->queue
    irqMsg,         \* the message irqMgr->timer was set with
    resetStatus, clients,
    irqAlive,       \* the thread has not ended
    queue,          \* the queue of each client
    adding,         \* how far IrqMgr_AddClient has come for each client
    pressed,        \* the reset button was pressed
    told,           \* the reset messages each client was sent
    missed          \* the clients whose queue was full for a message after the button

irqVars == <<irqQ, irqMsg, resetStatus, clients, irqAlive, adding, pressed>>
clientVars == <<queue, told, missed>>

IrqTypeOK ==
    /\ TimersTypeOK
    /\ irqQ \in Seq({"RETRACE", "PRE_NMI", "PRENMI450", "PRENMI480", "PRENMI500"})
    /\ Len(irqQ) <= IrqQCap
    /\ irqMsg \in {"PRENMI450", "PRENMI480", "PRENMI500"}
    /\ resetStatus \in {STATUS_IDLE, STATUS_PRENMI, STATUS_NMI}
    /\ clients \in Seq(Client) /\ IsInjective(clients)
    /\ irqAlive \in BOOLEAN /\ pressed \in BOOLEAN
    /\ adding \in [Client -> {"out", "linked", "asked", "in", "removed"}]
    /\ \A c \in Client : queue[c] \in Seq({"retrace", "prenmi", "nmi"}) /\ Len(queue[c]) <= QCap[c]
    /\ told \in [Client -> SUBSET {"prenmi", "nmi"}] /\ missed \subseteq Client

IrqInit ==
    /\ TimersInit
    /\ irqQ = <<>> /\ irqMsg = "PRENMI450" /\ resetStatus = STATUS_IDLE
    /\ clients = SetToSeq(Early) /\ adding = [c \in Client |-> IF c \in Early THEN "in" ELSE "out"]
    /\ irqAlive = TRUE /\ pressed = FALSE
    /\ queue = [c \in Client |-> <<>>]
    /\ told = [c \in Client |-> {}] /\ missed = {}

-----------------------------------------------------------------------------
HasRoom(c) == Len(queue[c]) < QCap[c]

(* m goes to all clients of C whose queue has room. *)
SendTo(C, m) ==
    LET gets == {c \in C : HasRoom(c)}
    IN  /\ queue' = [c \in Client |-> IF c \in gets THEN Append(queue[c], m) ELSE queue[c]]
        /\ told' = [c \in Client |-> told[c] \cup (IF c \in gets THEN {m} \ {"retrace"} ELSE {})]
        /\ missed' = IF pressed THEN missed \cup (C \ gets) ELSE missed

IrqMgr_SendMesgForClient(m) == SendTo(Range(clients), m)

IrqMgr_AddClient_Link(c) ==
    /\ adding[c] = "out"
    /\ clients' = <<c>> \o clients
    /\ adding' = [adding EXCEPT ![c] = "linked"]
    /\ UNCHANGED <<irqQ, irqMsg, resetStatus, irqAlive, pressed, clientVars>>

IrqMgr_AddClient_Ask(c, from, to, status, m) ==
    /\ adding[c] = from
    /\ SendTo(IF resetStatus >= status THEN {c} ELSE {}, m)
    /\ adding' = [adding EXCEPT ![c] = to]
    /\ UNCHANGED <<irqQ, irqMsg, resetStatus, clients, irqAlive, pressed>>

(* A client that looks at the status before it is in the list. *)
IrqMgr_AddClient_AskFirst(c) ==
    \/ IrqMgr_AddClient_Ask(c, "out", "asked", STATUS_PRENMI, "prenmi")
    \/ /\ adding[c] = "asked" /\ clients' = <<c>> \o clients
       /\ adding' = [adding EXCEPT ![c] = "in"]
       /\ UNCHANGED <<irqQ, irqMsg, resetStatus, irqAlive, pressed, clientVars>>
IrqMgr_AddClient(c) ==
    \/ IrqMgr_AddClient_Link(c)
    \/ IrqMgr_AddClient_Ask(c, "linked", "asked", STATUS_PRENMI, "prenmi")
    \/ IrqMgr_AddClient_Ask(c, "asked", "in", STATUS_NMI, "nmi")

IrqMgr_RemoveClient(c) ==
    /\ clients' = RemoveFirst(clients, c)
    /\ adding' = [adding EXCEPT ![c] = "removed"]
    /\ UNCHANGED <<irqQ, irqMsg, resetStatus, irqAlive, pressed>>

-----------------------------------------------------------------------------
(* The handlers.  A message is in the timer's msg field until it is sent.   *)

SetTimer(countdown, m) == osSetTimer(irqTimer, countdown) /\ irqMsg' = m

IrqMgr_HandlePreNMI ==
    /\ irqQ[1] = "PRE_NMI"
    /\ resetStatus' = STATUS_PRENMI
    /\ SetTimer(T450, "PRENMI450")
    /\ IrqMgr_SendMesgForClient("prenmi")
    /\ UNCHANGED irqAlive

IrqMgr_HandlePRENMI450_NoTimer ==
    /\ irqQ[1] = "PRENMI450"
    /\ resetStatus' = STATUS_NMI
    /\ IrqMgr_SendMesgForClient("nmi")
    /\ UNCHANGED <<irqAlive, irqMsg, timerVars>>
IrqMgr_HandlePRENMI450 ==
    /\ irqQ[1] = "PRENMI450"
    /\ resetStatus' = STATUS_NMI
    /\ SetTimer(T30, "PRENMI480")
    /\ IrqMgr_SendMesgForClient("nmi")
    /\ UNCHANGED irqAlive

(* osAfterPreNMI fails while the SP runs: the timer is then set once more,  *)
(* for another try, although it is active.  Alone in the list it is linked  *)
(* to itself through its null prev, which stops the thread.                 *)
IrqMgr_HandlePRENMI480 ==
    /\ irqQ[1] = "PRENMI480"
    /\ \/ SetTimer(T20, "PRENMI500") /\ UNCHANGED irqAlive
       \/ /\ damaged' = TRUE /\ irqMsg' = "PRENMI480"
          /\ irqAlive' \in {FALSE, timers # <<>>}
          /\ UNCHANGED <<timers, value, elapsed, left, due, stopCall>>
    /\ UNCHANGED <<resetStatus, clientVars>>

IrqMgr_HandlePRENMI500 ==
    /\ irqQ[1] = "PRENMI500"
    /\ irqAlive' = FALSE
    /\ UNCHANGED <<resetStatus, irqMsg, clientVars, timerVars>>

IrqMgr_HandleRetrace ==
    /\ irqQ[1] = "RETRACE"
    /\ IrqMgr_SendMesgForClient("retrace")
    /\ UNCHANGED <<resetStatus, irqMsg, irqAlive, timerVars>>

IrqMgr_ThreadEntry ==
    /\ irqAlive /\ irqQ # <<>>
    /\ \/ IrqMgr_HandlePreNMI \/ IrqMgr_HandlePRENMI450 \/ IrqMgr_HandlePRENMI480
       \/ IrqMgr_HandlePRENMI500 \/ IrqMgr_HandleRetrace
    /\ irqQ' = Tail(irqQ)
    /\ UNCHANGED <<clients, adding, pressed>>

-----------------------------------------------------------------------------
(* What sends the messages: an interrupt drops one that finds irqQ full.    *)

Post(m) == irqQ' = IF Len(irqQ) < IrqQCap THEN Append(irqQ, m) ELSE irqQ

(* The unit of time is the time between two retraces. *)
Retrace ==
    /\ CountUp /\ Post("RETRACE")
    /\ UNCHANGED <<irqMsg, resetStatus, clients, irqAlive, adding, pressed, clientVars>>

ResetButton ==
    /\ ~pressed /\ pressed' = TRUE
    /\ Post("PRE_NMI")
    /\ UNCHANGED <<irqMsg, resetStatus, clients, irqAlive, adding, clientVars, timerVars>>

(* What a damaged list leads to is left out: no timer runs out, is set or   *)
(* stopped any more.                                                        *)
TimerInterrupt ==
    /\ ~damaged
    /\ __osTimerInterrupt
    /\ IF irqTimer \in SentBy(Expired) THEN Post(irqMsg) ELSE UNCHANGED irqQ
    /\ UNCHANGED <<irqMsg, resetStatus, clients, irqAlive, adding, pressed, clientVars>>

(* The graph thread sets its timer for each frame, and stops it, whether or *)
(* not it has run out meanwhile.                                            *)
OtherThread_NoStop ==
    /\ ~damaged
    /\ osSetTimer(otherTimer, TOther)
    /\ UNCHANGED <<irqVars, clientVars>>
OtherThread ==
    /\ ~damaged
    /\ \/ osStopTimer(otherTimer)
       \/ /\ stopCall[otherTimer] = "none" /\ ~Active(otherTimer)
          /\ osSetTimer(otherTimer, TOther)
    /\ UNCHANGED <<irqVars, clientVars>>

ClientReads(c) ==
    /\ queue[c] # <<>>
    /\ queue' = [queue EXCEPT ![c] = Tail(@)]
    /\ UNCHANGED <<timerVars, irqVars, told, missed>>

AddClient(c) == IrqMgr_AddClient(c) /\ UNCHANGED timerVars

(* The thread has run before the next retrace comes; half a second after the *)
(* button the hardware restarts the machine.                                *)
Frame == irqAlive /\ irqQ = <<>> /\ Retrace

IrqNext ==
    \/ IrqMgr_ThreadEntry \/ TimerInterrupt \/ Frame \/ ResetButton \/ OtherThread
    \/ \E c \in Client : AddClient(c) \/ ClientReads(c)

irqMgrVars == <<timerVars, irqVars, clientVars>>

(* Interrupts are served, the thread runs, retraces go on.  An interrupt may *)
(* be held up again and again by calls that set the compare register anew,  *)
(* but not for ever.                                                        *)
IrqSpec ==
    /\ IrqInit /\ [][IrqNext]_irqMgrVars
    /\ WF_irqMgrVars(IrqMgr_ThreadEntry) /\ SF_irqMgrVars(TimerInterrupt)
    /\ WF_irqMgrVars(Frame)

-----------------------------------------------------------------------------
(* A timer is set only when it is not in the list, but for the second try   *)
(* of IrqMgr_HandlePRENMI480 when the SP has not halted (irqmgr.c:148):     *)
(* the stages of the reset share one timer, and the graph thread stops its  *)
(* own before it sets it again, also when that runs out between the two     *)
(* halves of osStopTimer.                                                   *)
Retries ==
    /\ irqQ # <<>> /\ IrqMgr_HandlePRENMI480 /\ irqMsg' = "PRENMI480"

OnlyRetryDamages == [][damaged' => damaged \/ Retries]_irqMgrVars

(* A client learns of the reset however IrqMgr_AddClient and the handlers    *)
(* interleave, unless its queue was full: once added it was told of what     *)
(* the status says.                                                         *)
ResetTold ==
    \A c \in Client :
        adding[c] = "in" /\ c \notin missed =>
            /\ resetStatus >= STATUS_PRENMI => "prenmi" \in told[c]
            /\ resetStatus = STATUS_NMI => "nmi" \in told[c]

(* The reset runs through its stages up to the end of the thread, also      *)
(* after another thread ended inside osStopTimer, unless its timer was set  *)
(* twice.                                                                   *)
ResetEnds == pressed ~> ~irqAlive \/ damaged
=============================================================================
