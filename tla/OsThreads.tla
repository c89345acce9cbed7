----------------------------- MODULE OsThreads -----------------------------
(***************************************************************************)
(* The threads and the message queues of the operating system the game is  *)
(* linked with (src/src/libultra_boot_O1, src/asm/exceptasm.s): the run    *)
(* queue, priorities, and osSendMesg, osRecvMesg, osJamMesg on ring        *)
(* buffers with two lists of waiting threads each.                         *)
(*                                                                         *)
(* A system call runs with interrupts disabled, up to its end or to the    *)
(* point where it gives the processor away; a thread that waits in a call  *)
(* comes back to the loop of that call, with interrupts still disabled.    *)
(* So a call is one action, done as often as the loop turns.  Threads      *)
(* make any calls, in any order; an interrupt sends any messages.          *)
(***************************************************************************)
EXTENDS Integers, Sequences, FiniteSets, SequencesExt

CONSTANTS
    Thread,         \* the OSThread structures
    Idle,           \* the idle thread, which never waits
    Queue,          \* the OSMesgQueue structures
    Msg,            \* the messages
    MsgCount,       \* capacity of each queue
    Pri,            \* priorities, but for the 0 that Idle gives itself
    NULL,
    MayStop,        \* TRUE: threads stop and destroy others or themselves
    MayRob          \* TRUE: they destroy a thread between its wake-up and its turn

ASSUME ThreadsAssumption ==
    Idle \in Thread /\ Pri \subseteq Nat \ {0} /\ {MayStop, MayRob} \subseteq BOOLEAN
ASSUME QueuesAssumption == MsgCount \in [Queue -> Nat \ {0}] /\ NULL \notin Msg

(* The lists a thread may be in, highest priority first.  In the code they  *)
(* end in __osThreadTail, a dummy of priority -1.                           *)
RunQueue == <<"run", NULL>>
MtQueue(q) == <<"empty", q>>
FullQueue(q) == <<"full", q>>
NoList == <<"none", NULL>>
Lists == {RunQueue} \cup {MtQueue(q) : q \in Queue} \cup {FullQueue(q) : q \in Queue}

(* What a thread waits to do. *)
NoCall == [op |-> "none", mq |-> NULL, mesg |-> NULL]
Sends == [op : {"send", "jam"}, mq : Queue, mesg : Msg]
Receives == [op : {"recv"}, mq : Queue, mesg : {NULL}]

VARIABLES
    os,             \* running, and state, priority, queue, list: see TypeOK
    alive,          \* the threads in __osActiveQueue
    call,           \* the call each thread waits in, or its end is still to come
    handling,       \* __osException is running
    first, validCount, msg,     \* the fields of each queue
    received        \* the message that was received last

threadVars == <<os, alive, call, handling>>
mesgVars == <<first, validCount, msg, received>>
vars == <<threadVars, mesgVars>>

ThreadsTyped ==
    /\ os \in [running : Thread,
               state : [Thread -> {"stopped", "runnable", "running", "waiting"}],
               priority : [Thread -> Pri \cup {0}],
               queue : [Thread -> Lists \cup {NoList}],
               list : [Lists -> Seq(Thread)]]
    /\ alive \subseteq Thread /\ handling \in BOOLEAN
    /\ call \in [Thread -> Sends \cup Receives \cup {NoCall}]

MesgTyped ==
    /\ first \in [Queue -> Nat] /\ \A q \in Queue : first[q] < MsgCount[q]
    /\ validCount \in [Queue -> Nat] /\ \A q \in Queue : validCount[q] <= MsgCount[q]
    /\ msg = [q \in Queue |-> msg[q]]
    /\ \A q \in Queue : msg[q] \in [0 .. MsgCount[q] - 1 -> Msg \cup {NULL}]
    /\ received \in Msg \cup {NULL}

-----------------------------------------------------------------------------
(* Functions of the thread part s of the state.                             *)

EnqueueThread(s, l, t) ==
    LET Lower(u) == s.priority[u] < s.priority[t]
        i == SelectInSeq(s.list[l], Lower)
    IN  [s EXCEPT !.queue[t] = l,
                  !.list[l] = IF i = 0 THEN Append(@, t) ELSE InsertAt(@, i, t)]

PopThread(s, l) == [s EXCEPT !.list[l] = Tail(@)]

DequeueThread_Not(s, l, t) == s
DequeueThread(s, l, t) == [s EXCEPT !.list[l] = RemoveFirst(@, t)]

(* After a change of priority. *)
Reposition_Not(s, t) == s
Reposition(s, t) == EnqueueThread(DequeueThread(s, s.queue[t], t), s.queue[t], t)

Dispatch(s) ==
    LET t == Head(s.list[RunQueue])
    IN  [PopThread(s, RunQueue) EXCEPT !.running = t, !.state[t] = "running"]

EnqueueAndYield(s, l) == Dispatch(EnqueueThread(s, l, s.running))
Runnable(s, t) == EnqueueThread([s EXCEPT !.state[t] = "runnable"], RunQueue, t)

Outranked(s) ==
    /\ s.list[RunQueue] # <<>>
    /\ s.priority[s.running] < s.priority[Head(s.list[RunQueue])]

(* The end of osStartThread and of osSetThreadPri. *)
Preempt(s) == IF Outranked(s) THEN Dispatch(Runnable(s, s.running)) ELSE s

(* A stopped thread that was waiting goes back to its list, whose first     *)
(* thread is made to look again, still in state "waiting".                  *)
WaitAgain_NoLook(s, l, t) == EnqueueThread([s EXCEPT !.state[t] = "waiting"], l, t)
WaitAgain(s, l, t) ==
    LET w == EnqueueThread([s EXCEPT !.state[t] = "waiting"], l, t)
    IN  EnqueueThread(PopThread(w, l), RunQueue, Head(w.list[l]))

StartThread(s, t) ==
    Preempt(IF s.state[t] = "waiting" \/ s.queue[t] \in {NoList, RunQueue}
            THEN Runnable(s, t)
            ELSE WaitAgain(s, s.queue[t], t))

(* osStartThread(__osPopThread(l)), if a thread waits there. *)
Wake(s, l) ==
    IF s.list[l] = <<>> THEN s ELSE StartThread(PopThread(s, l), Head(s.list[l]))

Wait(s, l) == EnqueueAndYield([s EXCEPT !.state[s.running] = "waiting"], l)

-----------------------------------------------------------------------------
(* The ring buffers.                                                        *)

Full(q) == validCount[q] >= MsgCount[q]
Empty(q) == validCount[q] = 0
NextIndex(q) == (first[q] + validCount[q]) % MsgCount[q]
JamFirst_NoTurn(q) == first[q] - 1
JamFirst(q) == (first[q] + MsgCount[q] - 1) % MsgCount[q]

PutLast(q, m) ==
    /\ msg' = [msg EXCEPT ![q][NextIndex(q)] = m]
    /\ validCount' = [validCount EXCEPT ![q] = @ + 1]
    /\ UNCHANGED <<first, received>>

PutFirst(q, m) ==
    /\ first' = [first EXCEPT ![q] = JamFirst(q)]
    /\ msg' = [msg EXCEPT ![q][JamFirst(q)] = m]
    /\ validCount' = [validCount EXCEPT ![q] = @ + 1]
    /\ UNCHANGED received

Take(q) ==
    /\ received' = msg[q][first[q]]
    /\ first' = [first EXCEPT ![q] = (@ + 1) % MsgCount[q]]
    /\ validCount' = [validCount EXCEPT ![q] = @ - 1]
    /\ UNCHANGED msg

-----------------------------------------------------------------------------
(* The calls of the running thread.  With OS_MESG_NOBLOCK a call that would *)
(* wait returns and changes nothing.                                        *)

Calls(c) == ~handling /\ call[os.running] \in {NoCall, c}
Free == Calls(NoCall)

WaitsIn(c, l) ==
    /\ os.running # Idle
    /\ os' = Wait(os, l)
    /\ call' = [call EXCEPT ![os.running] = c]
    /\ UNCHANGED <<alive, handling, mesgVars>>

Wakes(l) ==
    /\ os' = Wake(os, l)
    /\ call' = [call EXCEPT ![os.running] = NoCall]
    /\ UNCHANGED <<alive, handling>>

osSendMesg(q, m) ==
    LET c == [op |-> "send", mq |-> q, mesg |-> m]
    IN  /\ Calls(c)
        /\ \/ Full(q) /\ WaitsIn(c, FullQueue(q))
           \/ ~Full(q) /\ PutLast(q, m) /\ Wakes(MtQueue(q))

(* Mutant: the message goes behind the others. *)
osJamMesg_Last(q, m) ==
    LET c == [op |-> "jam", mq |-> q, mesg |-> m]
    IN  /\ Calls(c)
        /\ \/ Full(q) /\ WaitsIn(c, FullQueue(q))
           \/ ~Full(q) /\ PutLast(q, m) /\ Wakes(MtQueue(q))

osJamMesg(q, m) ==
    LET c == [op |-> "jam", mq |-> q, mesg |-> m]
    IN  /\ Calls(c)
        /\ \/ Full(q) /\ WaitsIn(c, FullQueue(q))
           \/ ~Full(q) /\ PutFirst(q, m) /\ Wakes(MtQueue(q))

osRecvMesg(q) ==
    LET c == [op |-> "recv", mq |-> q, mesg |-> NULL]
    IN  /\ Calls(c)
        /\ \/ Empty(q) /\ WaitsIn(c, MtQueue(q))
           \/ ~Empty(q) /\ Take(q) /\ Wakes(FullQueue(q))

(* A structure is used again only after its thread was destroyed. *)
osCreateThread(t, p) ==
    /\ Free /\ t \notin alive
    /\ os' = [os EXCEPT !.state[t] = "stopped", !.queue[t] = NoList, !.priority[t] = p]
    /\ alive' = alive \cup {t}
    /\ UNCHANGED <<call, handling, mesgVars>>

(* The program starts threads it has just created or that were stopped. *)
osStartThread(t) ==
    /\ Free /\ t \in alive /\ os.state[t] = "stopped"
    /\ os' = StartThread(os, t)
    /\ UNCHANGED <<alive, call, handling, mesgVars>>

osStopThread(t) ==
    /\ MayStop /\ Free /\ t \in alive \ {Idle} /\ os.state[t] # "stopped"
    /\ os' = IF t = os.running
             THEN Dispatch([os EXCEPT !.state[t] = "stopped"])
             ELSE DequeueThread([os EXCEPT !.state[t] = "stopped"], os.queue[t], t)
    /\ UNCHANGED <<alive, call, handling, mesgVars>>

(* It was taken from the list of a queue and has not come back to its call. *)
Woken(t) ==
    /\ call[t] # NoCall
    /\ \A l \in {MtQueue(call[t].mq), FullQueue(call[t].mq)} : ~Contains(os.list[l], t)

osDestroyThread(t) ==
    /\ MayStop /\ Free /\ t \in alive \ {Idle}
    /\ Woken(t) => MayRob
    /\ os' = CASE t = os.running -> Dispatch(os)
               [] t # os.running /\ os.state[t] = "stopped" -> os
               [] OTHER -> DequeueThread(os, os.queue[t], t)
    /\ alive' = alive \ {t}
    /\ call' = [call EXCEPT ![t] = NoCall]
    /\ UNCHANGED <<handling, mesgVars>>

osSetThreadPri(t, p) ==
    LET s == [os EXCEPT !.priority[t] = p]
        Moves == t # os.running /\ os.state[t] # "stopped"
    IN  /\ Free /\ t \in alive /\ p # os.priority[t]
        /\ os' = Preempt(IF Moves THEN Reposition(s, t) ELSE s)
        /\ UNCHANGED <<alive, call, handling, mesgVars>>

osYieldThread ==
    /\ Free
    /\ os' = Dispatch(Runnable(os, os.running))
    /\ UNCHANGED <<alive, call, handling, mesgVars>>

-----------------------------------------------------------------------------
(* __osException.  A thread between two turns of a waiting call has          *)
(* interrupts disabled.  An event is sent without waiting; the thread it     *)
(* wakes keeps its state, and the running one goes on until the redispatch.  *)
send_mesg(q, m) ==
    LET s == [os EXCEPT !.state[os.running] = "runnable"]
        l == MtQueue(q)
    IN  /\ handling \/ Free
        /\ \/ Full(q) /\ os' = s /\ UNCHANGED mesgVars
           \/ /\ ~Full(q) /\ PutLast(q, m)
              /\ os' = IF s.list[l] = <<>> THEN s
                       ELSE EnqueueThread(PopThread(s, l), RunQueue, Head(s.list[l]))
        /\ handling' = TRUE
        /\ UNCHANGED <<alive, call>>

redispatch ==
    /\ handling
    /\ os' = Dispatch(IF Outranked(os) THEN EnqueueThread(os, RunQueue, os.running)
                      ELSE [os EXCEPT !.list[RunQueue] = <<os.running>> \o @])
    /\ handling' = FALSE
    /\ UNCHANGED <<alive, call, mesgVars>>

-----------------------------------------------------------------------------
(* The idle thread has started and has not yet lowered its priority. *)
Init ==
    /\ os \in [running : {Idle},
               state : {[t \in Thread |-> IF t = Idle THEN "running" ELSE "stopped"]},
               priority : {[t \in Thread |-> p] : p \in Pri},
               queue : {[t \in Thread |-> IF t = Idle THEN RunQueue ELSE NoList]},
               list : {[l \in Lists |-> <<>>]}]
    /\ alive = {Idle} /\ handling = FALSE
    /\ call = [t \in Thread |-> NoCall]
    /\ first = [q \in Queue |-> 0] /\ validCount = [q \in Queue |-> 0]
    /\ msg = [q \in Queue |-> [i \in 0 .. MsgCount[q] - 1 |-> NULL]]
    /\ received = NULL

MesgCall ==
    \E q \in Queue :
        \/ \E m \in Msg : osSendMesg(q, m) \/ osJamMesg(q, m) \/ send_mesg(q, m)
        \/ osRecvMesg(q)

ThreadCall ==
    \/ \E t \in Thread : osStartThread(t) \/ osStopThread(t) \/ osDestroyThread(t)
    \/ \E t \in Thread \ {Idle}, p \in Pri : osCreateThread(t, p) \/ osSetThreadPri(t, p)
    \/ os.running = Idle /\ osSetThreadPri(Idle, 0)
    \/ osYieldThread

Next == MesgCall \/ ThreadCall \/ redispatch

Spec == Init /\ [][Next]_vars

-----------------------------------------------------------------------------
(* Type correctness; a queue never holds more than its capacity.            *)
TypeOK == ThreadsTyped /\ MesgTyped

(* A thread is in exactly the list its state stands for, once, and nowhere  *)
(* while it runs, is stopped or was destroyed (osStopThread and             *)
(* osDestroyThread take it from the list in thread->queue; a thread that an  *)
(* interrupt woke is in the run queue in state "waiting").                  *)
InOneList ==
    \A t \in Thread :
        LET In == {l \in Lists : Contains(os.list[l], t)}
            Off == t \notin alive \/ t = os.running \/ os.state[t] = "stopped"
        IN  /\ In = IF Off THEN {} ELSE {os.queue[t]}
            /\ \A l \in In : Cardinality({i \in DOMAIN os.list[l] : os.list[l][i] = t}) = 1
            /\ ~Off => /\ os.state[t] \in {"runnable", "waiting"}
                       /\ os.queue[t] # RunQueue => call[t].mq = os.queue[t][2]
                       /\ os.state[t] = "runnable" => os.queue[t] = RunQueue

(* Outside an exception, no thread in the run queue has a higher priority   *)
(* than the running one, whatever woke it or changed a priority.            *)
HighestRuns ==
    ~handling =>
        \A t \in Range(os.list[RunQueue]) : os.priority[t] <= os.priority[os.running]

(* Of the threads that wait for a queue the one of the highest priority is  *)
(* woken first, also after osSetThreadPri.                                  *)
BestWaiterFirst ==
    \A l \in Lists : \A i, j \in DOMAIN os.list[l] :
        i < j => os.priority[os.list[l][i]] >= os.priority[os.list[l][j]]

(* Priorities decide who runs and who is woken, also after osSetThreadPri.   *)
PriorityRespected == HighestRuns /\ BestWaiterFirst

(* No wake-up is lost: while receivers wait, each message in the queue has  *)
(* a receiver of its own that was woken and has not looked yet, and while   *)
(* senders wait, so has each free place a sender.  (With MayRob it fails: a  *)
(* thread destroyed before its turn takes the wake-up with it.)              *)
NoLostWakeup ==
    \A q \in Queue :
        LET Awake(ops, l) ==
                {t \in alive : call[t].mq = q /\ call[t].op \in ops} \ Range(os.list[l])
        IN  /\ os.list[MtQueue(q)] # <<>> =>
                   validCount[q] <= Cardinality(Awake({"recv"}, MtQueue(q)))
            /\ os.list[FullQueue(q)] # <<>> =>
                   MsgCount[q] - validCount[q]
                       <= Cardinality(Awake({"send", "jam"}, FullQueue(q)))

(* The messages of a queue, oldest first. *)
buf == [q \in Queue |->
           [i \in 1 .. validCount[q] |-> msg[q][(first[q] + i - 1) % MsgCount[q]]]]

Fifo == INSTANCE BoundedFifo

(* What a call or an event does to the queue if it need not wait. *)
CallsKept ==
    \A q \in Queue :
        /\ \A m \in Msg :
               /\ ~Full(q) /\ (osSendMesg(q, m) \/ send_mesg(q, m)) => Fifo!Send(q, m)
               /\ ~Full(q) /\ osJamMesg(q, m) => Fifo!Jam(q, m)
        /\ ~Empty(q) /\ osRecvMesg(q) => Fifo!Receive(q)

(* Each queue is a bounded FIFO: the ring index arithmetic loses, doubles or *)
(* reorders nothing, whoever waits, is woken, stopped or destroyed, and     *)
(* what osSendMesg adds comes last, what osJamMesg adds first.              *)
ImplementsFifo == Fifo!Spec /\ [][CallsKept]_vars
=============================================================================
