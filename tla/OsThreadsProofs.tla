--------------------------- MODULE OsThreadsProofs ---------------------------
(***************************************************************************)
(* The threads of the operating system: for any threads, queues, priorities *)
(* and messages, whatever calls are made and whatever an interrupt sends.   *)
(***************************************************************************)
EXTENDS OsThreads, FiniteSetTheorems, SequenceTheorems, WellFoundedInduction, TLAPS

-----------------------------------------------------------------------------
(* The message queues implement bounded FIFOs.                              *)

(* An index of a ring of n places, turned at most once. *)
Turn(i, n) == IF i < n THEN i ELSE i - n

LEMMA Turned ==
    ASSUME NEW n \in Nat \ {0}, NEW i \in Nat, i < n + n
    PROVE  i % n = Turn(i, n)
<1>1. CASE i < n
    BY <1>1 DEF Turn
<1>2. CASE n <= i
  <2>1. i = n + (i - n) /\ i - n \in 0 .. n - 1
      BY <1>2
  <2> QED
      BY <2>1, <1>2 DEF Turn
<1> QED
    BY <1>1, <1>2

(* What a step does to the queues. *)
MesgStep ==
    \/ \E q \in Queue, m \in Msg : ~Full(q) /\ (PutLast(q, m) \/ PutFirst(q, m))
    \/ \E q \in Queue : ~Empty(q) /\ Take(q)
    \/ UNCHANGED mesgVars

(* The threads part of the calls leaves the queues alone. *)
LEMMA MesgSteps == [Next]_vars => MesgStep
<1> SUFFICES ASSUME [Next]_vars PROVE MesgStep
    OBVIOUS
<1>1. CASE MesgCall
  <2>1. PICK q \in Queue : \/ \E m \in Msg : osSendMesg(q, m) \/ osJamMesg(q, m) \/ send_mesg(q, m)
                           \/ osRecvMesg(q)
      BY <1>1 DEF MesgCall
  <2>2. CASE osRecvMesg(q)
      BY <2>2 DEF osRecvMesg, MesgStep, WaitsIn
  <2>3. ASSUME NEW m \in Msg, osSendMesg(q, m)
        PROVE  MesgStep
      BY <2>3 DEF osSendMesg, MesgStep, WaitsIn
  <2>4. ASSUME NEW m \in Msg, osJamMesg(q, m)
        PROVE  MesgStep
      BY <2>4 DEF osJamMesg, MesgStep, WaitsIn
  <2>5. ASSUME NEW m \in Msg, send_mesg(q, m)
        PROVE  MesgStep
      BY <2>5 DEF send_mesg, MesgStep
  <2> QED
      BY <2>1, <2>2, <2>3, <2>4, <2>5
<1>2. CASE ThreadCall
    BY <1>2 DEF ThreadCall, MesgStep, osStartThread, osStopThread, osDestroyThread,
               osCreateThread, osSetThreadPri, osYieldThread
<1>3. CASE redispatch
    BY <1>3 DEF redispatch, MesgStep
<1>4. CASE UNCHANGED vars
    BY <1>4 DEF vars, MesgStep
<1> QED
    BY <1>1, <1>2, <1>3, <1>4 DEF Next

-----------------------------------------------------------------------------
LEMMA IndicesInRing ==
    ASSUME MesgTyped, NEW q \in Queue
    PROVE  /\ MsgCount[q] \in Nat \ {0}
           /\ NextIndex(q) \in 0 .. MsgCount[q] - 1
           /\ JamFirst(q) \in 0 .. MsgCount[q] - 1
           /\ (first[q] + 1) % MsgCount[q] \in 0 .. MsgCount[q] - 1
BY QueuesAssumption DEF MesgTyped, NextIndex, JamFirst

LEMMA MesgTypedInit == Init => MesgTyped
BY QueuesAssumption DEF Init, MesgTyped

LEMMA MesgTypedStep == MesgTyped /\ [Next]_vars => MesgTyped'
<1> SUFFICES ASSUME MesgTyped, MesgStep PROVE MesgTyped'
    BY MesgSteps
<1>1. ASSUME NEW q \in Queue, NEW m \in Msg, ~Full(q), PutLast(q, m)
      PROVE  MesgTyped'
  <2>1. NextIndex(q) \in 0 .. MsgCount[q] - 1 /\ MsgCount[q] \in Nat \ {0}
      BY IndicesInRing
  <2>2. validCount' \in [Queue -> Nat] /\ \A p \in Queue : validCount'[p] <= MsgCount[p]
      BY <1>1, <2>1 DEF MesgTyped, PutLast, Full
  <2>3. /\ msg' = [p \in Queue |-> msg'[p]]
        /\ \A p \in Queue : msg'[p] \in [0 .. MsgCount[p] - 1 -> Msg \cup {NULL}]
      BY <1>1, <2>1 DEF MesgTyped, PutLast
  <2> QED
      BY <1>1, <2>2, <2>3 DEF MesgTyped, PutLast
<1>2. ASSUME NEW q \in Queue, NEW m \in Msg, ~Full(q), PutFirst(q, m)
      PROVE  MesgTyped'
  <2>1. JamFirst(q) \in 0 .. MsgCount[q] - 1 /\ MsgCount[q] \in Nat \ {0}
      BY IndicesInRing
  <2>2. validCount' \in [Queue -> Nat] /\ \A p \in Queue : validCount'[p] <= MsgCount[p]
      BY <1>2, <2>1 DEF MesgTyped, PutFirst, Full
  <2>3. /\ msg' = [p \in Queue |-> msg'[p]]
        /\ \A p \in Queue : msg'[p] \in [0 .. MsgCount[p] - 1 -> Msg \cup {NULL}]
      BY <1>2, <2>1 DEF MesgTyped, PutFirst
  <2>4. first' \in [Queue -> Nat] /\ \A p \in Queue : first'[p] < MsgCount[p]
      BY <1>2, <2>1 DEF MesgTyped, PutFirst
  <2> QED
      BY <1>2, <2>2, <2>3, <2>4 DEF MesgTyped, PutFirst
<1>3. ASSUME NEW q \in Queue, ~Empty(q), Take(q)
      PROVE  MesgTyped'
  <2>1. (first[q] + 1) % MsgCount[q] \in 0 .. MsgCount[q] - 1 /\ MsgCount[q] \in Nat \ {0}
      BY IndicesInRing
  <2>2. validCount' \in [Queue -> Nat] /\ \A p \in Queue : validCount'[p] <= MsgCount[p]
      BY <1>3, <2>1, SMTT(30) DEF MesgTyped, Take, Empty
  <2>3. first' \in [Queue -> Nat] /\ \A p \in Queue : first'[p] < MsgCount[p]
      BY <1>3, <2>1 DEF MesgTyped, Take
  <2>4. received' \in Msg \cup {NULL}
      BY <1>3, <2>1 DEF MesgTyped, Take
  <2> QED
      BY <1>3, <2>2, <2>3, <2>4 DEF MesgTyped, Take
<1>4. CASE UNCHANGED mesgVars
    BY <1>4 DEF MesgTyped, mesgVars
<1> QED
    BY <1>1, <1>2, <1>3, <1>4 DEF MesgStep

(* The indices stay within the ring and a queue within its capacity.        *)
THEOREM MesgTypeCorrect == Spec => []MesgTyped
<1>1. Init => MesgTyped
    BY MesgTypedInit
<1>2. MesgTyped /\ [Next]_vars => MesgTyped'
    BY MesgTypedStep
<1> QED
    BY <1>1, <1>2, PTL DEF Spec

-----------------------------------------------------------------------------
(* The messages of one queue with first index f, n messages and ring r of   *)
(* c places: buf[q] is Messages(first[q], validCount[q], msg[q], MsgCount[q]). *)
Messages(f, n, r, c) == [i \in 1 .. n |-> r[(f + i - 1) % c]]

Slot == Msg \cup {NULL}

LEMMA MessagesType ==
    ASSUME NEW c \in Nat \ {0}, NEW f \in 0 .. c - 1, NEW n \in 0 .. c,
           NEW r \in [0 .. c - 1 -> Slot]
    PROVE  Messages(f, n, r, c) \in Seq(Slot) /\ Len(Messages(f, n, r, c)) = n
<1>1. ASSUME NEW i \in 1 .. n PROVE r[(f + i - 1) % c] \in Slot
  <2>1. f + i - 1 \in Nat /\ f + i - 1 < c + c
      OBVIOUS
  <2>2. (f + i - 1) % c = Turn(f + i - 1, c)
      BY <2>1, Turned
  <2> QED
      BY <2>1, <2>2 DEF Turn
<1> QED
    BY <1>1 DEF Messages

LEMMA PutLastAppends ==
    ASSUME NEW c \in Nat \ {0}, NEW f \in 0 .. c - 1, NEW n \in 0 .. c - 1,
           NEW r \in [0 .. c - 1 -> Slot], NEW m \in Slot
    PROVE  Messages(f, n + 1, [r EXCEPT ![(f + n) % c] = m], c) = Append(Messages(f, n, r, c), m)
<1> DEFINE new == [r EXCEPT ![(f + n) % c] = m]
           old == Messages(f, n, r, c)
<1>1. (f + n) % c = Turn(f + n, c)
  <2>1. f + n \in Nat /\ f + n < c + c
      OBVIOUS
  <2> QED
      BY <2>1, Turned
<1>2. ASSUME NEW i \in 1 .. n
      PROVE  new[(f + i - 1) % c] = r[(f + i - 1) % c]
  <2>1. f + i - 1 \in Nat /\ f + i - 1 < c + c
      OBVIOUS
  <2>2. (f + i - 1) % c = Turn(f + i - 1, c)
      BY <2>1, Turned
  <2> QED
      BY <1>1, <2>2 DEF Turn
<1>3. new[(f + (n + 1) - 1) % c] = m
  <2>1. f + (n + 1) - 1 = f + n
      OBVIOUS
  <2> QED
      BY <1>1, <2>1 DEF Turn
<1>4. old \in Seq(Slot) /\ Len(old) = n /\ old = [i \in 1 .. n |-> r[(f + i - 1) % c]]
    BY MessagesType DEF Messages
<1>5. Append(old, m) = [i \in 1 .. n + 1 |-> IF i = n + 1 THEN m ELSE old[i]]
    BY <1>4
<1>6. ASSUME NEW i \in 1 .. n + 1
      PROVE  new[(f + i - 1) % c] = IF i = n + 1 THEN m ELSE old[i]
  <2>1. CASE i = n + 1
      BY <2>1, <1>3
  <2>2. CASE i # n + 1
      BY <2>2, <1>2, <1>4
  <2> QED
      BY <2>1, <2>2
<1> QED
    BY <1>5, <1>6 DEF Messages

LEMMA PutFirstPrepends ==
    ASSUME NEW c \in Nat \ {0}, NEW f \in 0 .. c - 1, NEW n \in 0 .. c - 1,
           NEW r \in [0 .. c - 1 -> Slot], NEW m \in Slot
    PROVE  Messages((f + c - 1) % c, n + 1, [r EXCEPT ![(f + c - 1) % c] = m], c)
               = <<m>> \o Messages(f, n, r, c)
<1> DEFINE g == (f + c - 1) % c
           new == [r EXCEPT ![g] = m]
           old == Messages(f, n, r, c)
<1>1. g = (IF f = 0 THEN c - 1 ELSE f - 1) /\ g \in 0 .. c - 1
  <2>1. f + c - 1 \in Nat /\ f + c - 1 < c + c
      OBVIOUS
  <2>2. g = Turn(f + c - 1, c)
      BY <2>1, Turned
  <2> QED
      BY <2>2 DEF Turn
<1> HIDE DEF g
<1>2. ASSUME NEW i \in 1 .. n
      PROVE  new[(g + (i + 1) - 1) % c] = r[(f + i - 1) % c]
  <2>1. /\ f + i - 1 \in Nat /\ f + i - 1 < c + c
        /\ g + i \in Nat /\ g + i < c + c
        /\ g + (i + 1) - 1 = g + i
      BY <1>1
  <2>2. (f + i - 1) % c = Turn(f + i - 1, c)
      BY <2>1, Turned
  <2>3. (g + i) % c = Turn(g + i, c)
      BY <2>1, Turned
  <2>4. Turn(g + i, c) = Turn(f + i - 1, c) /\ Turn(g + i, c) # g
      BY <1>1 DEF Turn
  <2>5. Turn(f + i - 1, c) \in 0 .. c - 1
      BY <2>1 DEF Turn
  <2> QED
      BY <2>1, <2>2, <2>3, <2>4, <2>5
<1>3. new[(g + 1 - 1) % c] = m
  <2>1. g \in Nat /\ g < c + c /\ g < c /\ g + 1 - 1 = g
      BY <1>1
  <2>2. g % c = Turn(g, c)
      BY <2>1, Turned
  <2> QED
      BY <1>1, <2>1, <2>2 DEF Turn
<1>4. old \in Seq(Slot) /\ Len(old) = n /\ old = [i \in 1 .. n |-> r[(f + i - 1) % c]]
    BY MessagesType DEF Messages
<1>5. <<m>> \o old = [i \in 1 .. n + 1 |-> IF i = 1 THEN m ELSE old[i - 1]]
    BY <1>4
<1>6. ASSUME NEW i \in 1 .. n + 1
      PROVE  new[(g + i - 1) % c] = IF i = 1 THEN m ELSE old[i - 1]
  <2>1. CASE i = 1
      BY <2>1, <1>3
  <2>2. CASE i # 1
    <3>1. i - 1 \in 1 .. n /\ (i - 1) + 1 = i
        BY <2>2
    <3> QED
        BY <2>2, <3>1, <1>2, <1>4
  <2> QED
      BY <2>1, <2>2
<1>7. Messages(g, n + 1, new, c) = <<m>> \o old
    BY <1>5, <1>6 DEF Messages
<1> QED
    BY <1>7 DEF g

LEMMA TakeRemovesHead ==
    ASSUME NEW c \in Nat \ {0}, NEW f \in 0 .. c - 1, NEW n \in 1 .. c,
           NEW r \in [0 .. c - 1 -> Slot]
    PROVE  /\ Messages(f, n, r, c) # <<>>
           /\ Head(Messages(f, n, r, c)) = r[f]
           /\ Messages((f + 1) % c, n - 1, r, c) = Tail(Messages(f, n, r, c))
<1> DEFINE g == (f + 1) % c
           old == Messages(f, n, r, c)
<1>1. g = (IF f + 1 < c THEN f + 1 ELSE 0) /\ g \in 0 .. c - 1
  <2>1. f + 1 \in Nat /\ f + 1 < c + c
      OBVIOUS
  <2>2. g = Turn(f + 1, c)
      BY <2>1, Turned
  <2> QED
      BY <2>2 DEF Turn
<1> HIDE DEF g
<1>2. ASSUME NEW i \in 1 .. n - 1
      PROVE  (g + i - 1) % c = (f + (i + 1) - 1) % c
  <2>1. /\ f + i \in Nat /\ f + i < c + c
        /\ g + i - 1 \in Nat /\ g + i - 1 < c + c
        /\ f + (i + 1) - 1 = f + i
      BY <1>1
  <2>2. (f + i) % c = Turn(f + i, c)
      BY <2>1, Turned
  <2>3. (g + i - 1) % c = Turn(g + i - 1, c)
      BY <2>1, Turned
  <2>4. Turn(g + i - 1, c) = Turn(f + i, c)
      BY <1>1 DEF Turn
  <2> QED
      BY <2>1, <2>2, <2>3, <2>4
<1>3. (f + 1 - 1) % c = f
  <2>1. f \in Nat /\ f < c + c /\ f < c /\ f + 1 - 1 = f
      OBVIOUS
  <2>2. f % c = Turn(f, c)
      BY <2>1, Turned
  <2> QED
      BY <2>1, <2>2 DEF Turn
<1>4. old \in Seq(Slot) /\ Len(old) = n /\ old = [i \in 1 .. n |-> r[(f + i - 1) % c]]
    BY MessagesType DEF Messages
<1>5. old # <<>> /\ Head(old) = r[f]
    BY <1>3, <1>4
<1>6. Tail(old) = [i \in 1 .. n - 1 |-> old[i + 1]]
    BY <1>4
<1>7. ASSUME NEW i \in 1 .. n - 1
      PROVE  r[(g + i - 1) % c] = old[i + 1]
    BY <1>2, <1>4, SMTT(30)
<1>8. Messages(g, n - 1, r, c) = Tail(old)
    BY <1>6, <1>7 DEF Messages
<1> QED
    BY <1>5, <1>8 DEF g

-----------------------------------------------------------------------------
(* The refinement. *)
LEMMA BufMessages ==
    buf = [q \in Queue |-> Messages(first[q], validCount[q], msg[q], MsgCount[q])]
BY DEF buf, Messages

LEMMA QueueType ==
    ASSUME MesgTyped, NEW q \in Queue
    PROVE  /\ MsgCount[q] \in Nat \ {0}
           /\ first[q] \in 0 .. MsgCount[q] - 1
           /\ validCount[q] \in 0 .. MsgCount[q]
           /\ msg[q] \in [0 .. MsgCount[q] - 1 -> Msg \cup {NULL}]
           /\ Len(buf[q]) = validCount[q]
           /\ buf[q] = Messages(first[q], validCount[q], msg[q], MsgCount[q])
<1> DEFINE c == MsgCount[q]
           f == first[q]
           n == validCount[q]
           r == msg[q]
<1>1. c \in Nat \ {0} /\ f \in 0 .. c - 1 /\ n \in 0 .. c /\ r \in [0 .. c - 1 -> Slot]
    BY QueuesAssumption DEF MesgTyped, Slot
<1>2. buf[q] = Messages(f, n, r, c)
    BY BufMessages
<1>3. Messages(f, n, r, c) \in Seq(Slot) /\ Len(Messages(f, n, r, c)) = n
  <2> HIDE DEF c, f, n, r
  <2> QED
      BY <1>1, MessagesType
<1> QED
    BY <1>1, <1>2, <1>3 DEF Slot

LEMMA SendStep ==
    ASSUME MesgTyped, NEW q \in Queue, NEW m \in Msg, ~Full(q), PutLast(q, m)
    PROVE  Fifo!Send(q, m)
<1> DEFINE c == MsgCount[q]
           f == first[q]
           n == validCount[q]
           r == msg[q]
<1>1. validCount[q] \in 0 .. MsgCount[q] - 1
    BY QueueType DEF Full
<1>2. buf'[q] = Append(buf[q], m)
  <2>1. /\ first'[q] = first[q] /\ validCount'[q] = validCount[q] + 1
        /\ msg'[q] = [msg[q] EXCEPT ![(first[q] + validCount[q]) % MsgCount[q]] = m]
      BY DEF PutLast, NextIndex, MesgTyped
  <2>2. buf'[q] = Messages(first'[q], validCount'[q], msg'[q], MsgCount[q])
      BY DEF buf, Messages
  <2>3. /\ c \in Nat \ {0} /\ f \in 0 .. c - 1 /\ n \in 0 .. c - 1
        /\ r \in [0 .. c - 1 -> Slot] /\ m \in Slot
      BY <1>1, QueueType DEF Slot
  <2>4. Messages(f, n + 1, [r EXCEPT ![(f + n) % c] = m], c) = Append(Messages(f, n, r, c), m)
    <3> HIDE DEF c, f, n, r
    <3> QED
        BY <2>3, PutLastAppends
  <2> QED
      BY <2>1, <2>2, <2>4, QueueType
<1>3. ASSUME NEW p \in Queue, p # q PROVE buf'[p] = buf[p]
  <2>1. first'[p] = first[p] /\ validCount'[p] = validCount[p] /\ msg'[p] = msg[p]
      BY <1>3 DEF PutLast, MesgTyped
  <2> QED
      BY <2>1 DEF buf
<1>4. buf' = [buf EXCEPT ![q] = Append(@, m)]
    BY <1>2, <1>3 DEF buf
<1> QED
    BY <1>1, <1>4, QueueType DEF Fifo!Send, Fifo!HasRoom, PutLast

LEMMA JamStep ==
    ASSUME MesgTyped, NEW q \in Queue, NEW m \in Msg, ~Full(q), PutFirst(q, m)
    PROVE  Fifo!Jam(q, m)
<1> DEFINE c == MsgCount[q]
           f == first[q]
           n == validCount[q]
           r == msg[q]
<1>1. validCount[q] \in 0 .. MsgCount[q] - 1
    BY QueueType DEF Full
<1>2. buf'[q] = <<m>> \o buf[q]
  <2>1. /\ first'[q] = (first[q] + MsgCount[q] - 1) % MsgCount[q]
        /\ validCount'[q] = validCount[q] + 1
        /\ msg'[q] = [msg[q] EXCEPT ![(first[q] + MsgCount[q] - 1) % MsgCount[q]] = m]
      BY DEF PutFirst, JamFirst, MesgTyped
  <2>2. buf'[q] = Messages(first'[q], validCount'[q], msg'[q], MsgCount[q])
      BY DEF buf, Messages
  <2>3. /\ c \in Nat \ {0} /\ f \in 0 .. c - 1 /\ n \in 0 .. c - 1
        /\ r \in [0 .. c - 1 -> Slot] /\ m \in Slot
      BY <1>1, QueueType DEF Slot
  <2>4. Messages((f + c - 1) % c, n + 1, [r EXCEPT ![(f + c - 1) % c] = m], c)
            = <<m>> \o Messages(f, n, r, c)
    <3> HIDE DEF c, f, n, r
    <3> QED
        BY <2>3, PutFirstPrepends
  <2> QED
      BY <2>1, <2>2, <2>4, QueueType
<1>3. ASSUME NEW p \in Queue, p # q PROVE buf'[p] = buf[p]
  <2>1. first'[p] = first[p] /\ validCount'[p] = validCount[p] /\ msg'[p] = msg[p]
      BY <1>3 DEF PutFirst, MesgTyped
  <2> QED
      BY <2>1 DEF buf
<1>4. buf' = [buf EXCEPT ![q] = <<m>> \o @]
    BY <1>2, <1>3 DEF buf
<1> QED
    BY <1>1, <1>4, QueueType DEF Fifo!Jam, Fifo!HasRoom, PutFirst

LEMMA ReceiveStep ==
    ASSUME MesgTyped, NEW q \in Queue, ~Empty(q), Take(q)
    PROVE  Fifo!Receive(q)
<1> DEFINE c == MsgCount[q]
           f == first[q]
           n == validCount[q]
           r == msg[q]
<1>1. validCount[q] \in 1 .. MsgCount[q]
    BY QueueType DEF Empty
<1>2. buf[q] # <<>> /\ received' = Head(buf[q]) /\ buf'[q] = Tail(buf[q])
  <2>1. /\ first'[q] = (first[q] + 1) % MsgCount[q]
        /\ validCount'[q] = validCount[q] - 1
        /\ msg'[q] = msg[q]
      BY DEF Take, MesgTyped
  <2>2. buf'[q] = Messages(first'[q], validCount'[q], msg'[q], MsgCount[q])
      BY DEF buf, Messages
  <2>3. /\ c \in Nat \ {0} /\ f \in 0 .. c - 1 /\ n \in 1 .. c
        /\ r \in [0 .. c - 1 -> Slot]
      BY <1>1, QueueType DEF Slot
  <2>4. /\ Messages(f, n, r, c) # <<>> /\ Head(Messages(f, n, r, c)) = r[f]
        /\ Messages((f + 1) % c, n - 1, r, c) = Tail(Messages(f, n, r, c))
    <3> HIDE DEF c, f, n, r
    <3> QED
        BY <2>3, TakeRemovesHead
  <2> QED
      BY <2>1, <2>2, <2>4, QueueType DEF Take
<1>3. ASSUME NEW p \in Queue, p # q PROVE buf'[p] = buf[p]
  <2>1. first'[p] = first[p] /\ validCount'[p] = validCount[p] /\ msg'[p] = msg[p]
      BY <1>3 DEF Take, MesgTyped
  <2> QED
      BY <2>1 DEF buf
<1>4. buf' = [buf EXCEPT ![q] = Tail(@)]
    BY <1>2, <1>3 DEF buf
<1> QED
    BY <1>2, <1>4 DEF Fifo!Receive

(* osSendMesg, osJamMesg, osRecvMesg and the events of __osException treat  *)
(* each queue as a bounded FIFO, for any threads, queues and capacities, and *)
(* each does its own part of it.                                            *)
THEOREM FifoRefinement == Spec => ImplementsFifo
<1>1. Init => Fifo!Init
  <2> SUFFICES ASSUME Init PROVE Fifo!Init
      OBVIOUS
  <2>1. ASSUME NEW q \in Queue PROVE buf[q] = <<>>
      BY DEF Init, buf
  <2>2. buf = [q \in Queue |-> <<>>]
      BY <2>1 DEF buf
  <2> QED
      BY <2>2 DEF Init, Fifo!Init
<1>2. MesgTyped /\ [Next]_vars => [Fifo!Next]_<<buf, received>>
  <2> SUFFICES ASSUME MesgTyped, MesgStep
               PROVE  Fifo!Next \/ UNCHANGED <<buf, received>>
      BY MesgSteps
  <2>1. ASSUME NEW q \in Queue, NEW m \in Msg, ~Full(q), PutLast(q, m) \/ PutFirst(q, m)
        PROVE  Fifo!Next
      BY <2>1, SendStep, JamStep DEF Fifo!Next
  <2>2. ASSUME NEW q \in Queue, ~Empty(q), Take(q)
        PROVE  Fifo!Next
      BY <2>2, ReceiveStep DEF Fifo!Next
  <2>3. ASSUME UNCHANGED mesgVars
        PROVE  UNCHANGED <<buf, received>>
      BY <2>3 DEF mesgVars, buf
  <2> QED
      BY <2>1, <2>2, <2>3 DEF MesgStep
<1>3. MesgTyped => CallsKept
  <2> SUFFICES ASSUME MesgTyped PROVE CallsKept
      OBVIOUS
  <2>1. ASSUME NEW q \in Queue, NEW m \in Msg, ~Full(q), osSendMesg(q, m) \/ send_mesg(q, m)
        PROVE  Fifo!Send(q, m)
      BY <2>1, SendStep DEF osSendMesg, send_mesg
  <2>2. ASSUME NEW q \in Queue, NEW m \in Msg, ~Full(q), osJamMesg(q, m)
        PROVE  Fifo!Jam(q, m)
      BY <2>2, JamStep DEF osJamMesg
  <2>3. ASSUME NEW q \in Queue, ~Empty(q), osRecvMesg(q)
        PROVE  Fifo!Receive(q)
      BY <2>3, ReceiveStep DEF osRecvMesg
  <2> QED
      BY <2>1, <2>2, <2>3 DEF CallsKept
<1> QED
    BY <1>1, <1>2, <1>3, MesgTypeCorrect, PTL DEF Spec, ImplementsFifo, Fifo!Spec

-----------------------------------------------------------------------------
(* The threads and their lists.                                             *)
(* Lists of threads: each at most once, highest priority first.             *)

Once(list) == \A i, j \in DOMAIN list : list[i] = list[j] => i = j

Sorted(list, pri) == \A i, j \in DOMAIN list : i < j => pri[list[i]] >= pri[list[j]]

(* The list new is the list old with t put in at place k. *)
PutIn(new, old, k, t) ==
    /\ new \in Seq(Thread) /\ Len(new) = Len(old) + 1
    /\ \A j \in 1 .. Len(old) + 1 :
           new[j] = IF j < k THEN old[j] ELSE IF j = k THEN t ELSE old[j - 1]

(* The list new is the list old without the thread at place k. *)
TakenOut(new, old, k) ==
    /\ new \in Seq(Thread) /\ Len(new) = Len(old) - 1
    /\ \A j \in 1 .. Len(old) - 1 : new[j] = IF j < k THEN old[j] ELSE old[j + 1]

LEMMA MinIsLeast ==
    ASSUME NEW S, S \subseteq Nat, S # {}
    PROVE  Min(S) \in S /\ \A x \in S : Min(S) <= x
<1> DEFINE R == OpToRel(<, Nat)
<1>1. \A m, n \in Nat : m < n => <<m, n>> \in R
    BY DEF OpToRel
<1>2. \E n \in S : \A m \in S : <<m, n>> \notin R
    BY NatLessThanWellFounded, WFMin
<1> HIDE DEF R
<1>3. PICK n \in S : \A m \in S : <<m, n>> \notin R
    BY <1>2
<1>4. ASSUME NEW m \in S PROVE n <= m
  <2>1. m \in Nat /\ n \in Nat /\ ~(m < n)
      BY <1>1, <1>3
  <2> QED
      BY <2>1
<1> QED
    BY <1>4 DEF Min

LEMMA InsertAtPutsIn ==
    ASSUME NEW s \in Seq(Thread), NEW e \in Thread, NEW i \in 1 .. Len(s) + 1
    PROVE  PutIn(InsertAt(s, i, e), s, i, e)
<1> DEFINE t == InsertAt(s, i, e)
<1>0. Len(s) \in Nat /\ i \in Nat \ {0} /\ i <= Len(s) + 1
    OBVIOUS
<1> DEFINE a == SubSeq(s, 1, i - 1)
           b == <<e>>
           c == SubSeq(s, i, Len(s))
<1>1. \A j \in 1 .. Len(s) : s[j] \in Thread
    OBVIOUS
<1>2. a \in Seq(Thread) /\ Len(a) = i - 1 /\ \A j \in 1 .. i - 1 : a[j] = s[j]
    BY <1>1, SubSeqProperties
<1>3. c \in Seq(Thread) /\ Len(c) = Len(s) + 1 - i /\ \A j \in 1 .. Len(s) + 1 - i : c[j] = s[i + j - 1]
    BY <1>1, SubSeqProperties
<1>4. b \in Seq(Thread) /\ Len(b) = 1 /\ b[1] = e
    OBVIOUS
<1>5. t = (a \o b) \o c
    BY DEF InsertAt
<1> DEFINE ab == a \o b
<1> HIDE DEF a, b, c
<1>6. /\ ab \in Seq(Thread) /\ Len(ab) = i
      /\ \A j \in 1 .. i : ab[j] = IF j <= Len(a) THEN a[j] ELSE b[j - Len(a)]
  <2>1. /\ ab \in Seq(Thread) /\ Len(ab) = Len(a) + Len(b)
        /\ \A j \in 1 .. Len(a) + Len(b) :
               ab[j] = IF j <= Len(a) THEN a[j] ELSE b[j - Len(a)]
      BY <1>2, <1>4, ConcatProperties
  <2>2. Len(a) + Len(b) = i
      BY <1>0, <1>2, <1>4
  <2> QED
      BY <2>1, <2>2
<1> HIDE DEF ab, t
<1>7. \A j \in 1 .. i : ab[j] = IF j < i THEN s[j] ELSE e
    BY <1>0, <1>2, <1>4, <1>6
<1>8. /\ t \in Seq(Thread) /\ Len(t) = Len(s) + 1
      /\ \A j \in 1 .. Len(s) + 1 : t[j] = IF j <= i THEN ab[j] ELSE c[j - i]
  <2>1. t = ab \o c
      BY <1>5 DEF ab
  <2>2. /\ ab \o c \in Seq(Thread) /\ Len(ab \o c) = Len(ab) + Len(c)
        /\ \A j \in 1 .. Len(ab) + Len(c) :
               (ab \o c)[j] = IF j <= Len(ab) THEN ab[j] ELSE c[j - Len(ab)]
      BY <1>3, <1>6, ConcatProperties
  <2>3. Len(ab) + Len(c) = Len(s) + 1
      BY <1>0, <1>3, <1>6
  <2> QED
      BY <1>6, <2>1, <2>2, <2>3
<1>9. ASSUME NEW j \in 1 .. Len(s) + 1
      PROVE  t[j] = IF j < i THEN s[j] ELSE IF j = i THEN e ELSE s[j - 1]
  <2>1. CASE j <= i
      BY <1>0, <1>7, <1>8, <2>1
  <2>2. CASE i < j
    <3>1. j - i \in 1 .. Len(s) + 1 - i /\ i + (j - i) - 1 = j - 1
        BY <1>0, <2>2
    <3>2. c[j - i] = s[j - 1]
        BY <1>3, <3>1
    <3> QED
        BY <1>0, <1>8, <2>2, <3>2
  <2> QED
      BY <2>1, <2>2
<1> QED
    BY <1>8, <1>9 DEF t, PutIn

LEMMA AppendPutsIn ==
    ASSUME NEW s \in Seq(Thread), NEW e \in Thread
    PROVE  PutIn(Append(s, e), s, Len(s) + 1, e)
BY AppendProperties DEF PutIn

LEMMA RemoveAtTakesOut ==
    ASSUME NEW s \in Seq(Thread), NEW i \in 1 .. Len(s)
    PROVE  TakenOut(RemoveAt(s, i), s, i)
<1> DEFINE t == RemoveAt(s, i)
           a == SubSeq(s, 1, i - 1)
           c == SubSeq(s, i + 1, Len(s))
<1>0. Len(s) \in Nat /\ i \in Nat \ {0} /\ i <= Len(s)
    OBVIOUS
<1>1. \A j \in 1 .. Len(s) : s[j] \in Thread
    OBVIOUS
<1>2. a \in Seq(Thread) /\ Len(a) = i - 1 /\ \A j \in 1 .. i - 1 : a[j] = s[j]
    BY <1>1, SubSeqProperties
<1>3. c \in Seq(Thread) /\ Len(c) = Len(s) - i /\ \A j \in 1 .. Len(s) - i : c[j] = s[i + j]
  <2>1. \A j \in i + 1 .. Len(s) : s[j] \in Thread
      BY <1>1
  <2>2. /\ c \in Seq(Thread) /\ Len(c) = IF i + 1 <= Len(s) THEN Len(s) - (i + 1) + 1 ELSE 0
        /\ \A j \in 1 .. Len(s) - (i + 1) + 1 : c[j] = s[(i + 1) + j - 1]
      BY <2>1, SubSeqProperties
  <2>3. Len(s) - (i + 1) + 1 = Len(s) - i /\ Len(c) = Len(s) - i
      BY <1>0, <2>2
  <2>4. ASSUME NEW j \in 1 .. Len(s) - i PROVE c[j] = s[i + j]
    <3>1. (i + 1) + j - 1 = i + j
        BY <1>0
    <3> QED
        BY <2>2, <2>3, <3>1
  <2> HIDE DEF c
  <2> QED
      BY <2>2, <2>3, <2>4
<1>4. t = a \o c
    BY DEF RemoveAt
<1> HIDE DEF a, c, t
<1>5. /\ a \o c \in Seq(Thread) /\ Len(a \o c) = Len(a) + Len(c)
      /\ \A j \in 1 .. Len(a) + Len(c) : (a \o c)[j] = IF j <= Len(a) THEN a[j] ELSE c[j - Len(a)]
    BY <1>2, <1>3, ConcatProperties
<1>6. Len(a) + Len(c) = Len(s) - 1
    BY <1>0, <1>2, <1>3
<1>7. ASSUME NEW j \in 1 .. Len(s) - 1
      PROVE  t[j] = IF j < i THEN s[j] ELSE s[j + 1]
  <2>1. t[j] = IF j <= i - 1 THEN a[j] ELSE c[j - (i - 1)]
      BY <1>2, <1>4, <1>5, <1>6
  <2>2. CASE j < i
      BY <1>0, <1>2, <2>1, <2>2
  <2>3. CASE i <= j
    <3>1. j - (i - 1) \in 1 .. Len(s) - i /\ i + (j - (i - 1)) = j + 1
        BY <1>0, <2>3
    <3>2. c[j - (i - 1)] = s[j + 1]
        BY <1>3, <3>1
    <3> QED
        BY <1>0, <2>1, <2>3, <3>2
  <2> QED
      BY <2>2, <2>3
<1> QED
    BY <1>4, <1>5, <1>6, <1>7 DEF t, TakenOut

LEMMA TailTakesOut ==
    ASSUME NEW s \in Seq(Thread), s # <<>>
    PROVE  TakenOut(Tail(s), s, 1) /\ Head(s) = s[1] /\ Len(s) \in Nat \ {0}
BY HeadTailProperties, EmptySeq DEF TakenOut

LEMMA PutInKeeps ==
    ASSUME NEW s \in Seq(Thread), NEW new, NEW k \in 1 .. Len(s) + 1, NEW t \in Thread,
           PutIn(new, s, k, t), Once(s), t \notin Range(s)
    PROVE  Once(new) /\ Range(new) = Range(s) \cup {t} /\ new # <<>>
<1> DEFINE f(n) == IF n < k THEN n ELSE n - 1
           g(n) == IF n < k THEN n ELSE n + 1
<1>0. /\ DOMAIN s = 1 .. Len(s) /\ DOMAIN new = 1 .. Len(s) + 1
      /\ Len(s) \in Nat /\ k \in Nat \ {0} /\ new[k] = t
    BY DEF PutIn
<1>1. \A n \in 1 .. Len(s) + 1 : n # k => f(n) \in 1 .. Len(s) /\ new[n] = s[f(n)]
    BY <1>0 DEF PutIn
<1>2. \A n \in 1 .. Len(s) : g(n) \in 1 .. Len(s) + 1 /\ new[g(n)] = s[n]
    BY <1>0 DEF PutIn
<1>3. \A n \in 1 .. Len(s) : s[n] # t
    BY <1>0 DEF Range
<1>4. ASSUME NEW i \in DOMAIN new, NEW j \in DOMAIN new, new[i] = new[j]
      PROVE  i = j
  <2>1. CASE i = k \/ j = k
      BY <1>0, <1>1, <1>3, <1>4, <2>1
  <2>2. CASE i # k /\ j # k
    <3>1. f(i) = f(j)
        BY <1>0, <1>1, <1>4, <2>2 DEF Once
    <3> QED
        BY <1>0, <2>2, <3>1
  <2> QED
      BY <2>1, <2>2
<1>5. Range(new) = Range(s) \cup {t}
  <2>1. ASSUME NEW u \in Range(new) PROVE u \in Range(s) \cup {t}
      BY <1>0, <1>1 DEF Range
  <2>2. ASSUME NEW u \in Range(s) PROVE u \in Range(new)
    <3>1. PICK n \in 1 .. Len(s) : s[n] = u
        BY <1>0 DEF Range
    <3> QED
        BY <1>0, <1>2, <3>1 DEF Range
  <2>3. t \in Range(new)
      BY <1>0 DEF Range
  <2> QED
      BY <2>1, <2>2, <2>3
<1>6. new # <<>>
    BY <1>0
<1> QED
    BY <1>4, <1>5, <1>6 DEF Once

LEMMA PutInSorts ==
    ASSUME NEW s \in Seq(Thread), NEW new, NEW k \in 1 .. Len(s) + 1, NEW t \in Thread,
           PutIn(new, s, k, t), NEW pri \in [Thread -> Nat], Sorted(s, pri),
           \A j \in 1 .. k - 1 : pri[s[j]] >= pri[t],
           k <= Len(s) => pri[s[k]] <= pri[t]
    PROVE  Sorted(new, pri)
<1>0. /\ DOMAIN s = 1 .. Len(s) /\ DOMAIN new = 1 .. Len(s) + 1
      /\ Len(s) \in Nat /\ k \in Nat \ {0}
      /\ \A j \in 1 .. Len(s) : s[j] \in Thread /\ pri[s[j]] \in Nat
      /\ pri[t] \in Nat
    BY DEF PutIn
<1>1. ASSUME NEW j \in 1 .. Len(s), k <= j PROVE pri[s[j]] <= pri[t]
  <2>1. k \in 1 .. Len(s) /\ pri[s[k]] <= pri[t]
      BY <1>0, <1>1
  <2>2. pri[s[k]] >= pri[s[j]]
      BY <1>0, <1>1, <2>1 DEF Sorted
  <2> QED
      BY <1>0, <2>1, <2>2
<1>2. ASSUME NEW i \in 1 .. Len(s) + 1, NEW j \in 1 .. Len(s) + 1, i < j
      PROVE  pri[new[i]] >= pri[new[j]]
  <2>1. CASE i = k
    <3>1. j - 1 \in 1 .. Len(s) /\ k <= j - 1
        BY <1>0, <1>2, <2>1
    <3>2. new[i] = t /\ new[j] = s[j - 1]
        BY <1>0, <1>2, <2>1 DEF PutIn
    <3>3. pri[s[j - 1]] <= pri[t]
        BY <1>1, <3>1
    <3> QED
        BY <1>0, <3>1, <3>2, <3>3
  <2>2. CASE j = k
      BY <1>0, <1>2, <2>2 DEF PutIn
  <2>3. CASE i # k /\ j # k
    <3> DEFINE f(n) == IF n < k THEN n ELSE n - 1
    <3>1. /\ f(i) \in 1 .. Len(s) /\ f(j) \in 1 .. Len(s)
          /\ new[i] = s[f(i)] /\ new[j] = s[f(j)] /\ f(i) < f(j)
        BY <1>0, <1>2, <2>3, SMTT(30) DEF PutIn
    <3> HIDE DEF f
    <3> QED
        BY <1>0, <3>1 DEF Sorted
  <2> QED
      BY <2>1, <2>2, <2>3
<1> QED
    BY <1>0, <1>2 DEF Sorted

LEMMA TakenOutKeeps ==
    ASSUME NEW s \in Seq(Thread), NEW new, NEW k \in 1 .. Len(s),
           TakenOut(new, s, k), Once(s)
    PROVE  Once(new) /\ Range(new) = Range(s) \ {s[k]} /\ s[k] \in Range(s)
<1> DEFINE f(n) == IF n < k THEN n ELSE n + 1
           g(n) == IF n < k THEN n ELSE n - 1
<1>0. /\ DOMAIN s = 1 .. Len(s) /\ DOMAIN new = 1 .. Len(s) - 1
      /\ Len(s) \in Nat /\ k \in Nat \ {0} /\ k <= Len(s)
    BY DEF TakenOut
<1>1. \A n \in 1 .. Len(s) - 1 : f(n) \in 1 .. Len(s) /\ f(n) # k /\ new[n] = s[f(n)]
    BY <1>0 DEF TakenOut
<1>2. \A n \in 1 .. Len(s) : n # k => g(n) \in 1 .. Len(s) - 1 /\ new[g(n)] = s[n]
    BY <1>0 DEF TakenOut
<1>3. ASSUME NEW i \in DOMAIN new, NEW j \in DOMAIN new, new[i] = new[j]
      PROVE  i = j
  <2>1. f(i) = f(j)
      BY <1>0, <1>1, <1>3 DEF Once
  <2> QED
      BY <1>0, <2>1
<1>4. Range(new) = Range(s) \ {s[k]}
  <2>1. ASSUME NEW u \in Range(new) PROVE u \in Range(s) /\ u # s[k]
    <3>1. PICK n \in 1 .. Len(s) - 1 : new[n] = u
        BY <1>0 DEF Range
    <3>2. f(n) \in 1 .. Len(s) /\ f(n) # k /\ u = s[f(n)]
        BY <1>1, <3>1
    <3> HIDE DEF f
    <3> QED
        BY <1>0, <3>2 DEF Once, Range
  <2>2. ASSUME NEW u \in Range(s), u # s[k] PROVE u \in Range(new)
    <3>1. PICK n \in 1 .. Len(s) : s[n] = u
        BY <1>0 DEF Range
    <3>2. g(n) \in 1 .. Len(s) - 1 /\ new[g(n)] = u
        BY <1>2, <2>2, <3>1
    <3> QED
        BY <1>0, <3>2 DEF Range
  <2> QED
      BY <2>1, <2>2
<1>5. s[k] \in Range(s)
    BY <1>0 DEF Range
<1> QED
    BY <1>3, <1>4, <1>5 DEF Once

LEMMA TakenOutSorts ==
    ASSUME NEW s \in Seq(Thread), NEW new, NEW k \in 1 .. Len(s),
           TakenOut(new, s, k), NEW pri, Sorted(s, pri)
    PROVE  Sorted(new, pri)
<1> DEFINE f(n) == IF n < k THEN n ELSE n + 1
<1>0. /\ DOMAIN s = 1 .. Len(s) /\ DOMAIN new = 1 .. Len(s) - 1
      /\ Len(s) \in Nat /\ k \in Nat \ {0} /\ k <= Len(s)
    BY DEF TakenOut
<1>1. \A n \in 1 .. Len(s) - 1 : f(n) \in 1 .. Len(s) /\ new[n] = s[f(n)]
    BY <1>0 DEF TakenOut
<1>2. \A i, j \in 1 .. Len(s) - 1 : i < j => f(i) < f(j)
    BY <1>0
<1> HIDE DEF f
<1> QED
    BY <1>0, <1>1, <1>2 DEF Sorted

-----------------------------------------------------------------------------
(* The thread part of the state.                                            *)

OsType ==
    [running : Thread,
     state : [Thread -> {"stopped", "runnable", "running", "waiting"}],
     priority : [Thread -> Pri \cup {0}],
     queue : [Thread -> Lists \cup {NoList}],
     list : [Lists -> Seq(Thread)]]

(* The threads W are in one list each, the one their field queue names, and *)
(* the others are in none; all lists are in order.                          *)
Placed(s, W) ==
    /\ s \in OsType /\ W \subseteq Thread
    /\ \A l \in Lists : Once(s.list[l]) /\ Sorted(s.list[l], s.priority)
    /\ \A l \in Lists, t \in Thread : t \in Range(s.list[l]) <=> t \in W /\ s.queue[t] = l
    /\ \A t \in W : s.queue[t] \in Lists

(* The calls that change no list. *)
SameLists(s, r) ==
    /\ r \in OsType
    /\ r.list = s.list /\ r.queue = s.queue /\ r.priority = s.priority

LEMMA ListsDiffer ==
    /\ RunQueue \in Lists /\ NoList \notin Lists
    /\ \A q \in Queue : /\ MtQueue(q) \in Lists /\ FullQueue(q) \in Lists
                        /\ MtQueue(q) # RunQueue /\ FullQueue(q) # RunQueue
                        /\ MtQueue(q) # NoList /\ FullQueue(q) # NoList
    /\ \A q, p \in Queue : /\ MtQueue(q) # FullQueue(p)
                           /\ MtQueue(q) = MtQueue(p) => q = p
                           /\ FullQueue(q) = FullQueue(p) => q = p
    /\ \A l \in Lists : l = RunQueue \/ \E q \in Queue : l = MtQueue(q) \/ l = FullQueue(q)
BY DEF Lists, RunQueue, MtQueue, FullQueue, NoList

LEMMA PlacedSame ==
    ASSUME NEW s, NEW W, Placed(s, W), NEW r, SameLists(s, r)
    PROVE  Placed(r, W)
BY DEF Placed, SameLists

LEMMA PriorityType ==
    ASSUME NEW s \in OsType
    PROVE  s.priority \in [Thread -> Nat]
<1>1. Pri \cup {0} \subseteq Nat
    BY ThreadsAssumption
<1>2. s.priority \in [Thread -> Pri \cup {0}]
    BY DEF OsType
<1>3. \A t \in Thread : s.priority[t] \in Nat
    BY <1>1, <1>2
<1> QED
    BY <1>2, <1>3

(* The fields of a record with one of them changed. *)
LEMMA ListSet ==
    ASSUME NEW s \in OsType, NEW l \in Lists, NEW new \in Seq(Thread)
    PROVE  LET r == [s EXCEPT !.list[l] = new]
           IN  /\ r \in OsType /\ r.list[l] = new /\ \A m \in Lists \ {l} : r.list[m] = s.list[m]
               /\ r.running = s.running /\ r.state = s.state /\ r.priority = s.priority
               /\ r.queue = s.queue
<1> DEFINE f == [s.list EXCEPT ![l] = new]
           r == [s EXCEPT !.list[l] = new]
<1>1. s.list \in [Lists -> Seq(Thread)]
    BY DEF OsType
<1>2. f \in [Lists -> Seq(Thread)] /\ f[l] = new /\ \A m \in Lists \ {l} : f[m] = s.list[m]
    BY <1>1
<1>3. r = [s EXCEPT !.list = f]
    OBVIOUS
<1> HIDE DEF f, r
<1>4. /\ r \in OsType /\ r.list = f
      /\ r.running = s.running /\ r.state = s.state /\ r.priority = s.priority
      /\ r.queue = s.queue
    BY <1>2, <1>3 DEF OsType
<1> QED
    BY <1>2, <1>4 DEF r

LEMMA QueueSet ==
    ASSUME NEW s \in OsType, NEW l \in Lists, NEW t \in Thread
    PROVE  LET r == [s EXCEPT !.queue[t] = l]
           IN  /\ r \in OsType /\ r.list = s.list /\ r.queue = [s.queue EXCEPT ![t] = l]
               /\ r.running = s.running /\ r.state = s.state /\ r.priority = s.priority
<1> DEFINE f == [s.queue EXCEPT ![t] = l]
<1>1. f \in [Thread -> Lists \cup {NoList}]
    BY DEF OsType
<1> QED
    BY <1>1 DEF OsType

(* A list that nobody is in is empty, and its head has the highest priority. *)
LEMMA HeadIsBest ==
    ASSUME NEW s, NEW W, Placed(s, W), NEW l \in Lists
    PROVE  /\ s.list[l] = <<>> <=> \A t \in W : s.queue[t] # l
           /\ s.list[l] # <<>> =>
                  /\ Head(s.list[l]) \in W /\ s.queue[Head(s.list[l])] = l
                  /\ \A t \in W : s.queue[t] = l => s.priority[t] <= s.priority[Head(s.list[l])]
<1> DEFINE list == s.list[l]
<1>1. list \in Seq(Thread) /\ Sorted(list, s.priority) /\ s.priority \in [Thread -> Nat]
    BY PriorityType DEF Placed, OsType
<1>2. \A t \in Thread : t \in Range(list) <=> t \in W /\ s.queue[t] = l
    BY DEF Placed
<1>3. W \subseteq Thread
    BY DEF Placed
<1> HIDE DEF list
<1>4. CASE list = <<>>
  <2>1. Range(list) = {}
      BY <1>4 DEF Range
  <2> QED
      BY <1>2, <1>3, <1>4, <2>1 DEF list
<1>5. CASE list # <<>>
  <2>1. /\ Head(list) = list[1] /\ Len(list) \in Nat \ {0} /\ DOMAIN list = 1 .. Len(list)
        /\ \A i \in 1 .. Len(list) : list[i] \in Thread
      BY <1>1, <1>5, TailTakesOut
  <2>2. Head(list) \in Thread /\ Head(list) \in Range(list)
      BY <2>1 DEF Range
  <2>3. ASSUME NEW t \in Thread, t \in Range(list)
        PROVE  s.priority[t] <= s.priority[Head(list)]
    <3>1. PICK i \in 1 .. Len(list) : list[i] = t
        BY <2>1, <2>3 DEF Range
    <3>2. CASE i = 1
        BY <1>1, <2>1, <3>1, <3>2
    <3>3. CASE i # 1
        BY <1>1, <2>1, <3>1, <3>3 DEF Sorted
    <3> QED
        BY <3>2, <3>3
  <2>4. \A t \in W : s.queue[t] = l => s.priority[t] <= s.priority[Head(list)]
      BY <1>2, <1>3, <2>3
  <2>5. Head(list) \in W /\ s.queue[Head(list)] = l
      BY <1>2, <2>2
  <2> QED
      BY <1>5, <2>4, <2>5 DEF list
<1> QED
    BY <1>4, <1>5

-----------------------------------------------------------------------------
(* What the functions on the thread part do to the lists.                   *)

(* The place where __osEnqueueThread puts a thread: in front of the first   *)
(* one of lower priority.                                                   *)
LEMMA EnqueuePlace ==
    ASSUME NEW s \in OsType, NEW l \in Lists, NEW t \in Thread, Sorted(s.list[l], s.priority)
    PROVE  LET e == EnqueueThread(s, l, t)
           IN  /\ e \in OsType
               /\ e.running = s.running /\ e.state = s.state /\ e.priority = s.priority
               /\ e.queue = [s.queue EXCEPT ![t] = l]
               /\ \A m \in Lists \ {l} : e.list[m] = s.list[m]
               /\ Sorted(e.list[l], s.priority)
               /\ \E k \in 1 .. Len(s.list[l]) + 1 : PutIn(e.list[l], s.list[l], k, t)
<1> DEFINE list == s.list[l]
           pri == s.priority
           I == {i \in 1 .. Len(list) : pri[list[i]] < pri[t]}
           i == IF I # {} THEN Min(I) ELSE 0
           new == IF i = 0 THEN Append(list, t) ELSE InsertAt(list, i, t)
           e == EnqueueThread(s, l, t)
<1>1. /\ list \in Seq(Thread) /\ pri \in [Thread -> Nat] /\ Len(list) \in Nat
      /\ \A j \in 1 .. Len(list) : list[j] \in Thread /\ pri[list[j]] \in Nat
    BY PriorityType DEF OsType
<1>2. e = [s EXCEPT !.queue[t] = l, !.list[l] = new]
    BY DEF EnqueueThread, SelectInSeq
<1>3. \E k \in 1 .. Len(list) + 1 :
          /\ PutIn(new, list, k, t)
          /\ \A j \in 1 .. k - 1 : pri[list[j]] >= pri[t]
          /\ k <= Len(list) => pri[list[k]] <= pri[t]
  <2> HIDE DEF list, pri
  <2>1. CASE I = {}
    <3>1. new = Append(list, t)
        BY <2>1
    <3>2. PutIn(new, list, Len(list) + 1, t)
        BY <1>1, <3>1, AppendPutsIn
    <3>3. \A j \in 1 .. Len(list) : ~(pri[list[j]] < pri[t])
        BY <2>1
    <3>4. pri[t] \in Nat /\ \A j \in 1 .. Len(list) : pri[list[j]] >= pri[t]
        BY <1>1, <3>3
    <3>5. Len(list) + 1 \in 1 .. Len(list) + 1 /\ Len(list) + 1 - 1 = Len(list)
          /\ ~(Len(list) + 1 <= Len(list))
        BY <1>1
    <3> HIDE DEF new, i, I
    <3> QED
        BY <3>2, <3>4, <3>5
  <2>2. CASE I # {}
    <3>1. I \subseteq Nat /\ I \subseteq 1 .. Len(list)
        BY <1>1
    <3>2. Min(I) \in I /\ \A x \in I : Min(I) <= x
      <4> HIDE DEF I
      <4> QED
          BY <2>2, <3>1, MinIsLeast
    <3>3. i = Min(I) /\ i \in 1 .. Len(list) /\ pri[list[i]] < pri[t] /\ i # 0
        BY <2>2, <3>2
    <3>4. new = InsertAt(list, i, t)
        BY <3>3
    <3>5. \A x \in I : i <= x
        BY <3>2, <3>3
    <3> HIDE DEF i, new
    <3>6. ASSUME NEW j \in 1 .. i - 1 PROVE pri[list[j]] >= pri[t]
      <4>1. j \in 1 .. Len(list) /\ ~(i <= j)
          BY <1>1, <3>3
      <4>2. j \notin I
          BY <3>5, <4>1
      <4>3. ~(pri[list[j]] < pri[t])
          BY <4>1, <4>2
      <4> QED
          BY <1>1, <4>1, <4>3
    <3>7. PutIn(new, list, i, t)
        BY <1>1, <3>3, <3>4, InsertAtPutsIn
    <3>8. i \in 1 .. Len(list) + 1 /\ pri[list[i]] <= pri[t]
        BY <1>1, <3>3
    <3> QED
        BY <3>6, <3>7, <3>8
  <2> QED
      BY <2>1, <2>2
<1> HIDE DEF i, I, new
<1>4. PICK k \in 1 .. Len(list) + 1 :
          /\ PutIn(new, list, k, t)
          /\ \A j \in 1 .. k - 1 : pri[list[j]] >= pri[t]
          /\ k <= Len(list) => pri[list[k]] <= pri[t]
    BY <1>3
<1>5. Sorted(new, pri)
  <2> HIDE DEF list, pri
  <2>1. Sorted(list, pri)
      BY DEF list, pri
  <2> QED
      BY <1>1, <1>4, <2>1, PutInSorts
<1>6. new \in Seq(Thread)
    BY <1>4 DEF PutIn
<1> DEFINE r == [s EXCEPT !.queue[t] = l]
<1>7. e = [r EXCEPT !.list[l] = new]
    BY <1>2 DEF OsType
<1>8. /\ r \in OsType /\ r.list = s.list /\ r.queue = [s.queue EXCEPT ![t] = l]
      /\ r.running = s.running /\ r.state = s.state /\ r.priority = s.priority
    BY QueueSet
<1> HIDE DEF r, e
<1>9. /\ e \in OsType /\ e.list[l] = new /\ \A m \in Lists \ {l} : e.list[m] = r.list[m]
      /\ e.running = r.running /\ e.state = r.state /\ e.priority = r.priority
      /\ e.queue = r.queue
    BY <1>6, <1>7, <1>8, ListSet
<1> QED
    BY <1>4, <1>5, <1>8, <1>9 DEF e

(* In e the thread t is in the list l, and else it is as s. *)
EnqueuedTo(e, s, W, l, t) ==
    /\ Placed(e, W \cup {t})
    /\ e.running = s.running /\ e.state = s.state /\ e.priority = s.priority
    /\ e.queue = [s.queue EXCEPT ![t] = l]
    /\ \A m \in Lists \ {l} : e.list[m] = s.list[m]

LEMMA Enqueued ==
    ASSUME NEW s, NEW W, NEW l \in Lists, NEW t \in Thread, Placed(s, W), t \notin W
    PROVE  EnqueuedTo(EnqueueThread(s, l, t), s, W, l, t)
<1> DEFINE e == EnqueueThread(s, l, t)
<1>1. /\ s \in OsType /\ W \subseteq Thread /\ Once(s.list[l]) /\ Sorted(s.list[l], s.priority)
      /\ s.list[l] \in Seq(Thread) /\ t \notin Range(s.list[l])
    BY DEF Placed, OsType
<1>2. /\ e \in OsType
      /\ e.running = s.running /\ e.state = s.state /\ e.priority = s.priority
      /\ e.queue = [s.queue EXCEPT ![t] = l]
      /\ \A m \in Lists \ {l} : e.list[m] = s.list[m]
      /\ Sorted(e.list[l], s.priority)
      /\ \E k \in 1 .. Len(s.list[l]) + 1 : PutIn(e.list[l], s.list[l], k, t)
    BY <1>1, EnqueuePlace
<1> HIDE DEF e
<1>3. Once(e.list[l]) /\ Range(e.list[l]) = Range(s.list[l]) \cup {t}
  <2>1. PICK k \in 1 .. Len(s.list[l]) + 1 : PutIn(e.list[l], s.list[l], k, t)
      BY <1>2
  <2>2. s.list[l] \in Seq(Thread) /\ Once(s.list[l]) /\ t \notin Range(s.list[l])
      BY <1>1
  <2> QED
      BY <2>1, <2>2, PutInKeeps
<1>4. \A u \in Thread : e.queue[u] = IF u = t THEN l ELSE s.queue[u]
    BY <1>1, <1>2 DEF OsType
<1>5. ASSUME NEW m \in Lists
      PROVE  /\ Once(e.list[m]) /\ Sorted(e.list[m], e.priority)
             /\ \A u \in Thread : u \in Range(e.list[m]) <=> u \in W \cup {t} /\ e.queue[u] = m
  <2>1. CASE m = l
      BY <1>2, <1>3, <1>4, <2>1 DEF Placed
  <2>2. CASE m # l
      BY <1>2, <1>4, <2>2 DEF Placed
  <2> QED
      BY <2>1, <2>2
<1>6. \A u \in W \cup {t} : e.queue[u] \in Lists
    BY <1>1, <1>4 DEF Placed
<1>7. Placed(e, W \cup {t})
    BY <1>1, <1>2, <1>5, <1>6 DEF Placed
<1> QED
    BY <1>2, <1>7 DEF EnqueuedTo, e

LEMMA Popped ==
    ASSUME NEW s, NEW W, Placed(s, W), NEW l \in Lists, s.list[l] # <<>>
    PROVE  LET p == PopThread(s, l)
           IN  /\ Placed(p, W \ {Head(s.list[l])})
               /\ p.running = s.running /\ p.state = s.state /\ p.priority = s.priority
               /\ p.queue = s.queue
               /\ \A m \in Lists \ {l} : p.list[m] = s.list[m]
<1> DEFINE p == PopThread(s, l)
           h == Head(s.list[l])
<1>1. /\ s \in OsType /\ W \subseteq Thread /\ Once(s.list[l]) /\ Sorted(s.list[l], s.priority)
      /\ s.list[l] \in Seq(Thread)
    BY DEF Placed, OsType
<1>2. TakenOut(Tail(s.list[l]), s.list[l], 1) /\ h = s.list[l][1] /\ 1 \in 1 .. Len(s.list[l])
    BY <1>1, TailTakesOut
<1>3. /\ Once(Tail(s.list[l])) /\ Range(Tail(s.list[l])) = Range(s.list[l]) \ {h}
      /\ Sorted(Tail(s.list[l]), s.priority) /\ Tail(s.list[l]) \in Seq(Thread)
  <2>1. Tail(s.list[l]) \in Seq(Thread)
      BY <1>2 DEF TakenOut
  <2>2. Once(Tail(s.list[l])) /\ Range(Tail(s.list[l])) = Range(s.list[l]) \ {s.list[l][1]}
      BY <1>1, <1>2, TakenOutKeeps
  <2>3. Sorted(Tail(s.list[l]), s.priority)
      BY <1>1, <1>2, TakenOutSorts
  <2> QED
      BY <1>2, <2>1, <2>2, <2>3
<1>4. p = [s EXCEPT !.list[l] = Tail(s.list[l])]
    BY DEF PopThread
<1>5. /\ p \in OsType /\ p.list[l] = Tail(s.list[l]) /\ \A m \in Lists \ {l} : p.list[m] = s.list[m]
      /\ p.running = s.running /\ p.state = s.state /\ p.priority = s.priority
      /\ p.queue = s.queue
  <2> DEFINE new == Tail(s.list[l])
  <2> HIDE DEF new, p
  <2>1. new \in Seq(Thread) /\ p = [s EXCEPT !.list[l] = new]
      BY <1>3, <1>4 DEF new
  <2>2. /\ p \in OsType /\ p.list[l] = new /\ \A m \in Lists \ {l} : p.list[m] = s.list[m]
        /\ p.running = s.running /\ p.state = s.state /\ p.priority = s.priority
        /\ p.queue = s.queue
      BY <1>1, <2>1, ListSet
  <2> QED
      BY <2>2 DEF new
<1>6. s.queue[h] = l
    BY HeadIsBest
<1> HIDE DEF p, h
<1>7. ASSUME NEW m \in Lists
      PROVE  /\ Once(p.list[m]) /\ Sorted(p.list[m], p.priority)
             /\ \A u \in Thread : u \in Range(p.list[m]) <=> u \in W \ {h} /\ p.queue[u] = m
  <2>1. CASE m = l
      BY <1>3, <1>5, <2>1 DEF Placed
  <2>2. CASE m # l
      BY <1>5, <1>6, <2>2 DEF Placed
  <2> QED
      BY <2>1, <2>2
<1>8. Placed(p, W \ {h})
    BY <1>1, <1>5, <1>7 DEF Placed
<1> QED
    BY <1>5, <1>8 DEF p, h

LEMMA Dequeued ==
    ASSUME NEW s, NEW W, Placed(s, W), NEW t \in W
    PROVE  LET d == DequeueThread(s, s.queue[t], t)
           IN  /\ Placed(d, W \ {t})
               /\ d.running = s.running /\ d.state = s.state /\ d.priority = s.priority
               /\ d.queue = s.queue
               /\ \A m \in Lists \ {s.queue[t]} : d.list[m] = s.list[m]
<1> DEFINE l == s.queue[t]
           list == s.list[l]
           new == RemoveFirst(list, t)
           d == DequeueThread(s, l, t)
           I == {j \in 1 .. Len(list) : list[j] = t}
<1>1. /\ s \in OsType /\ W \subseteq Thread /\ l \in Lists /\ Once(list) /\ Sorted(list, s.priority)
      /\ list \in Seq(Thread) /\ t \in Range(list)
    BY DEF Placed, OsType
<1>2. I # {} /\ I \subseteq Nat
    BY <1>1 DEF Range
<1>3. new = RemoveAt(list, Min(I))
    BY <1>2 DEF RemoveFirst, SelectInSeq
<1>4. Min(I) \in I
  <2> HIDE DEF I
  <2> QED
      BY <1>2, MinIsLeast
<1>5. Min(I) \in 1 .. Len(list) /\ list[Min(I)] = t
    BY <1>4
<1> HIDE DEF I, list, new
<1>6. TakenOut(new, list, Min(I))
    BY <1>1, <1>3, <1>5, RemoveAtTakesOut
<1>7. /\ Once(new) /\ Range(new) = Range(list) \ {t}
      /\ Sorted(new, s.priority) /\ new \in Seq(Thread)
    BY <1>1, <1>5, <1>6, TakenOutKeeps, TakenOutSorts DEF TakenOut
<1>8. d = [s EXCEPT !.list[l] = new]
    BY DEF DequeueThread, new, list
<1>9. /\ d \in OsType /\ d.list[l] = new /\ \A m \in Lists \ {l} : d.list[m] = s.list[m]
      /\ d.running = s.running /\ d.state = s.state /\ d.priority = s.priority
      /\ d.queue = s.queue
    BY <1>1, <1>7, <1>8, ListSet
<1> HIDE DEF d
<1>10. ASSUME NEW m \in Lists
       PROVE  /\ Once(d.list[m]) /\ Sorted(d.list[m], d.priority)
              /\ \A u \in Thread : u \in Range(d.list[m]) <=> u \in W \ {t} /\ d.queue[u] = m
  <2>1. CASE m = l
      BY <1>7, <1>9, <2>1 DEF Placed, list
  <2>2. CASE m # l
      BY <1>9, <2>2 DEF Placed
  <2> QED
      BY <2>1, <2>2
<1>11. Placed(d, W \ {t})
    BY <1>1, <1>9, <1>10 DEF Placed
<1> QED
    BY <1>9, <1>11 DEF d

LEMMA StateSet ==
    ASSUME NEW s \in OsType, NEW t \in Thread,
           NEW x \in {"stopped", "runnable", "running", "waiting"}
    PROVE  LET r == [s EXCEPT !.state[t] = x]
           IN  SameLists(s, r) /\ r.running = s.running /\ r.state = [s.state EXCEPT ![t] = x]
<1> DEFINE f == [s.state EXCEPT ![t] = x]
           r == [s EXCEPT !.state[t] = x]
<1>1. f \in [Thread -> {"stopped", "runnable", "running", "waiting"}]
    BY DEF OsType
<1>2. r = [s EXCEPT !.state = f]
    OBVIOUS
<1> HIDE DEF f, r
<1>3. /\ r \in OsType /\ r.state = f /\ r.list = s.list
      /\ r.queue = s.queue /\ r.priority = s.priority /\ r.running = s.running
    BY <1>1, <1>2 DEF OsType
<1> QED
    BY <1>3 DEF f, r, SameLists

LEMMA MadeRunnable ==
    ASSUME NEW s, NEW W, Placed(s, W), NEW t \in Thread, t \notin W
    PROVE  LET r == Runnable(s, t)
           IN  /\ Placed(r, W \cup {t})
               /\ r.running = s.running /\ r.priority = s.priority
               /\ r.state = [s.state EXCEPT ![t] = "runnable"]
               /\ r.queue = [s.queue EXCEPT ![t] = RunQueue]
               /\ \A m \in Lists \ {RunQueue} : r.list[m] = s.list[m]
<1> DEFINE u == [s EXCEPT !.state[t] = "runnable"]
<1>1. /\ SameLists(s, u) /\ u.running = s.running
      /\ u.state = [s.state EXCEPT ![t] = "runnable"]
    BY StateSet DEF Placed
<1>2. Runnable(s, t) = EnqueueThread(u, RunQueue, t)
    BY DEF Runnable
<1> HIDE DEF u
<1>3. Placed(u, W)
    BY <1>1, PlacedSame
<1> DEFINE e == EnqueueThread(u, RunQueue, t)
<1>4. /\ Placed(e, W \cup {t})
      /\ e.running = u.running /\ e.state = u.state /\ e.priority = u.priority
      /\ e.queue = [u.queue EXCEPT ![t] = RunQueue]
      /\ \A m \in Lists \ {RunQueue} : e.list[m] = u.list[m]
  <2>1. /\ Placed(u, W) /\ RunQueue \in Lists /\ t \in Thread /\ t \notin W
        /\ e = EnqueueThread(u, RunQueue, t)
      BY <1>3, ListsDiffer
  <2> HIDE DEF e
    <2>2. EnqueuedTo(e, u, W, RunQueue, t)
        BY <2>1, Enqueued
    <2> QED
        BY <2>2 DEF EnqueuedTo
<1> HIDE DEF e
<1> QED
    BY <1>1, <1>2, <1>4 DEF e, SameLists

(* The highest thread of the run queue runs next. *)
LEMMA Dispatched ==
    ASSUME NEW s, NEW W, Placed(s, W), NEW u \in W, s.queue[u] = RunQueue
    PROVE  LET d == Dispatch(s)
           IN  /\ d.running \in W /\ s.queue[d.running] = RunQueue
               /\ Placed(d, W \ {d.running})
               /\ d.state = [s.state EXCEPT ![d.running] = "running"]
               /\ d.queue = s.queue /\ d.priority = s.priority
               /\ \A t \in W : s.queue[t] = RunQueue => s.priority[t] <= s.priority[d.running]
               /\ \A m \in Lists \ {RunQueue} : d.list[m] = s.list[m]
<1> DEFINE t == Head(s.list[RunQueue])
           p == PopThread(s, RunQueue)
           x == [p EXCEPT !.state[t] = "running"]
           d == Dispatch(s)
<1>1. /\ s.list[RunQueue] # <<>> /\ t \in W /\ s.queue[t] = RunQueue
      /\ \A v \in W : s.queue[v] = RunQueue => s.priority[v] <= s.priority[t]
    BY HeadIsBest, ListsDiffer
<1>2. /\ Placed(p, W \ {t})
      /\ p.running = s.running /\ p.state = s.state /\ p.priority = s.priority
      /\ p.queue = s.queue
      /\ \A m \in Lists \ {RunQueue} : p.list[m] = s.list[m]
    BY <1>1, Popped, ListsDiffer, ZenonT(60)
<1>3. d = [p EXCEPT !.running = t, !.state[t] = "running"]
    BY DEF Dispatch
<1>4. t \in Thread /\ p \in OsType
    BY <1>1, <1>2 DEF Placed
<1> HIDE DEF t, p
<1>5. SameLists(p, x) /\ x.state = [p.state EXCEPT ![t] = "running"]
    BY <1>4, StateSet
<1>6. d = [x EXCEPT !.running = t]
    BY <1>3, <1>4 DEF OsType
<1> HIDE DEF x, d
<1>7. SameLists(x, d) /\ d.running = t /\ d.state = x.state
    BY <1>4, <1>5, <1>6 DEF SameLists, OsType
<1>8. SameLists(p, d)
    BY <1>5, <1>7 DEF SameLists
<1>9. Placed(d, W \ {t})
    BY <1>2, <1>8, PlacedSame
<1> QED
    BY <1>1, <1>2, <1>5, <1>7, <1>8, <1>9 DEF SameLists, d


-----------------------------------------------------------------------------
(* The invariant of the threads.                                            *)

(* A thread in a list of a queue waits in a call on that queue.             *)
Matches(s, c, t) ==
    \A q \in Queue :
        /\ s.queue[t] = MtQueue(q) => c[t].op = "recv" /\ c[t].mq = q
        /\ s.queue[t] = FullQueue(q) => c[t].op \in {"send", "jam"} /\ c[t].mq = q

(* All but who runs: A are alive, with the calls c, and W are in lists.     *)
Settled(s, A, c, W) ==
    /\ Placed(s, W) /\ A \subseteq Thread /\ W \subseteq A
    /\ Idle \in A /\ s.queue[Idle] = RunQueue /\ s.state[Idle] # "stopped"
    /\ \A t \in W : /\ s.state[t] \in {"runnable", "waiting"}
                    /\ s.queue[t] # RunQueue => s.state[t] = "waiting"
    /\ \A t \in A : Matches(s, c, t)

Unstopped(s, A) == {t \in A : s.state[t] # "stopped"}
Listed(s, A) == Unstopped(s, A) \ {s.running}

(* h: in an exception, which has made the interrupted thread runnable.      *)
Sound(s, A, c, h) ==
    /\ Settled(s, A, c, Listed(s, A))
    /\ s.running \in A /\ s.queue[s.running] = RunQueue
    /\ s.state[s.running] = IF h THEN "runnable" ELSE "running"

RunsBest(s, A) ==
    \A t \in Listed(s, A) : s.queue[t] = RunQueue => s.priority[t] <= s.priority[s.running]

OnlyRunQueue(s, r) == \A m \in Lists \ {RunQueue} : r.list[m] = s.list[m]
OnlyRunQueueAnd(l, s, r) == \A m \in Lists \ {RunQueue, l} : r.list[m] = s.list[m]

ThreadInv ==
    /\ ThreadsTyped
    /\ Sound(os, alive, call, handling)
    /\ ~handling => RunsBest(os, alive)
    /\ IsFiniteSet(alive)
    /\ \A t \in Thread \ alive : call[t] = NoCall

LEMMA DispatchSound ==
    ASSUME NEW s, NEW A, NEW c, Settled(s, A, c, Unstopped(s, A))
    PROVE  LET d == Dispatch(s)
           IN  /\ Sound(d, A, c, FALSE) /\ RunsBest(d, A) /\ OnlyRunQueue(s, d)
               /\ d.queue = s.queue /\ d.priority = s.priority
<1> DEFINE d == Dispatch(s)
           W == Unstopped(s, A)
<1>1. Idle \in W /\ s.queue[Idle] = RunQueue /\ Placed(s, W) /\ W \subseteq A /\ A \subseteq Thread
    BY DEF Settled, Unstopped
<1>2. /\ d.running \in W /\ s.queue[d.running] = RunQueue
      /\ Placed(d, W \ {d.running})
      /\ d.state = [s.state EXCEPT ![d.running] = "running"]
      /\ d.queue = s.queue /\ d.priority = s.priority
      /\ \A t \in W : s.queue[t] = RunQueue => s.priority[t] <= s.priority[d.running]
      /\ \A m \in Lists \ {RunQueue} : d.list[m] = s.list[m]
  <2> HIDE DEF W
  <2> QED
      BY <1>1, Dispatched
<1> HIDE DEF d
<1>3. /\ d.state[d.running] = "running"
      /\ \A t \in Thread \ {d.running} : d.state[t] = s.state[t]
    BY <1>1, <1>2 DEF Placed, OsType
<1>4. Listed(d, A) = W \ {d.running}
    BY <1>1, <1>2, <1>3 DEF Listed, Unstopped
<1>5. Settled(d, A, c, Listed(d, A))
  <2>1. \A t \in A : Matches(d, c, t)
      BY <1>2 DEF Settled, Matches
  <2>2. d.state[Idle] # "stopped"
      BY <1>1, <1>3 DEF Unstopped
  <2>3. \A t \in W \ {d.running} : /\ d.state[t] \in {"runnable", "waiting"}
                                   /\ d.queue[t] # RunQueue => d.state[t] = "waiting"
      BY <1>1, <1>2, <1>3 DEF Settled
  <2> QED
      BY <1>1, <1>2, <1>4, <2>1, <2>2, <2>3 DEF Settled
<1>6. RunsBest(d, A)
    BY <1>2, <1>4 DEF RunsBest
<1> QED
    BY <1>1, <1>2, <1>3, <1>5, <1>6 DEF Sound, OnlyRunQueue, d

(* A thread that is in no list goes to the run queue. *)
LEMMA RunnableSettled ==
    ASSUME NEW s, NEW A, NEW c, NEW W, Settled(s, A, c, W), NEW t \in A, t \notin W
    PROVE  LET r == Runnable(s, t)
           IN  /\ Settled(r, A, c, W \cup {t}) /\ OnlyRunQueue(s, r)
               /\ r.running = s.running /\ r.priority = s.priority
               /\ r.state = [s.state EXCEPT ![t] = "runnable"]
               /\ r.queue = [s.queue EXCEPT ![t] = RunQueue]
<1> DEFINE r == Runnable(s, t)
<1>1. Placed(s, W) /\ s \in OsType /\ t \in Thread /\ A \subseteq Thread /\ W \subseteq A
    BY DEF Settled, Placed
<1>2. /\ Placed(r, W \cup {t})
      /\ r.running = s.running /\ r.priority = s.priority
      /\ r.state = [s.state EXCEPT ![t] = "runnable"]
      /\ r.queue = [s.queue EXCEPT ![t] = RunQueue]
      /\ \A m \in Lists \ {RunQueue} : r.list[m] = s.list[m]
  <2>1. Placed(s, W) /\ t \in Thread /\ t \notin W
      BY <1>1
  <2> QED
      BY <2>1, MadeRunnable
<1> HIDE DEF r
<1>3. \A u \in Thread : /\ r.queue[u] = IF u = t THEN RunQueue ELSE s.queue[u]
                        /\ r.state[u] = IF u = t THEN "runnable" ELSE s.state[u]
    BY <1>1, <1>2 DEF OsType
<1>4. \A u \in A : Matches(r, c, u)
    BY <1>1, <1>3, ListsDiffer DEF Settled, Matches
<1>5. \A u \in W \cup {t} : /\ r.state[u] \in {"runnable", "waiting"}
                            /\ r.queue[u] # RunQueue => r.state[u] = "waiting"
    BY <1>1, <1>3 DEF Settled
<1>6. Idle \in A /\ r.queue[Idle] = RunQueue /\ r.state[Idle] # "stopped"
    BY <1>1, <1>3 DEF Settled
<1> QED
    BY <1>1, <1>2, <1>4, <1>5, <1>6 DEF Settled, OnlyRunQueue, r

LEMMA SoundBasics ==
    ASSUME NEW s, NEW A, NEW c, NEW h, Sound(s, A, c, h)
    PROVE  /\ s \in OsType /\ A \subseteq Thread /\ s.running \in A
           /\ Listed(s, A) \subseteq A /\ s.running \notin Listed(s, A)
           /\ Settled(s, A, c, Listed(s, A)) /\ Placed(s, Listed(s, A))
           /\ s.queue[s.running] = RunQueue
BY DEF Sound, Settled, Placed, Listed, Unstopped

(* Who is not outranked is the highest of those that could run. *)
LEMMA NotOutranked ==
    ASSUME NEW s, NEW A, NEW c, NEW e, Sound(s, A, c, e), ~Outranked(s)
    PROVE  RunsBest(s, A)
<1> DEFINE W == Listed(s, A)
<1>1. /\ Placed(s, W) /\ s \in OsType /\ s.running \in A /\ A \subseteq Thread /\ W \subseteq A
    BY SoundBasics
<1>2. RunQueue \in Lists
    BY ListsDiffer
<1>3. s.priority \in [Thread -> Nat]
    BY <1>1, PriorityType
<1>4. /\ s.list[RunQueue] = <<>> <=> \A t \in W : s.queue[t] # RunQueue
      /\ s.list[RunQueue] # <<>> =>
             /\ Head(s.list[RunQueue]) \in W
             /\ \A t \in W : s.queue[t] = RunQueue
                           => s.priority[t] <= s.priority[Head(s.list[RunQueue])]
  <2> HIDE DEF W
  <2> QED
      BY <1>1, <1>2, HeadIsBest
<1>5. CASE s.list[RunQueue] = <<>>
    BY <1>4, <1>5 DEF RunsBest
<1>6. CASE s.list[RunQueue] # <<>>
  <2> DEFINE h == Head(s.list[RunQueue])
  <2>1. h \in Thread /\ ~(s.priority[s.running] < s.priority[h])
      BY <1>1, <1>4, <1>6 DEF Outranked
  <2>2. s.priority[h] <= s.priority[s.running]
      BY <1>1, <1>3, <2>1
  <2>3. \A t \in W : s.queue[t] = RunQueue => s.priority[t] <= s.priority[h]
      BY <1>4, <1>6
  <2> HIDE DEF h
  <2>4. \A t \in W : t \in Thread
      BY <1>1
  <2> HIDE DEF W
  <2>5. ASSUME NEW t \in W, s.queue[t] = RunQueue
        PROVE  s.priority[t] <= s.priority[s.running]
    <3>1. s.priority[t] \in Nat /\ s.priority[h] \in Nat /\ s.priority[s.running] \in Nat
        BY <1>1, <1>3, <2>1, <2>4
    <3> QED
        BY <2>2, <2>3, <2>5, <3>1
  <2> QED
      BY <2>5 DEF RunsBest, W
<1> QED
    BY <1>5, <1>6

LEMMA PreemptSound ==
    ASSUME NEW s, NEW A, NEW c, Sound(s, A, c, FALSE)
    PROVE  LET p == Preempt(s)
           IN  /\ Sound(p, A, c, FALSE) /\ RunsBest(p, A) /\ OnlyRunQueue(s, p)
               /\ p.queue = s.queue /\ p.priority = s.priority
<1> DEFINE W == Listed(s, A)
<1>1. /\ Settled(s, A, c, W) /\ Placed(s, W) /\ s \in OsType
      /\ s.running \in A /\ A \subseteq Thread /\ W \subseteq A /\ s.queue[s.running] = RunQueue
      /\ s.running \notin W /\ s.state[s.running] = "running"
    BY DEF Sound, Settled, Placed, Listed
<1>2. RunQueue \in Lists
    BY ListsDiffer
<1>3. s.priority \in [Thread -> Nat]
    BY <1>1, PriorityType
<1>4. CASE ~Outranked(s)
  <2>1. Preempt(s) = s
      BY <1>4 DEF Preempt
  <2>2. RunsBest(s, A)
      BY <1>4, NotOutranked
  <2> QED
      BY <2>1, <2>2 DEF OnlyRunQueue
<1>5. CASE Outranked(s)
  <2> DEFINE r == Runnable(s, s.running)
             d == Dispatch(r)
  <2>1. Preempt(s) = d
      BY <1>5 DEF Preempt
  <2>2. /\ Settled(r, A, c, W \cup {s.running}) /\ OnlyRunQueue(s, r)
        /\ r.running = s.running /\ r.priority = s.priority
        /\ r.state = [s.state EXCEPT ![s.running] = "runnable"]
        /\ r.queue = [s.queue EXCEPT ![s.running] = RunQueue]
    <3> HIDE DEF W
    <3> QED
        BY <1>1, RunnableSettled
  <2> HIDE DEF r
  <2>3. r.queue = s.queue
      BY <1>1, <2>2 DEF OsType
  <2>4. Unstopped(r, A) = W \cup {s.running}
      BY <1>1, <2>2 DEF Unstopped, Listed, OsType
  <2>5. Settled(r, A, c, Unstopped(r, A))
      BY <2>2, <2>4
  <2>6. /\ Sound(d, A, c, FALSE) /\ RunsBest(d, A) /\ OnlyRunQueue(r, d)
        /\ d.queue = r.queue /\ d.priority = r.priority
      BY <2>5, DispatchSound
  <2> HIDE DEF d
  <2> QED
      BY <2>1, <2>2, <2>3, <2>6 DEF OnlyRunQueue
<1> QED
    BY <1>4, <1>5

(* A thread that is in no list is made to run if it is the highest. *)
LEMMA RunnableSound ==
    ASSUME NEW s, NEW A, NEW c, NEW t, NEW new, new = Preempt(Runnable(s, t)),
           t \in A, t # s.running,
           Settled(s, A, c, Listed(s, A) \ {t}), s.running \in A,
           s.queue[s.running] = RunQueue, s.state[s.running] = "running"
    PROVE  /\ Sound(new, A, c, FALSE) /\ RunsBest(new, A) /\ OnlyRunQueue(s, new)
           /\ new.queue = [s.queue EXCEPT ![t] = RunQueue] /\ new.priority = s.priority
<1> DEFINE W == Listed(s, A) \ {t}
           r == Runnable(s, t)
           p == Preempt(r)
<1>1. /\ Settled(s, A, c, W) /\ t \notin W /\ A \subseteq Thread /\ s \in OsType
      /\ W \subseteq A /\ s.running \notin W
    BY DEF Settled, Placed, Listed
<1>2. /\ Settled(r, A, c, W \cup {t}) /\ OnlyRunQueue(s, r)
      /\ r.running = s.running /\ r.priority = s.priority
      /\ r.state = [s.state EXCEPT ![t] = "runnable"]
      /\ r.queue = [s.queue EXCEPT ![t] = RunQueue]
  <2> HIDE DEF W
  <2> QED
      BY <1>1, RunnableSettled
<1> HIDE DEF r
<1>3. \A u \in Thread : /\ r.queue[u] = IF u = t THEN RunQueue ELSE s.queue[u]
                        /\ r.state[u] = IF u = t THEN "runnable" ELSE s.state[u]
    BY <1>1, <1>2 DEF OsType
<1>4. Listed(r, A) = W \cup {t}
    BY <1>1, <1>2, <1>3 DEF Listed, Unstopped
<1>5. Sound(r, A, c, FALSE)
    BY <1>1, <1>2, <1>3, <1>4 DEF Sound
<1>6. /\ Sound(p, A, c, FALSE) /\ RunsBest(p, A) /\ OnlyRunQueue(r, p)
      /\ p.queue = r.queue /\ p.priority = r.priority
    BY <1>5, PreemptSound
<1> HIDE DEF p
<1> QED
    BY <1>2, <1>6 DEF OnlyRunQueue, p, r


LEMMA PlacedRange ==
    ASSUME NEW s, NEW W, Placed(s, W), NEW l \in Lists
    PROVE  Range(s.list[l]) = {t \in W : s.queue[t] = l}
<1>1. s.list[l] \in Seq(Thread) /\ W \subseteq Thread
    BY DEF Placed, OsType
<1>2. Range(s.list[l]) \subseteq Thread
    BY <1>1 DEF Range
<1> QED
    BY <1>1, <1>2 DEF Placed

(* Who has a call matters only while its thread is in a list of a queue. *)
LEMMA SoundCall ==
    ASSUME NEW s, NEW A, NEW c, NEW h, Sound(s, A, c, h), NEW t \in Thread, s.queue[t] = RunQueue,
           NEW d, \A u \in Thread \ {t} : d[u] = c[u]
    PROVE  Sound(s, A, d, h)
<1>1. A \subseteq Thread /\ \A u \in A : Matches(s, c, u)
    BY DEF Sound, Settled
<1>2. \A u \in A : Matches(s, d, u)
    BY <1>1, ListsDiffer DEF Matches
<1> QED
    BY <1>2 DEF Sound, Settled

(* The first thread of a list is woken. *)
LEMMA WakeSound ==
    ASSUME NEW s, NEW A, NEW c, Sound(s, A, c, FALSE), RunsBest(s, A),
           NEW l \in Lists \ {RunQueue}
    PROVE  LET w == Wake(s, l)
           IN  /\ Sound(w, A, c, FALSE) /\ RunsBest(w, A)
               /\ \A m \in Lists \ {RunQueue, l} : w.list[m] = s.list[m]
               /\ s.list[l] = <<>> => w = s
               /\ s.list[l] # <<>> =>
                      /\ Head(s.list[l]) \in Range(s.list[l])
                      /\ Range(w.list[l]) = Range(s.list[l]) \ {Head(s.list[l])}
<1> DEFINE W == Listed(s, A)
           t == Head(s.list[l])
           p == PopThread(s, l)
           w == Wake(s, l)
<1>1. /\ s \in OsType /\ A \subseteq Thread /\ s.running \in A /\ W \subseteq A /\ s.running \notin W
      /\ Settled(s, A, c, W) /\ Placed(s, W) /\ s.queue[s.running] = RunQueue
      /\ s.state[s.running] = "running"
    BY SoundBasics DEF Sound
<1>2. CASE s.list[l] = <<>>
    BY <1>2 DEF Wake
<1>3. CASE s.list[l] # <<>>
  <2> HIDE DEF W
  <2>1. t \in W /\ s.queue[t] = l
      BY <1>1, <1>3, HeadIsBest
  <2>2. s.state[t] = "waiting"
      BY <1>1, <2>1 DEF Settled
  <2>3. /\ Placed(p, W \ {t})
        /\ p.running = s.running /\ p.state = s.state /\ p.priority = s.priority
        /\ p.queue = s.queue
        /\ \A m \in Lists \ {l} : p.list[m] = s.list[m]
      BY <1>1, <1>3, Popped
  <2>4. w = StartThread(p, t)
      BY <1>3 DEF Wake
  <2> HIDE DEF t, p, w
  <2>5. w = Preempt(Runnable(p, t))
      BY <2>2, <2>3, <2>4 DEF StartThread
  <2>6. Listed(p, A) = W
      BY <2>3 DEF Listed, Unstopped, W
  <2>7. Settled(p, A, c, W \ {t})
    <3>1. \A u \in A : Matches(p, c, u)
        BY <1>1, <2>3 DEF Settled, Matches
    <3> QED
        BY <1>1, <2>3, <3>1 DEF Settled
  <2>8. t \in A /\ t # p.running
      BY <1>1, <2>1, <2>3
  <2>9. /\ Sound(w, A, c, FALSE) /\ RunsBest(w, A) /\ OnlyRunQueue(p, w)
    <3>1. /\ Settled(p, A, c, Listed(p, A) \ {t}) /\ p.running \in A
          /\ p.queue[p.running] = RunQueue /\ p.state[p.running] = "running"
        BY <1>1, <2>3, <2>6, <2>7
    <3> QED
        BY <2>5, <2>8, <3>1, RunnableSound
  <2>10. Range(s.list[l]) = {u \in W : s.queue[u] = l}
      BY <1>1, PlacedRange
  <2>11. Range(p.list[l]) = {u \in W \ {t} : p.queue[u] = l}
      BY <2>3, PlacedRange
  <2>12. w.list[l] = p.list[l]
      BY <2>9 DEF OnlyRunQueue
  <2>13. t \in Range(s.list[l]) /\ Range(w.list[l]) = Range(s.list[l]) \ {t}
      BY <2>1, <2>3, <2>10, <2>11, <2>12
  <2>14. \A m \in Lists \ {RunQueue, l} : w.list[m] = s.list[m]
      BY <2>3, <2>9 DEF OnlyRunQueue
  <2> QED
      BY <1>3, <2>9, <2>13, <2>14 DEF t, w
<1> QED
    BY <1>2, <1>3

(* A call c on the queue q that waits in its list l. *)
CallFor(c, q, l) ==
    /\ c.mq = q
    /\ \/ l = MtQueue(q) /\ c.op = "recv"
       \/ l = FullQueue(q) /\ c.op \in {"send", "jam"}
WaitsFor(c, t, q, l) == CallFor(c[t], q, l)

(* The running thread waits. *)
LEMMA WaitSound ==
    ASSUME NEW s, NEW A, NEW c, Sound(s, A, c, FALSE), s.running # Idle,
           NEW q \in Queue, NEW l, WaitsFor(c, s.running, q, l),
           NEW new, new = Wait(s, l)
    PROVE  /\ Sound(new, A, c, FALSE) /\ RunsBest(new, A)
           /\ OnlyRunQueueAnd(l, s, new)
           /\ Range(new.list[l]) = Range(s.list[l]) \cup {s.running}
<1> DEFINE W == Listed(s, A)
           t == s.running
           x == [s EXCEPT !.state[t] = "waiting"]
           e == EnqueueThread(x, l, t)
           w == Dispatch(e)
<1>1. /\ s \in OsType /\ A \subseteq Thread /\ t \in A /\ W \subseteq A /\ t \notin W
      /\ Settled(s, A, c, W) /\ Placed(s, W) /\ s.queue[t] = RunQueue
      /\ s.state[t] = "running"
    BY SoundBasics DEF Sound
<1>2. l \in Lists \ {RunQueue}
    BY ListsDiffer DEF WaitsFor, CallFor
<1> HIDE DEF W
<1>3. SameLists(s, x) /\ x.running = t /\ x.state = [s.state EXCEPT ![t] = "waiting"]
    BY <1>1, StateSet
<1>4. Wait(s, l) = w
    BY <1>3 DEF Wait, EnqueueAndYield
<1> HIDE DEF x
<1>5. Placed(x, W)
    BY <1>1, <1>3, PlacedSame
<1>6. /\ Placed(e, W \cup {t})
      /\ e.running = x.running /\ e.state = x.state /\ e.priority = x.priority
      /\ e.queue = [x.queue EXCEPT ![t] = l]
      /\ \A m \in Lists \ {l} : e.list[m] = x.list[m]
  <2>1. /\ Placed(x, W) /\ l \in Lists /\ t \in Thread /\ t \notin W
        /\ e = EnqueueThread(x, l, t)
      BY <1>1, <1>2, <1>5
  <2> HIDE DEF t, e
    <2>2. EnqueuedTo(e, x, W, l, t)
        BY <2>1, Enqueued
    <2> QED
        BY <2>2 DEF EnqueuedTo
<1> HIDE DEF e
<1>7. \A u \in Thread : /\ e.queue[u] = IF u = t THEN l ELSE s.queue[u]
                        /\ e.state[u] = IF u = t THEN "waiting" ELSE s.state[u]
    BY <1>1, <1>3, <1>6 DEF SameLists, OsType
<1>8. Unstopped(e, A) = W \cup {t}
    BY <1>1, <1>7 DEF Unstopped, W, Listed
<1>9. Settled(e, A, c, W \cup {t})
  <2>1. \A u \in A : Matches(e, c, u)
    <3>1. Matches(e, c, t)
        BY <1>1, <1>7, ListsDiffer DEF Matches, WaitsFor, CallFor
    <3>2. ASSUME NEW u \in A, u # t PROVE Matches(e, c, u)
        BY <1>1, <1>7, <3>2 DEF Settled, Matches
    <3> QED
        BY <3>1, <3>2
  <2>2. \A u \in W \cup {t} : /\ e.state[u] \in {"runnable", "waiting"}
                              /\ e.queue[u] # RunQueue => e.state[u] = "waiting"
      BY <1>1, <1>7 DEF Settled
  <2>3. Idle \in A /\ e.queue[Idle] = RunQueue /\ e.state[Idle] # "stopped"
      BY <1>1, <1>7 DEF Settled
  <2> QED
      BY <1>1, <1>6, <2>1, <2>2, <2>3 DEF Settled
<1>10. /\ Sound(w, A, c, FALSE) /\ RunsBest(w, A) /\ OnlyRunQueue(e, w)
    BY <1>8, <1>9, DispatchSound
<1>11. w.list[l] = e.list[l] /\ \A m \in Lists \ {RunQueue, l} : w.list[m] = s.list[m]
    BY <1>2, <1>3, <1>6, <1>10 DEF OnlyRunQueue, SameLists
<1>12. Range(s.list[l]) = {u \in W : s.queue[u] = l}
    BY <1>1, <1>2, PlacedRange
<1>13. Range(e.list[l]) = {u \in W \cup {t} : e.queue[u] = l}
  <2> DEFINE V == W \cup {t}
  <2> HIDE DEF V
  <2>1. Placed(e, V) /\ l \in Lists
      BY <1>2, <1>6 DEF V
  <2> QED
      BY <2>1, PlacedRange DEF V
<1>14. Range(w.list[l]) = Range(s.list[l]) \cup {t}
    BY <1>1, <1>7, <1>11, <1>12, <1>13
<1> QED
    BY <1>4, <1>10, <1>11, <1>14 DEF OnlyRunQueueAnd


(* The first thread of a list goes to the run queue, as it is. *)
LEMMA MovedSettled ==
    ASSUME NEW s, NEW A, NEW c, NEW W, Settled(s, A, c, W),
           NEW l \in Lists \ {RunQueue}, s.list[l] # <<>>
    PROVE  LET h == Head(s.list[l])
               r == EnqueueThread(PopThread(s, l), RunQueue, h)
           IN  /\ Settled(r, A, c, W)
               /\ r.running = s.running /\ r.priority = s.priority /\ r.state = s.state
               /\ h \in W /\ s.queue[h] = l /\ r.queue = [s.queue EXCEPT ![h] = RunQueue]
               /\ \A m \in Lists \ {RunQueue, l} : r.list[m] = s.list[m]
               /\ h \in Range(s.list[l]) /\ Range(r.list[l]) = Range(s.list[l]) \ {h}
<1> DEFINE h == Head(s.list[l])
           p == PopThread(s, l)
           r == EnqueueThread(p, RunQueue, h)
<1>1. Placed(s, W) /\ s \in OsType /\ A \subseteq Thread /\ W \subseteq A
    BY DEF Settled, Placed
<1>2. h \in W /\ s.queue[h] = l
    BY <1>1, HeadIsBest
<1>3. /\ Placed(p, W \ {h})
      /\ p.running = s.running /\ p.state = s.state /\ p.priority = s.priority
      /\ p.queue = s.queue
      /\ \A m \in Lists \ {l} : p.list[m] = s.list[m]
    BY <1>1, Popped
<1> HIDE DEF h, p
<1>4. /\ Placed(r, (W \ {h}) \cup {h})
      /\ r.running = p.running /\ r.state = p.state /\ r.priority = p.priority
      /\ r.queue = [p.queue EXCEPT ![h] = RunQueue]
      /\ \A m \in Lists \ {RunQueue} : r.list[m] = p.list[m]
  <2> DEFINE V == W \ {h}
  <2>1. /\ Placed(p, V) /\ RunQueue \in Lists /\ h \in Thread /\ h \notin V
        /\ r = EnqueueThread(p, RunQueue, h)
      BY <1>1, <1>2, <1>3, ListsDiffer
  <2> HIDE DEF V, r
  <2>2. EnqueuedTo(r, p, V, RunQueue, h)
      BY <2>1, Enqueued
  <2> QED
      BY <2>2 DEF EnqueuedTo, V
<1> HIDE DEF r
<1>5. (W \ {h}) \cup {h} = W
    BY <1>2
<1>6. \A u \in Thread : r.queue[u] = IF u = h THEN RunQueue ELSE s.queue[u]
    BY <1>1, <1>3, <1>4 DEF OsType
<1>7. Settled(r, A, c, W)
  <2>1. \A u \in A : Matches(r, c, u)
      BY <1>1, <1>6, ListsDiffer DEF Settled, Matches
  <2>2. Placed(r, W) /\ r.state = s.state
      BY <1>3, <1>4, <1>5
  <2> QED
      BY <1>1, <1>6, <2>1, <2>2 DEF Settled
<1>8. Range(s.list[l]) = {u \in W : s.queue[u] = l}
    BY <1>1, PlacedRange
<1>9. Range(r.list[l]) = {u \in W : r.queue[u] = l}
  <2>1. Placed(r, W)
      BY <1>4, <1>5
  <2> QED
      BY <2>1, PlacedRange
<1>10. h \in Range(s.list[l]) /\ Range(r.list[l]) = Range(s.list[l]) \ {h}
    BY <1>1, <1>2, <1>6, <1>8, <1>9
<1>11. \A m \in Lists \ {RunQueue, l} : r.list[m] = s.list[m]
    BY <1>3, <1>4
<1> QED
    BY <1>2, <1>3, <1>4, <1>7, <1>10, <1>11 DEF h, p, r

(* A stopped thread that was in the list m of a queue is exchanged for the  *)
(* first thread of that list.                                               *)
Exchanged(s, r, m, t) ==
    /\ s.queue[t] = m
    /\ \E h \in Range(s.list[m]) \cup {t} :
           Range(r.list[m]) = (Range(s.list[m]) \cup {t}) \ {h}
OnlyExchanged(s, r, t) ==
    \A m \in Lists \ {RunQueue} : r.list[m] = s.list[m] \/ Exchanged(s, r, m, t)

(* A stopped thread is started. *)
LEMMA StartSound ==
    ASSUME NEW s, NEW A, NEW c, Sound(s, A, c, FALSE), NEW t \in A, s.state[t] = "stopped"
    PROVE  LET r == StartThread(s, t)
           IN  /\ Sound(r, A, c, FALSE) /\ RunsBest(r, A)
               /\ OnlyExchanged(s, r, t)
<1> DEFINE W == Listed(s, A)
           l == s.queue[t]
           r == StartThread(s, t)
<1>1. /\ s \in OsType /\ A \subseteq Thread /\ s.running \in A /\ W \subseteq A /\ s.running \notin W
      /\ Settled(s, A, c, W) /\ Placed(s, W) /\ s.queue[s.running] = RunQueue
      /\ s.state[s.running] = "running"
    BY SoundBasics DEF Sound
<1>2. t # s.running /\ t \notin W /\ t \in Thread /\ l \in Lists \cup {NoList}
    BY <1>1 DEF Listed, Unstopped, OsType
<1>3. CASE l \in {NoList, RunQueue}
  <2>1. r = Preempt(Runnable(s, t))
      BY <1>3 DEF StartThread
  <2>2. Listed(s, A) \ {t} = Listed(s, A)
      BY <1>2
  <2>3. /\ Sound(r, A, c, FALSE) /\ RunsBest(r, A) /\ OnlyRunQueue(s, r)
    <3>1. /\ t \in A /\ t # s.running /\ Settled(s, A, c, Listed(s, A) \ {t}) /\ s.running \in A
          /\ s.queue[s.running] = RunQueue /\ s.state[s.running] = "running"
        BY <1>1, <1>2, <2>2
    <3> QED
        BY <2>1, <3>1, RunnableSound
  <2> QED
      BY <2>3 DEF OnlyRunQueue, OnlyExchanged
<1>4. CASE l \notin {NoList, RunQueue}
  <2> DEFINE x == [s EXCEPT !.state[t] = "waiting"]
             w == EnqueueThread(x, l, t)
             h == Head(w.list[l])
             e == EnqueueThread(PopThread(w, l), RunQueue, h)
  <2>1. r = Preempt(e)
      BY <1>4 DEF StartThread, WaitAgain
  <2>2. SameLists(s, x) /\ x.running = s.running /\ x.state = [s.state EXCEPT ![t] = "waiting"]
      BY <1>1, <1>2, StateSet
  <2> HIDE DEF x, W
  <2>3. Placed(x, W)
      BY <1>1, <2>2, PlacedSame
  <2>4. l \in Lists /\ l # RunQueue
      BY <1>2, <1>4
  <2>5. /\ Placed(w, W \cup {t})
        /\ w.running = x.running /\ w.state = x.state /\ w.priority = x.priority
        /\ w.queue = [x.queue EXCEPT ![t] = l]
        /\ \A m \in Lists \ {l} : w.list[m] = x.list[m]
    <3>1. /\ Placed(x, W) /\ l \in Lists /\ t \in Thread /\ t \notin W
          /\ w = EnqueueThread(x, l, t)
        BY <1>2, <2>3, <2>4
    <3> HIDE DEF l, w
      <3>2. EnqueuedTo(w, x, W, l, t)
          BY <3>1, Enqueued
      <3> QED
          BY <3>2 DEF EnqueuedTo
  <2> HIDE DEF w
  <2>6. /\ w.queue = s.queue
        /\ \A u \in Thread : w.state[u] = IF u = t THEN "waiting" ELSE s.state[u]
      BY <1>1, <1>2, <2>2, <2>5 DEF SameLists, OsType
  <2>7. Unstopped(w, A) = W \cup {t, s.running} /\ Listed(w, A) = W \cup {t} /\ w.running = s.running
      BY <1>1, <1>2, <2>2, <2>5, <2>6 DEF Unstopped, Listed, W
  <2> DEFINE V == W \cup {t}
  <2>8. Settled(w, A, c, V)
    <3>1. \A u \in A : Matches(w, c, u)
        BY <1>1, <2>6 DEF Settled, Matches
    <3>2. \A u \in V : /\ w.state[u] \in {"runnable", "waiting"}
                       /\ w.queue[u] # RunQueue => w.state[u] = "waiting"
        BY <1>1, <2>6 DEF Settled
    <3>3. Idle \in A /\ w.queue[Idle] = RunQueue /\ w.state[Idle] # "stopped"
        BY <1>1, <2>6 DEF Settled
    <3> QED
        BY <1>1, <2>5, <3>1, <3>2, <3>3 DEF Settled
  <2>9. Range(w.list[l]) = Range(s.list[l]) \cup {t}
    <3>1. Range(s.list[l]) = {u \in W : s.queue[u] = l}
      <4> HIDE DEF l
      <4> QED
          BY <1>1, <2>4, PlacedRange
    <3>2. Range(w.list[l]) = {u \in V : w.queue[u] = l}
      <4> HIDE DEF l, V
      <4> QED
          BY <2>4, <2>8, PlacedRange DEF Settled
    <3> QED
        BY <1>1, <1>2, <2>6, <3>1, <3>2
  <2>10. w.list[l] # <<>>
      BY <2>9 DEF Range
  <2>11. /\ Settled(e, A, c, V)
         /\ e.running = w.running /\ e.priority = w.priority /\ e.state = w.state
         /\ h \in V /\ w.queue[h] = l /\ e.queue = [w.queue EXCEPT ![h] = RunQueue]
         /\ \A m \in Lists \ {RunQueue, l} : e.list[m] = w.list[m]
         /\ h \in Range(w.list[l]) /\ Range(e.list[l]) = Range(w.list[l]) \ {h}
    <3>1. l \in Lists \ {RunQueue}
        BY <2>4
    <3> HIDE DEF l, V
    <3> QED
        BY <2>8, <2>10, <3>1, MovedSettled, ZenonT(60)
  <2> HIDE DEF h, e
  <2>12. Listed(e, A) = V
      BY <2>7, <2>11 DEF Listed, Unstopped
  <2>13. Sound(e, A, c, FALSE)
    <3>1. e.running = s.running /\ e.queue[s.running] = RunQueue /\ e.state[s.running] = "running"
        BY <1>1, <1>2, <2>6, <2>7, <2>11 DEF OsType
    <3> QED
        BY <1>1, <2>11, <2>12, <3>1 DEF Sound
  <2>14. Sound(r, A, c, FALSE) /\ RunsBest(r, A) /\ OnlyRunQueue(e, r)
      BY <2>1, <2>13, PreemptSound
  <2>15. \A m \in Lists \ {RunQueue, l} : r.list[m] = s.list[m]
      BY <2>2, <2>5, <2>11, <2>14 DEF OnlyRunQueue, SameLists
  <2>16. h \in Range(s.list[l]) \cup {t} /\ Range(r.list[l]) = (Range(s.list[l]) \cup {t}) \ {h}
      BY <2>4, <2>9, <2>11, <2>14 DEF OnlyRunQueue
  <2>17. OnlyExchanged(s, r, t)
    <3> HIDE DEF r, h
    <3> QED
        BY <2>15, <2>16 DEF OnlyExchanged, Exchanged
  <2> QED
      BY <2>14, <2>17
<1> QED
    BY <1>3, <1>4


(* The running thread yields. *)
LEMMA YieldSound ==
    ASSUME NEW s, NEW A, NEW c, Sound(s, A, c, FALSE)
    PROVE  LET d == Dispatch(Runnable(s, s.running))
           IN  Sound(d, A, c, FALSE) /\ RunsBest(d, A) /\ OnlyRunQueue(s, d)
<1> DEFINE W == Listed(s, A)
           t == s.running
           r == Runnable(s, t)
           d == Dispatch(r)
<1>1. /\ s \in OsType /\ A \subseteq Thread /\ t \in A /\ W \subseteq A /\ t \notin W
      /\ Settled(s, A, c, W) /\ s.queue[t] = RunQueue
    BY SoundBasics
<1>2. /\ Settled(r, A, c, W \cup {t}) /\ OnlyRunQueue(s, r)
      /\ r.running = s.running /\ r.priority = s.priority
      /\ r.state = [s.state EXCEPT ![t] = "runnable"]
      /\ r.queue = [s.queue EXCEPT ![t] = RunQueue]
  <2>1. Settled(s, A, c, W) /\ t \in A /\ t \notin W
      BY <1>1
  <2> HIDE DEF W, t
  <2> QED
      BY <2>1, RunnableSettled
<1> HIDE DEF r
<1>3. Unstopped(r, A) = W \cup {t}
    BY <1>1, <1>2 DEF Unstopped, Listed, OsType
<1>4. Sound(d, A, c, FALSE) /\ RunsBest(d, A) /\ OnlyRunQueue(r, d)
    BY <1>2, <1>3, DispatchSound
<1> HIDE DEF d
<1> QED
    BY <1>2, <1>4 DEF OnlyRunQueue, d, r

(* The running thread stops. *)
LEMMA StopRunningSound ==
    ASSUME NEW s, NEW A, NEW c, Sound(s, A, c, FALSE), s.running # Idle
    PROVE  LET d == Dispatch([s EXCEPT !.state[s.running] = "stopped"])
           IN  Sound(d, A, c, FALSE) /\ RunsBest(d, A) /\ OnlyRunQueue(s, d)
<1> DEFINE W == Listed(s, A)
           t == s.running
           x == [s EXCEPT !.state[t] = "stopped"]
           d == Dispatch(x)
<1>1. /\ s \in OsType /\ A \subseteq Thread /\ t \in A /\ W \subseteq A /\ t \notin W
      /\ Settled(s, A, c, W) /\ Placed(s, W) /\ s.queue[t] = RunQueue
    BY SoundBasics
<1>2. SameLists(s, x) /\ x.running = t /\ x.state = [s.state EXCEPT ![t] = "stopped"]
    BY <1>1, StateSet
<1> HIDE DEF x
<1>3. Placed(x, W)
    BY <1>1, <1>2, PlacedSame
<1>4. Unstopped(x, A) = W
    BY <1>1, <1>2 DEF Unstopped, Listed, OsType
<1>5. \A u \in Thread : x.queue[u] = s.queue[u] /\ (u # t => x.state[u] = s.state[u])
    BY <1>1, <1>2 DEF SameLists, OsType
<1>6. Settled(x, A, c, W)
  <2>1. \A u \in A : Matches(x, c, u)
      BY <1>1, <1>5 DEF Settled, Matches
  <2>2. \A u \in W : /\ x.state[u] \in {"runnable", "waiting"}
                     /\ x.queue[u] # RunQueue => x.state[u] = "waiting"
      BY <1>1, <1>5 DEF Settled
  <2> QED
      BY <1>1, <1>3, <1>5, <2>1, <2>2 DEF Settled
<1>7. Sound(d, A, c, FALSE) /\ RunsBest(d, A) /\ OnlyRunQueue(x, d)
    BY <1>4, <1>6, DispatchSound
<1> HIDE DEF d
<1> QED
    BY <1>2, <1>7 DEF OnlyRunQueue, SameLists, d, x

(* A thread is taken from its list, to be stopped, destroyed or moved. *)
DequeuedFrom(d, s, A, c, W, t) ==
    /\ Settled(d, A, c, W \ {t})
    /\ d.running = s.running /\ d.state = s.state
    /\ d.queue = s.queue /\ d.priority = s.priority
    /\ \A m \in Lists : Range(d.list[m]) = Range(s.list[m]) \ {t}

LEMMA DequeueSettled ==
    ASSUME NEW s, NEW A, NEW c, NEW W, Settled(s, A, c, W), NEW t \in W
    PROVE  DequeuedFrom(DequeueThread(s, s.queue[t], t), s, A, c, W, t)
<1> DEFINE d == DequeueThread(s, s.queue[t], t)
<1>1. Placed(s, W) /\ s \in OsType /\ A \subseteq Thread /\ W \subseteq A
    BY DEF Settled, Placed
<1>2. /\ Placed(d, W \ {t})
      /\ d.running = s.running /\ d.state = s.state /\ d.priority = s.priority
      /\ d.queue = s.queue
      /\ \A m \in Lists \ {s.queue[t]} : d.list[m] = s.list[m]
    BY <1>1, Dequeued, ZenonT(60)
<1> HIDE DEF d
<1>3. Settled(d, A, c, W \ {t})
  <2>1. \A u \in A : Matches(d, c, u)
      BY <1>2 DEF Settled, Matches
  <2> QED
      BY <1>2, <2>1 DEF Settled
<1>4. ASSUME NEW m \in Lists PROVE Range(d.list[m]) = Range(s.list[m]) \ {t}
  <2>1. Range(s.list[m]) = {u \in W : s.queue[u] = m}
      BY <1>1, PlacedRange
  <2>2. Range(d.list[m]) = {u \in W \ {t} : d.queue[u] = m}
    <3> DEFINE V == W \ {t}
    <3>1. Placed(d, V)
        BY <1>2
    <3> HIDE DEF V
    <3>2. Range(d.list[m]) = {u \in V : d.queue[u] = m}
        BY <3>1, PlacedRange
    <3> QED
        BY <3>2 DEF V
  <2> QED
      BY <1>2, <2>1, <2>2
<1> QED
    BY <1>2, <1>3, <1>4 DEF d, DequeuedFrom

LEMMA StopOtherSound ==
    ASSUME NEW s, NEW A, NEW c, Sound(s, A, c, FALSE), RunsBest(s, A),
           NEW t \in Listed(s, A), t # Idle
    PROVE  LET d == DequeueThread([s EXCEPT !.state[t] = "stopped"], s.queue[t], t)
           IN  /\ Sound(d, A, c, FALSE) /\ RunsBest(d, A)
               /\ \A m \in Lists : Range(d.list[m]) = Range(s.list[m]) \ {t}
<1> DEFINE W == Listed(s, A)
           e == DequeueThread(s, s.queue[t], t)
           d == DequeueThread([s EXCEPT !.state[t] = "stopped"], s.queue[t], t)
           x == [e EXCEPT !.state[t] = "stopped"]
<1>1. /\ s \in OsType /\ A \subseteq Thread /\ s.running \in A /\ W \subseteq A /\ s.running \notin W
      /\ Settled(s, A, c, W) /\ Placed(s, W) /\ s.queue[s.running] = RunQueue
      /\ s.state[s.running] = "running"
    BY SoundBasics DEF Sound
<1>2. /\ Settled(e, A, c, W \ {t})
      /\ e.running = s.running /\ e.state = s.state
      /\ e.queue = s.queue /\ e.priority = s.priority
      /\ \A m \in Lists : Range(e.list[m]) = Range(s.list[m]) \ {t}
  <2>1. t \in W /\ Settled(s, A, c, W)
      BY <1>1
  <2> HIDE DEF W
  <2>2. DequeuedFrom(e, s, A, c, W, t)
      BY <2>1, DequeueSettled
  <2> QED
      BY <2>2 DEF DequeuedFrom
<1>3. d = x
    BY <1>1 DEF DequeueThread, OsType
<1> HIDE DEF e, d
<1>4. e \in OsType /\ Placed(e, W \ {t}) /\ t \in Thread
    BY <1>1, <1>2 DEF Settled, Placed
<1>5. SameLists(e, x) /\ x.running = e.running /\ x.state = [e.state EXCEPT ![t] = "stopped"]
    BY <1>4, StateSet
<1> HIDE DEF x
<1>6. Placed(x, W \ {t})
    BY <1>4, <1>5, PlacedSame
<1>7. \A u \in Thread : /\ x.queue[u] = s.queue[u] /\ x.priority[u] = s.priority[u]
                        /\ x.state[u] = IF u = t THEN "stopped" ELSE s.state[u]
    BY <1>1, <1>2, <1>4, <1>5 DEF SameLists, OsType
<1>8. Listed(x, A) = W \ {t} /\ x.running = s.running
    BY <1>1, <1>2, <1>5, <1>7 DEF Listed, Unstopped
<1>9. Settled(x, A, c, W \ {t})
  <2>1. \A u \in A : Matches(x, c, u)
      BY <1>1, <1>7 DEF Settled, Matches
  <2>2. \A u \in W \ {t} : /\ x.state[u] \in {"runnable", "waiting"}
                           /\ x.queue[u] # RunQueue => x.state[u] = "waiting"
      BY <1>1, <1>7 DEF Settled
  <2>3. Idle \in A /\ x.queue[Idle] = RunQueue /\ x.state[Idle] # "stopped"
      BY <1>1, <1>7 DEF Settled
  <2> QED
      BY <1>1, <1>6, <2>1, <2>2, <2>3 DEF Settled
<1>10. Sound(x, A, c, FALSE)
    BY <1>1, <1>7, <1>8, <1>9 DEF Sound
<1>11. RunsBest(x, A)
    BY <1>1, <1>7, <1>8 DEF RunsBest
<1> QED
    BY <1>2, <1>3, <1>5, <1>10, <1>11 DEF SameLists, d


(* A thread is destroyed: its call is void. *)
LEMMA SettledLess ==
    ASSUME NEW s, NEW A, NEW c, NEW W, Settled(s, A, c, W),
           NEW t, t # Idle, t \notin W, NEW d, \A u \in Thread \ {t} : d[u] = c[u]
    PROVE  Settled(s, A \ {t}, d, W)
<1>1. A \subseteq Thread /\ \A u \in A : Matches(s, c, u)
    BY DEF Settled
<1>2. \A u \in A \ {t} : Matches(s, d, u)
    BY <1>1 DEF Matches
<1> QED
    BY <1>2 DEF Settled

LEMMA DestroyRunningSound ==
    ASSUME NEW s, NEW A, NEW c, Sound(s, A, c, FALSE), s.running # Idle,
           NEW d, \A u \in Thread \ {s.running} : d[u] = c[u]
    PROVE  LET r == Dispatch(s)
               B == A \ {s.running}
           IN  Sound(r, B, d, FALSE) /\ RunsBest(r, B) /\ OnlyRunQueue(s, r)
<1> DEFINE W == Listed(s, A)
           B == A \ {s.running}
           r == Dispatch(s)
<1>1. Settled(s, A, c, W) /\ s.running \notin W
    BY SoundBasics
<1>2. Settled(s, B, d, W)
    BY <1>1, SettledLess
<1>3. Unstopped(s, B) = W
    BY DEF Unstopped, Listed
<1> HIDE DEF B
<1>4. Sound(r, B, d, FALSE) /\ RunsBest(r, B) /\ OnlyRunQueue(s, r)
    BY <1>2, <1>3, DispatchSound
<1> QED
    BY <1>4 DEF B

LEMMA DestroyStoppedSound ==
    ASSUME NEW s, NEW A, NEW c, Sound(s, A, c, FALSE), RunsBest(s, A),
           NEW t \in A, t # Idle, s.state[t] = "stopped",
           NEW d, \A u \in Thread \ {t} : d[u] = c[u]
    PROVE  Sound(s, A \ {t}, d, FALSE) /\ RunsBest(s, A \ {t})
<1>1. /\ Settled(s, A, c, Listed(s, A)) /\ t \notin Listed(s, A) /\ t # s.running
      /\ s.running \in A
    BY SoundBasics DEF Sound, Listed, Unstopped
<1>2. Settled(s, A \ {t}, d, Listed(s, A))
    BY <1>1, SettledLess
<1>3. Listed(s, A \ {t}) = Listed(s, A)
    BY <1>1 DEF Listed, Unstopped
<1> QED
    BY <1>1, <1>2, <1>3 DEF Sound, RunsBest

LEMMA DestroyListedSound ==
    ASSUME NEW s, NEW A, NEW c, Sound(s, A, c, FALSE), RunsBest(s, A),
           NEW t \in Listed(s, A), t # Idle,
           NEW d, \A u \in Thread \ {t} : d[u] = c[u]
    PROVE  LET r == DequeueThread(s, s.queue[t], t)
           IN  /\ Sound(r, A \ {t}, d, FALSE) /\ RunsBest(r, A \ {t})
               /\ \A m \in Lists : Range(r.list[m]) = Range(s.list[m]) \ {t}
<1> DEFINE W == Listed(s, A)
           r == DequeueThread(s, s.queue[t], t)
<1>1. /\ Settled(s, A, c, W) /\ t \in W /\ t # s.running /\ s.running \in A
      /\ s.queue[s.running] = RunQueue /\ s.state[s.running] = "running"
    BY SoundBasics, ZenonT(60) DEF Sound
<1>2. DequeuedFrom(r, s, A, c, W, t)
  <2> HIDE DEF W
  <2> QED
      BY <1>1, DequeueSettled
<1> HIDE DEF r
<1>3. Settled(r, A \ {t}, d, W \ {t})
  <2> DEFINE V == W \ {t}
  <2>1. Settled(r, A, c, V) /\ t \notin V
      BY <1>2 DEF DequeuedFrom
  <2> HIDE DEF V
  <2>2. Settled(r, A \ {t}, d, V)
      BY <2>1, SettledLess
  <2> QED
      BY <2>2 DEF V
<1>4. Listed(r, A \ {t}) = W \ {t}
    BY <1>2 DEF DequeuedFrom, Listed, Unstopped
<1>5. Sound(r, A \ {t}, d, FALSE)
    BY <1>1, <1>2, <1>3, <1>4 DEF Sound, DequeuedFrom
<1>6. RunsBest(r, A \ {t})
    BY <1>2, <1>4 DEF RunsBest, DequeuedFrom
<1> QED
    BY <1>2, <1>5, <1>6 DEF DequeuedFrom, r

(* The priority of a thread that is in no list. *)
LEMMA PrioritySettled ==
    ASSUME NEW s, NEW A, NEW c, NEW W, Settled(s, A, c, W), NEW t \in Thread, t \notin W,
           NEW p \in Pri \cup {0}
    PROVE  LET r == [s EXCEPT !.priority[t] = p]
           IN  /\ Settled(r, A, c, W) /\ r \in OsType
               /\ r.list = s.list /\ r.queue = s.queue /\ r.state = s.state
               /\ r.running = s.running
<1> DEFINE f == [s.priority EXCEPT ![t] = p]
           r == [s EXCEPT !.priority[t] = p]
<1>1. Placed(s, W) /\ s \in OsType
    BY DEF Settled, Placed
<1>2. f \in [Thread -> Pri \cup {0}] /\ \A u \in Thread \ {t} : f[u] = s.priority[u]
    BY <1>1 DEF OsType
<1>3. r = [s EXCEPT !.priority = f]
    OBVIOUS
<1> HIDE DEF f, r
<1>4. /\ r \in OsType /\ r.list = s.list /\ r.queue = s.queue /\ r.state = s.state
      /\ r.running = s.running /\ r.priority = f
    BY <1>1, <1>2, <1>3 DEF OsType
<1>5. ASSUME NEW l \in Lists PROVE Sorted(r.list[l], r.priority)
  <2>1. s.list[l] \in Seq(Thread) /\ t \notin Range(s.list[l]) /\ Sorted(s.list[l], s.priority)
      BY <1>1 DEF Placed, OsType
  <2>2. \A i \in DOMAIN s.list[l] : s.list[l][i] \in Thread \ {t}
      BY <2>1 DEF Range
  <2> QED
      BY <1>2, <1>4, <2>1, <2>2 DEF Sorted
<1>6. Placed(r, W)
    BY <1>1, <1>4, <1>5 DEF Placed
<1>7. \A u \in A : Matches(r, c, u)
    BY <1>4 DEF Settled, Matches
<1>8. Settled(r, A, c, W)
    BY <1>4, <1>6, <1>7 DEF Settled
<1> QED
    BY <1>4, <1>8 DEF r

(* The priority of the running thread or of a stopped one. *)
LEMMA PrioritySound ==
    ASSUME NEW s, NEW A, NEW c, Sound(s, A, c, FALSE), NEW t \in A,
           t = s.running \/ s.state[t] = "stopped", NEW p \in Pri \cup {0}
    PROVE  LET r == Preempt([s EXCEPT !.priority[t] = p])
           IN  Sound(r, A, c, FALSE) /\ RunsBest(r, A) /\ OnlyRunQueue(s, r)
<1> DEFINE W == Listed(s, A)
           x == [s EXCEPT !.priority[t] = p]
           r == Preempt(x)
<1>1. Settled(s, A, c, W) /\ t \in Thread /\ t \notin W
    BY SoundBasics DEF Listed, Unstopped
<1>2. /\ Settled(x, A, c, W) /\ x \in OsType
      /\ x.list = s.list /\ x.queue = s.queue /\ x.state = s.state
      /\ x.running = s.running
  <2> HIDE DEF W
  <2> QED
      BY <1>1, PrioritySettled
<1> HIDE DEF x
<1>3. Listed(x, A) = W
    BY <1>2 DEF Listed, Unstopped
<1>4. Sound(x, A, c, FALSE)
    BY <1>2, <1>3 DEF Sound
<1>5. Sound(r, A, c, FALSE) /\ RunsBest(r, A) /\ OnlyRunQueue(x, r)
    BY <1>4, PreemptSound
<1> HIDE DEF r
<1> QED
    BY <1>2, <1>5 DEF OnlyRunQueue, r, x

(* The priority of a thread in a list, which is put in anew. *)
LEMMA RepositionSound ==
    ASSUME NEW s, NEW A, NEW c, Sound(s, A, c, FALSE), NEW t \in Listed(s, A),
           NEW p \in Pri \cup {0}
    PROVE  LET r == Preempt(Reposition([s EXCEPT !.priority[t] = p], t))
           IN  /\ Sound(r, A, c, FALSE) /\ RunsBest(r, A)
               /\ \A m \in Lists \ {RunQueue} : Range(r.list[m]) = Range(s.list[m])
<1> DEFINE W == Listed(s, A)
           V == W \ {t}
           l == s.queue[t]
           d == DequeueThread(s, l, t)
           x == [d EXCEPT !.priority[t] = p]
           e == EnqueueThread(x, l, t)
           r == Preempt(e)
<1>1. /\ s \in OsType /\ A \subseteq Thread /\ s.running \in A /\ W \subseteq A /\ s.running \notin W
      /\ Settled(s, A, c, W) /\ Placed(s, W) /\ s.queue[s.running] = RunQueue
      /\ s.state[s.running] = "running"
    BY SoundBasics DEF Sound
<1>2. t \in W /\ t \in Thread /\ t \notin V /\ l \in Lists /\ V \cup {t} = W
    BY <1>1 DEF Placed
<1>3. DequeueThread([s EXCEPT !.priority[t] = p], l, t) = x
    BY <1>1 DEF DequeueThread, OsType
<1>4. Reposition([s EXCEPT !.priority[t] = p], t) = e
    BY <1>1, <1>3 DEF Reposition, OsType
<1>5. DequeuedFrom(d, s, A, c, W, t)
  <2> HIDE DEF W
  <2> QED
      BY <1>1, <1>2, DequeueSettled
<1> HIDE DEF d
<1>6. Settled(d, A, c, V) /\ d.running = s.running /\ d.state = s.state /\ d.queue = s.queue
    BY <1>5 DEF DequeuedFrom
<1>7. /\ Settled(x, A, c, V) /\ x \in OsType
      /\ x.list = d.list /\ x.queue = d.queue /\ x.state = d.state
      /\ x.running = d.running
  <2> HIDE DEF V
  <2> QED
      BY <1>2, <1>6, PrioritySettled
<1> HIDE DEF x
<1>8. EnqueuedTo(e, x, V, l, t)
  <2>1. Placed(x, V)
      BY <1>7 DEF Settled
  <2> HIDE DEF V, l
  <2> QED
      BY <1>2, <2>1, Enqueued
<1> HIDE DEF e
<1>9. /\ Placed(e, W) /\ e.running = s.running /\ e.state = s.state /\ e.queue = s.queue
  <2>1. e.queue = [s.queue EXCEPT ![t] = s.queue[t]]
      BY <1>6, <1>7, <1>8 DEF EnqueuedTo
  <2>2. s.queue \in [Thread -> Lists \cup {NoList}]
      BY <1>1 DEF OsType
  <2>3. e.queue = s.queue
      BY <2>1, <2>2
  <2> QED
      BY <1>2, <1>6, <1>7, <1>8, <2>3 DEF EnqueuedTo
<1>10. Settled(e, A, c, W)
  <2>1. \A u \in A : Matches(e, c, u)
      BY <1>1, <1>9 DEF Settled, Matches
  <2> QED
      BY <1>1, <1>9, <2>1 DEF Settled
<1>11. Listed(e, A) = W
    BY <1>9 DEF Listed, Unstopped
<1>12. Sound(e, A, c, FALSE)
    BY <1>1, <1>9, <1>10, <1>11 DEF Sound
<1>13. Sound(r, A, c, FALSE) /\ RunsBest(r, A) /\ OnlyRunQueue(e, r)
    BY <1>12, PreemptSound
<1> HIDE DEF r
<1>14. ASSUME NEW m \in Lists \ {RunQueue} PROVE Range(r.list[m]) = Range(s.list[m])
  <2>1. Range(s.list[m]) = {u \in W : s.queue[u] = m}
    <3> HIDE DEF W
    <3> QED
        BY <1>1, PlacedRange
  <2>2. Range(e.list[m]) = {u \in W : e.queue[u] = m}
    <3> HIDE DEF W
    <3> QED
        BY <1>9, PlacedRange
  <2> QED
      BY <1>9, <1>13, <2>1, <2>2 DEF OnlyRunQueue
<1> QED
    BY <1>4, <1>13, <1>14 DEF r

(* A thread is created, or its structure used again. *)
Created(r, s, t, p) ==
    r = [s EXCEPT !.state[t] = "stopped", !.queue[t] = NoList, !.priority[t] = p]

LEMMA CreateSound ==
    ASSUME NEW s, NEW A, NEW c, Sound(s, A, c, FALSE), RunsBest(s, A),
           NEW t \in Thread \ A, NEW p \in Pri, NEW r,
           Created(r, s, t, p)
    PROVE  Sound(r, A \cup {t}, c, FALSE) /\ RunsBest(r, A \cup {t}) /\ r.list = s.list
<1> DEFINE W == Listed(s, A)
           B == A \cup {t}
           x == [s EXCEPT !.priority[t] = p]
           f == [x.state EXCEPT ![t] = "stopped"]
           g == [x.queue EXCEPT ![t] = NoList]
<1>1. /\ s \in OsType /\ A \subseteq Thread /\ s.running \in A /\ W \subseteq A /\ s.running \notin W
      /\ Settled(s, A, c, W) /\ Placed(s, W) /\ s.queue[s.running] = RunQueue
      /\ s.state[s.running] = "running"
    BY SoundBasics DEF Sound
<1>2. /\ Settled(x, A, c, W) /\ x \in OsType
      /\ x.list = s.list /\ x.queue = s.queue /\ x.state = s.state
      /\ x.running = s.running
  <2>1. Settled(s, A, c, W) /\ t \in Thread /\ t \notin W /\ p \in Pri \cup {0}
      BY <1>1
  <2> HIDE DEF W
  <2> QED
      BY <2>1, PrioritySettled
<1>3. \A u \in A : x.priority[u] = s.priority[u]
    BY <1>1 DEF OsType
<1>4. r = [x EXCEPT !.state = f, !.queue = g]
    BY <1>1 DEF Created, OsType
<1>5. /\ f \in [Thread -> {"stopped", "runnable", "running", "waiting"}]
      /\ g \in [Thread -> Lists \cup {NoList}]
    BY <1>2 DEF OsType
<1>6. /\ \A u \in Thread : f[u] = IF u = t THEN "stopped" ELSE s.state[u]
      /\ \A u \in Thread : g[u] = IF u = t THEN NoList ELSE s.queue[u]
    BY <1>1, <1>2 DEF OsType
<1> HIDE DEF x, f, g
<1>7. /\ r \in OsType /\ r.list = x.list /\ r.priority = x.priority /\ r.running = x.running
      /\ r.state = f /\ r.queue = g
    BY <1>2, <1>4, <1>5 DEF OsType
<1>8. Listed(r, B) = W
    BY <1>1, <1>2, <1>6, <1>7 DEF Listed, Unstopped
<1>9. \A u \in W : u # t /\ r.queue[u] = x.queue[u]
    BY <1>1, <1>2, <1>6, <1>7
<1>10. Placed(r, W)
  <2>1. Placed(x, W)
      BY <1>2 DEF Settled
  <2>2. \A l \in Lists, u \in Thread : u \in Range(r.list[l]) <=> u \in W /\ r.queue[u] = l
      BY <1>7, <1>9, <2>1 DEF Placed
  <2> QED
      BY <1>7, <1>9, <2>1, <2>2 DEF Placed
<1>11. \A u \in B : Matches(r, c, u)
    BY <1>1, <1>6, <1>7, ListsDiffer DEF Settled, Matches
<1>12. Settled(r, B, c, W)
  <2>1. \A u \in W : /\ r.state[u] \in {"runnable", "waiting"}
                     /\ r.queue[u] # RunQueue => r.state[u] = "waiting"
      BY <1>1, <1>6, <1>7 DEF Settled
  <2>2. Idle \in B /\ r.queue[Idle] = RunQueue /\ r.state[Idle] # "stopped"
      BY <1>1, <1>6, <1>7 DEF Settled
  <2> QED
      BY <1>1, <1>10, <1>11, <2>1, <2>2 DEF Settled
<1>13. Sound(r, B, c, FALSE)
    BY <1>1, <1>2, <1>6, <1>7, <1>8, <1>12 DEF Sound
<1>14. RunsBest(r, B)
    BY <1>1, <1>2, <1>3, <1>6, <1>7, <1>8 DEF RunsBest
<1> QED
    BY <1>2, <1>7, <1>13, <1>14

(* An event: the interrupted thread is runnable; the first receiver of the  *)
(* queue, if the message fits, is moved to the run queue.                   *)
LEMMA EventSound ==
    ASSUME NEW s, NEW A, NEW c, NEW h, Sound(s, A, c, h)
    PROVE  LET r == [s EXCEPT !.state[s.running] = "runnable"]
           IN  Sound(r, A, c, TRUE) /\ r.list = s.list
<1> DEFINE W == Listed(s, A)
           t == s.running
           r == [s EXCEPT !.state[t] = "runnable"]
<1>1. /\ s \in OsType /\ A \subseteq Thread /\ t \in A /\ W \subseteq A /\ t \notin W
      /\ Settled(s, A, c, W) /\ Placed(s, W) /\ s.queue[t] = RunQueue
      /\ s.state[t] \in {"runnable", "running"}
    BY SoundBasics DEF Sound
<1>2. SameLists(s, r) /\ r.running = t /\ r.state = [s.state EXCEPT ![t] = "runnable"]
    BY <1>1, StateSet
<1> HIDE DEF r
<1>3. Placed(r, W)
    BY <1>1, <1>2, PlacedSame
<1>4. \A u \in Thread : /\ r.queue[u] = s.queue[u]
                        /\ r.state[u] = IF u = t THEN "runnable" ELSE s.state[u]
    BY <1>1, <1>2 DEF SameLists, OsType
<1>5. Listed(r, A) = W
    BY <1>1, <1>2, <1>4 DEF Listed, Unstopped
<1>6. Settled(r, A, c, W)
  <2>1. \A u \in A : Matches(r, c, u)
      BY <1>1, <1>4 DEF Settled, Matches
  <2>2. \A u \in W : /\ r.state[u] \in {"runnable", "waiting"}
                     /\ r.queue[u] # RunQueue => r.state[u] = "waiting"
      BY <1>1, <1>4 DEF Settled
  <2>3. Idle \in A /\ r.queue[Idle] = RunQueue /\ r.state[Idle] # "stopped"
      BY <1>1, <1>4 DEF Settled
  <2> QED
      BY <1>1, <1>3, <2>1, <2>2, <2>3 DEF Settled
<1>7. Sound(r, A, c, TRUE)
    BY <1>1, <1>2, <1>4, <1>5, <1>6 DEF Sound
<1> QED
    BY <1>2, <1>7 DEF SameLists, r

LEMMA EventMoves ==
    ASSUME NEW s, NEW A, NEW c, Sound(s, A, c, TRUE), NEW l \in Lists \ {RunQueue},
           s.list[l] # <<>>
    PROVE  LET h == Head(s.list[l])
               r == EnqueueThread(PopThread(s, l), RunQueue, h)
           IN  /\ Sound(r, A, c, TRUE)
               /\ \A m \in Lists \ {RunQueue, l} : r.list[m] = s.list[m]
               /\ h \in Range(s.list[l]) /\ Range(r.list[l]) = Range(s.list[l]) \ {h}
<1> DEFINE h == Head(s.list[l])
           r == EnqueueThread(PopThread(s, l), RunQueue, h)
<1> DEFINE W == Listed(s, A)
<1>1. /\ Settled(s, A, c, W) /\ s.running \notin W /\ s.running \in A
      /\ s.queue[s.running] = RunQueue /\ s \in OsType /\ A \subseteq Thread
      /\ s.state[s.running] = "runnable"
    BY SoundBasics DEF Sound
<1>2. /\ Settled(r, A, c, W)
      /\ r.running = s.running /\ r.priority = s.priority /\ r.state = s.state
      /\ h \in W /\ s.queue[h] = l /\ r.queue = [s.queue EXCEPT ![h] = RunQueue]
      /\ \A m \in Lists \ {RunQueue, l} : r.list[m] = s.list[m]
      /\ h \in Range(s.list[l]) /\ Range(r.list[l]) = Range(s.list[l]) \ {h}
  <2> HIDE DEF W
  <2> QED
      BY <1>1, MovedSettled
<1> HIDE DEF r, h
<1>3. Listed(r, A) = W
    BY <1>2 DEF Listed, Unstopped
<1>4. r.queue[r.running] = RunQueue
    BY <1>1, <1>2 DEF OsType
<1>5. Sound(r, A, c, TRUE)
    BY <1>1, <1>2, <1>3, <1>4 DEF Sound
<1> QED
    BY <1>2, <1>5 DEF r, h

(* The return from an exception: who was interrupted goes on, unless a      *)
(* higher thread was woken.                                                 *)
LEMMA RedispatchSound ==
    ASSUME NEW s, NEW A, NEW c, Sound(s, A, c, TRUE)
    PROVE  LET r == Dispatch(IF Outranked(s) THEN EnqueueThread(s, RunQueue, s.running)
                             ELSE [s EXCEPT !.list[RunQueue] = <<s.running>> \o @])
           IN  Sound(r, A, c, FALSE) /\ RunsBest(r, A) /\ OnlyRunQueue(s, r)
<1> DEFINE W == Listed(s, A)
           t == s.running
           r == Dispatch(IF Outranked(s) THEN EnqueueThread(s, RunQueue, t)
                         ELSE [s EXCEPT !.list[RunQueue] = <<t>> \o @])
<1>1. /\ s \in OsType /\ A \subseteq Thread /\ t \in A /\ W \subseteq A /\ t \notin W
      /\ Settled(s, A, c, W) /\ Placed(s, W) /\ s.queue[t] = RunQueue
      /\ s.state[t] = "runnable" /\ RunQueue \in Lists
    BY SoundBasics, ListsDiffer DEF Sound
<1>2. CASE Outranked(s)
  <2> DEFINE e == EnqueueThread(s, RunQueue, t)
  <2>1. r = Dispatch(e)
      BY <1>2
  <2>2. EnqueuedTo(e, s, W, RunQueue, t)
    <3>1. Placed(s, W) /\ RunQueue \in Lists /\ t \in Thread /\ t \notin W
        BY <1>1
    <3> HIDE DEF W, t
    <3> QED
        BY <3>1, Enqueued
  <2> HIDE DEF e, r
  <2>3. e.queue = s.queue
      BY <1>1, <2>2 DEF EnqueuedTo, OsType
  <2>4. Unstopped(e, A) = W \cup {t}
      BY <1>1, <2>2 DEF EnqueuedTo, Unstopped, Listed
  <2>5. Settled(e, A, c, W \cup {t})
    <3>1. \A u \in A : Matches(e, c, u)
        BY <1>1, <2>3 DEF Settled, Matches
    <3>2. \A u \in W \cup {t} : /\ e.state[u] \in {"runnable", "waiting"}
                                /\ e.queue[u] # RunQueue => e.state[u] = "waiting"
        BY <1>1, <2>2, <2>3 DEF Settled, EnqueuedTo
    <3> QED
        BY <1>1, <2>2, <2>3, <3>1, <3>2 DEF Settled, EnqueuedTo
  <2>6. Sound(r, A, c, FALSE) /\ RunsBest(r, A) /\ OnlyRunQueue(e, r)
      BY <2>1, <2>4, <2>5, DispatchSound
  <2> QED
      BY <2>2, <2>6 DEF OnlyRunQueue, EnqueuedTo, r
<1>3. CASE ~Outranked(s)
  <2> DEFINE old == s.list[RunQueue]
             new == <<t>> \o old
             y == [s EXCEPT !.list[RunQueue] = new]
             x == [s EXCEPT !.state[t] = "running"]
  <2>1. r = Dispatch(y)
      BY <1>3
  <2>2. old \in Seq(Thread) /\ t \in Thread
      BY <1>1 DEF OsType
  <2>3. new \in Seq(Thread) /\ Head(new) = t /\ Tail(new) = old
    <3> HIDE DEF t, old
    <3> QED
        BY <2>2
  <2>4. y.list[RunQueue] = new /\ y.state = s.state /\ y.list = [s.list EXCEPT ![RunQueue] = new]
      BY <1>1, <2>3 DEF OsType
  <2>5. Dispatch(y) = [y EXCEPT !.list[RunQueue] = old, !.running = t, !.state[t] = "running"]
    <3> HIDE DEF y, new, old, t
    <3> QED
        BY <2>3, <2>4 DEF Dispatch, PopThread
  <2>6. r = x
    <3> DEFINE f == [s.list EXCEPT ![RunQueue] = new]
               g == [f EXCEPT ![RunQueue] = old]
    <3>1. s.list \in [Lists -> Seq(Thread)] /\ old = s.list[RunQueue]
        BY <1>1 DEF OsType
    <3>2. g = s.list
      <4> HIDE DEF new, old
      <4> QED
          BY <1>1, <3>1
    <3> HIDE DEF new, old
    <3>3. Dispatch(y) = [s EXCEPT !.list = g, !.running = t, !.state[t] = "running"]
        BY <1>1, <2>5 DEF OsType
    <3> HIDE DEF y, g
    <3>4. [s EXCEPT !.list = s.list, !.running = t, !.state[t] = "running"] = x
        BY <1>1 DEF OsType
    <3> QED
        BY <2>1, <3>2, <3>3, <3>4
  <2>7. SameLists(s, x) /\ x.running = t /\ x.state = [s.state EXCEPT ![t] = "running"]
      BY <1>1, StateSet
  <2> HIDE DEF x, r
  <2>8. Placed(x, W)
      BY <1>1, <2>7, PlacedSame
  <2>9. \A u \in Thread : /\ x.queue[u] = s.queue[u] /\ x.priority[u] = s.priority[u]
                          /\ x.state[u] = IF u = t THEN "running" ELSE s.state[u]
      BY <1>1, <2>7 DEF SameLists, OsType
  <2>10. Listed(x, A) = W
      BY <1>1, <2>7, <2>9 DEF Listed, Unstopped
  <2>11. Settled(x, A, c, W)
    <3>1. \A u \in A : Matches(x, c, u)
        BY <1>1, <2>9 DEF Settled, Matches
    <3>2. \A u \in W : /\ x.state[u] \in {"runnable", "waiting"}
                       /\ x.queue[u] # RunQueue => x.state[u] = "waiting"
        BY <1>1, <2>9 DEF Settled
    <3>3. Idle \in A /\ x.queue[Idle] = RunQueue /\ x.state[Idle] # "stopped"
        BY <1>1, <2>9 DEF Settled
    <3> QED
        BY <1>1, <2>8, <3>1, <3>2, <3>3 DEF Settled
  <2>12. Sound(x, A, c, FALSE)
      BY <1>1, <2>7, <2>9, <2>10, <2>11 DEF Sound
  <2>13. RunsBest(s, A)
      BY <1>3, NotOutranked
  <2>14. RunsBest(x, A)
      BY <1>1, <2>7, <2>9, <2>10, <2>13 DEF RunsBest
  <2> QED
      BY <2>6, <2>7, <2>12, <2>14 DEF SameLists, OnlyRunQueue, r
<1> QED
    BY <1>2, <1>3 DEF r

-----------------------------------------------------------------------------
(* What the steps do to the invariant and to the lists of the queues.       *)

LEMMA CallFields ==
    /\ \A c \in Sends : c.op \in {"send", "jam"} /\ c.mq \in Queue
    /\ \A c \in Receives : c.op = "recv" /\ c.mq \in Queue
    /\ NoCall.op = "none"
BY DEF Sends, Receives, NoCall

LEMMA CallSet ==
    ASSUME NEW c \in Sends \cup Receives \cup {NoCall}, NEW t \in alive, ThreadInv
    PROVE  LET d == [call EXCEPT ![t] = c]
           IN  /\ d \in [Thread -> Sends \cup Receives \cup {NoCall}]
               /\ d[t] = c /\ \A u \in Thread \ {t} : d[u] = call[u]
               /\ \A u \in Thread \ alive : d[u] = NoCall
<1>1. /\ call \in [Thread -> Sends \cup Receives \cup {NoCall}] /\ alive \subseteq Thread
      /\ \A u \in Thread \ alive : call[u] = NoCall
    BY DEF ThreadInv, ThreadsTyped
<1> DEFINE C == Sends \cup Receives \cup {NoCall}
<1> HIDE DEF C
<1>2. call \in [Thread -> C] /\ c \in C
    BY <1>1 DEF C
<1>3. /\ [call EXCEPT ![t] = c] \in [Thread -> C]
      /\ [call EXCEPT ![t] = c][t] = c
      /\ \A u \in Thread \ {t} : [call EXCEPT ![t] = c][u] = call[u]
    BY <1>1, <1>2
<1> QED
    BY <1>1, <1>3 DEF C

LEMMA ThreadInvParts ==
    ASSUME Sound(os', alive', call', handling'), handling' \in BOOLEAN,
           ~handling' => RunsBest(os', alive'),
           call' \in [Thread -> Sends \cup Receives \cup {NoCall}],
           IsFiniteSet(alive'), \A t \in Thread \ alive' : call'[t] = NoCall
    PROVE  ThreadInv'
<1>1. os' \in OsType /\ alive' \subseteq Thread
    BY SoundBasics
<1>2. ThreadsTyped'
    BY <1>1 DEF ThreadsTyped, OsType
<1> QED
    BY <1>2 DEF ThreadInv, Sound, Settled, Placed, Listed, Unstopped, RunsBest, Matches,
                OsType, Once, Sorted

(* The running thread waits in a list of a queue. *)
LEMMA WaitsInv ==
    ASSUME ThreadInv, NEW q \in Queue, NEW c \in Sends \cup Receives, Calls(c), NEW l,
           CallFor(c, q, l), WaitsIn(c, l)
    PROVE  /\ ThreadInv'
           /\ alive' = alive /\ os.running \in alive
           /\ call[os.running] \in {NoCall, c} /\ call'[os.running] = c
           /\ \A u \in Thread \ {os.running} : call'[u] = call[u]
           /\ \A m \in Lists \ {RunQueue, l} : os'.list[m] = os.list[m]
<1> DEFINE t == os.running
<1>1. /\ Sound(os, alive, call, FALSE) /\ t \in alive /\ alive \subseteq Thread
      /\ os.queue[t] = RunQueue /\ IsFiniteSet(alive) /\ handling = FALSE
    BY SoundBasics DEF Calls, ThreadInv, ThreadsTyped
<1>2. /\ t # Idle /\ os' = Wait(os, l) /\ call' = [call EXCEPT ![t] = c]
      /\ alive' = alive /\ handling' = FALSE
    BY <1>1 DEF WaitsIn
<1>3. /\ call' \in [Thread -> Sends \cup Receives \cup {NoCall}]
      /\ call'[t] = c /\ \A u \in Thread \ {t} : call'[u] = call[u]
      /\ \A u \in Thread \ alive : call'[u] = NoCall
    BY <1>1, <1>2, CallSet
<1>4. Sound(os, alive, call', FALSE)
    BY <1>1, <1>3, SoundCall
<1>5. /\ Sound(os', alive, call', FALSE) /\ RunsBest(os', alive)
      /\ \A m \in Lists \ {RunQueue, l} : os'.list[m] = os.list[m]
  <2>1. Sound(os, alive, call', FALSE) /\ os.running # Idle /\ WaitsFor(call', os.running, q, l)
      BY <1>2, <1>3, <1>4 DEF WaitsFor
  <2>2. os' = Wait(os, l)
      BY <1>2
  <2>3. /\ Sound(os', alive, call', FALSE) /\ RunsBest(os', alive)
        /\ OnlyRunQueueAnd(l, os, os')
      BY <2>1, <2>2, WaitSound
  <2> QED
      BY <2>3 DEF OnlyRunQueueAnd
<1>6. ThreadInv'
    BY <1>1, <1>2, <1>3, <1>5, ThreadInvParts
<1> QED
    BY <1>1, <1>2, <1>3, <1>5, <1>6 DEF Calls

(* The running thread is done and wakes the first thread of a list. *)
LEMMA WakesInv ==
    ASSUME ThreadInv, NEW c, Calls(c), NEW l \in Lists \ {RunQueue}, Wakes(l)
    PROVE  /\ ThreadInv'
           /\ alive' = alive /\ os.running \in alive
           /\ call[os.running] \in {NoCall, c} /\ call'[os.running] = NoCall
           /\ \A u \in Thread \ {os.running} : call'[u] = call[u]
           /\ \A m \in Lists \ {RunQueue, l} : os'.list[m] = os.list[m]
           /\ os.list[l] = <<>> => os'.list[l] = os.list[l]
           /\ os.list[l] # <<>> =>
                  \E h \in Range(os.list[l]) : Range(os'.list[l]) = Range(os.list[l]) \ {h}
<1> DEFINE t == os.running
<1>1. /\ Sound(os, alive, call, FALSE) /\ t \in alive /\ alive \subseteq Thread
      /\ os.queue[t] = RunQueue /\ IsFiniteSet(alive) /\ handling = FALSE
      /\ RunsBest(os, alive)
    BY SoundBasics DEF Calls, ThreadInv, ThreadsTyped
<1>2. /\ os' = Wake(os, l) /\ call' = [call EXCEPT ![t] = NoCall]
      /\ alive' = alive /\ handling' = FALSE
    BY <1>1 DEF Wakes
<1>3. /\ call' \in [Thread -> Sends \cup Receives \cup {NoCall}]
      /\ call'[t] = NoCall /\ \A u \in Thread \ {t} : call'[u] = call[u]
      /\ \A u \in Thread \ alive : call'[u] = NoCall
    BY <1>1, <1>2, CallSet
<1>4. Sound(os, alive, call', FALSE)
    BY <1>1, <1>3, SoundCall
<1>5. /\ Sound(os', alive, call', FALSE) /\ RunsBest(os', alive)
      /\ \A m \in Lists \ {RunQueue, l} : os'.list[m] = os.list[m]
      /\ os.list[l] = <<>> => os' = os
      /\ os.list[l] # <<>> =>
             /\ Head(os.list[l]) \in Range(os.list[l])
             /\ Range(os'.list[l]) = Range(os.list[l]) \ {Head(os.list[l])}
  <2> DEFINE w == Wake(os, l)
  <2>1. Sound(os, alive, call', FALSE) /\ RunsBest(os, alive)
      BY <1>1, <1>4
  <2>2. /\ Sound(w, alive, call', FALSE) /\ RunsBest(w, alive)
        /\ \A m \in Lists \ {RunQueue, l} : w.list[m] = os.list[m]
        /\ os.list[l] = <<>> => w = os
        /\ os.list[l] # <<>> =>
               /\ Head(os.list[l]) \in Range(os.list[l])
               /\ Range(w.list[l]) = Range(os.list[l]) \ {Head(os.list[l])}
      BY <2>1, WakeSound
  <2> QED
      BY <1>2, <2>2
<1>6. ThreadInv'
    BY <1>1, <1>2, <1>3, <1>5, ThreadInvParts
<1> QED
    BY <1>1, <1>2, <1>3, <1>5, <1>6 DEF Calls

(* Nobody runs but the caller, whose call is at its end. *)
LEMMA FreeCaller ==
    ASSUME ThreadInv, Free
    PROVE  /\ Sound(os, alive, call, FALSE) /\ RunsBest(os, alive) /\ handling = FALSE
           /\ os.running \in alive /\ alive \subseteq Thread /\ IsFiniteSet(alive)
           /\ os.queue[os.running] = RunQueue
           /\ call \in [Thread -> Sends \cup Receives \cup {NoCall}]
           /\ \A t \in Thread \ alive : call[t] = NoCall
           /\ call[os.running] = NoCall
BY SoundBasics DEF Free, Calls, ThreadInv, ThreadsTyped

LEMMA CreateInv ==
    ASSUME ThreadInv, NEW t \in Thread \ {Idle}, NEW p \in Pri, osCreateThread(t, p)
    PROVE  /\ ThreadInv' /\ alive' = alive \cup {t} /\ call' = call /\ call[t] = NoCall
           /\ os'.list = os.list
<1>1. Free /\ t \in Thread \ alive /\ alive' = alive \cup {t} /\ call' = call /\ handling' = handling
    BY DEF osCreateThread
<1>2. /\ Sound(os, alive, call, FALSE) /\ RunsBest(os, alive) /\ handling = FALSE
      /\ os.running \in alive /\ alive \subseteq Thread /\ IsFiniteSet(alive)
      /\ call \in [Thread -> Sends \cup Receives \cup {NoCall}]
      /\ \A u \in Thread \ alive : call[u] = NoCall
    BY <1>1, FreeCaller
<1>3. Created(os', os, t, p)
    BY DEF osCreateThread, Created
<1>4. Sound(os', alive \cup {t}, call, FALSE) /\ RunsBest(os', alive \cup {t}) /\ os'.list = os.list
  <2>1. Sound(os, alive, call, FALSE) /\ RunsBest(os, alive) /\ t \in Thread \ alive
      BY <1>1, <1>2
  <2> QED
      BY <1>3, <2>1, CreateSound, ZenonT(60)
<1>5. IsFiniteSet(alive')
    BY <1>1, <1>2, FS_AddElement
<1>6. ThreadInv'
    BY <1>1, <1>2, <1>3, <1>4, <1>5, ThreadInvParts
<1> QED
    BY <1>1, <1>2, <1>3, <1>4, <1>6

LEMMA StartInv ==
    ASSUME ThreadInv, NEW t \in Thread, osStartThread(t)
    PROVE  /\ ThreadInv' /\ alive' = alive /\ call' = call /\ t \in alive
           /\ os.state[t] = "stopped"
           /\ OnlyExchanged(os, os', t)
<1>1. /\ Free /\ t \in alive /\ os.state[t] = "stopped" /\ os' = StartThread(os, t)
      /\ alive' = alive /\ call' = call /\ handling' = handling
    BY DEF osStartThread
<1>2. /\ Sound(os, alive, call, FALSE) /\ RunsBest(os, alive) /\ handling = FALSE
      /\ IsFiniteSet(alive)
      /\ call \in [Thread -> Sends \cup Receives \cup {NoCall}]
      /\ \A u \in Thread \ alive : call[u] = NoCall
    BY <1>1, FreeCaller
<1> DEFINE r == StartThread(os, t)
<1>3. /\ Sound(r, alive, call, FALSE) /\ RunsBest(r, alive)
      /\ OnlyExchanged(os, r, t)
  <2>1. Sound(os, alive, call, FALSE) /\ t \in alive /\ os.state[t] = "stopped"
      BY <1>1, <1>2
  <2> QED
      BY <2>1, StartSound
<1>4. os' = r
    BY <1>1
<1> HIDE DEF r
<1>5. ThreadInv'
    BY <1>1, <1>2, <1>3, <1>4, ThreadInvParts
<1> QED
    BY <1>1, <1>3, <1>4, <1>5

LEMMA StopInv ==
    ASSUME ThreadInv, NEW t \in Thread, osStopThread(t)
    PROVE  /\ ThreadInv' /\ alive' = alive /\ call' = call
           /\ \A m \in Lists \ {RunQueue} :
                  \/ os'.list[m] = os.list[m]
                  \/ Range(os'.list[m]) = Range(os.list[m]) \ {t}
<1>1. /\ Free /\ t \in alive \ {Idle} /\ os.state[t] # "stopped"
      /\ os' = IF t = os.running
               THEN Dispatch([os EXCEPT !.state[t] = "stopped"])
               ELSE DequeueThread([os EXCEPT !.state[t] = "stopped"], os.queue[t], t)
      /\ alive' = alive /\ call' = call /\ handling' = handling
    BY DEF osStopThread
<1>2. /\ Sound(os, alive, call, FALSE) /\ RunsBest(os, alive) /\ handling = FALSE
      /\ IsFiniteSet(alive)
      /\ call \in [Thread -> Sends \cup Receives \cup {NoCall}]
      /\ \A u \in Thread \ alive : call[u] = NoCall
    BY <1>1, FreeCaller
<1>3. /\ Sound(os', alive, call, FALSE) /\ RunsBest(os', alive)
      /\ \A m \in Lists \ {RunQueue} :
                  \/ os'.list[m] = os.list[m]
                  \/ Range(os'.list[m]) = Range(os.list[m]) \ {t}
  <2>1. CASE t = os.running
    <3> DEFINE d == Dispatch([os EXCEPT !.state[os.running] = "stopped"])
    <3>1. Sound(os, alive, call, FALSE) /\ os.running # Idle
        BY <1>1, <1>2, <2>1
    <3>2. Sound(d, alive, call, FALSE) /\ RunsBest(d, alive) /\ OnlyRunQueue(os, d)
        BY <3>1, StopRunningSound
    <3>3. os' = d
        BY <1>1, <2>1
    <3> HIDE DEF d
    <3> QED
        BY <3>2, <3>3 DEF OnlyRunQueue
  <2>2. CASE t # os.running
    <3> DEFINE d == DequeueThread([os EXCEPT !.state[t] = "stopped"], os.queue[t], t)
    <3>1. /\ Sound(os, alive, call, FALSE) /\ RunsBest(os, alive)
          /\ t \in Listed(os, alive) /\ t # Idle
        BY <1>1, <1>2, <2>2 DEF Listed, Unstopped
    <3>2. /\ Sound(d, alive, call, FALSE) /\ RunsBest(d, alive)
          /\ \A m \in Lists : Range(d.list[m]) = Range(os.list[m]) \ {t}
        BY <3>1, StopOtherSound
    <3>3. os' = d
        BY <1>1, <2>2
    <3> HIDE DEF d
    <3> QED
        BY <3>2, <3>3
  <2> QED
      BY <2>1, <2>2
<1>4. ThreadInv'
    BY <1>1, <1>2, <1>3, ThreadInvParts
<1> QED
    BY <1>1, <1>3, <1>4

LEMMA DestroyInv ==
    ASSUME ThreadInv, NEW t \in Thread, osDestroyThread(t)
    PROVE  /\ ThreadInv' /\ alive' = alive \ {t} /\ call' = [call EXCEPT ![t] = NoCall]
           /\ t \in alive /\ (Woken(t) => MayRob)
           /\ \A m \in Lists \ {RunQueue} :
                  \/ os'.list[m] = os.list[m]
                  \/ Range(os'.list[m]) = Range(os.list[m]) \ {t}
<1>1. /\ Free /\ t \in alive \ {Idle} /\ (Woken(t) => MayRob)
      /\ os' = CASE t = os.running -> Dispatch(os)
               [] t # os.running /\ os.state[t] = "stopped" -> os
               [] OTHER -> DequeueThread(os, os.queue[t], t)
      /\ alive' = alive \ {t} /\ call' = [call EXCEPT ![t] = NoCall] /\ handling' = handling
    BY DEF osDestroyThread
<1>2. /\ Sound(os, alive, call, FALSE) /\ RunsBest(os, alive) /\ handling = FALSE
      /\ IsFiniteSet(alive) /\ alive \subseteq Thread
    BY <1>1, FreeCaller
<1>3. /\ call' \in [Thread -> Sends \cup Receives \cup {NoCall}]
      /\ call'[t] = NoCall /\ \A u \in Thread \ {t} : call'[u] = call[u]
      /\ \A u \in Thread \ alive : call'[u] = NoCall
    BY <1>1, CallSet
<1>4. /\ Sound(os', alive \ {t}, call', FALSE) /\ RunsBest(os', alive \ {t})
      /\ \A m \in Lists \ {RunQueue} :
                  \/ os'.list[m] = os.list[m]
                  \/ Range(os'.list[m]) = Range(os.list[m]) \ {t}
  <2>1. CASE t = os.running
    <3>1. /\ Sound(os, alive, call, FALSE) /\ os.running # Idle
          /\ \A u \in Thread \ {os.running} : call'[u] = call[u]
        BY <1>1, <1>2, <1>3, <2>1
    <3> DEFINE d == Dispatch(os)
    <3>2. /\ Sound(d, alive \ {os.running}, call', FALSE) /\ RunsBest(d, alive \ {os.running})
          /\ OnlyRunQueue(os, d)
        BY <3>1, DestroyRunningSound
    <3>3. os' = d
        BY <1>1, <2>1
    <3> HIDE DEF d
    <3> QED
        BY <2>1, <3>2, <3>3 DEF OnlyRunQueue
  <2>2. CASE t # os.running /\ os.state[t] = "stopped"
    <3>1. /\ Sound(os, alive, call, FALSE) /\ RunsBest(os, alive)
          /\ t \in alive /\ t # Idle /\ os.state[t] = "stopped"
          /\ \A u \in Thread \ {t} : call'[u] = call[u]
        BY <1>1, <1>2, <1>3, <2>2
    <3>2. Sound(os, alive \ {t}, call', FALSE) /\ RunsBest(os, alive \ {t})
        BY <3>1, DestroyStoppedSound
    <3>3. os' = os
        BY <1>1, <2>2
    <3> QED
        BY <3>2, <3>3
  <2>3. CASE t # os.running /\ os.state[t] # "stopped"
    <3> DEFINE d == DequeueThread(os, os.queue[t], t)
    <3>1. /\ Sound(os, alive, call, FALSE) /\ RunsBest(os, alive)
          /\ t \in Listed(os, alive) /\ t # Idle
          /\ \A u \in Thread \ {t} : call'[u] = call[u]
        BY <1>1, <1>2, <1>3, <2>3 DEF Listed, Unstopped
    <3>2. /\ Sound(d, alive \ {t}, call', FALSE) /\ RunsBest(d, alive \ {t})
          /\ \A m \in Lists : Range(d.list[m]) = Range(os.list[m]) \ {t}
        BY <3>1, DestroyListedSound
    <3>3. os' = d
        BY <1>1, <2>3
    <3> HIDE DEF d
    <3> QED
        BY <3>2, <3>3
  <2> QED
      BY <2>1, <2>2, <2>3
<1>5. IsFiniteSet(alive')
    BY <1>1, <1>2, FS_RemoveElement
<1>6. \A u \in Thread \ alive' : call'[u] = NoCall
    BY <1>1, <1>3
<1>7. ThreadInv'
    BY <1>1, <1>2, <1>3, <1>4, <1>5, <1>6, ThreadInvParts
<1> QED
    BY <1>1, <1>4, <1>7

(* The lists of the queues hold the threads they held. *)
SameRanges(s, r) == \A m \in Lists \ {RunQueue} : Range(r.list[m]) = Range(s.list[m])

LEMMA PriorityInv ==
    ASSUME ThreadInv, NEW t \in Thread, NEW p \in Pri \cup {0}, osSetThreadPri(t, p)
    PROVE  ThreadInv' /\ alive' = alive /\ call' = call /\ SameRanges(os, os')
<1> DEFINE s == [os EXCEPT !.priority[t] = p]
<1>1. /\ Free /\ t \in alive
      /\ os' = Preempt(IF t # os.running /\ os.state[t] # "stopped" THEN Reposition(s, t) ELSE s)
      /\ alive' = alive /\ call' = call /\ handling' = handling
    BY DEF osSetThreadPri
<1>2. /\ Sound(os, alive, call, FALSE) /\ handling = FALSE
      /\ IsFiniteSet(alive)
      /\ call \in [Thread -> Sends \cup Receives \cup {NoCall}]
      /\ \A u \in Thread \ alive : call[u] = NoCall
    BY <1>1, FreeCaller
<1>3. Sound(os', alive, call, FALSE) /\ RunsBest(os', alive) /\ SameRanges(os, os')
  <2>1. CASE t # os.running /\ os.state[t] # "stopped"
    <3> DEFINE r == Preempt(Reposition(s, t))
    <3>1. Sound(os, alive, call, FALSE) /\ t \in Listed(os, alive)
        BY <1>1, <1>2, <2>1 DEF Listed, Unstopped
    <3>2. /\ Sound(r, alive, call, FALSE) /\ RunsBest(r, alive)
          /\ \A m \in Lists \ {RunQueue} : Range(r.list[m]) = Range(os.list[m])
        BY <3>1, RepositionSound
    <3>3. os' = r
        BY <1>1, <2>1
    <3> HIDE DEF r
    <3> QED
        BY <3>2, <3>3 DEF SameRanges
  <2>2. CASE t = os.running \/ os.state[t] = "stopped"
    <3> DEFINE r == Preempt(s)
    <3>1. Sound(os, alive, call, FALSE) /\ t \in alive /\ (t = os.running \/ os.state[t] = "stopped")
        BY <1>1, <1>2, <2>2
    <3>2. Sound(r, alive, call, FALSE) /\ RunsBest(r, alive) /\ OnlyRunQueue(os, r)
        BY <3>1, PrioritySound
    <3>3. os' = r
        BY <1>1, <2>2
    <3> HIDE DEF r
    <3> QED
        BY <3>2, <3>3 DEF SameRanges, OnlyRunQueue
  <2> QED
      BY <2>1, <2>2
<1>4. ThreadInv'
    BY <1>1, <1>2, <1>3, ThreadInvParts
<1> QED
    BY <1>1, <1>3, <1>4

LEMMA YieldInv ==
    ASSUME ThreadInv, osYieldThread
    PROVE  ThreadInv' /\ alive' = alive /\ call' = call /\ SameRanges(os, os')
<1> DEFINE r == Dispatch(Runnable(os, os.running))
<1>1. Free /\ os' = r /\ alive' = alive /\ call' = call /\ handling' = handling
    BY DEF osYieldThread
<1>2. /\ Sound(os, alive, call, FALSE) /\ handling = FALSE
      /\ IsFiniteSet(alive)
      /\ call \in [Thread -> Sends \cup Receives \cup {NoCall}]
      /\ \A u \in Thread \ alive : call[u] = NoCall
    BY <1>1, FreeCaller
<1>3. Sound(r, alive, call, FALSE) /\ RunsBest(r, alive) /\ OnlyRunQueue(os, r)
    BY <1>2, YieldSound
<1> HIDE DEF r
<1>4. ThreadInv'
    BY <1>1, <1>2, <1>3, ThreadInvParts
<1> QED
    BY <1>1, <1>3, <1>4 DEF SameRanges, OnlyRunQueue

LEMMA RedispatchInv ==
    ASSUME ThreadInv, redispatch
    PROVE  ThreadInv' /\ alive' = alive /\ call' = call /\ SameRanges(os, os')
<1> DEFINE r == Dispatch(IF Outranked(os) THEN EnqueueThread(os, RunQueue, os.running)
                         ELSE [os EXCEPT !.list[RunQueue] = <<os.running>> \o @])
<1>1. handling /\ os' = r /\ alive' = alive /\ call' = call /\ handling' = FALSE
    BY DEF redispatch
<1>2. /\ Sound(os, alive, call, handling) /\ handling \in BOOLEAN
      /\ IsFiniteSet(alive)
      /\ call \in [Thread -> Sends \cup Receives \cup {NoCall}]
      /\ \A u \in Thread \ alive : call[u] = NoCall
    BY DEF ThreadInv, ThreadsTyped
<1>3. Sound(os, alive, call, TRUE)
    BY <1>1, <1>2
<1>4. Sound(r, alive, call, FALSE) /\ RunsBest(r, alive) /\ OnlyRunQueue(os, r)
    BY <1>3, RedispatchSound
<1> HIDE DEF r
<1>5. ThreadInv'
    BY <1>1, <1>2, <1>4, ThreadInvParts
<1> QED
    BY <1>1, <1>4, <1>5 DEF SameRanges, OnlyRunQueue

LEMMA EventInv ==
    ASSUME ThreadInv, NEW q \in Queue, NEW m \in Msg, send_mesg(q, m)
    PROVE  /\ ThreadInv' /\ alive' = alive /\ call' = call
           /\ \/ Full(q) /\ SameRanges(os, os') /\ UNCHANGED mesgVars
              \/ /\ ~Full(q) /\ PutLast(q, m)
                 /\ OnlyRunQueueAnd(MtQueue(q), os, os')
                 /\ os.list[MtQueue(q)] = <<>> => SameRanges(os, os')
                 /\ os.list[MtQueue(q)] # <<>> =>
                        \E h \in Range(os.list[MtQueue(q)]) :
                            Range(os'.list[MtQueue(q)]) = Range(os.list[MtQueue(q)]) \ {h}
<1> DEFINE s == [os EXCEPT !.state[os.running] = "runnable"]
           l == MtQueue(q)
           e == EnqueueThread(PopThread(s, l), RunQueue, Head(s.list[l]))
<1>1. /\ \/ Full(q) /\ os' = s /\ UNCHANGED mesgVars
         \/ /\ ~Full(q) /\ PutLast(q, m)
            /\ os' = IF s.list[l] = <<>> THEN s ELSE e
      /\ alive' = alive /\ call' = call /\ handling' = TRUE
    BY DEF send_mesg
<1>2. /\ Sound(os, alive, call, handling)
      /\ IsFiniteSet(alive)
      /\ call \in [Thread -> Sends \cup Receives \cup {NoCall}]
      /\ \A u \in Thread \ alive : call[u] = NoCall
    BY DEF ThreadInv, ThreadsTyped
<1>3. Sound(s, alive, call, TRUE) /\ s.list = os.list
    BY <1>2, EventSound
<1>4. l \in Lists \ {RunQueue}
    BY ListsDiffer
<1> HIDE DEF s, l
<1>5. CASE os' = s /\ ((Full(q) /\ UNCHANGED mesgVars) \/ s.list[l] = <<>>)
  <2>1. Sound(os', alive, call', TRUE) /\ SameRanges(os, os') /\ OnlyRunQueueAnd(l, os, os')
      BY <1>1, <1>3, <1>5 DEF SameRanges, OnlyRunQueueAnd
  <2>2. ThreadInv'
      BY <1>1, <1>2, <2>1, ThreadInvParts
  <2>3. CASE Full(q) /\ UNCHANGED mesgVars
      BY <1>1, <2>1, <2>2, <2>3
  <2>4. CASE ~Full(q) /\ PutLast(q, m) /\ s.list[l] = <<>>
      BY <1>1, <1>3, <2>1, <2>2, <2>4 DEF l
  <2> QED
      BY <1>1, <1>5, <2>3, <2>4
<1>6. CASE ~Full(q) /\ PutLast(q, m) /\ s.list[l] # <<>> /\ os' = e
  <2>1. /\ Sound(e, alive, call, TRUE)
        /\ \A k \in Lists \ {RunQueue, l} : e.list[k] = s.list[k]
        /\ Head(s.list[l]) \in Range(s.list[l])
        /\ Range(e.list[l]) = Range(s.list[l]) \ {Head(s.list[l])}
      BY <1>3, <1>4, <1>6, EventMoves
  <2> HIDE DEF e
  <2>2. ThreadInv'
      BY <1>1, <1>2, <1>6, <2>1, ThreadInvParts
  <2>3. OnlyRunQueueAnd(l, os, os')
      BY <1>3, <1>6, <2>1 DEF OnlyRunQueueAnd
  <2>4. \E h \in Range(os.list[l]) : Range(os'.list[l]) = Range(os.list[l]) \ {h}
      BY <1>3, <1>6, <2>1
  <2> QED
      BY <1>1, <1>3, <1>6, <2>2, <2>3, <2>4 DEF l
<1> QED
    BY <1>1, <1>5, <1>6 DEF l

SendCall(q, m) == [op |-> "send", mq |-> q, mesg |-> m]
JamCall(q, m) == [op |-> "jam", mq |-> q, mesg |-> m]
RecvCall(q) == [op |-> "recv", mq |-> q, mesg |-> NULL]

(* The three calls on a queue wait, or do their work and wake. *)
LEMMA QueueCalls ==
    /\ \A q \in Queue, m \in Msg :
           /\ osSendMesg(q, m) =>
                  /\ Calls(SendCall(q, m))
                  /\ \/ Full(q) /\ WaitsIn(SendCall(q, m), FullQueue(q))
                     \/ ~Full(q) /\ PutLast(q, m) /\ Wakes(MtQueue(q))
           /\ osJamMesg(q, m) =>
                  /\ Calls(JamCall(q, m))
                  /\ \/ Full(q) /\ WaitsIn(JamCall(q, m), FullQueue(q))
                     \/ ~Full(q) /\ PutFirst(q, m) /\ Wakes(MtQueue(q))
           /\ /\ SendCall(q, m) \in Sends /\ CallFor(SendCall(q, m), q, FullQueue(q))
              /\ JamCall(q, m) \in Sends /\ CallFor(JamCall(q, m), q, FullQueue(q))
    /\ \A q \in Queue :
           /\ osRecvMesg(q) =>
                  /\ Calls(RecvCall(q))
                  /\ \/ Empty(q) /\ WaitsIn(RecvCall(q), MtQueue(q))
                     \/ ~Empty(q) /\ Take(q) /\ Wakes(FullQueue(q))
           /\ RecvCall(q) \in Receives /\ CallFor(RecvCall(q), q, MtQueue(q))
BY DEF osSendMesg, osJamMesg, osRecvMesg, SendCall, JamCall, RecvCall, Sends, Receives, CallFor

LEMMA ThreadInvInit == Init => ThreadInv
<1> SUFFICES ASSUME Init PROVE ThreadInv
    OBVIOUS
<1>1. /\ os \in OsType /\ os.running = Idle /\ Idle \in Thread /\ os.queue[Idle] = RunQueue
      /\ os.state[Idle] = "running" /\ \A t \in Thread \ {Idle} : os.queue[t] = NoList
      /\ \A l \in Lists : os.list[l] = <<>>
      /\ alive = {Idle} /\ handling = FALSE /\ call = [t \in Thread |-> NoCall]
  <2> DEFINE state == [t \in Thread |-> IF t = Idle THEN "running" ELSE "stopped"]
             queue == [t \in Thread |-> IF t = Idle THEN RunQueue ELSE NoList]
             list == [l \in Lists |-> <<>>]
             Priorities == {[t \in Thread |-> p] : p \in Pri}
  <2>0. /\ Idle \in Thread
        /\ state \in [Thread -> {"stopped", "runnable", "running", "waiting"}]
        /\ queue \in [Thread -> Lists \cup {NoList}]
        /\ list \in [Lists -> Seq(Thread)]
        /\ Priorities \subseteq [Thread -> Pri \cup {0}]
      BY ThreadsAssumption, ListsDiffer
  <2>3. os \in [running : {Idle}, state : {state}, priority : Priorities, queue : {queue}, list : {list}]
      BY DEF Init
  <2> HIDE DEF state, queue, list, Priorities
  <2>1. os \in OsType
      BY <2>0, <2>3 DEF OsType
  <2> QED
      BY <2>1, ThreadsAssumption, ListsDiffer DEF Init
<1>2. Listed(os, alive) = {}
    BY <1>1 DEF Listed, Unstopped
<1>3. Placed(os, {})
    BY <1>1 DEF Placed, Once, Sorted, Range
<1>4. \A t \in alive : Matches(os, call, t)
    BY <1>1, ListsDiffer DEF Matches
<1>5. Sound(os, alive, call, handling) /\ RunsBest(os, alive)
    BY <1>1, <1>2, <1>3, <1>4 DEF Sound, Settled, RunsBest
<1>6. IsFiniteSet(alive)
    BY <1>1, FS_Singleton
<1>7. ThreadsTyped
    BY <1>1 DEF ThreadsTyped, OsType
<1> QED
    BY <1>1, <1>5, <1>6, <1>7 DEF ThreadInv

LEMMA ThreadInvStep == ThreadInv /\ [Next]_vars => ThreadInv'
<1> SUFFICES ASSUME ThreadInv, [Next]_vars PROVE ThreadInv'
    OBVIOUS
<1>1. CASE MesgCall
  <2>1. PICK q \in Queue : \/ \E m \in Msg : osSendMesg(q, m) \/ osJamMesg(q, m) \/ send_mesg(q, m)
                           \/ osRecvMesg(q)
      BY <1>1 DEF MesgCall
  <2>2. MtQueue(q) \in Lists \ {RunQueue} /\ FullQueue(q) \in Lists \ {RunQueue}
      BY ListsDiffer
  <2>3. ASSUME NEW m \in Msg, osSendMesg(q, m) PROVE ThreadInv'
      BY <2>2, <2>3, QueueCalls, WaitsInv, WakesInv
  <2>4. ASSUME NEW m \in Msg, osJamMesg(q, m) PROVE ThreadInv'
      BY <2>2, <2>4, QueueCalls, WaitsInv, WakesInv
  <2>5. CASE osRecvMesg(q)
      BY <2>2, <2>5, QueueCalls, WaitsInv, WakesInv
  <2>6. ASSUME NEW m \in Msg, send_mesg(q, m) PROVE ThreadInv'
      BY <2>6, EventInv
  <2> QED
      BY <2>1, <2>3, <2>4, <2>5, <2>6
<1>2. CASE ThreadCall
  <2>1. ASSUME NEW t \in Thread, osStartThread(t) PROVE ThreadInv'
      BY <2>1, StartInv
  <2>2. ASSUME NEW t \in Thread, osStopThread(t) PROVE ThreadInv'
      BY <2>2, StopInv
  <2>3. ASSUME NEW t \in Thread, osDestroyThread(t) PROVE ThreadInv'
      BY <2>3, DestroyInv
  <2>4. ASSUME NEW t \in Thread \ {Idle}, NEW p \in Pri, osCreateThread(t, p) PROVE ThreadInv'
      BY <2>4, CreateInv
  <2>5. ASSUME NEW t \in Thread, NEW p \in Pri \cup {0}, osSetThreadPri(t, p) PROVE ThreadInv'
      BY <2>5, PriorityInv
  <2>6. CASE osYieldThread
      BY <2>6, YieldInv
  <2> QED
      BY <1>2, <2>1, <2>2, <2>3, <2>4, <2>5, <2>6, ThreadsAssumption DEF ThreadCall
<1>3. CASE redispatch
    BY <1>3, RedispatchInv
<1>4. CASE UNCHANGED vars
  <2>1. os' = os /\ alive' = alive /\ call' = call /\ handling' = handling
      BY <1>4 DEF vars, threadVars
  <2>2. /\ Sound(os, alive, call, handling) /\ handling \in BOOLEAN
        /\ ~handling => RunsBest(os, alive)
        /\ call \in [Thread -> Sends \cup Receives \cup {NoCall}]
        /\ IsFiniteSet(alive) /\ \A t \in Thread \ alive : call[t] = NoCall
      BY DEF ThreadInv, ThreadsTyped
  <2> QED
      BY <2>1, <2>2, ThreadInvParts
<1> QED
    BY <1>1, <1>2, <1>3, <1>4 DEF Next

(* The inductive invariant of the threads. *)
THEOREM ThreadsSound == Spec => []ThreadInv
<1>1. Init => ThreadInv
    BY ThreadInvInit
<1>2. ThreadInv /\ [Next]_vars => ThreadInv'
    BY ThreadInvStep
<1> QED
    BY <1>1, <1>2, PTL DEF Spec

(* The fields of the threads and the queues keep their types, and no queue  *)
(* holds more messages than it has places (osCreateMesgQueue's buffers).     *)
THEOREM TypeCorrect == Spec => []TypeOK
<1>1. ThreadInv => ThreadsTyped
    BY DEF ThreadInv
<1>2. ThreadsTyped /\ MesgTyped => TypeOK
    BY DEF TypeOK
<1> QED
    BY <1>1, <1>2, ThreadsSound, MesgTypeCorrect, PTL

-----------------------------------------------------------------------------
(* The safety properties of the threads.                                    *)

LEMMA ContainsIsRange ==
    ASSUME NEW s \in OsType, NEW l \in Lists, NEW t
    PROVE  Contains(s.list[l], t) <=> t \in Range(s.list[l])
<1>1. s.list[l] \in Seq(Thread)
    BY DEF OsType
<1> QED
    BY <1>1 DEF Contains, Range

LEMMA ThreadInvLists == ThreadInv => InOneList
<1> SUFFICES ASSUME ThreadInv, NEW t \in Thread
             PROVE  LET In == {l \in Lists : Contains(os.list[l], t)}
                        Off == t \notin alive \/ t = os.running \/ os.state[t] = "stopped"
                    IN  /\ In = IF Off THEN {} ELSE {os.queue[t]}
                        /\ \A l \in In :
                               Cardinality({i \in DOMAIN os.list[l] : os.list[l][i] = t}) = 1
                        /\ ~Off => /\ os.state[t] \in {"runnable", "waiting"}
                                   /\ os.queue[t] # RunQueue => call[t].mq = os.queue[t][2]
                                   /\ os.state[t] = "runnable" => os.queue[t] = RunQueue
    BY DEF InOneList
<1> DEFINE In == {l \in Lists : Contains(os.list[l], t)}
           Off == t \notin alive \/ t = os.running \/ os.state[t] = "stopped"
           W == Listed(os, alive)
<1>1. /\ os \in OsType /\ Placed(os, W) /\ Settled(os, alive, call, W)
    BY SoundBasics DEF ThreadInv
<1>2. t \in W <=> ~Off
    BY DEF Listed, Unstopped
<1>3. \A l \in Lists : l \in In <=> t \in W /\ os.queue[t] = l
    BY <1>1, ContainsIsRange DEF Placed
<1>4. t \in W => os.queue[t] \in Lists
    BY <1>1 DEF Placed
<1>5. In = IF Off THEN {} ELSE {os.queue[t]}
    BY <1>2, <1>3, <1>4
<1>6. ASSUME NEW l \in In
      PROVE  Cardinality({i \in DOMAIN os.list[l] : os.list[l][i] = t}) = 1
  <2>1. l \in Lists /\ Once(os.list[l])
      BY <1>1 DEF Placed
  <2>2. PICK i \in DOMAIN os.list[l] : os.list[l][i] = t
    <3>1. t \in Range(os.list[l])
        BY <1>1, <2>1, ContainsIsRange
    <3> QED
        BY <3>1 DEF Range
  <2>3. {j \in DOMAIN os.list[l] : os.list[l][j] = t} = {i}
      BY <2>1, <2>2 DEF Once
  <2> QED
      BY <2>3, FS_Singleton
<1>7. ASSUME ~Off
      PROVE  /\ os.state[t] \in {"runnable", "waiting"}
             /\ os.queue[t] # RunQueue => call[t].mq = os.queue[t][2]
             /\ os.state[t] = "runnable" => os.queue[t] = RunQueue
  <2>1. t \in W /\ W \subseteq alive /\ Matches(os, call, t)
      BY <1>1, <1>2, <1>7 DEF Settled
  <2>2. /\ os.state[t] \in {"runnable", "waiting"}
        /\ os.queue[t] # RunQueue => os.state[t] = "waiting"
      BY <1>1, <2>1 DEF Settled
  <2>3. ASSUME os.queue[t] # RunQueue PROVE call[t].mq = os.queue[t][2]
    <3>1. PICK q \in Queue : os.queue[t] = MtQueue(q) \/ os.queue[t] = FullQueue(q)
        BY <1>4, <2>1, <2>3, ListsDiffer
    <3>2. call[t].mq = q
        BY <2>1, <3>1 DEF Matches
    <3>3. os.queue[t][2] = q
        BY <3>1 DEF MtQueue, FullQueue
    <3> QED
        BY <3>2, <3>3
  <2> QED
      BY <2>2, <2>3
<1> QED
    BY <1>5, <1>6, <1>7

LEMMA ThreadInvPriorities == ThreadInv => PriorityRespected
<1> SUFFICES ASSUME ThreadInv PROVE HighestRuns /\ BestWaiterFirst
    BY DEF PriorityRespected
<1> DEFINE W == Listed(os, alive)
<1>1. os \in OsType /\ Placed(os, W) /\ RunQueue \in Lists
    BY SoundBasics, ListsDiffer DEF ThreadInv
<1>2. HighestRuns
  <2>1. Range(os.list[RunQueue]) = {t \in W : os.queue[t] = RunQueue}
    <3> HIDE DEF W
    <3> QED
        BY <1>1, PlacedRange
  <2>2. ~handling => RunsBest(os, alive)
      BY DEF ThreadInv
  <2> QED
      BY <2>1, <2>2 DEF HighestRuns, RunsBest
<1>3. BestWaiterFirst
    BY <1>1 DEF BestWaiterFirst, Placed, Sorted
<1> QED
    BY <1>2, <1>3

(* A thread is in exactly the list its state stands for: no call leaves it   *)
(* in a second list, or in none while it can run or waits.                  *)
THEOREM EachInOneList == Spec => []InOneList
BY ThreadsSound, ThreadInvLists, PTL

(* Whatever is called and sent, and whatever priorities are set, the         *)
(* highest thread that can run runs once the exception is over, and every    *)
(* list is in the order of the priorities.                                  *)
THEOREM PrioritiesRespected == Spec => []PriorityRespected
BY ThreadsSound, ThreadInvPriorities, PTL

-----------------------------------------------------------------------------
(* No wake-up is lost.                                                      *)

(* While threads L wait in a list, each of the n things they wait for has   *)
(* one of the other callers K, which was woken and has not looked yet.      *)
Covers(n, K, L) == L # {} => n <= Cardinality(K \ L)

(* What a step does to them: nothing worse; one thing more and a wake-up;   *)
(* one thing less and one caller less; a caller exchanged for a waiting     *)
(* one; nothing left.                                                       *)
Keeps(n, K, L, n2, K2, L2) == n2 <= n /\ (K \ L) \subseteq (K2 \ L2) /\ (L2 # {} => L # {})
WakesOne(n, K, L, n2, K2, L2) ==
    n2 <= n + 1 /\ K2 = K /\ IF L = {} THEN L2 = {} ELSE \E h \in L : L2 = L \ {h}
ServesOne(n, K, L, n2, K2, L2) == n2 <= n - 1 /\ L2 = L /\ \E t \in K : K \ {t} \subseteq K2
ServesNone(n, K, L, n2, K2, L2) == n2 <= n - 1 /\ L2 = L /\ K \subseteq K2
Exchanges(n, K, L, n2, K2, L2) ==
    n2 <= n /\ K2 = K /\ \E t \in K \ L : \E h \in L \cup {t} : L2 = (L \cup {t}) \ {h}

LEMMA CoversKept ==
    ASSUME NEW n \in Int, NEW n2 \in Int, NEW K, NEW L, NEW K2, NEW L2,
           IsFiniteSet(K), IsFiniteSet(K2), L \subseteq K, Covers(n, K, L),
           \/ Keeps(n, K, L, n2, K2, L2) \/ WakesOne(n, K, L, n2, K2, L2)
           \/ ServesOne(n, K, L, n2, K2, L2) \/ ServesNone(n, K, L, n2, K2, L2)
           \/ Exchanges(n, K, L, n2, K2, L2) \/ n2 <= 0
    PROVE  Covers(n2, K2, L2)
<1> SUFFICES ASSUME L2 # {} PROVE n2 <= Cardinality(K2 \ L2)
    BY DEF Covers
<1> DEFINE A == K \ L
           B == K2 \ L2
<1>1. /\ IsFiniteSet(A) /\ Cardinality(A) \in Nat /\ IsFiniteSet(B) /\ Cardinality(B) \in Nat
    BY FS_Subset, FS_CardinalityType
<1> HIDE DEF A, B
<1>2. CASE n2 <= 0
    BY <1>1, <1>2 DEF B
<1>3. CASE Keeps(n, K, L, n2, K2, L2) \/ ServesNone(n, K, L, n2, K2, L2)
  <2>1. A \subseteq B /\ n2 <= n /\ n <= Cardinality(A)
      BY <1>3 DEF Keeps, ServesNone, Covers, A, B
  <2>2. Cardinality(A) <= Cardinality(B)
      BY <1>1, <2>1, FS_Subset
  <2> QED
      BY <1>1, <2>1, <2>2 DEF B
<1>4. CASE WakesOne(n, K, L, n2, K2, L2)
  <2>1. PICK h \in L : L2 = L \ {h}
      BY <1>4 DEF WakesOne
  <2>2. L # {} /\ n <= Cardinality(A) /\ n2 <= n + 1 /\ h \notin A /\ B = A \cup {h}
      BY <1>4, <2>1 DEF WakesOne, Covers, A, B
  <2>3. Cardinality(B) = Cardinality(A) + 1
      BY <1>1, <2>2, FS_AddElement
  <2> QED
      BY <1>1, <2>2, <2>3 DEF B
<1>5. CASE ServesOne(n, K, L, n2, K2, L2)
  <2>1. PICK t \in K : K \ {t} \subseteq K2
      BY <1>5 DEF ServesOne
  <2>2. A \ {t} \subseteq B /\ n <= Cardinality(A) /\ n2 <= n - 1
      BY <1>5, <2>1 DEF ServesOne, Covers, A, B
  <2>3. Cardinality(A) - 1 <= Cardinality(A \ {t})
    <3>1. Cardinality(A \ {t}) = IF t \in A THEN Cardinality(A) - 1 ELSE Cardinality(A)
        BY <1>1, FS_RemoveElement
    <3>2. Cardinality(A) \in Nat
        BY <1>1
    <3> QED
        BY <3>1, <3>2
  <2>4. IsFiniteSet(A \ {t}) /\ Cardinality(A \ {t}) \in Nat
      BY <1>1, FS_RemoveElement, FS_CardinalityType
  <2>5. Cardinality(A \ {t}) <= Cardinality(B)
      BY <1>1, <2>2, <2>4, FS_Subset
  <2> QED
      BY <1>1, <2>2, <2>3, <2>4, <2>5 DEF B
<1>6. CASE Exchanges(n, K, L, n2, K2, L2)
  <2>1. PICK t \in K \ L : \E h \in L \cup {t} : L2 = (L \cup {t}) \ {h}
      BY <1>6 DEF Exchanges
  <2>2. PICK h \in L \cup {t} : L2 = (L \cup {t}) \ {h}
      BY <2>1
  <2>3. L # {} /\ K2 = K /\ n2 <= n
      BY <1>6, <2>1, <2>2 DEF Exchanges
  <2>4. n <= Cardinality(A) /\ t \in A /\ B = (A \ {t}) \cup {h} /\ h \notin A \ {t}
      BY <2>1, <2>2, <2>3 DEF Covers, A, B
  <2>5. IsFiniteSet(A \ {t}) /\ Cardinality(A \ {t}) = Cardinality(A) - 1
      BY <1>1, <2>4, FS_RemoveElement
  <2>6. Cardinality(B) = Cardinality(A)
    <3> DEFINE C == A \ {t}
    <3>1. IsFiniteSet(C) /\ Cardinality(C) = Cardinality(A) - 1 /\ B = C \cup {h} /\ h \notin C
        BY <2>4, <2>5
    <3> HIDE DEF C
    <3>2. Cardinality(B) = Cardinality(C) + 1
        BY <3>1, FS_AddElement
    <3> QED
        BY <1>1, <3>1, <3>2
  <2> QED
      BY <1>1, <2>3, <2>4, <2>6 DEF B
<1> QED
    BY <1>2, <1>3, <1>4, <1>5, <1>6

(* The receivers of a queue wait for messages, the senders for places.      *)
Side == {"recv", "send"}
ListOf(q, d) == IF d = "recv" THEN MtQueue(q) ELSE FullQueue(q)
Ops(d) == IF d = "recv" THEN {"recv"} ELSE {"send", "jam"}
Callers(q, d) == {t \in alive : call[t].mq = q /\ call[t].op \in Ops(d)}
Waiters(q, d) == Range(os.list[ListOf(q, d)])
Open(q, d) == IF d = "recv" THEN validCount[q] ELSE MsgCount[q] - validCount[q]

AllCovered == \A q \in Queue, d \in Side : Covers(Open(q, d), Callers(q, d), Waiters(q, d))

LEMMA CoveredIsNoLostWakeup == ThreadInv => (AllCovered <=> NoLostWakeup)
<1> SUFFICES ASSUME ThreadInv PROVE AllCovered <=> NoLostWakeup
    OBVIOUS
<1>1. os \in OsType
    BY SoundBasics DEF ThreadInv
<1>2. ASSUME NEW l \in Lists PROVE Range(os.list[l]) = {} <=> os.list[l] = <<>>
  <2> DEFINE list == os.list[l]
  <2>1. list \in Seq(Thread)
      BY <1>1 DEF OsType
  <2> HIDE DEF list
  <2>2. ASSUME list # <<>> PROVE list[1] \in Range(list)
      BY <2>1, <2>2 DEF Range
  <2>3. ASSUME list = <<>> PROVE Range(list) = {}
      BY <2>3 DEF Range
  <2> QED
      BY <2>2, <2>3 DEF list
<1>3. ASSUME NEW q \in Queue
      PROVE  /\ Covers(Open(q, "recv"), Callers(q, "recv"), Waiters(q, "recv")) <=>
                    (os.list[MtQueue(q)] # <<>> =>
                        validCount[q] <= Cardinality({t \in alive : call[t].mq = q /\ call[t].op \in {"recv"}}
                                                        \ Range(os.list[MtQueue(q)])))
             /\ Covers(Open(q, "send"), Callers(q, "send"), Waiters(q, "send")) <=>
                    (os.list[FullQueue(q)] # <<>> =>
                        MsgCount[q] - validCount[q] <=
                            Cardinality({t \in alive : call[t].mq = q /\ call[t].op \in {"send", "jam"}}
                                            \ Range(os.list[FullQueue(q)])))
    BY <1>2, ListsDiffer DEF Covers, Open, Callers, Waiters, ListOf, Ops
<1> QED
    BY <1>3 DEF AllCovered, Side, NoLostWakeup

LEMMA OpenType == MesgTyped => \A q \in Queue, d \in Side : Open(q, d) \in Int
BY QueuesAssumption DEF MesgTyped, Open

(* A thread in a list of a queue is among the callers it is a list of. *)
LEMMA WaitersCall ==
    ASSUME ThreadInv, NEW q \in Queue, NEW d \in Side
    PROVE  /\ Waiters(q, d) \subseteq Callers(q, d) /\ IsFiniteSet(Callers(q, d))
           /\ ListOf(q, d) \in Lists \ {RunQueue}
           /\ Waiters(q, d) = {t \in Listed(os, alive) : os.queue[t] = ListOf(q, d)}
<1>1. /\ Placed(os, Listed(os, alive)) /\ Listed(os, alive) \subseteq alive
      /\ \A t \in alive : Matches(os, call, t)
      /\ IsFiniteSet(alive)
    BY SoundBasics DEF ThreadInv, Settled
<1>2. ListOf(q, d) \in Lists \ {RunQueue}
    BY ListsDiffer DEF ListOf
<1>3. Waiters(q, d) = {t \in Listed(os, alive) : os.queue[t] = ListOf(q, d)}
    BY <1>1, <1>2, PlacedRange DEF Waiters
<1>4. Waiters(q, d) \subseteq Callers(q, d)
    BY <1>1, <1>3 DEF Matches, Callers, ListOf, Ops, Side
<1>5. Callers(q, d) \in SUBSET alive
    BY DEF Callers
<1> QED
    BY <1>1, <1>2, <1>3, <1>4, <1>5, FS_Subset

LEMMA CallersUnchanged ==
    ASSUME alive' = alive, call' = call, NEW q, NEW d
    PROVE  Callers(q, d)' = Callers(q, d)
BY DEF Callers

LEMMA WaitersUnchanged ==
    ASSUME NEW q, NEW d, os'.list[ListOf(q, d)] = os.list[ListOf(q, d)]
    PROVE  Waiters(q, d)' = Waiters(q, d)
BY DEF Waiters, ListOf, MtQueue, FullQueue

LEMMA OpenUnchanged ==
    ASSUME UNCHANGED mesgVars, NEW q, NEW d
    PROVE  Open(q, d)' = Open(q, d)
BY DEF Open, mesgVars

(* What a step does for one side of a queue. *)
Effect(q, d) ==
    \/ Keeps(Open(q, d), Callers(q, d), Waiters(q, d),
             Open(q, d)', Callers(q, d)', Waiters(q, d)')
    \/ WakesOne(Open(q, d), Callers(q, d), Waiters(q, d),
                Open(q, d)', Callers(q, d)', Waiters(q, d)')
    \/ ServesOne(Open(q, d), Callers(q, d), Waiters(q, d),
                 Open(q, d)', Callers(q, d)', Waiters(q, d)')
    \/ ServesNone(Open(q, d), Callers(q, d), Waiters(q, d),
                  Open(q, d)', Callers(q, d)', Waiters(q, d)')
    \/ Exchanges(Open(q, d), Callers(q, d), Waiters(q, d),
                 Open(q, d)', Callers(q, d)', Waiters(q, d)')
    \/ Open(q, d)' <= 0

LEMMA EffectCovers ==
    ASSUME ThreadInv, ThreadInv', MesgTyped, MesgTyped', NEW q \in Queue, NEW d \in Side,
           Covers(Open(q, d), Callers(q, d), Waiters(q, d)), Effect(q, d)
    PROVE  Covers(Open(q, d)', Callers(q, d)', Waiters(q, d)')
<1> DEFINE n == Open(q, d)
           K == Callers(q, d)
           L == Waiters(q, d)
<1>1. n \in Int /\ IsFiniteSet(K) /\ L \subseteq K
    BY OpenType, WaitersCall
<1>2. Open(q, d)' \in Int
    BY QueuesAssumption DEF MesgTyped, Open
<1>3. IsFiniteSet(Callers(q, d)')
  <2>1. IsFiniteSet(alive') /\ Callers(q, d)' \in SUBSET alive'
      BY DEF ThreadInv, Callers
  <2> QED
      BY <2>1, FS_Subset
<1> HIDE DEF n, K, L
<1>4. ASSUME NEW n2 \in Int, NEW K2, NEW L2, IsFiniteSet(K2), Covers(n, K, L),
             \/ Keeps(n, K, L, n2, K2, L2) \/ WakesOne(n, K, L, n2, K2, L2)
             \/ ServesOne(n, K, L, n2, K2, L2) \/ ServesNone(n, K, L, n2, K2, L2)
             \/ Exchanges(n, K, L, n2, K2, L2) \/ n2 <= 0
      PROVE  Covers(n2, K2, L2)
    BY <1>1, <1>4, CoversKept
<1> QED
    BY <1>2, <1>3, <1>4 DEF Effect, n, K, L

(* The lists and calls are as they were for all queues, and the messages. *)
LEMMA NothingChanged ==
    ASSUME ThreadInv, MesgTyped, NEW q \in Queue, NEW d \in Side,
           Waiters(q, d)' = Waiters(q, d), Callers(q, d)' = Callers(q, d),
           Open(q, d)' = Open(q, d)
    PROVE  Effect(q, d)
<1>1. Open(q, d) <= Open(q, d)
    BY OpenType
<1> QED
    BY <1>1 DEF Effect, Keeps

LEMMA RangesEffect ==
    ASSUME ThreadInv, MesgTyped, UNCHANGED mesgVars, alive' = alive, call' = call,
           SameRanges(os, os'), NEW q \in Queue, NEW d \in Side
    PROVE  Effect(q, d)
<1>1. ListOf(q, d) \in Lists \ {RunQueue}
    BY WaitersCall
<1>2. Waiters(q, d)' = Waiters(q, d)
    BY <1>1 DEF SameRanges, Waiters, ListOf, MtQueue, FullQueue
<1>3. Callers(q, d)' = Callers(q, d) /\ Open(q, d)' = Open(q, d)
    BY CallersUnchanged, OpenUnchanged
<1> QED
    BY <1>2, <1>3, NothingChanged

(* The running thread waits, as the queue is empty or full. *)
LEMMA WaitsEffect ==
    ASSUME ThreadInv, MesgTyped, NEW p \in Queue, NEW c \in Sends \cup Receives, Calls(c),
           NEW e \in Side, c.mq = p, c.op \in Ops(e), WaitsIn(c, ListOf(p, e)),
           Open(p, e) <= 0,
           NEW q \in Queue, NEW d \in Side
    PROVE  Effect(q, d)
<1>1. /\ alive' = alive /\ os.running \in alive
      /\ call[os.running] \in {NoCall, c} /\ call'[os.running] = c
      /\ \A u \in Thread \ {os.running} : call'[u] = call[u]
      /\ \A m \in Lists \ {RunQueue, ListOf(p, e)} : os'.list[m] = os.list[m]
  <2>1. CallFor(c, p, ListOf(p, e))
      BY DEF CallFor, ListOf, Ops, Side
  <2> QED
      BY <2>1, WaitsInv
<1>2. Open(q, d)' = Open(q, d)
    BY OpenUnchanged DEF WaitsIn
<1>3. CASE q = p /\ d = e
    BY <1>2, <1>3 DEF Effect
<1>4. CASE ~(q = p /\ d = e)
  <2>1. ListOf(q, d) \in Lists \ {RunQueue} /\ ListOf(q, d) # ListOf(p, e)
      BY <1>4, ListsDiffer DEF ListOf, Side
  <2>2. Waiters(q, d)' = Waiters(q, d)
      BY <1>1, <2>1, WaitersUnchanged
  <2>3. ~(c.mq = q /\ c.op \in Ops(d)) /\ ~(NoCall.op \in Ops(d))
      BY <1>4, CallFields DEF Ops, Side
  <2>4. \A t \in alive : call'[t].mq = q /\ call'[t].op \in Ops(d) <=> call[t].mq = q /\ call[t].op \in Ops(d)
    <3>1. alive \subseteq Thread
        BY DEF ThreadInv, ThreadsTyped
    <3> QED
        BY <1>1, <2>3, <3>1
  <2>5. Callers(q, d)' = Callers(q, d)
      BY <1>1, <2>4 DEF Callers
  <2> QED
      BY <1>2, <2>2, <2>5, NothingChanged
<1> QED
    BY <1>3, <1>4

(* One thing more for the side e of the queue p, one less for the other. *)
Counted(p, e) ==
    \A q \in Queue, d \in Side :
        Open(q, d)' = IF q # p THEN Open(q, d) ELSE IF d = e THEN Open(q, d) + 1 ELSE Open(q, d) - 1

LEMMA PutCounts ==
    ASSUME MesgTyped, NEW q \in Queue, NEW m \in Msg, PutLast(q, m) \/ PutFirst(q, m)
    PROVE  Counted(q, "recv")
<1>1. validCount \in [Queue -> Nat] /\ validCount' = [validCount EXCEPT ![q] = @ + 1]
      /\ MsgCount \in [Queue -> Nat \ {0}]
    BY QueuesAssumption DEF MesgTyped, PutLast, PutFirst
<1>2. \A p \in Queue : /\ validCount'[p] = IF p = q THEN validCount[p] + 1 ELSE validCount[p]
                       /\ validCount[p] \in Nat /\ MsgCount[p] \in Nat
    BY <1>1
<1> QED
    BY <1>2 DEF Counted, Open, Side

LEMMA TakeCounts ==
    ASSUME MesgTyped, NEW q \in Queue, Take(q)
    PROVE  Counted(q, "send")
<1>1. validCount \in [Queue -> Nat] /\ validCount' = [validCount EXCEPT ![q] = @ - 1]
      /\ MsgCount \in [Queue -> Nat \ {0}]
    BY QueuesAssumption DEF MesgTyped, Take
<1>2. \A p \in Queue : /\ validCount'[p] = IF p = q THEN validCount[p] - 1 ELSE validCount[p]
                       /\ validCount[p] \in Nat /\ MsgCount[p] \in Nat
    BY <1>1
<1> QED
    BY <1>2 DEF Counted, Open, Side

(* The effect on the lists of a wake-up from the list of one side. *)
LEMMA WakesList ==
    ASSUME ThreadInv, MesgTyped, NEW p \in Queue, NEW e \in Side, Counted(p, e),
           OnlyRunQueueAnd(ListOf(p, e), os, os'),
           os.list[ListOf(p, e)] = <<>> => Range(os'.list[ListOf(p, e)]) = {},
           os.list[ListOf(p, e)] # <<>> =>
               \E h \in Waiters(p, e) : Range(os'.list[ListOf(p, e)]) = Waiters(p, e) \ {h},
           NEW q \in Queue, NEW d \in Side,
           (q # p \/ d = e) => Callers(q, d)' = Callers(q, d),
           q = p /\ d # e => \/ Callers(q, d) \subseteq Callers(q, d)'
                             \/ \E t \in Callers(q, d) : Callers(q, d) \ {t} \subseteq Callers(q, d)'
    PROVE  Effect(q, d)
<1>1. Open(q, d) \in Int
    BY OpenType
<1>2. CASE q # p \/ d # e
  <2>1. ListOf(q, d) \in Lists \ {RunQueue} /\ ListOf(q, d) # ListOf(p, e)
      BY <1>2, ListsDiffer DEF ListOf, Side
  <2>2. Waiters(q, d)' = Waiters(q, d)
      BY <2>1, WaitersUnchanged DEF OnlyRunQueueAnd
  <2>3. CASE q # p
    <3>1. Open(q, d)' = Open(q, d)
        BY <2>3 DEF Counted
    <3> QED
        BY <2>2, <2>3, <3>1, NothingChanged
  <2>4. CASE q = p /\ d # e
    <3>1. Open(q, d)' = Open(q, d) - 1
        BY <2>4 DEF Counted
    <3>2. Open(q, d)' <= Open(q, d) - 1
        BY <1>1, <3>1
    <3> QED
        BY <2>2, <2>4, <3>2 DEF Effect, ServesOne, ServesNone
  <2> QED
      BY <1>2, <2>3, <2>4
<1>3. CASE q = p /\ d = e
  <2>1. Open(q, d)' <= Open(q, d) + 1
      BY <1>1, <1>3 DEF Counted
  <2>2. Waiters(q, d)' = Range(os'.list[ListOf(q, d)])
      BY DEF Waiters, ListOf, MtQueue, FullQueue
  <2>3. Waiters(q, d) = {} <=> os.list[ListOf(q, d)] = <<>>
    <3>1. Placed(os, Listed(os, alive)) /\ ListOf(q, d) \in Lists
        BY WaitersCall, SoundBasics DEF ThreadInv
    <3>2. os.list[ListOf(q, d)] = <<>> <=> \A t \in Listed(os, alive) : os.queue[t] # ListOf(q, d)
        BY <3>1, HeadIsBest
    <3> QED
        BY <3>2, WaitersCall
  <2> QED
      BY <1>3, <2>1, <2>2, <2>3 DEF Effect, WakesOne
<1> QED
    BY <1>2, <1>3

LEMMA WakesEffect ==
    ASSUME ThreadInv, MesgTyped, NEW p \in Queue, NEW e \in Side, Counted(p, e),
           NEW c, Calls(c), c.mq = p, c.op \in {"recv", "send", "jam"} \ Ops(e),
           Wakes(ListOf(p, e)),
           NEW q \in Queue, NEW d \in Side
    PROVE  Effect(q, d)
<1> DEFINE l == ListOf(p, e)
<1>1. l \in Lists \ {RunQueue}
    BY WaitersCall
<1>2. /\ alive' = alive /\ os.running \in alive
      /\ call[os.running] \in {NoCall, c} /\ call'[os.running] = NoCall
      /\ \A u \in Thread \ {os.running} : call'[u] = call[u]
      /\ \A m \in Lists \ {RunQueue, l} : os'.list[m] = os.list[m]
      /\ os.list[l] = <<>> => os'.list[l] = os.list[l]
      /\ os.list[l] # <<>> =>
             \E h \in Range(os.list[l]) : Range(os'.list[l]) = Range(os.list[l]) \ {h}
  <2> HIDE DEF l
  <2>1. Wakes(l)
      BY DEF l
  <2> QED
      BY <1>1, <2>1, WakesInv
<1>3. alive \subseteq Thread
    BY DEF ThreadInv, ThreadsTyped
<1>4. os.list[l] = <<>> => Range(os'.list[l]) = {}
    BY <1>2 DEF Range
<1>5. ASSUME q # p \/ d = e PROVE Callers(q, d)' = Callers(q, d)
  <2>1. ~(c.mq = q /\ c.op \in Ops(d)) /\ ~(NoCall.op \in Ops(d))
      BY <1>5, CallFields DEF Ops, Side
  <2>2. \A t \in alive : call'[t].mq = q /\ call'[t].op \in Ops(d) <=> call[t].mq = q /\ call[t].op \in Ops(d)
      BY <1>2, <1>3, <2>1
  <2> QED
      BY <1>2, <2>2 DEF Callers
<1>6. Callers(q, d) \ {os.running} \subseteq Callers(q, d)'
    BY <1>2, <1>3 DEF Callers
<1>7. \/ Callers(q, d) \subseteq Callers(q, d)'
      \/ \E t \in Callers(q, d) : Callers(q, d) \ {t} \subseteq Callers(q, d)'
    BY <1>6
<1>8. OnlyRunQueueAnd(l, os, os')
    BY <1>2 DEF OnlyRunQueueAnd
<1>9. os.list[l] # <<>> => \E h \in Waiters(p, e) : Range(os'.list[l]) = Waiters(p, e) \ {h}
    BY <1>2 DEF Waiters
<1> QED
    BY <1>4, <1>5, <1>7, <1>8, <1>9, WakesList

LEMMA EventEffect ==
    ASSUME ThreadInv, MesgTyped, NEW p \in Queue, NEW m \in Msg, send_mesg(p, m),
           NEW q \in Queue, NEW d \in Side
    PROVE  Effect(q, d)
<1> DEFINE l == MtQueue(p)
<1>1. /\ alive' = alive /\ call' = call
      /\ \/ Full(p) /\ SameRanges(os, os') /\ UNCHANGED mesgVars
         \/ /\ ~Full(p) /\ PutLast(p, m)
            /\ OnlyRunQueueAnd(MtQueue(p), os, os')
            /\ os.list[MtQueue(p)] = <<>> => SameRanges(os, os')
            /\ os.list[MtQueue(p)] # <<>> =>
                   \E h \in Range(os.list[MtQueue(p)]) :
                       Range(os'.list[MtQueue(p)]) = Range(os.list[MtQueue(p)]) \ {h}
    BY EventInv
<1>2. CASE SameRanges(os, os') /\ UNCHANGED mesgVars
    BY <1>1, <1>2, RangesEffect
<1>3. CASE /\ PutLast(p, m) /\ OnlyRunQueueAnd(l, os, os')
           /\ os.list[l] = <<>> => SameRanges(os, os')
           /\ os.list[l] # <<>> =>
                  \E h \in Range(os.list[l]) : Range(os'.list[l]) = Range(os.list[l]) \ {h}
  <2>1. "recv" \in Side /\ l = ListOf(p, "recv") /\ l \in Lists \ {RunQueue}
      BY ListsDiffer DEF Side, ListOf
  <2>2. Counted(p, "recv")
      BY <1>3, PutCounts
  <2>3. Callers(q, d)' = Callers(q, d)
      BY <1>1, CallersUnchanged
  <2>4. os.list[l] = <<>> => Range(os'.list[l]) = {}
    <3>1. os.list[l] = <<>> => Range(os'.list[l]) = Range(os.list[l])
        BY <1>3, <2>1 DEF SameRanges
    <3>2. Range(<< >>) = {}
        BY DEF Range
    <3> QED
        BY <3>1, <3>2
  <2>5. Waiters(p, "recv") = Range(os.list[l])
      BY <2>1 DEF Waiters
  <2> HIDE DEF l
  <2> QED
      BY <1>3, <2>1, <2>2, <2>3, <2>4, <2>5, WakesList
<1> QED
    BY <1>1, <1>2, <1>3

LEMMA StartEffect ==
    ASSUME ThreadInv, MesgTyped, NEW t \in Thread, osStartThread(t),
           NEW q \in Queue, NEW d \in Side
    PROVE  Effect(q, d)
<1> DEFINE l == ListOf(q, d)
<1>1. /\ alive' = alive /\ call' = call /\ t \in alive /\ os.state[t] = "stopped"
      /\ OnlyExchanged(os, os', t)
    BY StartInv
<1>2. Callers(q, d)' = Callers(q, d) /\ Open(q, d)' = Open(q, d) /\ Open(q, d) \in Int
    BY <1>1, CallersUnchanged, OpenUnchanged, OpenType DEF osStartThread
<1>3. l \in Lists \ {RunQueue} /\ Waiters(q, d) = {u \in Listed(os, alive) : os.queue[u] = l}
    BY WaitersCall
<1>4. CASE os'.list[l] = os.list[l]
    BY <1>2, <1>4, WaitersUnchanged, NothingChanged
<1>5. CASE Exchanged(os, os', l, t)
  <2>1. os.queue[t] = l
      BY <1>5 DEF Exchanged
  <2>2. t \in Callers(q, d)
    <3>1. Matches(os, call, t)
        BY <1>1, SoundBasics DEF ThreadInv, Settled
    <3> QED
        BY <1>1, <2>1, <3>1 DEF Matches, Callers, ListOf, Ops, Side
  <2>3. t \notin Waiters(q, d)
      BY <1>1, <1>3 DEF Listed, Unstopped
  <2>4. \E h \in Waiters(q, d) \cup {t} : Waiters(q, d)' = (Waiters(q, d) \cup {t}) \ {h}
    <3>1. Waiters(q, d)' = Range(os'.list[l]) /\ Waiters(q, d) = Range(os.list[l])
        BY DEF Waiters, ListOf, MtQueue, FullQueue
    <3> QED
        BY <1>5, <3>1 DEF Exchanged
  <2> QED
      BY <1>2, <2>2, <2>3, <2>4 DEF Effect, Exchanges
<1> QED
    BY <1>1, <1>3, <1>4, <1>5 DEF OnlyExchanged

LEMMA StopEffect ==
    ASSUME ThreadInv, MesgTyped, NEW t \in Thread, osStopThread(t),
           NEW q \in Queue, NEW d \in Side
    PROVE  Effect(q, d)
<1>1. /\ alive' = alive /\ call' = call
      /\ \A m \in Lists \ {RunQueue} :
             \/ os'.list[m] = os.list[m]
             \/ Range(os'.list[m]) = Range(os.list[m]) \ {t}
    BY StopInv
<1>2. Callers(q, d)' = Callers(q, d) /\ Open(q, d)' = Open(q, d) /\ Open(q, d) \in Int
    BY <1>1, CallersUnchanged, OpenUnchanged, OpenType DEF osStopThread
<1>3. Waiters(q, d)' \in {Waiters(q, d), Waiters(q, d) \ {t}}
  <2>1. ListOf(q, d) \in Lists \ {RunQueue}
      BY WaitersCall
  <2>2. Waiters(q, d)' = Range(os'.list[ListOf(q, d)]) /\ Waiters(q, d) = Range(os.list[ListOf(q, d)])
      BY DEF Waiters, ListOf, MtQueue, FullQueue
  <2> QED
      BY <1>1, <2>1, <2>2
<1> QED
    BY <1>2, <1>3 DEF Effect, Keeps

LEMMA CreateEffect ==
    ASSUME ThreadInv, MesgTyped, NEW t \in Thread \ {Idle}, NEW p \in Pri, osCreateThread(t, p),
           NEW q \in Queue, NEW d \in Side
    PROVE  Effect(q, d)
<1>1. alive' = alive \cup {t} /\ call' = call /\ call[t] = NoCall /\ os'.list = os.list
    BY CreateInv
<1>2. Callers(q, d)' = Callers(q, d)
    BY <1>1, CallFields DEF Callers, Ops, Side
<1>3. Waiters(q, d)' = Waiters(q, d)
    BY <1>1, WaitersUnchanged
<1>4. Open(q, d)' = Open(q, d)
    BY OpenUnchanged DEF osCreateThread
<1> QED
    BY <1>2, <1>3, <1>4, NothingChanged

(* A thread that was woken and has not looked yet may not be destroyed. *)
LEMMA DestroyEffect ==
    ASSUME ThreadInv, MesgTyped, ~MayRob, NEW t \in Thread, osDestroyThread(t),
           NEW q \in Queue, NEW d \in Side
    PROVE  Effect(q, d)
<1> DEFINE l == ListOf(q, d)
           K == Callers(q, d)
           L == Waiters(q, d)
<1>1. /\ alive' = alive \ {t} /\ call' = [call EXCEPT ![t] = NoCall]
      /\ t \in alive /\ ~Woken(t)
      /\ \A m \in Lists \ {RunQueue} :
             \/ os'.list[m] = os.list[m]
             \/ Range(os'.list[m]) = Range(os.list[m]) \ {t}
    BY DestroyInv
<1>2. Open(q, d)' = Open(q, d) /\ Open(q, d) \in Int
    BY OpenUnchanged, OpenType DEF osDestroyThread
<1>3. L' \in {L, L \ {t}}
  <2>1. l \in Lists \ {RunQueue}
      BY WaitersCall
  <2>2. L' = Range(os'.list[l]) /\ L = Range(os.list[l])
      BY DEF Waiters, ListOf, MtQueue, FullQueue
  <2> QED
      BY <1>1, <2>1, <2>2
<1>4. K' = K \ {t}
  <2>1. \A u \in Thread \ {t} : call'[u] = call[u]
      BY <1>1 DEF ThreadInv, ThreadsTyped
  <2>2. alive \subseteq Thread
      BY DEF ThreadInv, ThreadsTyped
  <2> QED
      BY <1>1, <2>1, <2>2 DEF Callers
<1>5. t \in K => t \in L
  <2> SUFFICES ASSUME t \in K PROVE t \in L
      OBVIOUS
  <2>1. call[t].mq = q /\ call[t].op \in Ops(d) /\ call[t] # NoCall
      BY CallFields DEF Callers, Ops, Side
  <2>2. os \in OsType /\ MtQueue(q) \in Lists /\ FullQueue(q) \in Lists
      BY SoundBasics, ListsDiffer DEF ThreadInv
  <2>3. t \in Range(os.list[MtQueue(q)]) \/ t \in Range(os.list[FullQueue(q)])
      BY <1>1, <2>1, <2>2, ContainsIsRange DEF Woken
  <2>4. t \in Waiters(q, "recv") \/ t \in Waiters(q, "send")
      BY <2>3 DEF Waiters, ListOf
  <2>5. t \in Callers(q, "recv") \/ t \in Callers(q, "send")
      BY <2>4, WaitersCall DEF Side
  <2>6. ASSUME NEW e \in Side, t \in Waiters(q, e) PROVE e = d
    <3>1. t \in Callers(q, e)
        BY <2>6, WaitersCall
    <3> QED
        BY <2>1, <3>1 DEF Callers, Ops, Side
  <2> QED
      BY <2>4, <2>6 DEF Side
<1>6. K \ L \subseteq K' \ L' /\ (L' # {} => L # {})
    BY <1>3, <1>4, <1>5
<1> QED
    BY <1>2, <1>6 DEF Effect, Keeps

LEMMA StepEffect ==
    ASSUME ThreadInv, MesgTyped, ~MayRob, [Next]_vars, NEW q \in Queue, NEW d \in Side
    PROVE  Effect(q, d)
<1>1. CASE MesgCall
  <2>1. PICK p \in Queue : \/ \E m \in Msg : osSendMesg(p, m) \/ osJamMesg(p, m) \/ send_mesg(p, m)
                           \/ osRecvMesg(p)
      BY <1>1 DEF MesgCall
  <2>2. /\ "recv" \in Side /\ "send" \in Side
        /\ MtQueue(p) = ListOf(p, "recv") /\ FullQueue(p) = ListOf(p, "send")
        /\ Ops("recv") = {"recv"} /\ Ops("send") = {"send", "jam"}
      BY DEF Side, ListOf, Ops
  <2>3. /\ Full(p) => Open(p, "send") <= 0
        /\ Empty(p) => Open(p, "recv") <= 0
      BY QueuesAssumption DEF Open, Full, Empty, MesgTyped
  <2>4. ASSUME NEW m \in Msg, osSendMesg(p, m) PROVE Effect(q, d)
    <3> DEFINE c == SendCall(p, m)
    <3>1. Calls(c) /\ c \in Sends /\ c.mq = p /\ c.op = "send"
        BY <2>4, QueueCalls DEF SendCall
    <3>2. \/ Full(p) /\ WaitsIn(c, ListOf(p, "send"))
          \/ PutLast(p, m) /\ Wakes(ListOf(p, "recv"))
        BY <2>2, <2>4, QueueCalls
    <3> HIDE DEF c
    <3> QED
        BY <2>2, <2>3, <3>1, <3>2, PutCounts, WaitsEffect, WakesEffect
  <2>5. ASSUME NEW m \in Msg, osJamMesg(p, m) PROVE Effect(q, d)
    <3> DEFINE c == JamCall(p, m)
    <3>1. Calls(c) /\ c \in Sends /\ c.mq = p /\ c.op = "jam"
        BY <2>5, QueueCalls DEF JamCall
    <3>2. \/ Full(p) /\ WaitsIn(c, ListOf(p, "send"))
          \/ PutFirst(p, m) /\ Wakes(ListOf(p, "recv"))
        BY <2>2, <2>5, QueueCalls
    <3> HIDE DEF c
    <3> QED
        BY <2>2, <2>3, <3>1, <3>2, PutCounts, WaitsEffect, WakesEffect
  <2>6. CASE osRecvMesg(p)
    <3> DEFINE c == RecvCall(p)
    <3>1. Calls(c) /\ c \in Receives /\ c.mq = p /\ c.op = "recv"
        BY <2>6, QueueCalls DEF RecvCall
    <3>2. \/ Empty(p) /\ WaitsIn(c, ListOf(p, "recv"))
          \/ Take(p) /\ Wakes(ListOf(p, "send"))
        BY <2>2, <2>6, QueueCalls
    <3> HIDE DEF c
    <3> QED
        BY <2>2, <2>3, <3>1, <3>2, TakeCounts, WaitsEffect, WakesEffect
  <2>7. ASSUME NEW m \in Msg, send_mesg(p, m) PROVE Effect(q, d)
      BY <2>7, EventEffect
  <2> QED
      BY <2>1, <2>4, <2>5, <2>6, <2>7
<1>2. CASE ThreadCall
  <2>1. ASSUME NEW t \in Thread, osStartThread(t) PROVE Effect(q, d)
      BY <2>1, StartEffect
  <2>2. ASSUME NEW t \in Thread, osStopThread(t) PROVE Effect(q, d)
      BY <2>2, StopEffect
  <2>3. ASSUME NEW t \in Thread, osDestroyThread(t) PROVE Effect(q, d)
      BY <2>3, DestroyEffect
  <2>4. ASSUME NEW t \in Thread \ {Idle}, NEW p \in Pri, osCreateThread(t, p) PROVE Effect(q, d)
      BY <2>4, CreateEffect
  <2>5. ASSUME NEW t \in Thread, NEW p \in Pri \cup {0}, osSetThreadPri(t, p) PROVE Effect(q, d)
      BY <2>5, PriorityInv, RangesEffect DEF osSetThreadPri
  <2>6. CASE osYieldThread
      BY <2>6, YieldInv, RangesEffect DEF osYieldThread
  <2> QED
      BY <1>2, <2>1, <2>2, <2>3, <2>4, <2>5, <2>6, ThreadsAssumption DEF ThreadCall
<1>3. CASE redispatch
    BY <1>3, RedispatchInv, RangesEffect DEF redispatch
<1>4. CASE UNCHANGED vars
  <2>1. UNCHANGED mesgVars /\ alive' = alive /\ call' = call /\ SameRanges(os, os')
      BY <1>4 DEF vars, threadVars, SameRanges
  <2> QED
      BY <2>1, RangesEffect
<1> QED
    BY <1>1, <1>2, <1>3, <1>4 DEF Next

LEMMA AllCoveredStep ==
    ASSUME ~MayRob
    PROVE  ThreadInv /\ ThreadInv' /\ MesgTyped /\ MesgTyped' /\ AllCovered /\ [Next]_vars
               => AllCovered'
<1> SUFFICES ASSUME ThreadInv, ThreadInv', MesgTyped, MesgTyped', AllCovered, [Next]_vars,
                    NEW q \in Queue, NEW d \in Side
             PROVE  Covers(Open(q, d)', Callers(q, d)', Waiters(q, d)')
    BY DEF AllCovered, Covers
<1>1. Effect(q, d) /\ Covers(Open(q, d), Callers(q, d), Waiters(q, d))
    BY StepEffect DEF AllCovered
<1> QED
    BY <1>1, EffectCovers

LEMMA AllCoveredInit == Init => AllCovered
<1> SUFFICES ASSUME Init, NEW q \in Queue, NEW d \in Side PROVE Waiters(q, d) = {}
    BY DEF AllCovered, Covers
<1>1. ListOf(q, d) \in Lists
    BY ListsDiffer DEF ListOf
<1>2. os.list[ListOf(q, d)] = <<>>
    BY <1>1 DEF Init
<1> QED
    BY <1>2 DEF Waiters, Range

(* Unless a thread is destroyed between its wake-up and its turn, a thread   *)
(* that waits in osRecvMesg or osSendMesg is not left waiting while there is *)
(* something for it: each message and each free place has a thread that was  *)
(* woken for it.                                                            *)
THEOREM NoWakeupLost ==
    ASSUME ~MayRob
    PROVE  Spec => []NoLostWakeup
<1>1. Init => AllCovered
    BY AllCoveredInit
<1>2. ThreadInv /\ ThreadInv' /\ MesgTyped /\ MesgTyped' /\ AllCovered /\ [Next]_vars => AllCovered'
    BY AllCoveredStep
<1>3. ThreadInv /\ AllCovered => NoLostWakeup
    BY CoveredIsNoLostWakeup
<1>4. Spec => []AllCovered
    BY <1>1, <1>2, ThreadsSound, MesgTypeCorrect, PTL DEF Spec
<1> QED
    BY <1>3, <1>4, ThreadsSound, PTL
=============================================================================
