---------------------------- MODULE BoundedFifo ----------------------------
(***************************************************************************)
(* What osSendMesg, osJamMesg and osRecvMesg promise: bounded queues of     *)
(* messages.  A call or an interrupt adds a message at the end, osJamMesg   *)
(* in front, if there is room; a message is received from the front.        *)
(***************************************************************************)
EXTENDS Naturals, Sequences

CONSTANTS Queue, Msg, MsgCount, NULL

VARIABLES
    buf,        \* the messages of each queue, first to be received first
    received    \* the message that was received last

HasRoom(q) == Len(buf[q]) < MsgCount[q]

Send(q, m) == HasRoom(q) /\ buf' = [buf EXCEPT ![q] = Append(@, m)] /\ UNCHANGED received

Jam(q, m) == HasRoom(q) /\ buf' = [buf EXCEPT ![q] = <<m>> \o @] /\ UNCHANGED received

Receive(q) ==
    /\ buf[q] # <<>>
    /\ received' = Head(buf[q])
    /\ buf' = [buf EXCEPT ![q] = Tail(@)]

Init == buf = [q \in Queue |-> <<>>] /\ received = NULL

Next == \E q \in Queue : Receive(q) \/ \E m \in Msg : Send(q, m) \/ Jam(q, m)

Spec == Init /\ [][Next]_<<buf, received>>
=============================================================================
