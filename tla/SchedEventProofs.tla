-------------------------- MODULE SchedEventProofs --------------------------
(***************************************************************************)
(* Proof that the interrupts and the scheduler's view of the processors    *)
(* never come apart, so that no assertion of sched.c fails; and that the   *)
(* picture is whole.                                                       *)
(***************************************************************************)
EXTENDS SchedProofs

LEMMA IntervalLen ==
    ASSUME NEW n \in Nat PROVE Cardinality(1..n) = n
<1>1. Cardinality(1..n) = IF 1 > n THEN 0 ELSE n - 1 + 1
  BY FS_Interval
<1> QED BY <1>1

(* A queue is no longer than its messages of each kind together. *)
LEMMA LenIsCounts ==
    ASSUME NEW q \in Seq(Messages)
    PROVE  Len(q) <= Count(q, "RETRACE") + Count(q, "ENTRY") + Count(q, "RSP_DONE")
                     + Count(q, "RDP_DONE") + Count(q, "RESET") + Count(q, "NMI")
<1> DEFINE A == Positions(q, "RETRACE")
           B == Positions(q, "ENTRY")
           C == Positions(q, "RSP_DONE")
           D == Positions(q, "RDP_DONE")
           E == Positions(q, "RESET")
           F == Positions(q, "NMI")
<1>1. /\ IsFiniteSet(A) /\ IsFiniteSet(B) /\ IsFiniteSet(C) /\ IsFiniteSet(D) /\ IsFiniteSet(E)
      /\ IsFiniteSet(F) /\ Cardinality(F) = Count(q, "NMI") /\ Count(q, "NMI") \in Nat
      /\ Cardinality(A) = Count(q, "RETRACE") /\ Count(q, "RETRACE") \in Nat
      /\ Cardinality(B) = Count(q, "ENTRY") /\ Count(q, "ENTRY") \in Nat
      /\ Cardinality(C) = Count(q, "RSP_DONE") /\ Count(q, "RSP_DONE") \in Nat
      /\ Cardinality(D) = Count(q, "RDP_DONE") /\ Count(q, "RDP_DONE") \in Nat
      /\ Cardinality(E) = Count(q, "RESET") /\ Count(q, "RESET") \in Nat
  BY PositionsFinite DEF Count
<1>2. Len(q) \in Nat /\ DOMAIN q = 1..Len(q) /\ \A i \in 1..Len(q) : q[i] \in Messages
  BY LenProperties, ElementOfSeq
<1>3. 1..Len(q) = A \cup (B \cup (C \cup (D \cup (E \cup F))))
  BY <1>2 DEF Positions, Messages
<1>4. Cardinality(1..Len(q)) = Len(q)
  BY <1>2, IntervalLen
<1>5. ASSUME NEW S, NEW T, IsFiniteSet(S), IsFiniteSet(T)
      PROVE  /\ IsFiniteSet(S \cup T)
             /\ Cardinality(S \cup T) \in Nat
             /\ Cardinality(S \cup T) <= Cardinality(S) + Cardinality(T)
  <2>1. /\ IsFiniteSet(S \cup T)
        /\ Cardinality(S \cup T) = Cardinality(S) + Cardinality(T) - Cardinality(S \cap T)
    BY <1>5, FS_Union
  <2>2. IsFiniteSet(S \cap T)
    BY <1>5, FS_Subset
  <2>3. Cardinality(S) \in Nat /\ Cardinality(T) \in Nat /\ Cardinality(S \cap T) \in Nat
        /\ Cardinality(S \cup T) \in Nat
    BY <1>5, <2>1, <2>2, FS_CardinalityType
  <2> QED BY <2>1, <2>3
<1> HIDE DEF A, B, C, D, E, F
<1>10. /\ IsFiniteSet(E \cup F) /\ Cardinality(E \cup F) \in Nat
       /\ Cardinality(E \cup F) <= Cardinality(E) + Cardinality(F)
  BY <1>1, <1>5
<1>6. /\ IsFiniteSet(D \cup (E \cup F)) /\ Cardinality(D \cup (E \cup F)) \in Nat
      /\ Cardinality(D \cup (E \cup F)) <= Cardinality(D) + Cardinality(E \cup F)
  BY <1>1, <1>5, <1>10
<1>7. /\ IsFiniteSet(C \cup (D \cup (E \cup F))) /\ Cardinality(C \cup (D \cup (E \cup F))) \in Nat
      /\ Cardinality(C \cup (D \cup (E \cup F))) <= Cardinality(C) + Cardinality(D \cup (E \cup F))
  BY <1>1, <1>5, <1>6
<1>8. /\ IsFiniteSet(B \cup (C \cup (D \cup (E \cup F)))) /\ Cardinality(B \cup (C \cup (D \cup (E \cup F)))) \in Nat
      /\ Cardinality(B \cup (C \cup (D \cup (E \cup F)))) <= Cardinality(B) + Cardinality(C \cup (D \cup (E \cup F)))
  BY <1>1, <1>5, <1>7
<1>9. Cardinality(1..Len(q)) <= Cardinality(A) + Cardinality(B \cup (C \cup (D \cup (E \cup F))))
  BY <1>1, <1>3, <1>5, <1>8
<1>11. Cardinality(D \cup (E \cup F))
           <= Count(q, "RDP_DONE") + Count(q, "RESET") + Count(q, "NMI")
  BY <1>1, <1>6, <1>10
<1>12. Cardinality(B \cup (C \cup (D \cup (E \cup F))))
           <= Count(q, "ENTRY") + Count(q, "RSP_DONE") + Cardinality(D \cup (E \cup F))
  BY <1>1, <1>6, <1>7, <1>8
<1> QED BY <1>1, <1>2, <1>4, <1>6, <1>8, <1>9, <1>11, <1>12

(* Posting a message: it is counted if there was room for it.               *)
LEMMA CountSend ==
    ASSUME NEW q \in Seq(Messages), NEW m \in Messages, NEW x
    PROVE  /\ Count(q, x) \in Nat
           /\ Len(q) < IntQCap => Count(Send(q, m), x) = Count(q, x) + (IF m = x THEN 1 ELSE 0)
           /\ m # x => Count(Send(q, m), x) = Count(q, x)
           /\ Count(Send(q, m), x) \in {Count(q, x), Count(q, x) + 1}
<1>1. Count(q, x) \in Nat
  BY PositionsFinite
<1>2. Count(Append(q, m), x) = Count(q, x) + (IF m = x THEN 1 ELSE 0)
  BY CountAppend
<1> QED BY <1>1, <1>2 DEF Send

(* The counts of the interrupt queue after its first message is received.   *)
LEMMA CountRecv ==
    ASSUME CoreInv, interruptQ # <<>>, NEW x
    PROVE  /\ Count(Tail(interruptQ), x) =
                  Count(interruptQ, x) - (IF Head(interruptQ) = x THEN 1 ELSE 0)
           /\ Count(interruptQ, x) \in Nat
           /\ Count(Tail(interruptQ), x) \in Nat
           /\ Head(interruptQ) = x => Count(interruptQ, x) > 0
<1>1. interruptQ \in Seq(Messages) /\ Tail(interruptQ) \in Seq(Messages)
  BY SeqFacts DEF CoreInv, TypeOK, QueuesTyped
<1> QED BY <1>1, CountTail, CountHead, PositionsFinite

eventVars == <<interruptQ, curRSPTask, curRDPTask, rspTask, rdp, frozen, resetStatus>>

(* EventInv, with its counts as plain numbers. *)
EventsAt(q, rsp, rdpTask, hw, rdpState, froz, sent) ==
    /\ Count(q, "RETRACE") <= RetraceBacklog
    /\ Count(q, "ENTRY") <= EntryBacklog
    /\ Count(q, "RESET") <= IF sent > 0 THEN 1 ELSE 0
    /\ Count(q, "NMI") <= IF sent > 1 THEN 1 ELSE 0
    /\ sent > 0 => MayReset
    /\ froz => Count(q, "RDP_DONE") <= IF rdpTask # NULL THEN 1 ELSE 0
    /\ Count(q, "RSP_DONE") = IF rsp # NULL /\ hw = NULL THEN 1 ELSE 0
    /\ hw # NULL => hw = rsp
    /\ ~froz => Count(q, "RDP_DONE") = IF rdpTask # NULL /\ rdpState = "idle" THEN 1 ELSE 0
    /\ rdpState # "idle" /\ ~froz => rdpTask # NULL

LEMMA EventInvAt ==
    /\ EventInv <=> EventsAt(interruptQ, curRSPTask, curRDPTask, rspTask, rdp, frozen, resetStatus)
    /\ EventInv' <=> EventsAt(interruptQ', curRSPTask', curRDPTask', rspTask', rdp', frozen',
                              resetStatus')
<1>1. EventInv <=> EventsAt(interruptQ, curRSPTask, curRDPTask, rspTask, rdp, frozen, resetStatus)
  BY DEF EventInv, QueueBound, EventsMatchOwners, EventsAt
<1>2. EventInv' <=> EventsAt(interruptQ', curRSPTask', curRDPTask', rspTask', rdp', frozen',
                             resetStatus')
  BY DEF EventInv, QueueBound, EventsMatchOwners, EventsAt, Count, Positions
<1> QED BY <1>1, <1>2

LEMMA EventInit == Init => EventInv
<1> SUFFICES ASSUME Init PROVE EventInv
  OBVIOUS
<1>1. \A x : Count(interruptQ, x) = 0
  BY CountEmpty DEF Init
<1>2. RetraceBacklog \in Nat /\ EntryBacklog \in Nat
  BY ConstantsAssumption
<1> QED BY <1>1, <1>2 DEF Init, EventInv, QueueBound, EventsMatchOwners

(* Room in the interrupt queue while at most one done message is in it.     *)
LEMMA RoomForDone ==
    ASSUME NEW q \in Seq(Messages),
           Count(q, "RETRACE") <= RetraceBacklog, Count(q, "ENTRY") <= EntryBacklog,
           Count(q, "RESET") + Count(q, "NMI") <= IF MayReset THEN 2 ELSE 0,
           Count(q, "RSP_DONE") + Count(q, "RDP_DONE") <= 1
    PROVE  Len(q) < IntQCap
<1>1. /\ Count(q, "RETRACE") \in Nat /\ Count(q, "ENTRY") \in Nat /\ Count(q, "RESET") \in Nat
      /\ Count(q, "RSP_DONE") \in Nat /\ Count(q, "RDP_DONE") \in Nat /\ Count(q, "NMI") \in Nat
      /\ Len(q) \in Nat
  BY PositionsFinite, LenProperties
<1>2. RetraceBacklog \in Nat /\ EntryBacklog \in Nat /\ IntQCap \in Nat
      /\ RetraceBacklog + EntryBacklog + (IF MayReset THEN 4 ELSE 2) <= IntQCap
  BY ConstantsAssumption, QueueRoom
<1>3. Len(q) <= Count(q, "RETRACE") + Count(q, "ENTRY") + Count(q, "RSP_DONE")
                + Count(q, "RDP_DONE") + Count(q, "RESET") + Count(q, "NMI")
  BY LenIsCounts
<1> QED BY <1>1, <1>2, <1>3

(* Messages that are not about the processors come and go freely.           *)
LEMMA EventOther ==
    ASSUME CoreInv, EventInv, interruptQ # <<>>, interruptQ' = Tail(interruptQ),
           Head(interruptQ) \notin {"RSP_DONE", "RDP_DONE"},
           UNCHANGED <<curRSPTask, curRDPTask, rspTask, rdp, frozen, resetStatus>>
    PROVE  EventInv'
<1>1. \A x : Count(interruptQ', x) <= Count(interruptQ, x)
  BY CountRecv
<1>2. /\ Count(interruptQ', "RSP_DONE") = Count(interruptQ, "RSP_DONE")
      /\ Count(interruptQ', "RDP_DONE") = Count(interruptQ, "RDP_DONE")
      /\ Count(interruptQ', "RETRACE") \in Nat /\ Count(interruptQ, "RETRACE") \in Nat
      /\ Count(interruptQ', "ENTRY") \in Nat /\ Count(interruptQ, "ENTRY") \in Nat
      /\ Count(interruptQ', "RESET") \in Nat /\ Count(interruptQ, "RESET") \in Nat
      /\ Count(interruptQ', "NMI") \in Nat /\ Count(interruptQ, "NMI") \in Nat
  BY CountRecv
<1>3. RetraceBacklog \in Nat /\ EntryBacklog \in Nat
  BY ConstantsAssumption
<1>4. EventsAt(interruptQ, curRSPTask, curRDPTask, rspTask, rdp, frozen, resetStatus)
  BY EventInvAt
<1>5. EventsAt(interruptQ', curRSPTask, curRDPTask, rspTask, rdp, frozen, resetStatus)
  BY <1>1, <1>2, <1>3, <1>4 DEF EventsAt
<1> QED BY <1>5, EventInvAt

(* The processors' own messages, and the steps that start or stop a         *)
(* processor.                                                               *)
LEMMA EventHandleRSPDone == CoreInv /\ EventInv /\ Sched_HandleRSPDone => EventInv' /\ curRSPTask # NULL
<1> SUFFICES ASSUME CoreInv, EventInv, Sched_HandleRSPDone
             PROVE  EventInv' /\ curRSPTask # NULL
  OBVIOUS
<1>1. interruptQ # <<>> /\ interruptQ' = Tail(interruptQ) /\ Head(interruptQ) = "RSP_DONE"
  BY DEF Sched_HandleRSPDone, Recv
<1>2. EventsAt(interruptQ, curRSPTask, curRDPTask, rspTask, rdp, frozen, resetStatus)
  BY EventInvAt
<1>3. curRSPTask # NULL /\ rspTask = NULL /\ Count(interruptQ, "RSP_DONE") = 1
  BY <1>1, <1>2, CountRecv DEF EventsAt
<1>4. /\ curRSPTask' = NULL
      /\ UNCHANGED <<curRDPTask, rspTask, rdp, frozen, resetStatus>>
  BY <1>3 DEF Sched_HandleRSPDone, rspVars, rdpVars, envVars
<1>5. /\ Count(interruptQ', "RSP_DONE") = 0
      /\ Count(interruptQ', "RDP_DONE") = Count(interruptQ, "RDP_DONE")
      /\ Count(interruptQ', "RETRACE") = Count(interruptQ, "RETRACE")
      /\ Count(interruptQ', "ENTRY") = Count(interruptQ, "ENTRY")
      /\ Count(interruptQ', "RESET") = Count(interruptQ, "RESET")
      /\ Count(interruptQ', "NMI") = Count(interruptQ, "NMI")
  BY <1>1, <1>3, CountRecv
<1>6. EventsAt(interruptQ', NULL, curRDPTask, rspTask, rdp, frozen, resetStatus)
  BY <1>2, <1>3, <1>5 DEF EventsAt
<1> QED BY <1>3, <1>4, <1>6, EventInvAt

LEMMA EventHandleRDPDone ==
    CoreInv /\ EventInv /\ Sched_HandleRDPDone =>
        EventInv' /\ curRDPTask # NULL /\ Type[curRDPTask] = "GFX"
<1> SUFFICES ASSUME CoreInv, EventInv, Sched_HandleRDPDone
             PROVE  EventInv' /\ curRDPTask # NULL /\ Type[curRDPTask] = "GFX"
  OBVIOUS
<1>1. interruptQ # <<>> /\ interruptQ' = Tail(interruptQ) /\ Head(interruptQ) = "RDP_DONE"
  BY DEF Sched_HandleRDPDone, Recv
<1>2. EventsAt(interruptQ, curRSPTask, curRDPTask, rspTask, rdp, frozen, resetStatus)
  BY EventInvAt
<1>3. frozen \in BOOLEAN /\ Count(interruptQ, "RDP_DONE") \in Nat \ {0}
  BY <1>1, CountRecv DEF CoreInv, TypeOK, HardwareTyped
<1>4. /\ curRDPTask # NULL /\ Count(interruptQ, "RDP_DONE") = 1
      /\ ~frozen => rdp = "idle"
  BY <1>2, <1>3 DEF EventsAt
<1>5. Type[curRDPTask] = "GFX"
  BY <1>4 DEF CoreInv, OwnersOK
<1>6. /\ curRDPTask' = NULL
      /\ UNCHANGED <<curRSPTask, rspTask, rdp, frozen, resetStatus>>
  BY <1>4, <1>5 DEF Sched_HandleRDPDone, rspVars, rdpVars, envVars
<1>7. /\ Count(interruptQ', "RDP_DONE") = 0
      /\ Count(interruptQ', "RSP_DONE") = Count(interruptQ, "RSP_DONE")
      /\ Count(interruptQ', "RETRACE") = Count(interruptQ, "RETRACE")
      /\ Count(interruptQ', "ENTRY") = Count(interruptQ, "ENTRY")
      /\ Count(interruptQ', "RESET") = Count(interruptQ, "RESET")
      /\ Count(interruptQ', "NMI") = Count(interruptQ, "NMI")
  BY <1>1, <1>4, CountRecv
<1>8. EventsAt(interruptQ', curRSPTask, NULL, rspTask, rdp, frozen, resetStatus)
  BY <1>2, <1>4, <1>7 DEF EventsAt
<1> QED BY <1>4, <1>5, <1>6, <1>8, EventInvAt

(* Without ResetRace the made-up done messages are the only ones of their   *)
(* submission: the task hangs, and neither of its messages is queued.       *)
LEMMA EventHandleReset ==
    ASSUME ~ResetRace PROVE CoreInv /\ EventInv /\ Sched_HandleReset => EventInv'
<1> SUFFICES ASSUME CoreInv, EventInv, Sched_HandleReset PROVE EventInv'
  OBVIOUS
<1>1. interruptQ # <<>> /\ Head(interruptQ) = "RESET"
  BY DEF Sched_HandleReset
<1>2. EventsAt(interruptQ, curRSPTask, curRDPTask, rspTask, rdp, frozen, resetStatus)
  BY EventInvAt
<1>3. CASE interruptQ' = Tail(interruptQ) /\ UNCHANGED <<rspTask, hung, frozen>>
  <2>1. UNCHANGED <<curRSPTask, curRDPTask, rspTask, rdp, frozen, resetStatus>>
    BY <1>3 DEF Sched_HandleReset, curVars
  <2> QED BY <1>1, <1>3, <2>1, EventOther
<1>4. CASE /\ curRSPTask # NULL /\ MayBeLate
           /\ interruptQ' = IF curRDPTask # NULL
                            THEN Send(Send(Tail(interruptQ), "RSP_DONE"), "RDP_DONE")
                            ELSE Send(Tail(interruptQ), "RSP_DONE")
           /\ rspTask' = NULL /\ frozen' = TRUE
  <2> DEFINE q == Tail(interruptQ)
             q1 == Send(q, "RSP_DONE")
             q2 == Send(q1, "RDP_DONE")
  <2>1. Count(interruptQ, "RSP_DONE") = 0 /\ Count(interruptQ, "RDP_DONE") = 0
    BY <1>4 DEF MayBeLate
  <2>2. /\ Count(interruptQ, "RESET") \in Nat /\ Count(interruptQ, "RESET") <= 1
        /\ Count(interruptQ, "NMI") \in Nat /\ Count(interruptQ, "NMI") <= 1
        /\ resetStatus \in 0..2 /\ resetStatus > 0 /\ MayReset
    BY <1>1, <1>2, CountRecv DEF EventsAt, CoreInv, TypeOK, HardwareTyped
  <2>3. /\ Count(q, "RESET") = 0 /\ Count(q, "RSP_DONE") = 0 /\ Count(q, "RDP_DONE") = 0
        /\ Count(q, "RETRACE") = Count(interruptQ, "RETRACE")
        /\ Count(q, "ENTRY") = Count(interruptQ, "ENTRY")
        /\ Count(q, "NMI") = Count(interruptQ, "NMI")
    BY <1>1, <2>1, <2>2, CountRecv
  <2>4. q \in Seq(Messages) /\ Len(q) <= IntQCap
    BY <1>1, RecvType DEF CoreInv, TypeOK
  <2>5. {"RETRACE", "ENTRY", "RSP_DONE", "RDP_DONE", "RESET", "NMI"} \subseteq Messages
    BY DEF Messages
  <2>6. Count(q, "RETRACE") <= RetraceBacklog /\ Count(q, "ENTRY") <= EntryBacklog
    BY <1>2, <2>3 DEF EventsAt
  <2> HIDE DEF q
  <2>7. Len(q) < IntQCap
    BY <2>2, <2>3, <2>4, <2>6, RoomForDone
  <2>8. /\ q1 \in Seq(Messages) /\ Count(q1, "RSP_DONE") = 1 /\ Count(q1, "RDP_DONE") = 0
        /\ Count(q1, "RESET") = 0 /\ Count(q1, "NMI") = Count(interruptQ, "NMI")
        /\ Count(q1, "RETRACE") <= RetraceBacklog /\ Count(q1, "ENTRY") <= EntryBacklog
    <3>1. q1 \in Seq(Messages)
      BY <2>4, <2>5, SendType
    <3>2. /\ Count(q1, "RSP_DONE") = Count(q, "RSP_DONE") + 1
          /\ \A x : x # "RSP_DONE" => Count(q1, x) = Count(q, x)
      BY <2>4, <2>5, <2>7, CountSend
    <3> HIDE DEF q1
    <3> QED BY <3>1, <3>2, <2>3, <2>6
  <2> HIDE DEF q1
  <2>9. Len(q1) < IntQCap
    BY <2>2, <2>8, RoomForDone
  <2>10. /\ q2 \in Seq(Messages) /\ Count(q2, "RSP_DONE") = 1 /\ Count(q2, "RDP_DONE") = 1
         /\ Count(q2, "RESET") = 0 /\ Count(q2, "NMI") = Count(interruptQ, "NMI")
         /\ Count(q2, "RETRACE") <= RetraceBacklog /\ Count(q2, "ENTRY") <= EntryBacklog
    <3>1. q2 \in Seq(Messages)
      <4>1. Len(q1) \in Nat /\ IntQCap \in Nat
        BY <2>8, LenProperties, ConstantsAssumption
      <4> QED BY <2>5, <2>8, <2>9, <4>1, SendType
    <3>2. /\ Count(q2, "RDP_DONE") = Count(q1, "RDP_DONE") + 1
          /\ \A x : x # "RDP_DONE" => Count(q2, x) = Count(q1, x)
      BY <2>5, <2>8, <2>9, CountSend
    <3> HIDE DEF q2
    <3> QED BY <3>1, <3>2, <2>8
  <2> HIDE DEF q2
  <2>11. interruptQ' = IF curRDPTask # NULL THEN q2 ELSE q1
    BY <1>4 DEF q, q1, q2
  <2>12. EventsAt(interruptQ', curRSPTask, curRDPTask, NULL, rdp, TRUE, resetStatus)
    BY <1>2, <1>4, <2>2, <2>8, <2>10, <2>11 DEF EventsAt
  <2>13. UNCHANGED <<curRSPTask, curRDPTask, rdp, resetStatus>>
    BY DEF Sched_HandleReset, curVars
  <2> QED BY <1>4, <2>12, <2>13, EventInvAt
<1> QED BY <1>3, <1>4 DEF Sched_HandleReset

(* Posting a message that is not about the processors, within its bound.    *)
LEMMA EventPost ==
    ASSUME CoreInv, EventInv, NEW m \in {"RETRACE", "ENTRY", "RESET", "NMI"},
           interruptQ' = Send(interruptQ, m),
           m = "RETRACE" => Count(interruptQ, "RETRACE") < RetraceBacklog,
           m = "ENTRY" => Count(interruptQ, "ENTRY") < EntryBacklog,
           CASE m = "RESET" -> MayReset /\ resetStatus = 0 /\ resetStatus' = 1
             [] m = "NMI" -> resetStatus = 1 /\ resetStatus' = 2
             [] OTHER -> resetStatus' = resetStatus,
           UNCHANGED <<curRSPTask, curRDPTask, rspTask, rdp, frozen>>
    PROVE  EventInv'
<1>1. interruptQ \in Seq(Messages) /\ m \in Messages
  BY DEF CoreInv, TypeOK, QueuesTyped, Messages
<1>2. /\ \A x : Count(interruptQ, x) \in Nat
      /\ \A x : m # x => Count(interruptQ', x) = Count(interruptQ, x)
      /\ Count(interruptQ', m) \in {Count(interruptQ, m), Count(interruptQ, m) + 1}
  BY <1>1, CountSend
<1>3. RetraceBacklog \in Nat /\ EntryBacklog \in Nat
  BY ConstantsAssumption
<1>4. EventsAt(interruptQ, curRSPTask, curRDPTask, rspTask, rdp, frozen, resetStatus)
  BY EventInvAt
<1>5. /\ Count(interruptQ, "RETRACE") \in Nat /\ Count(interruptQ, "ENTRY") \in Nat
      /\ Count(interruptQ, "RESET") \in Nat /\ Count(interruptQ, "NMI") \in Nat
      /\ resetStatus \in 0..2
  BY <1>2 DEF CoreInv, TypeOK, HardwareTyped
<1>6. /\ Count(interruptQ', "RSP_DONE") = Count(interruptQ, "RSP_DONE")
      /\ Count(interruptQ', "RDP_DONE") = Count(interruptQ, "RDP_DONE")
  BY <1>2
<1>7. /\ Count(interruptQ', "RETRACE") <= RetraceBacklog
      /\ Count(interruptQ', "ENTRY") <= EntryBacklog
      /\ Count(interruptQ', "RESET") <= IF resetStatus' > 0 THEN 1 ELSE 0
      /\ Count(interruptQ', "NMI") <= IF resetStatus' > 1 THEN 1 ELSE 0
      /\ resetStatus' > 0 => MayReset
  <2>1. CASE m = "RETRACE"
    BY <1>2, <1>3, <1>4, <1>5, <2>1 DEF EventsAt
  <2>2. CASE m = "ENTRY"
    BY <1>2, <1>3, <1>4, <1>5, <2>2 DEF EventsAt
  <2>3. CASE m = "RESET"
    BY <1>2, <1>3, <1>4, <1>5, <2>3 DEF EventsAt
  <2>4. CASE m = "NMI"
    BY <1>2, <1>3, <1>4, <1>5, <2>4 DEF EventsAt
  <2> QED BY <2>1, <2>2, <2>3, <2>4
<1>8. EventsAt(interruptQ', curRSPTask, curRDPTask, rspTask, rdp, frozen, resetStatus')
  BY <1>4, <1>6, <1>7 DEF EventsAt
<1> QED BY <1>8, EventInvAt

(* Posting a done message: there is room, so it is not dropped.             *)
LEMMA PostDone ==
    ASSUME CoreInv, EventInv, NEW m \in {"RSP_DONE", "RDP_DONE"}, Count(interruptQ, m) = 0,
           interruptQ' = Send(interruptQ, m)
    PROVE  /\ Count(interruptQ', m) = 1
           /\ \A x : m # x => Count(interruptQ', x) = Count(interruptQ, x)
<1>1. interruptQ \in Seq(Messages) /\ m \in Messages
  BY DEF CoreInv, TypeOK, QueuesTyped, Messages
<1>2. EventsAt(interruptQ, curRSPTask, curRDPTask, rspTask, rdp, frozen, resetStatus)
  BY EventInvAt
<1>3. /\ Count(interruptQ, "RESET") \in Nat /\ Count(interruptQ, "RSP_DONE") \in Nat
      /\ Count(interruptQ, "RDP_DONE") \in Nat /\ Count(interruptQ, "NMI") \in Nat
  BY <1>1, PositionsFinite
<1>4. /\ Count(interruptQ, "RESET") + Count(interruptQ, "NMI") <= IF MayReset THEN 2 ELSE 0
      /\ Count(interruptQ, "RSP_DONE") <= 1 /\ Count(interruptQ, "RDP_DONE") <= 1
  <2>1. frozen \in BOOLEAN /\ resetStatus \in 0..2
    BY DEF CoreInv, TypeOK, HardwareTyped
  <2> QED BY <1>2, <1>3, <2>1 DEF EventsAt
<1>5. Count(interruptQ, "RSP_DONE") + Count(interruptQ, "RDP_DONE") <= 1
  BY <1>3, <1>4
<1>6. Len(interruptQ) < IntQCap
  BY <1>1, <1>2, <1>4, <1>5, RoomForDone DEF EventsAt
<1> QED BY <1>1, <1>6, CountSend

LEMMA EventRsp == CoreInv /\ EventInv /\ (RspFinish \/ RspYield) => EventInv'
<1> SUFFICES ASSUME CoreInv, EventInv, RspFinish \/ RspYield PROVE EventInv'
  OBVIOUS
<1>1. /\ rspTask # NULL /\ rspTask' = NULL /\ interruptQ' = Send(interruptQ, "RSP_DONE")
      /\ UNCHANGED <<curRSPTask, curRDPTask, rdp, frozen, resetStatus>>
  BY DEF RspFinish, RspYield, curVars, rdpVars, envVars
<1>2. EventsAt(interruptQ, curRSPTask, curRDPTask, rspTask, rdp, frozen, resetStatus)
  BY EventInvAt
<1>3. Count(interruptQ, "RSP_DONE") = 0 /\ rspTask = curRSPTask
  BY <1>1, <1>2 DEF EventsAt
<1>4. /\ Count(interruptQ', "RSP_DONE") = 1
      /\ \A x : "RSP_DONE" # x => Count(interruptQ', x) = Count(interruptQ, x)
  BY <1>1, <1>3, PostDone
<1>5. EventsAt(interruptQ', curRSPTask, curRDPTask, NULL, rdp, frozen, resetStatus)
  BY <1>1, <1>2, <1>3, <1>4 DEF EventsAt
<1> QED BY <1>1, <1>5, EventInvAt

LEMMA EventRdpFinish == CoreInv /\ EventInv /\ RdpFinish => EventInv'
<1> SUFFICES ASSUME CoreInv, EventInv, RdpFinish PROVE EventInv'
  OBVIOUS
<1>1. /\ rdp = "sync" /\ ~frozen /\ rdp' = "idle" /\ interruptQ' = Send(interruptQ, "RDP_DONE")
      /\ UNCHANGED <<curRSPTask, curRDPTask, rspTask, frozen, resetStatus>>
  BY DEF RdpFinish, curVars, rspVars, envVars
<1>2. EventsAt(interruptQ, curRSPTask, curRDPTask, rspTask, rdp, frozen, resetStatus)
  BY EventInvAt
<1>3. Count(interruptQ, "RDP_DONE") = 0 /\ curRDPTask # NULL
  BY <1>1, <1>2 DEF EventsAt
<1>4. /\ Count(interruptQ', "RDP_DONE") = 1
      /\ \A x : "RDP_DONE" # x => Count(interruptQ', x) = Count(interruptQ, x)
  BY <1>1, <1>3, PostDone
<1>5. EventsAt(interruptQ', curRSPTask, curRDPTask, rspTask, "idle", frozen, resetStatus)
  BY <1>1, <1>2, <1>3, <1>4 DEF EventsAt
<1> QED BY <1>1, <1>5, EventInvAt

LEMMA EventHardware == CoreInv /\ EventInv /\ Hardware => EventInv'
<1> SUFFICES ASSUME CoreInv, EventInv, Hardware PROVE EventInv'
  OBVIOUS
<1>1. CASE RspFullSync
  <2>1. /\ rdp = "fed" /\ rdp' = "sync"
        /\ UNCHANGED <<interruptQ, curRSPTask, curRDPTask, rspTask, frozen, resetStatus>>
    BY <1>1 DEF RspFullSync, queueVars, curVars, rspVars, envVars
  <2>2. EventsAt(interruptQ, curRSPTask, curRDPTask, rspTask, rdp, frozen, resetStatus)
    BY EventInvAt
  <2>3. EventsAt(interruptQ', curRSPTask, curRDPTask, rspTask, "sync", frozen, resetStatus)
    BY <2>1, <2>2 DEF EventsAt
  <2> QED BY <2>1, <2>3, EventInvAt
<1>2. CASE Hang
  <2>1. UNCHANGED eventVars
    BY <1>2 DEF Hang, eventVars, queueVars, curVars, rspVars, rdpVars
  <2> QED BY <2>1, EventInvAt DEF eventVars
<1>3. CASE ViRetrace
  <2>1. /\ interruptQ' = Send(interruptQ, "RETRACE")
        /\ Count(interruptQ, "RETRACE") < RetraceBacklog
        /\ UNCHANGED <<curRSPTask, curRDPTask, rspTask, rdp, frozen, resetStatus>>
    BY <1>3 DEF ViRetrace, curVars, rspVars, rdpVars
  <2> QED BY <2>1, EventPost
<1>4. CASE PreNmi
  <2>1. /\ interruptQ' = Send(interruptQ, "RESET")
        /\ MayReset /\ resetStatus = 0 /\ resetStatus' = 1
        /\ UNCHANGED <<curRSPTask, curRDPTask, rspTask, rdp, frozen>>
    BY <1>4 DEF PreNmi, curVars, rspVars, rdpVars
  <2> QED BY <2>1, EventPost
<1>5. CASE Nmi
  <2>1. /\ interruptQ' = Send(interruptQ, "NMI") /\ resetStatus = 1 /\ resetStatus' = 2
        /\ UNCHANGED <<curRSPTask, curRDPTask, rspTask, rdp, frozen>>
    BY <1>5 DEF Nmi, curVars, rspVars, rdpVars
  <2> QED BY <2>1, EventPost
<1> QED BY <1>1, <1>2, <1>3, <1>4, <1>5, EventRsp, EventRdpFinish DEF Hardware

(* Starting a task: its processor was free, so no done message is queued.   *)
LEMMA EventStarts ==
    ASSUME CoreInv, EventInv, NEW h \in Task, curRSPTask = NULL,
           curRSPTask' = h, rspTask' = h,
           \/ curRDPTask' = curRDPTask /\ rdp' = rdp
           \/ curRDPTask = NULL /\ curRDPTask' = h /\ rdp' = "fed",
           UNCHANGED <<interruptQ, frozen, resetStatus>>
    PROVE  EventInv'
<1>1. EventsAt(interruptQ, curRSPTask, curRDPTask, rspTask, rdp, frozen, resetStatus)
  BY EventInvAt
<1>2. h # NULL
  BY ConstantsAssumption
<1>3. Count(interruptQ, "RDP_DONE") \in Nat
  BY PositionsFinite DEF CoreInv, TypeOK, QueuesTyped
<1>4. EventsAt(interruptQ, h, curRDPTask', h, rdp', frozen, resetStatus)
  BY <1>1, <1>2, <1>3 DEF EventsAt
<1> QED BY <1>4, EventInvAt

LEMMA EventSchedule ==
    CoreInv /\ EventInv /\ (ScheduleAudio \/ ScheduleResume \/ ScheduleStart \/ ScheduleNone)
        => EventInv'
<1> SUFFICES ASSUME CoreInv, EventInv,
                    ScheduleAudio \/ ScheduleResume \/ ScheduleStart \/ ScheduleNone
             PROVE  EventInv'
  OBVIOUS
<1>1. CASE ScheduleAudio
  <2>1. audioList # <<>> /\ audioList \in Seq(Task) /\ curRSPTask = NULL
    BY <1>1 DEF ScheduleAudio, PickAudio, CoreInv, ListsOK, TypeOK, ListsTyped
  <2>2. PICK h \in Task : h = Head(audioList)
    BY <2>1, TakeHead
  <2>3. /\ curRSPTask' = h /\ rspTask' = h /\ curRDPTask' = curRDPTask /\ rdp' = rdp
        /\ UNCHANGED <<interruptQ, frozen, resetStatus>>
    BY <1>1, <2>2 DEF ScheduleAudio, StartRsp, queueVars, rdpVars, envVars
  <2> QED BY <2>1, <2>3, EventStarts
<1>2. CASE ScheduleResume
  <2>1. gfxList # <<>> /\ gfxList \in Seq(Task) /\ curRSPTask = NULL
    BY <1>2 DEF ScheduleResume, PickResume, CoreInv, TypeOK, ListsTyped
  <2>2. PICK h \in Task : h = Head(gfxList)
    BY <2>1, TakeHead
  <2>3. /\ curRSPTask' = h /\ rspTask' = h /\ curRDPTask' = curRDPTask /\ rdp' = rdp
        /\ UNCHANGED <<interruptQ, frozen, resetStatus>>
    BY <1>2, <2>2 DEF ScheduleResume, StartRsp, queueVars, rdpVars, envVars
  <2> QED BY <2>1, <2>3, EventStarts
<1>3. CASE ScheduleStart
  <2>1. gfxList # <<>> /\ gfxList \in Seq(Task) /\ curRSPTask = NULL /\ curRDPTask = NULL
    BY <1>3 DEF ScheduleStart, PickStart, CoreInv, TypeOK, ListsTyped
  <2>2. PICK h \in Task : h = Head(gfxList)
    BY <2>1, TakeHead
  <2>3. UNCHANGED <<interruptQ, frozen, resetStatus>>
    BY <1>3 DEF ScheduleStart, queueVars, envVars
  <2>4. CASE Type[h] # "NUL"
    <3>1. curRSPTask' = h /\ rspTask' = h /\ curRDPTask' = h /\ rdp' = "fed"
      BY <1>3, <2>2, <2>4 DEF ScheduleStart, StartRsp
    <3> QED BY <2>1, <2>3, <3>1, EventStarts
  <2>5. CASE Type[h] = "NUL"
    <3>1. UNCHANGED eventVars
      BY <1>3, <2>2, <2>3, <2>5 DEF ScheduleStart, curVars, rspVars, eventVars
    <3> QED BY <3>1, EventInvAt DEF eventVars
  <2> QED BY <2>4, <2>5
<1>4. CASE ScheduleNone
  <2>1. UNCHANGED eventVars
    BY <1>4 DEF ScheduleNone, eventVars, queueVars, curVars, rspVars, rdpVars, envVars
  <2> QED BY <2>1, EventInvAt DEF eventVars
<1> QED BY <1>1, <1>2, <1>3, <1>4

(* sched.c:133: doAudio is set only while the audio task is in audioList,   *)
(* so that task is not the one on the RSP.                                  *)
LEMMA YieldsNoAudio == CoreInv /\ Sched_Yield => Type[curRSPTask] # "AUD"
<1> SUFFICES ASSUME CoreInv, Sched_Yield, Type[curRSPTask] = "AUD" PROVE FALSE
  OBVIOUS
<1>1. audioList # <<>> /\ audioList \in Seq(Task) /\ curRSPTask \in Task
  BY DEF Sched_Yield, CoreInv, ListsOK, TypeOK, ListsTyped, OwnersTyped
<1>2. PICK h \in Task : Count(audioList, h) > 0
  BY <1>1, TakeHead
<1>3. h = curRSPTask
  BY <1>1, <1>2, OneAudioTask DEF CoreInv, ListsOK
<1>4. /\ Places(h) <= 1
      /\ Count(cmdQ, h) \in Nat /\ Count(audioList, h) \in Nat /\ Count(gfxList, h) \in Nat
  BY PlacesFacts
<1> QED BY <1>2, <1>3, <1>4 DEF Places

LEMMA EventNext ==
    ASSUME ~ResetRace
    PROVE  CoreInv /\ EventInv /\ ~failed /\ [Next]_vars => EventInv' /\ ~failed'
<1> SUFFICES ASSUME CoreInv, EventInv, ~failed, [Next]_vars PROVE EventInv' /\ ~failed'
  OBVIOUS
<1>1. CASE RecvEntry \/ Sched_HandleRetrace \/ Sched_HandleStart
  <2>1. /\ interruptQ # <<>> /\ interruptQ' = Tail(interruptQ)
        /\ Head(interruptQ) \in {"ENTRY", "RETRACE", "NMI"} /\ failed' = failed
        /\ UNCHANGED <<curRSPTask, curRDPTask, rspTask, rdp, frozen, resetStatus>>
    BY <1>1 DEF RecvEntry, Sched_HandleRetrace, Sched_HandleStart, Recv, curVars, rspVars, rdpVars, envVars
  <2>2. Head(interruptQ) \notin {"RSP_DONE", "RDP_DONE"}
    BY <2>1
  <2> QED BY <2>1, <2>2, EventOther
<1>2. CASE DrainCmdQ \/ Sched_Yield \/ Sched_IsComplete \/ UNCHANGED vars
  <2>1. UNCHANGED eventVars
    BY <1>2 DEF DrainCmdQ, Sched_Yield, Sched_IsComplete, vars, eventVars, queueVars,
       curVars, rspVars, rdpVars, envVars
  <2>2. ~failed'
    BY <1>2, YieldsNoAudio DEF DrainCmdQ, Sched_Yield, Sched_IsComplete, vars
  <2> QED BY <2>1, <2>2, EventInvAt DEF eventVars
<1>3. CASE Sched_HandleRSPDone
  <2>1. EventInv' /\ curRSPTask # NULL
    BY <1>3, EventHandleRSPDone
  <2> QED BY <1>3, <2>1 DEF Sched_HandleRSPDone
<1>4. CASE Sched_HandleRDPDone
  <2>1. EventInv' /\ curRDPTask # NULL /\ Type[curRDPTask] = "GFX"
    BY <1>4, EventHandleRDPDone
  <2> QED BY <1>4, <2>1 DEF Sched_HandleRDPDone
<1>5. CASE Sched_HandleReset
  BY <1>5, EventHandleReset DEF Sched_HandleReset
<1>6. CASE ScheduleAudio \/ ScheduleResume \/ ScheduleStart \/ ScheduleNone
  BY <1>6, EventSchedule DEF ScheduleAudio, ScheduleResume, ScheduleStart, ScheduleNone
<1>7. CASE Hardware
  BY <1>7, EventHardware
     DEF Hardware, RspFinish, RspYield, RspFullSync, RdpFinish, Hang, ViRetrace, PreNmi, Nmi
<1>8. CASE Clients
  <2>1. PICK t \in Task : \/ ClientSubmit(t) \/ ClientReceive(t) \/ ClientPrime(t)
                          \/ Sched_SendEntryMsg(t)
    BY <1>8 DEF Clients
  <2>2. CASE Sched_SendEntryMsg(t)
    <3>1. /\ interruptQ' = Send(interruptQ, "ENTRY")
          /\ Count(interruptQ, "ENTRY") < EntryBacklog /\ failed' = failed
          /\ UNCHANGED <<curRSPTask, curRDPTask, rspTask, rdp, frozen, resetStatus>>
      BY <2>2 DEF Sched_SendEntryMsg, Send, curVars, rspVars, rdpVars
    <3> QED BY <3>1, EventPost
  <2>3. CASE ClientSubmit(t) \/ ClientReceive(t) \/ ClientPrime(t)
    <3>1. UNCHANGED eventVars /\ failed' = failed
      BY <2>3 DEF ClientSubmit, SendCmd, ClientReceive, ClientPrime, eventVars, curVars, rspVars,
         rdpVars
    <3> QED BY <3>1, EventInvAt DEF eventVars
  <2> QED BY <2>1, <2>2, <2>3
<1> QED BY <1>1, <1>2, <1>3, <1>4, <1>5, <1>6, <1>7, <1>8 DEF Next, SchedThread

(* sched.c:354-432: as long as no task that was declared dead at the reset  *)
(* still ends, a done interrupt is neither lost nor handled twice, and the  *)
(* scheduler knows what the processors do.                                  *)
THEOREM EventsMatch == ~ResetRace => (Spec => []EventsMatchOwners)
<1> SUFFICES ASSUME ~ResetRace PROVE Spec => []EventsMatchOwners
  OBVIOUS
<1> DEFINE I == CoreInv /\ EventInv /\ ~failed
<1>1. Init => I
  BY CoreInit, EventInit DEF Init
<1>2. I /\ [Next]_vars => I'
  BY CoreNext, EventNext
<1>3. I => EventsMatchOwners
  BY DEF EventInv
<1> QED BY <1>1, <1>2, <1>3, PTL DEF Spec

(* The assertions at sched.c:133, 362, 415 and 418 hold.                    *)
THEOREM AssertionsHold == ~ResetRace => (Spec => []NoAssertFails)
<1> SUFFICES ASSUME ~ResetRace PROVE Spec => []NoAssertFails
  OBVIOUS
<1> DEFINE I == CoreInv /\ EventInv /\ ~failed
<1>1. Init => I
  BY CoreInit, EventInit DEF Init
<1>2. I /\ [Next]_vars => I'
  BY CoreNext, EventNext
<1>3. I => NoAssertFails
  BY DEF NoAssertFails
<1> QED BY <1>1, <1>2, <1>3, PTL DEF Spec

-----------------------------------------------------------------------------
(* The picture is whole: the RDP never draws into a buffer the VI shows or  *)
(* is about to show, a finished frame always finds the pending slot free,   *)
(* and a preempted graphics task is the next one to run.                    *)

Display == YieldOK /\ ActiveOK /\ ViOK /\ NoTearing

(* A task with no work left on a processor is not active there.             *)
LEMMA IdleFacts ==
    ASSUME CoreInv, YieldOK, NEW t \in Task
    PROVE  /\ "SP" \notin state[t] => curRSPTask # t /\ "YIELDED" \notin state[t]
           /\ "DP" \notin state[t] => curRDPTask # t
           /\ curRSPTask = t => "SP" \in state[t] /\ Count(gfxList, t) = 0
<1>1. t # NULL
  BY ConstantsAssumption
<1>2. curRSPTask = t => "SP" \in state[t] /\ Count(gfxList, t) = 0
  BY PlacesFacts DEF Places
<1>3. "YIELDED" \in state[t] => "SP" \in state[t]
  BY DEF YieldOK
<1>4. curRDPTask = t => "DP" \in state[t]
  BY <1>1 DEF CoreInv, OwnersOK
<1> QED BY <1>2, <1>3, <1>4

(* While the RDP draws, no frame waits to be shown.                         *)
LEMMA RdpActive ==
    ASSUME CoreInv, ActiveOK, curRDPTask # NULL
    PROVE  /\ curRDPTask \in Task /\ Active(curRDPTask) /\ pendingSwapBuf1 = NULL
           /\ InProgress(curRDPTask)
<1>1. curRDPTask \in Task /\ Type[curRDPTask] = "GFX" /\ "DP" \in state[curRDPTask]
  BY DEF CoreInv, TypeOK, OwnersTyped, OwnersOK
<1>2. Active(curRDPTask)
  BY <1>1 DEF Active
<1> QED BY <1>1, <1>2 DEF ActiveOK, InProgress, Completes

LEMMA TearingKept ==
    ASSUME CoreInv, ActiveOK, NoTearing, CoreInv', ActiveOK', ViOK',
           curRDPTask' \in {NULL, curRDPTask},
           UNCHANGED <<viCurr, swapBuffer, framebuffer>>
    PROVE  NoTearing'
<1> SUFFICES ASSUME curRDPTask' # NULL, framebuffer'[curRDPTask'] # NULL
             PROVE  swapBuffer'[framebuffer'[curRDPTask']] \notin {viCurr', viNext'}
  BY DEF NoTearing
<1>1. swapBuffer[framebuffer[curRDPTask]] # viCurr
  BY DEF NoTearing
<1>2. pendingSwapBuf1' = NULL
  <2>1. curRDPTask' \in Task /\ Type[curRDPTask'] = "GFX"
    BY DEF CoreInv, TypeOK, OwnersTyped, OwnersOK
  <2>2. PICK c \in Task : c = curRDPTask' /\ Type[c] = "GFX"
    BY <2>1
  <2>3. Active(c)'
    BY <2>2 DEF Active
  <2> QED BY <2>3 DEF ActiveOK
<1>3. viNext' = viCurr'
  BY <1>2 DEF ViOK
<1> QED BY <1>1, <1>3

LEMMA DisplayInit == Init => Display
<1> SUFFICES ASSUME Init PROVE Display
  OBVIOUS
<1>1. \A t \in Task : "YIELDED" \notin state[t] /\ ~Active(t)
  BY ConstantsAssumption DEF Init, Active
<1> QED BY <1>1 DEF Init, Display, YieldOK, ActiveOK, ViOK, NoTearing

(* Steps that are not about the graphics task's progress.                   *)
LEMMA DisplayKept ==
    ASSUME CoreInv, Display,
           \A t \in Task : /\ "YIELDED" \in state'[t] <=> "YIELDED" \in state[t]
                           /\ "SP" \in state[t] => "SP" \in state'[t],
           UNCHANGED <<gfxList, curVars, pendingSwapBuf1, viVars, swapBuffer, framebuffer>>,
           pc' = "complete" => UNCHANGED <<pc, done, state>>
    PROVE  Display'
<1>1. \A t \in Task : Active(t)' <=> Active(t)
  BY DEF Active, curVars
<1>2. YieldOK'
  BY DEF Display, YieldOK, curVars
<1>3. ActiveOK'
  <2>1. /\ \A t, u \in Task : Active(t)' /\ Active(u)' => t = u
        /\ \A t \in Task : Active(t)' => pendingSwapBuf1' = NULL
    BY <1>1 DEF Display, ActiveOK
  <2>2. pc' = "complete" /\ Type[done'] = "GFX" /\ state'[done'] \cap {"SP", "DP"} = {} =>
            pendingSwapBuf1' = NULL /\ \A t \in Task : ~Active(t)'
    BY <1>1 DEF Display, ActiveOK, Completes
  <2> QED BY <2>1, <2>2 DEF ActiveOK, Completes
<1>4. ViOK' /\ NoTearing'
  BY DEF Display, ViOK, NoTearing, viVars, curVars
<1> QED BY <1>2, <1>3, <1>4 DEF Display

LEMMA DisplayDrainCmdQ == CoreInv /\ Display /\ DrainCmdQ => Display'
<1> SUFFICES ASSUME CoreInv, Display, DrainCmdQ PROVE Display'
  OBVIOUS
<1>1. CoreInv'
  BY CoreDrainCmdQ
<1>2. PICK h \in Task : h = Head(cmdQ) /\ Completes(h)
  <2>1. cmdQ \in Seq(Task) /\ cmdQ # <<>>
    BY DEF CoreInv, TypeOK, QueuesTyped, DrainCmdQ
  <2>2. PICK h \in Task : h = Head(cmdQ) /\ Count(cmdQ, h) > 0
    BY <2>1, TakeHead
  <2>3. InCmdQ(h)
    BY <2>2, InCmdQIsCount DEF CoreInv, TypeOK
  <2> QED BY <2>2, <2>3 DEF CoreInv, ListsOK
<1>3. /\ gfxList' = IF Type[h] = "AUD" THEN gfxList ELSE Append(gfxList, h)
      /\ state' = [state EXCEPT ![h] = IF NeedsRDP(h) THEN {"SP", "DP"} ELSE {"SP"}]
      /\ pc = "entry" /\ pc' = pc
      /\ UNCHANGED <<done, curRSPTask, curRDPTask, pendingSwapBuf1, framebuffer, swapBuffer,
                     viCurr, viNext>>
  BY <1>2 DEF DrainCmdQ, Sched_QueueTask, curVars, bufVars, cfbVars, viVars
<1>4. \A t \in Task : /\ "YIELDED" \in state'[t] => t # h /\ "YIELDED" \in state[t]
                      /\ t # h => state'[t] = state[t]
  BY <1>2, <1>3 DEF CoreInv, TypeOK, StateTyped
<1>5. \A t \in Task : Active(t)' => Active(t)
  BY <1>3, <1>4 DEF Active
<1>6. YieldOK'
  <2> SUFFICES ASSUME NEW t \in Task, "YIELDED" \in state'[t]
               PROVE  /\ gfxList' # <<>> /\ Head(gfxList') = t
                      /\ "SP" \in state'[t]
                      /\ curRSPTask' # NULL => Type[curRSPTask'] = "AUD"
    BY DEF YieldOK
  <2>1. /\ gfxList # <<>> /\ Head(gfxList) = t /\ "SP" \in state[t] /\ t # h
        /\ curRSPTask # NULL => Type[curRSPTask] = "AUD"
    BY <1>4 DEF Display, YieldOK
  <2>2. gfxList' # <<>> /\ Head(gfxList') = Head(gfxList)
    <3>1. gfxList \in Seq(Task)
      BY DEF CoreInv, TypeOK, ListsTyped
    <3>2. Append(gfxList, h) # <<>> /\ Head(Append(gfxList, h)) = Head(gfxList)
      BY <2>1, <3>1
    <3> QED BY <1>3, <2>1, <3>2
  <2> QED BY <1>3, <1>4, <2>1, <2>2
<1>7. ActiveOK'
  BY <1>3, <1>5 DEF Display, ActiveOK
<1>8. ViOK'
  BY <1>3 DEF Display, ViOK
<1> QED BY <1>1, <1>3, <1>6, <1>7, <1>8, TearingKept DEF Display

(* Sched_HandleRetrace: a pending frame that the VI shows is no longer      *)
(* pending; the next one is handed to the VI.                               *)
LEMMA DisplayHandleRetrace == CoreInv /\ Display /\ Sched_HandleRetrace => Display'
<1> SUFFICES ASSUME CoreInv, Display, Sched_HandleRetrace PROVE Display'
  OBVIOUS
<1>1. CoreInv'
  BY CoreHandleRetrace
<1>2. /\ pc' = "entry"
      /\ UNCHANGED <<gfxList, curRSPTask, curRDPTask, state, framebuffer, swapBuffer, viCurr>>
      /\ \/ /\ pendingSwapBuf1 # NULL /\ viCurr = swapBuffer[pendingSwapBuf1]
            /\ pendingSwapBuf1' = NULL /\ viNext' = viNext
         \/ /\ pendingSwapBuf1' = pendingSwapBuf1
            /\ \/ viNext' = viNext
               \/ pendingSwapBuf1 # NULL /\ viNext' = swapBuffer[pendingSwapBuf1]
  BY DEF Sched_HandleRetrace, Sched_SwapFrameBuffer, NoSwap, listVars, curVars, taskVars
<1>3. \A t \in Task : Active(t)' <=> Active(t)
  BY <1>2 DEF Active
<1>4. YieldOK'
  BY <1>2 DEF Display, YieldOK
<1>5. ActiveOK'
  BY <1>2, <1>3 DEF Display, ActiveOK
<1>6. ViOK'
  BY <1>2 DEF Display, ViOK
<1> QED BY <1>1, <1>2, <1>4, <1>5, <1>6, TearingKept DEF Display

LEMMA DisplayHandleRSPDone == CoreInv /\ Display /\ Sched_HandleRSPDone => Display'
<1> SUFFICES ASSUME CoreInv, Display, Sched_HandleRSPDone PROVE Display'
  OBVIOUS
<1>1. CoreInv'
  BY CoreHandleRSPDone
<1>2. CASE curRSPTask = NULL
  <2>1. /\ UNCHANGED <<gfxList, curVars, state, pendingSwapBuf1, viVars, swapBuffer, framebuffer,
                       pc, done>>
    BY <1>2 DEF Sched_HandleRSPDone, Assert_Fails, listVars, bufVars, taskVars, cfbVars
  <2> QED BY <2>1, DisplayKept
<1>3. CASE curRSPTask # NULL
  <2>1. PICK c \in Task : c = curRSPTask
    BY <1>3 DEF CoreInv, TypeOK, OwnersTyped
  <2>2. /\ curRSPTask' = NULL /\ NULL \notin Task
        /\ UNCHANGED <<curRDPTask, pendingSwapBuf1, framebuffer, swapBuffer, viCurr, viNext>>
    BY <1>3, ConstantsAssumption DEF Sched_HandleRSPDone, bufVars, cfbVars, viVars
  <2>3. ViOK'
    BY <2>2 DEF Display, ViOK
  <2>4. "SP" \in state[c]
    BY <2>1, IdleFacts DEF Display
  <2>5. CASE "YIELD" \in state[c] /\ yielded
    <3>1. /\ state' = [state EXCEPT ![c] = @ \cup {"YIELDED"}]
          /\ gfxList' = <<c>> \o gfxList
          /\ pc' = "schedule"
      BY <1>3, <2>1, <2>5 DEF Sched_HandleRSPDone
    <3>2. \A t \in Task : state'[t] = IF t = c THEN state[t] \cup {"YIELDED"} ELSE state[t]
      BY <3>1 DEF CoreInv, TypeOK, StateTyped
    <3>3. Type[c] # "AUD"
      BY <2>5 DEF CoreInv, YieldersOK
    <3>4. \A t \in Task : "YIELDED" \notin state[t]
      BY <2>1, <3>3, <2>2 DEF Display, YieldOK
    <3>5. \A t \in Task : Active(t)' => Active(t)
      BY <2>1, <2>2, <3>2, <3>4 DEF Active
    <3>6. gfxList' # <<>> /\ Head(gfxList') = c
      <4>1. gfxList \in Seq(Task)
        BY DEF CoreInv, TypeOK, ListsTyped
      <4>2. <<c>> \o gfxList # <<>> /\ Head(<<c>> \o gfxList) = c
        BY <4>1
      <4> QED BY <3>1, <4>2
    <3>7. YieldOK'
      BY <2>2, <2>4, <3>2, <3>4, <3>6 DEF YieldOK
    <3>8. ActiveOK'
      BY <2>2, <3>1, <3>5 DEF Display, ActiveOK
    <3> QED BY <1>1, <2>2, <2>3, <3>7, <3>8, TearingKept DEF Display
  <2>6. CASE ~("YIELD" \in state[c] /\ yielded)
    <3>1. /\ state' = [state EXCEPT ![c] = @ \ {"SP"}]
          /\ gfxList' = gfxList
          /\ pc' = "complete" /\ done' = c
      BY <1>3, <2>1, <2>6 DEF Sched_HandleRSPDone
    <3>2. \A t \in Task : state'[t] = IF t = c THEN state[t] \ {"SP"} ELSE state[t]
      BY <3>1 DEF CoreInv, TypeOK, StateTyped
    <3>3. "YIELDED" \notin state[c]
      <4>1. "YIELDED" \in state[c] => Type[c] = "AUD"
        BY <1>3, <2>1 DEF Display, YieldOK
      <4> QED BY <4>1 DEF CoreInv, YieldersOK
    <3>4. \A t \in Task : /\ Active(t)' => Active(t)
                          /\ Active(t)' /\ t = c => curRDPTask = c
      BY <2>1, <2>2, <3>2, <3>3 DEF Active
    <3>5. YieldOK'
      BY <2>2, <3>1, <3>2, <3>3 DEF Display, YieldOK
    <3>6. ActiveOK'
      <4>1. ASSUME Type[c] = "GFX", Completes(c)'
            PROVE  pendingSwapBuf1 = NULL /\ \A t \in Task : ~Active(t)'
        <5>1. Active(c)
          BY <2>1, <4>1 DEF Active
        <5>2. "DP" \notin state[c]
          BY <3>2, <4>1 DEF Completes
        <5>3. curRDPTask # c
          BY <5>2, IdleFacts DEF Display
        <5> QED BY <3>4, <5>1, <5>3 DEF Display, ActiveOK
      <4>2. Completes(done)' => Completes(c)'
        BY <3>1 DEF Completes
      <4> QED BY <2>2, <3>1, <3>4, <4>1, <4>2 DEF Display, ActiveOK
    <3> QED BY <1>1, <2>2, <2>3, <3>5, <3>6, TearingKept DEF Display
  <2> QED BY <2>5, <2>6
<1> QED BY <1>2, <1>3

LEMMA DisplayHandleRDPDone == CoreInv /\ Display /\ Sched_HandleRDPDone => Display'
<1> SUFFICES ASSUME CoreInv, Display, Sched_HandleRDPDone PROVE Display'
  OBVIOUS
<1>1. CoreInv'
  BY CoreHandleRDPDone
<1>2. CASE curRDPTask = NULL \/ Type[curRDPTask] # "GFX"
  <2>1. /\ UNCHANGED <<gfxList, curVars, state, pendingSwapBuf1, viVars, swapBuffer, framebuffer,
                       pc, done>>
    BY <1>2 DEF Sched_HandleRDPDone, Assert_Fails, listVars, bufVars, taskVars, cfbVars
  <2> QED BY <2>1, DisplayKept
<1>3. CASE curRDPTask # NULL /\ Type[curRDPTask] = "GFX"
  <2>1. PICK c \in Task : c = curRDPTask
    BY <1>3 DEF CoreInv, TypeOK, OwnersTyped
  <2>2. /\ curRDPTask' = NULL /\ NULL \notin Task
        /\ state' = [state EXCEPT ![c] = @ \ {"DP"}]
        /\ pc' = "complete" /\ done' = c
        /\ UNCHANGED <<gfxList, curRSPTask, pendingSwapBuf1, framebuffer, swapBuffer, viCurr, viNext>>
    BY <1>3, <2>1, ConstantsAssumption
       DEF Sched_HandleRDPDone, listVars, bufVars, cfbVars, viVars
  <2>3. \A t \in Task : state'[t] = IF t = c THEN state[t] \ {"DP"} ELSE state[t]
    BY <2>2 DEF CoreInv, TypeOK, StateTyped
  <2>4. /\ \A t \in Task : Active(t)' => Active(t)
        /\ Active(c)' => "SP" \in state[c]
        /\ Active(c)
    <3>1. \A t \in Task : Active(t)' => Active(t)
      BY <2>2, <2>3 DEF Active
    <3>2. Active(c)' => curRSPTask = c \/ "YIELDED" \in state[c]
      BY <2>2, <2>3 DEF Active
    <3>3. Active(c)
      BY <1>3, <2>1 DEF Active
    <3> QED BY <3>1, <3>2, <3>3, IdleFacts DEF Display
  <2>5. YieldOK'
    BY <2>2, <2>3 DEF Display, YieldOK
  <2>6. ActiveOK'
    <3>1. ASSUME Completes(c)'
          PROVE  pendingSwapBuf1 = NULL /\ \A t \in Task : ~Active(t)'
      <4>1. "SP" \notin state[c]
        BY <2>3, <3>1 DEF Completes
      <4> QED BY <2>4, <4>1 DEF Display, ActiveOK
    <3>2. Completes(done)' => Completes(c)'
      BY <2>2 DEF Completes
    <3> QED BY <2>2, <2>4, <3>1, <3>2 DEF Display, ActiveOK
  <2>7. ViOK'
    BY <2>2 DEF Display, ViOK
  <2> QED BY <1>1, <2>2, <2>5, <2>6, <2>7, TearingKept DEF Display
<1> QED BY <1>2, <1>3

(* Sched_IsComplete: a finished frame becomes the pending one.              *)
LEMMA DisplayIsComplete == CoreInv /\ Display /\ Sched_IsComplete => Display'
<1> SUFFICES ASSUME CoreInv, Display, Sched_IsComplete PROVE Display'
  OBVIOUS
<1>1. CoreInv'
  BY CoreIsComplete
<1>2. /\ pc = "complete" /\ pc' # "complete" /\ done \in Task
      /\ UNCHANGED <<gfxList, curVars, state, framebuffer, swapBuffer, viCurr>>
  BY ConstantsAssumption DEF Sched_IsComplete, AfterComplete, listVars, taskVars, CoreInv,
     ControlOK, TypeOK, ThreadTyped
<1>3. CASE pendingSwapBuf1' = pendingSwapBuf1 /\ viNext' = viNext
  BY <1>2, <1>3, DisplayKept DEF viVars
<1>4. CASE /\ Completes(done) /\ swap[done]
           /\ pendingSwapBuf1 = NULL /\ pendingSwapBuf1' = framebuffer[done]
           /\ viNext' \in {viNext, swapBuffer[framebuffer[done]]}
  <2>1. Type[done] = "GFX" /\ framebuffer[done] # NULL
    BY <1>2, <1>4 DEF CoreInv, FramesOK
  <2>2. \A t \in Task : ~Active(t)'
    <3>1. \A t \in Task : ~Active(t)
      BY <1>2, <1>4, <2>1 DEF Display, ActiveOK
    <3> QED BY <1>2, <3>1 DEF Active, curVars
  <2>3. YieldOK' /\ curRDPTask' = curRDPTask
    BY <1>2 DEF Display, YieldOK, curVars
  <2>4. ActiveOK'
    BY <1>2, <2>2 DEF ActiveOK
  <2>5. ViOK'
    <3>1. viNext = viCurr
      BY <1>4 DEF Display, ViOK
    <3>2. viNext' \in {viCurr', swapBuffer'[pendingSwapBuf1']} /\ pendingSwapBuf1' # NULL
      BY <1>2, <1>4, <2>1, <3>1
    <3> QED BY <3>2 DEF ViOK
  <2> QED BY <1>1, <1>2, <2>3, <2>4, <2>5, TearingKept DEF Display
<1>5. \/ pendingSwapBuf1' = pendingSwapBuf1 /\ viNext' = viNext
      \/ /\ Completes(done) /\ swap[done]
         /\ pendingSwapBuf1 = NULL /\ pendingSwapBuf1' = framebuffer[done]
         /\ viNext' \in {viNext, swapBuffer[framebuffer[done]]}
  BY DEF Sched_IsComplete, func_800C8BC4, Sched_SwapFrameBuffer, NoSwap
<1> QED BY <1>3, <1>4, <1>5

(* Taking a task that is not YIELDED from the head of the list: none is.    *)
LEMMA HeadNotYielded ==
    ASSUME CoreInv, YieldOK, gfxList # <<>>, "YIELDED" \notin state[Head(gfxList)]
    PROVE  \A t \in Task : "YIELDED" \notin state[t]
BY DEF YieldOK

LEMMA DisplayScheduleAudio == CoreInv /\ Display /\ ScheduleAudio => Display'
<1> SUFFICES ASSUME CoreInv, Display, ScheduleAudio PROVE Display'
  OBVIOUS
<1>1. CoreInv'
  BY CoreSchedule
<1>2. audioList # <<>> /\ audioList \in Seq(Task) /\ curRSPTask = NULL
  BY DEF ScheduleAudio, PickAudio, CoreInv, ListsOK, TypeOK, ListsTyped
<1>3. PICK h \in Task : h = Head(audioList) /\ Type[h] = "AUD"
  <2>1. PICK h \in Task : h = Head(audioList) /\ Count(audioList, h) > 0
    BY <1>2, TakeHead
  <2> QED BY <2>1 DEF CoreInv, ListsOK
<1>4. /\ curRSPTask' = h /\ pc' = "recv"
      /\ state' = [state EXCEPT ![h] = @ \ {"YIELD", "YIELDED"}]
      /\ UNCHANGED <<gfxList, curRDPTask, pendingSwapBuf1, framebuffer, swapBuffer, viCurr, viNext>>
  BY <1>3 DEF ScheduleAudio, StartRsp, bufVars, cfbVars, viVars
<1>5. \A t \in Task : state'[t] = IF t = h THEN state[t] \ {"YIELD", "YIELDED"} ELSE state[t]
  BY <1>4 DEF CoreInv, TypeOK, StateTyped
<1>6. \A t \in Task : Active(t)' => Active(t)
  BY <1>3, <1>4, <1>5 DEF Active
<1>7. YieldOK'
  BY <1>3, <1>4, <1>5 DEF Display, YieldOK
<1>8. ActiveOK' /\ ViOK'
  BY <1>4, <1>6 DEF Display, ActiveOK, ViOK
<1> QED BY <1>1, <1>4, <1>7, <1>8, TearingKept DEF Display

(* A task at the head of gfxList is given the RSP: it resumes what it had   *)
(* yielded, or needs no RDP.                                                *)
LEMMA DisplayScheduleResume == CoreInv /\ Display /\ ScheduleResume => Display'
<1> SUFFICES ASSUME CoreInv, Display, ScheduleResume PROVE Display'
  OBVIOUS
<1>1. CoreInv'
  BY CoreSchedule
<1>2. gfxList # <<>> /\ gfxList \in Seq(Task) /\ curRSPTask = NULL
      /\ Resumable(Head(gfxList))
  BY DEF ScheduleResume, PickResume, CoreInv, TypeOK, ListsTyped
<1>3. PICK h \in Task : h = Head(gfxList)
  BY <1>2, TakeHead
<1>4. /\ curRSPTask' = h /\ pc' = "recv"
      /\ state' = [state EXCEPT ![h] = @ \ {"YIELD", "YIELDED"}]
      /\ UNCHANGED <<curRDPTask, pendingSwapBuf1, framebuffer, swapBuffer, viCurr, viNext>>
  BY <1>3 DEF ScheduleResume, StartRsp, bufVars, cfbVars, viVars
<1>5. \A t \in Task : state'[t] = IF t = h THEN state[t] \ {"YIELD", "YIELDED"} ELSE state[t]
  BY <1>4 DEF CoreInv, TypeOK, StateTyped
<1>6. \A t \in Task : "YIELDED" \notin state'[t]
  <2>1. \A t \in Task : "YIELDED" \in state[t] => t = h
    BY <1>3 DEF Display, YieldOK
  <2> QED BY <1>5, <2>1
<1>7. \A t \in Task : Active(t)' => Active(t)
  <2>1. Type[h] = "GFX" => Active(h)
    BY <1>2, <1>3 DEF Resumable, NeedsRDP, Active
  <2> QED BY <1>4, <1>6, <2>1 DEF Active
<1>8. YieldOK' /\ ActiveOK' /\ ViOK'
  BY <1>4, <1>6, <1>7 DEF Display, YieldOK, ActiveOK, ViOK
<1> QED BY <1>1, <1>4, <1>8, TearingKept DEF Display

(* A graphics task starts to draw: both processors are free, so no other    *)
(* one is active, and func_800C89D4 found its frame buffer free.            *)
LEMMA DisplayScheduleStart == CoreInv /\ Display /\ ScheduleStart => Display'
<1> SUFFICES ASSUME CoreInv, Display, ScheduleStart PROVE Display'
  OBVIOUS
<1>1. CoreInv'
  BY CoreSchedule
<1>2. /\ gfxList # <<>> /\ gfxList \in Seq(Task) /\ curRSPTask = NULL /\ curRDPTask = NULL
      /\ ~Resumable(Head(gfxList))
      /\ framebuffer[Head(gfxList)] # NULL => func_800C89D4(Head(gfxList))
  BY DEF ScheduleStart, PickStart, CoreInv, TypeOK, ListsTyped
<1>3. PICK h \in Task : h = Head(gfxList) /\ Count(gfxList, h) > 0
  BY <1>2, TakeHead
<1>4. /\ UNCHANGED <<pendingSwapBuf1, framebuffer, swapBuffer, viCurr, viNext>>
      /\ h # NULL /\ NULL \notin Task
  BY ConstantsAssumption DEF ScheduleStart, bufVars, cfbVars, viVars
<1>5. \A t \in Task : "YIELDED" \notin state[t] /\ ~Active(t)
  <2>1. "YIELDED" \notin state[h]
    BY <1>2, <1>3 DEF Resumable
  <2>2. \A t \in Task : "YIELDED" \notin state[t]
    BY <1>2, <1>3, <2>1, HeadNotYielded DEF Display
  <2> QED BY <1>2, <1>4, <2>2 DEF Active
<1>6. CASE Type[h] # "NUL"
  <2>1. /\ curRSPTask' = h /\ curRDPTask' = h /\ pc' = "recv"
        /\ state' = [state EXCEPT ![h] = @ \ {"YIELD", "YIELDED"}]
    BY <1>3, <1>6 DEF ScheduleStart, StartRsp
  <2>2. \A t \in Task : "YIELDED" \notin state'[t]
    BY <1>5, <2>1 DEF CoreInv, TypeOK, StateTyped
  <2>3. Type[h] = "GFX" /\ framebuffer[h] # NULL /\ func_800C89D4(h)
    <3>1. "SP" \in state[h]
      BY <1>3, PlacesFacts
    <3>2. Type[h] \in {"GFX", "NUL"}
      BY <1>2, <1>3 DEF Resumable, NeedsRDP
    <3>3. InProgress(h)
      BY <3>1 DEF InProgress, Completes
    <3> QED BY <1>2, <1>3, <1>6, <3>2, <3>3 DEF CoreInv, FramesOK
  <2>4. \A t \in Task : Active(t)' => t = h
    BY <2>1, <2>2 DEF Active
  <2>5. pendingSwapBuf1 = NULL /\ viCurr # swapBuffer[framebuffer[h]]
    BY <2>3 DEF func_800C89D4
  <2>6. YieldOK' /\ ActiveOK' /\ ViOK'
    BY <1>4, <2>1, <2>2, <2>4, <2>5 DEF Display, YieldOK, ActiveOK, ViOK
  <2>7. NoTearing'
    <3>1. viNext = viCurr
      BY <2>5 DEF Display, ViOK
    <3> QED BY <1>4, <2>1, <2>5, <3>1 DEF NoTearing
  <2> QED BY <2>6, <2>7 DEF Display
<1>7. CASE Type[h] = "NUL"
  <2>1. /\ curRSPTask' = NULL /\ curRDPTask' = NULL /\ pc' = "complete" /\ done' = h
        /\ state' = [state EXCEPT ![h] = @ \ {"SP", "DP"}]
    BY <1>2, <1>3, <1>7 DEF ScheduleStart, curVars
  <2>2. \A t \in Task : "YIELDED" \notin state'[t]
    BY <1>5, <2>1 DEF CoreInv, TypeOK, StateTyped
  <2>3. \A t \in Task : ~Active(t)'
    BY <1>4, <2>1, <2>2 DEF Active
  <2>4. YieldOK' /\ ActiveOK' /\ ViOK' /\ NoTearing'
    BY <1>4, <1>7, <2>1, <2>2, <2>3 DEF Display, YieldOK, ActiveOK, ViOK, NoTearing
  <2> QED BY <2>4 DEF Display
<1> QED BY <1>6, <1>7

(* At the retrace the VI shows the next buffer, which the RDP does not      *)
(* draw into.                                                               *)
LEMMA DisplayHardware == CoreInv /\ Display /\ Hardware => Display'
<1> SUFFICES ASSUME CoreInv, Display, Hardware PROVE Display'
  OBVIOUS
<1>1. /\ UNCHANGED <<pc, done, gfxList, curVars, pendingSwapBuf1, state, swapBuffer, framebuffer, viNext>>
      /\ viCurr' \in {viCurr, viNext}
  BY DEF Hardware, RspFinish, RspYield, RspFullSync, RdpFinish, Hang, ViRetrace, PreNmi, Nmi,
     listVars, bufVars, taskVars, cfbVars, viVars
<1>2. \A t \in Task : Active(t)' <=> Active(t)
  BY <1>1 DEF Active, curVars
<1>3. YieldOK'
  BY <1>1 DEF Display, YieldOK, curVars
<1>4. ActiveOK'
  <2>1. Completes(done)' <=> Completes(done)
    BY <1>1 DEF Completes
  <2> QED BY <1>1, <1>2, <2>1 DEF Display, ActiveOK
<1>5. ViOK'
  BY <1>1 DEF Display, ViOK
<1>6. NoTearing'
  BY <1>1 DEF Display, NoTearing, curVars
<1> QED BY <1>3, <1>4, <1>5, <1>6 DEF Display

(* A client fills in a CfbInfo that nothing in progress refers to.          *)
LEMMA DisplayClients == CoreInv /\ Display /\ Clients => Display'
<1> SUFFICES ASSUME CoreInv, Display, Clients PROVE Display'
  OBVIOUS
<1>1. /\ UNCHANGED <<pc, done, gfxList, curVars, pendingSwapBuf1, state, viCurr, viNext>>
  BY DEF Clients, ClientSubmit, SendCmd, Sched_SendEntryMsg, ClientReceive, ClientPrime, listVars,
     bufVars, taskVars, viVars
<1>2. \/ UNCHANGED <<swapBuffer, framebuffer>>
      \/ \E t \in Task, c \in Cfb, b \in Fb :
            /\ ~InProgress(t) /\ c \notin CfbInUse
            /\ framebuffer' = [framebuffer EXCEPT ![t] = c]
            /\ swapBuffer' = [swapBuffer EXCEPT ![c] = b]
  BY DEF Clients, ClientSubmit, SendCmd, FillGfx, FillOther, Sched_SendEntryMsg, ClientReceive,
     ClientPrime, taskVars, cfbVars
<1>3. CASE UNCHANGED <<swapBuffer, framebuffer>>
  BY <1>1, <1>3, DisplayKept DEF viVars
<1>4. CASE \E t \in Task, c \in Cfb, b \in Fb :
            /\ ~InProgress(t) /\ c \notin CfbInUse
            /\ framebuffer' = [framebuffer EXCEPT ![t] = c]
            /\ swapBuffer' = [swapBuffer EXCEPT ![c] = b]
  <2>1. PICK t \in Task, c \in Cfb, b \in Fb :
            /\ ~InProgress(t) /\ c \notin CfbInUse
            /\ framebuffer' = [framebuffer EXCEPT ![t] = c]
            /\ swapBuffer' = [swapBuffer EXCEPT ![c] = b]
    BY <1>4
  <2>2. \A u \in Task : Active(u)' <=> Active(u)
    BY <1>1 DEF Active, curVars
  <2>3. YieldOK'
    BY <1>1 DEF Display, YieldOK, curVars
  <2>4. ActiveOK'
    <3>1. Completes(done)' <=> Completes(done)
      BY <1>1 DEF Completes
    <3> QED BY <1>1, <2>2, <3>1 DEF Display, ActiveOK
  <2>5. ViOK'
    <3>1. pendingSwapBuf1 # NULL =>
              swapBuffer'[pendingSwapBuf1] = swapBuffer[pendingSwapBuf1]
      BY <2>1 DEF CfbInUse, CoreInv, TypeOK, FramesTyped, DisplayTyped
    <3> QED BY <1>1, <3>1 DEF Display, ViOK
  <2>6. NoTearing'
    <3> SUFFICES ASSUME curRDPTask # NULL, framebuffer'[curRDPTask] # NULL
                 PROVE  swapBuffer'[framebuffer'[curRDPTask]] \notin {viCurr, viNext}
      BY <1>1 DEF NoTearing, curVars
    <3>1. curRDPTask \in Task /\ InProgress(curRDPTask)
      BY RdpActive DEF Display
    <3>2. framebuffer'[curRDPTask] = framebuffer[curRDPTask]
      BY <2>1, <3>1 DEF CoreInv, TypeOK, FramesTyped
    <3>3. framebuffer[curRDPTask] \in CfbInUse /\ framebuffer[curRDPTask] \in Cfb
      BY <3>1, <3>2 DEF CfbInUse, CoreInv, TypeOK, FramesTyped
    <3>4. swapBuffer'[framebuffer[curRDPTask]] = swapBuffer[framebuffer[curRDPTask]]
      BY <2>1, <3>3 DEF CoreInv, TypeOK, FramesTyped
    <3> QED BY <3>2, <3>4 DEF Display, NoTearing
  <2> QED BY <2>3, <2>4, <2>5, <2>6 DEF Display
<1> QED BY <1>2, <1>3, <1>4

LEMMA DisplayNext == CoreInv /\ Display /\ [Next]_vars => Display'
<1> SUFFICES ASSUME CoreInv, Display, [Next]_vars PROVE Display'
  OBVIOUS
<1>1. CASE RecvEntry \/ Sched_HandleReset \/ Sched_HandleStart \/ ScheduleNone \/ UNCHANGED vars
  <2>1. /\ UNCHANGED <<gfxList, curVars, state, pendingSwapBuf1, viVars, swapBuffer, framebuffer>>
        /\ pc' # "complete" \/ UNCHANGED <<pc, done, state>>
    BY <1>1 DEF RecvEntry, Recv, Sched_HandleReset, Sched_HandleStart, ScheduleNone, vars, listVars, bufVars, taskVars, cfbVars
  <2> QED BY <2>1, DisplayKept
<1>2. CASE Sched_Yield
  <2>1. /\ UNCHANGED <<gfxList, curVars, pendingSwapBuf1, viVars, swapBuffer, framebuffer>>
        /\ pc' # "complete"
        /\ state' = state \/ state' = [state EXCEPT ![curRSPTask] = @ \cup {"YIELD"}]
    BY <1>2 DEF Sched_Yield, listVars, bufVars, cfbVars
  <2>2. \A t \in Task : /\ "YIELDED" \in state'[t] <=> "YIELDED" \in state[t]
                        /\ "SP" \in state[t] => "SP" \in state'[t]
    BY <2>1 DEF CoreInv, TypeOK, StateTyped
  <2> QED BY <2>1, <2>2, DisplayKept
<1> QED BY <1>1, <1>2, DisplayDrainCmdQ, DisplayHandleRetrace, DisplayHandleRSPDone,
        DisplayHandleRDPDone, DisplayIsComplete, DisplayScheduleAudio, DisplayScheduleResume,
        DisplayScheduleStart, DisplayHardware, DisplayClients DEF Next, SchedThread

THEOREM DisplayInvariant == Spec => [](CoreInv /\ Display)
<1>1. Init => CoreInv /\ Display
  BY CoreInit, DisplayInit
<1>2. CoreInv /\ Display /\ [Next]_vars => CoreInv' /\ Display'
  BY CoreNext, DisplayNext
<1> QED BY <1>1, <1>2, PTL DEF Spec

(* func_800C89D4 (sched.c:147-179) and the swaps at the retrace keep the    *)
(* RDP out of the buffer the VI shows or is about to show.                  *)
THEOREM PictureIsWhole == Spec => []NoTearing
<1>1. CoreInv /\ Display => NoTearing
  BY DEF Display
<1> QED BY <1>1, DisplayInvariant, PTL

(* The branch of func_800C8BC4 (sched.c:218-228) that would ignore a        *)
(* finished frame is never taken.                                           *)
THEOREM FramesAllShown == Spec => []NoFrameDropped
<1>1. CoreInv /\ Display => NoFrameDropped
  <2> SUFFICES ASSUME CoreInv, Display, pc = "complete", Completes(done), swap[done]
               PROVE  pendingSwapBuf1 = NULL
    BY DEF NoFrameDropped
  <2>1. done \in Task
    BY DEF CoreInv, ControlOK, TypeOK, ThreadTyped
  <2>2. Type[done] = "GFX"
    BY <2>1 DEF CoreInv, FramesOK
  <2> QED BY <2>2 DEF Display, ActiveOK
<1> QED BY <1>1, DisplayInvariant, PTL

(* A preempted graphics task is at the head of gfxList (sched.c:383-388)    *)
(* until it is resumed.                                                     *)
THEOREM PreemptedRunsNext == Spec => []YieldedFirst
<1>1. CoreInv /\ Display => YieldedFirst
  <2> SUFFICES ASSUME CoreInv, Display, NEW i \in DOMAIN gfxList, "YIELDED" \in state[gfxList[i]],
                      i # 1
               PROVE  FALSE
    BY DEF YieldedFirst
  <2>1. gfxList \in Seq(Task)
    BY DEF CoreInv, TypeOK, ListsTyped
  <2>2. PICK t \in Task : t = gfxList[i]
    BY <2>1
  <2>3. gfxList # <<>> /\ Head(gfxList) = t
    BY <2>2 DEF Display, YieldOK
  <2>4. /\ Tail(gfxList) \in Seq(Task) /\ i - 1 \in DOMAIN Tail(gfxList)
        /\ Tail(gfxList)[i - 1] = t
    <3>1. i \in 2..Len(gfxList) /\ Len(gfxList) \in Nat
      BY <2>1
    <3>2. Len(Tail(gfxList)) = Len(gfxList) - 1 /\ Tail(gfxList) \in Seq(Task)
          /\ \A j \in 1..Len(Tail(gfxList)) : Tail(gfxList)[j] = gfxList[j + 1]
      BY <2>1, <2>3, HeadTailProperties
    <3>3. i - 1 \in 1..Len(Tail(gfxList)) /\ (i - 1) + 1 = i
      BY <3>1, <3>2
    <3>4. Tail(gfxList)[i - 1] = gfxList[(i - 1) + 1]
      BY <3>2, <3>3
    <3>5. DOMAIN Tail(gfxList) = 1..Len(Tail(gfxList))
      BY <3>2, LenProperties
    <3> QED BY <2>2, <3>2, <3>3, <3>4, <3>5
  <2>5. Count(Tail(gfxList), t) > 0
    BY <2>4, CountPositive
  <2>6. Count(Tail(gfxList), t) = Count(gfxList, t) - 1
    BY <2>1, <2>3, CountTail
  <2>7. Places(t) <= 1 /\ Count(gfxList, t) \in Nat /\ Count(cmdQ, t) \in Nat
        /\ Count(audioList, t) \in Nat
    BY PlacesFacts
  <2>8. Count(gfxList, t) <= 1
    BY <2>7 DEF Places
  <2>9. Count(Tail(gfxList), t) \in Nat
    BY <2>4, PositionsFinite
  <2> QED BY <2>5, <2>6, <2>7, <2>8, <2>9
<1> QED BY <1>1, DisplayInvariant, PTL
=============================================================================
