---------------------------- MODULE SchedProofs ----------------------------
(***************************************************************************)
(* Proofs that the scheduler keeps its invariants, for every set of tasks, *)
(* frame buffers and queue sizes.                                          *)
(***************************************************************************)
EXTENDS SchedInv, FiniteSetTheorems, SequenceTheorems, TLAPS

-----------------------------------------------------------------------------
(* What sending and receiving do to the counts of a queue. *)

(* The places of a message in a queue are finitely many. *)
LEMMA PositionsFinite ==
    ASSUME NEW S, NEW q \in Seq(S), NEW m
    PROVE  /\ IsFiniteSet(Positions(q, m))
           /\ Count(q, m) \in Nat
           /\ Count(q, m) <= Len(q)
<1>1. IsFiniteSet(1..Len(q)) /\ Cardinality(1..Len(q)) = Len(q)
  <2>1. Len(q) \in Nat
    BY LenProperties
  <2> QED BY <2>1, FS_Interval
<1>2. Positions(q, m) \in SUBSET (1..Len(q))
  BY LenProperties DEF Positions
<1> QED BY <1>1, <1>2, FS_Subset, FS_CardinalityType DEF Count

(* A count is positive exactly when the message is in the queue. *)
LEMMA CountPositive ==
    ASSUME NEW S, NEW q \in Seq(S), NEW m
    PROVE  Count(q, m) > 0 <=> \E i \in DOMAIN q : q[i] = m
<1>1. Count(q, m) = 0 <=> Positions(q, m) = {}
  BY PositionsFinite, FS_EmptySet DEF Count
<1>2. Count(q, m) \in Nat
  BY PositionsFinite
<1> QED BY <1>1, <1>2 DEF Positions

LEMMA CountEmpty == \A m : Count(<<>>, m) = 0
BY FS_EmptySet DEF Count, Positions

(* osSendMesg adds its message to the counts. *)
LEMMA CountAppend ==
    ASSUME NEW S, NEW q \in Seq(S), NEW x \in S, NEW m
    PROVE  Count(Append(q, x), m) = Count(q, m) + (IF x = m THEN 1 ELSE 0)
<1> DEFINE n == Len(q) + 1
<1>1. /\ n \in Nat
      /\ DOMAIN q = 1..Len(q)
      /\ DOMAIN Append(q, x) = 1..n
      /\ Append(q, x)[n] = x
      /\ \A i \in 1..Len(q) : Append(q, x)[i] = q[i]
  BY AppendProperties, LenProperties
<1>2. IsFiniteSet(Positions(q, m)) /\ Count(q, m) \in Nat
  BY PositionsFinite
<1>3. CASE x = m
  <2>1. Positions(Append(q, x), m) = Positions(q, m) \cup {n}
    BY <1>1, <1>3 DEF Positions
  <2>2. n \notin Positions(q, m)
    BY <1>1 DEF Positions
  <2> QED BY <1>2, <1>3, <2>1, <2>2, FS_AddElement DEF Count
<1>4. CASE x # m
  <2>1. Positions(Append(q, x), m) = Positions(q, m)
    BY <1>1, <1>4 DEF Positions
  <2> QED BY <1>2, <1>4, <2>1 DEF Count
<1> QED BY <1>3, <1>4

(* osRecvMesg takes the first message from the counts. *)
LEMMA CountTail ==
    ASSUME NEW S, NEW q \in Seq(S), q # <<>>, NEW m
    PROVE  Count(Tail(q), m) = Count(q, m) - (IF Head(q) = m THEN 1 ELSE 0)
<1> DEFINE R == Positions(q, m) \ {1}
           f == [i \in Positions(Tail(q), m) |-> i + 1]
<1>1. /\ Tail(q) \in Seq(S)
      /\ Len(q) \in Nat \ {0}
      /\ DOMAIN q = 1..Len(q)
      /\ DOMAIN Tail(q) = 1..(Len(q) - 1)
      /\ \A i \in 1..(Len(q) - 1) : Tail(q)[i] = q[i + 1]
  <2>1. Len(Tail(q)) = Len(q) - 1 /\ Tail(q) \in Seq(S)
    BY HeadTailProperties
  <2> QED BY <2>1, HeadTailProperties, LenProperties, EmptySeq
<1>2. IsFiniteSet(Positions(Tail(q), m))
  BY <1>1, PositionsFinite
<1>3. f \in Bijection(Positions(Tail(q), m), R)
  <2>1. f \in [Positions(Tail(q), m) -> R]
    BY <1>1 DEF Positions
  <2>2. \A i, j \in Positions(Tail(q), m) : f[i] = f[j] => i = j
    BY <1>1 DEF Positions
  <2>3. ASSUME NEW k \in R PROVE \E i \in Positions(Tail(q), m) : f[i] = k
    <3>1. k \in 2..Len(q) /\ q[k] = m
      BY <1>1, <2>3 DEF Positions
    <3>2. k - 1 \in Positions(Tail(q), m)
      BY <1>1, <3>1 DEF Positions
    <3> QED BY <3>1, <3>2
  <2> QED BY <2>1, <2>2, <2>3 DEF Bijection, Injection, Surjection, IsInjective
<1>4. Cardinality(R) = Count(Tail(q), m)
  BY <1>2, <1>3, FS_Bijection DEF ExistsBijection, Count
<1>5. Head(q) = q[1] /\ 1 \in DOMAIN q
  BY <1>1
<1>6. 1 \in Positions(q, m) <=> Head(q) = m
  BY <1>5 DEF Positions
<1>7. IsFiniteSet(Positions(q, m)) /\ Count(q, m) \in Nat
  BY PositionsFinite
<1>8. Cardinality(R) = IF 1 \in Positions(q, m) THEN Count(q, m) - 1 ELSE Count(q, m)
  BY <1>7, FS_RemoveElement DEF Count
<1> QED BY <1>4, <1>6, <1>7, <1>8

(* Putting a task back at the head of a list adds it to the counts. *)
LEMMA CountCons ==
    ASSUME NEW S, NEW q \in Seq(S), NEW x \in S, NEW m
    PROVE  Count(<<x>> \o q, m) = Count(q, m) + (IF x = m THEN 1 ELSE 0)
<1> DEFINE c == <<x>> \o q
<1>1. /\ c \in Seq(S) /\ Len(c) = Len(q) + 1 /\ c[1] = x
      /\ \A i \in 1..Len(q) : c[i + 1] = q[i]
  <2>1. <<x>> \in Seq(S) /\ Len(<<x>>) = 1 /\ <<x>>[1] = x
    OBVIOUS
  <2>2. Len(q) \in Nat
    BY LenProperties
  <2> QED BY <2>1, <2>2, ConcatProperties
<1>2. c # <<>>
  BY <1>1, LenProperties, EmptySeq
<1>3. Tail(c) = q
  <2>1. Tail(c) \in Seq(S) /\ Len(Tail(c)) = Len(q)
        /\ \A i \in 1..Len(q) : Tail(c)[i] = q[i]
    BY <1>1, <1>2, HeadTailProperties, LenProperties
  <2> QED BY <2>1, SeqEqual
<1>4. Head(c) = x
  BY <1>1, <1>2
<1>5. Count(q, m) = Count(c, m) - (IF x = m THEN 1 ELSE 0)
  BY <1>1, <1>2, <1>3, <1>4, CountTail
<1>6. Count(c, m) \in Nat
  BY <1>1, PositionsFinite
<1> QED BY <1>5, <1>6

-----------------------------------------------------------------------------
(* Queues *)

(* The facts the provers need about one queue. *)
LEMMA SeqFacts ==
    ASSUME NEW S, NEW q \in Seq(S)
    PROVE  /\ Len(q) \in Nat
           /\ \A x \in S : /\ Append(q, x) \in Seq(S) /\ Append(q, x) # <<>>
                         /\ Len(Append(q, x)) = Len(q) + 1
           /\ \A x \in S : <<x>> \o q \in Seq(S)
           /\ q # <<>> => /\ Head(q) \in S /\ Tail(q) \in Seq(S)
                          /\ Len(Tail(q)) = Len(q) - 1
<1>1. \A x \in S : <<x>> \in Seq(S)
  OBVIOUS
<1> QED BY <1>1, LenProperties, AppendProperties, ConcatProperties, HeadTailProperties

(* A message that is taken off a queue was counted in it. *)
LEMMA CountHead ==
    ASSUME NEW S, NEW q \in Seq(S), q # <<>>
    PROVE  Count(q, Head(q)) > 0
<1>1. 1 \in DOMAIN q /\ q[1] = Head(q)
  <2>1. Len(q) \in Nat \ {0} /\ DOMAIN q = 1..Len(q)
    BY EmptySeq, LenProperties
  <2> QED BY <2>1
<1> QED BY <1>1, CountPositive

(* A posted message leaves the queue within its capacity. *)
LEMMA SendType ==
    ASSUME NEW q \in Seq(Messages), Len(q) <= IntQCap, NEW m \in Messages
    PROVE  Send(q, m) \in Seq(Messages) /\ Len(Send(q, m)) <= IntQCap
<1>1. Len(q) \in Nat /\ Append(q, m) \in Seq(Messages)
      /\ Len(Append(q, m)) = Len(q) + 1
  BY SeqFacts
<1>2. IntQCap \in Nat
  BY ConstantsAssumption
<1> QED BY <1>1, <1>2 DEF Send

(* Receiving an interrupt message keeps the queue well typed. *)
LEMMA RecvType ==
    ASSUME QueuesTyped, interruptQ # <<>>
    PROVE  /\ Tail(interruptQ) \in Seq(Messages)
           /\ Len(Tail(interruptQ)) <= IntQCap
           /\ Len(Tail(interruptQ)) < IntQCap
<1>1. Len(interruptQ) \in Nat /\ Tail(interruptQ) \in Seq(Messages)
      /\ Len(Tail(interruptQ)) = Len(interruptQ) - 1 /\ Len(interruptQ) <= IntQCap
  BY SeqFacts DEF QueuesTyped
<1>2. IntQCap \in Nat
  BY ConstantsAssumption
<1> QED BY <1>1, <1>2

LEMMA InCmdQIsCount ==
    ASSUME QueuesTyped, NEW t
    PROVE  InCmdQ(t) <=> Count(cmdQ, t) > 0
BY CountPositive DEF QueuesTyped, InCmdQ

LEMMA InCmdQIsCountPrime ==
    ASSUME QueuesTyped', NEW t
    PROVE  InCmdQ(t)' <=> Count(cmdQ, t)' > 0
<1>1. cmdQ' \in Seq(Task)
  BY DEF QueuesTyped
<1>2. Count(cmdQ', t) > 0 <=> \E i \in DOMAIN cmdQ' : cmdQ'[i] = t
  BY <1>1, CountPositive
<1>3. Count(cmdQ, t)' = Count(cmdQ', t)
  BY DEF Count, Positions
<1> QED BY <1>2, <1>3 DEF InCmdQ
-----------------------------------------------------------------------------
(* The core invariant *)

LEMMA TypesUnchanged ==
    /\ ThreadTyped /\ UNCHANGED <<pc, done, failed>> => ThreadTyped'
    /\ QueuesTyped /\ UNCHANGED <<interruptQ, cmdQ>> => QueuesTyped'
    /\ RepliesTyped /\ UNCHANGED <<msgQ, owed, sending>> => RepliesTyped'
    /\ ListsTyped /\ UNCHANGED listVars => ListsTyped'
    /\ OwnersTyped /\ UNCHANGED curVars => OwnersTyped'
    /\ StateTyped /\ UNCHANGED state => StateTyped'
    /\ FramesTyped /\ UNCHANGED <<framebuffer, swap, swapBuffer, updateRate>> => FramesTyped'
    /\ DisplayTyped /\ UNCHANGED <<bufVars, updateRate2, viVars>> => DisplayTyped'
    /\ HardwareTyped /\ UNCHANGED <<rspVars, rdpVars, hung, resetStatus>> => HardwareTyped'
<1>1. ThreadTyped /\ UNCHANGED <<pc, done, failed>> => ThreadTyped'
  BY DEF ThreadTyped
<1>2. QueuesTyped /\ UNCHANGED <<interruptQ, cmdQ>> => QueuesTyped'
  BY DEF QueuesTyped
<1>3. RepliesTyped /\ UNCHANGED <<msgQ, owed, sending>> => RepliesTyped'
  BY DEF RepliesTyped
<1>4. ListsTyped /\ UNCHANGED listVars => ListsTyped'
  BY DEF ListsTyped, listVars
<1>5. OwnersTyped /\ UNCHANGED curVars => OwnersTyped'
  BY DEF OwnersTyped, curVars
<1>6. StateTyped /\ UNCHANGED state => StateTyped'
  BY DEF StateTyped
<1>7. FramesTyped /\ UNCHANGED <<framebuffer, swap, swapBuffer, updateRate>> => FramesTyped'
  BY DEF FramesTyped
<1>8. DisplayTyped /\ UNCHANGED <<bufVars, updateRate2, viVars>> => DisplayTyped'
  BY DEF DisplayTyped, bufVars, viVars
<1>9. HardwareTyped /\ UNCHANGED <<rspVars, rdpVars, hung, resetStatus>> => HardwareTyped'
  BY DEF HardwareTyped, rspVars, rdpVars
<1> QED BY <1>1, <1>2, <1>3, <1>4, <1>5, <1>6, <1>7, <1>8, <1>9

(* What OnePlace says of a task that the scheduler finds in a list or on    *)
(* the RSP: it waits for the RSP and is not in the command queue as well.   *)
LEMMA PlacesFacts ==
    ASSUME CoreInv, NEW t \in Task
    PROVE  /\ Count(cmdQ, t) \in Nat
           /\ Count(audioList, t) \in Nat
           /\ Count(gfxList, t) \in Nat
           /\ Places(t) = IF Count(cmdQ, t) > 0 \/ "SP" \in state[t] THEN 1 ELSE 0
           /\ Count(audioList, t) > 0 \/ Count(gfxList, t) > 0 \/ curRSPTask = t =>
                  "SP" \in state[t] /\ Count(cmdQ, t) = 0
<1>1. /\ Count(cmdQ, t) \in Nat /\ Count(audioList, t) \in Nat /\ Count(gfxList, t) \in Nat
  BY PositionsFinite DEF CoreInv, TypeOK, QueuesTyped, ListsTyped
<1>2. Places(t) = IF Count(cmdQ, t) > 0 \/ "SP" \in state[t] THEN 1 ELSE 0
  BY InCmdQIsCount DEF CoreInv, OnePlace, TypeOK
<1> QED BY <1>1, <1>2 DEF Places

LEMMA CoreInit == Init => CoreInv
<1> SUFFICES ASSUME Init PROVE CoreInv
  OBVIOUS
<1>1. TypeOK
  <2>1. <<>> \in Seq(Messages) /\ <<>> \in Seq(Task) /\ Len(<<>>) = 0
    OBVIOUS
  <2>2. ThreadTyped /\ OwnersTyped /\ StateTyped /\ HardwareTyped
    <3>1. ThreadTyped /\ OwnersTyped /\ StateTyped
      BY DEF Init, ThreadTyped, OwnersTyped, StateTyped
    <3>2. HardwareTyped
      <4>1. 0 \in 0..2
        OBVIOUS
      <4>2. /\ rspTask = NULL /\ yieldSig = FALSE /\ yielded = FALSE /\ rdp = "idle"
            /\ frozen = FALSE /\ hung = FALSE /\ resetStatus = 0
        BY Zenon DEF Init
      <4> QED BY <4>1, <4>2 DEF HardwareTyped
    <3> QED BY <3>1, <3>2
  <2>3. QueuesTyped /\ ListsTyped
    <3>1. 0 <= IntQCap /\ 0 <= CmdQCap
      BY ConstantsAssumption
    <3>2. Len(interruptQ) = 0 /\ Len(cmdQ) = 0
      BY <2>1 DEF Init
    <3> QED BY <2>1, <3>1, <3>2 DEF Init, QueuesTyped, ListsTyped
  <2>4. RepliesTyped
    BY ConstantsAssumption DEF Init, RepliesTyped
  <2>5. FramesTyped /\ DisplayTyped
    BY ConstantsAssumption DEF Init, FramesTyped, DisplayTyped
  <2> QED BY <2>2, <2>3, <2>4, <2>5 DEF TypeOK
<1>2. /\ cmdQ = <<>> /\ audioList = <<>> /\ gfxList = <<>> /\ curRSPTask = NULL /\ done = NULL
      /\ \A t \in Task : state[t] = {}
      /\ NULL \notin Task
  BY ConstantsAssumption DEF Init
<1>3. ASSUME NEW t \in Task
      PROVE  /\ Count(cmdQ, t) = 0 /\ Count(audioList, t) = 0 /\ Count(gfxList, t) = 0
             /\ ~InCmdQ(t) /\ ~InProgress(t)
  <2>1. ~InCmdQ(t)
    BY <1>2 DEF InCmdQ
  <2>2. Completes(t) /\ done # t
    BY <1>2 DEF Completes
  <2>3. Count(cmdQ, t) = 0 /\ Count(audioList, t) = 0 /\ Count(gfxList, t) = 0
    BY <1>2, CountEmpty, Zenon
  <2> QED BY <2>1, <2>2, <2>3 DEF InProgress
<1>4. OnePlace
  BY <1>2, <1>3 DEF OnePlace, Places
<1>5. ListsOK
  BY <1>2, <1>3 DEF Init, ListsOK
<1> QED
  BY <1>1, <1>3, <1>4, <1>5
  DEF CoreInv, Init, ControlOK, FramesOK, OwnersOK, YieldersOK, OneReplyEach

(* A step that moves no task and leaves all of them the same work keeps the *)
(* rest of the invariant: nothing else reads the interrupts, the hardware   *)
(* or the yield bits.                                                       *)
LEMMA CoreUnchanged ==
    ASSUME CoreInv, TypeOK', ControlOK', YieldersOK',
           UNCHANGED <<done, cmdQ, msgQ, owed, audioList, gfxList, doAudio, curRSPTask,
                       curRDPTask, framebuffer, swap, swapBuffer>>,
           pendingSwapBuf1' \in {pendingSwapBuf1, NULL},
           \A t \in Task : state'[t] \cap {"SP", "DP"} = state[t] \cap {"SP", "DP"}
    PROVE  CoreInv'
<1>1. \A t \in Task : /\ Completes(t)' <=> Completes(t)
                      /\ InCmdQ(t)' <=> InCmdQ(t)
                      /\ InProgress(t)' <=> InProgress(t)
  BY DEF InProgress, InCmdQ, Completes
<1>2. \A t \in Task : /\ "SP" \in state'[t] <=> "SP" \in state[t]
                      /\ "DP" \in state'[t] <=> "DP" \in state[t]
  OBVIOUS
<1>3. FramesOK'
  BY <1>1 DEF CoreInv, FramesOK
<1>4. \A t \in Task : Count(audioList, t)' = Count(audioList, t)
                      /\ Count(gfxList, t)' = Count(gfxList, t)
                      /\ Places(t)' = Places(t)
  BY DEF Places, Count, Positions
<1>5. ListsOK'
  BY <1>1, <1>4 DEF CoreInv, ListsOK
<1>6. OwnersOK'
  BY <1>2 DEF CoreInv, OwnersOK, TypeOK, OwnersTyped
<1>7. OnePlace' /\ OneReplyEach'
  BY <1>1, <1>2, <1>4 DEF CoreInv, OnePlace, OneReplyEach
<1> QED BY <1>3, <1>5, <1>6, <1>7 DEF CoreInv

LEMMA CoreRecvEntry == CoreInv /\ RecvEntry => CoreInv'
<1> SUFFICES ASSUME CoreInv, RecvEntry PROVE CoreInv'
  OBVIOUS
<1>1. TypeOK'
  <2>1. QueuesTyped'
    BY RecvType DEF CoreInv, TypeOK, RecvEntry, Recv, QueuesTyped
  <2>2. ThreadTyped'
    BY DEF CoreInv, TypeOK, RecvEntry, ThreadTyped
  <2> QED BY <2>1, <2>2, TypesUnchanged DEF CoreInv, RecvEntry, TypeOK, taskVars, cfbVars, envVars
<1>2. ControlOK'
  BY DEF CoreInv, RecvEntry, Recv, ControlOK
<1> QED BY <1>1, <1>2, CoreUnchanged
        DEF CoreInv, YieldersOK, RecvEntry, listVars, curVars, bufVars, taskVars, cfbVars, envVars

(* Sched_QueueTask moves the head of cmdQ to the tail of a list and gives   *)
(* it its work: the task had none left, and now waits for the RSP.          *)
LEMMA CoreDrainCmdQ == CoreInv /\ DrainCmdQ => CoreInv'
<1> SUFFICES ASSUME CoreInv, DrainCmdQ PROVE CoreInv'
  OBVIOUS
<1>1. PICK h \in Task :
          /\ h = Head(cmdQ) /\ cmdQ # <<>> /\ cmdQ \in Seq(Task) /\ cmdQ' = Tail(cmdQ)
          /\ Tail(cmdQ) \in Seq(Task) /\ Len(Tail(cmdQ)) <= CmdQCap
          /\ Count(cmdQ, h) > 0
  <2>1. cmdQ \in Seq(Task) /\ cmdQ # <<>> /\ Len(cmdQ) <= CmdQCap
    BY DEF CoreInv, TypeOK, QueuesTyped, DrainCmdQ
  <2>2. CmdQCap \in Nat
    BY ConstantsAssumption
  <2>3. Len(Tail(cmdQ)) = Len(cmdQ) - 1 /\ Len(cmdQ) \in Nat /\ Head(cmdQ) \in Task
        /\ Tail(cmdQ) \in Seq(Task)
    BY <2>1, SeqFacts
  <2>4. Len(Tail(cmdQ)) <= CmdQCap
    BY <2>1, <2>2, <2>3
  <2> QED BY <2>1, <2>3, <2>4, CountHead DEF DrainCmdQ
<1>2. /\ audioList' = IF Type[h] = "AUD" THEN Append(audioList, h) ELSE audioList
      /\ gfxList' = IF Type[h] = "AUD" THEN gfxList ELSE Append(gfxList, h)
      /\ doAudio' = IF Type[h] = "AUD" THEN TRUE ELSE doAudio
      /\ state' = [state EXCEPT ![h] = IF NeedsRDP(h) THEN {"SP", "DP"} ELSE {"SP"}]
      /\ UNCHANGED <<pc, done, interruptQ, msgQ, curVars, bufVars, framebuffer, swap,
                     cfbVars, viVars, rspVars, rdpVars, envVars, failed>>
  BY <1>1 DEF DrainCmdQ, Sched_QueueTask
<1>3. audioList' \in Seq(Task) /\ gfxList' \in Seq(Task)
      /\ audioList \in Seq(Task) /\ gfxList \in Seq(Task)
  BY <1>1, <1>2, SeqFacts DEF CoreInv, TypeOK, ListsTyped
<1>4. TypeOK'
  <2>1. ListsTyped' /\ StateTyped'
    BY <1>1, <1>2, <1>3 DEF CoreInv, TypeOK, ListsTyped, StateTyped, Bits
  <2>2. QueuesTyped'
    BY <1>1, <1>2 DEF CoreInv, TypeOK, QueuesTyped
  <2> QED BY <1>2, <2>1, <2>2, TypesUnchanged DEF CoreInv, TypeOK, cfbVars, envVars
<1>5. ASSUME NEW t \in Task
      PROVE  /\ Count(cmdQ', t) = Count(cmdQ, t) - (IF t = h THEN 1 ELSE 0)
             /\ Count(audioList', t) = Count(audioList, t)
                       + (IF Type[h] = "AUD" /\ t = h THEN 1 ELSE 0)
             /\ Count(gfxList', t) = Count(gfxList, t)
                       + (IF Type[h] # "AUD" /\ t = h THEN 1 ELSE 0)
             /\ InCmdQ(t) <=> Count(cmdQ, t) > 0
             /\ InCmdQ(t)' <=> Count(cmdQ', t) > 0
             /\ Count(audioList, t) \in Nat /\ Count(gfxList, t) \in Nat
             /\ Count(cmdQ, t) \in Nat
  <2>1. Count(cmdQ', t) = Count(cmdQ, t) - (IF t = h THEN 1 ELSE 0)
    BY <1>1, CountTail
  <2>2. Count(audioList, t) \in Nat /\ Count(gfxList, t) \in Nat /\ Count(cmdQ, t) \in Nat
    BY PlacesFacts
  <2>3. /\ Count(Append(audioList, h), t) = Count(audioList, t) + (IF t = h THEN 1 ELSE 0)
        /\ Count(Append(gfxList, h), t) = Count(gfxList, t) + (IF t = h THEN 1 ELSE 0)
    BY <1>1, <1>3, CountAppend
  <2>4. InCmdQ(t) <=> Count(cmdQ, t) > 0
    BY InCmdQIsCount DEF CoreInv, TypeOK
  <2>5. InCmdQ(t)' <=> Count(cmdQ', t) > 0
    BY <1>4, InCmdQIsCountPrime DEF TypeOK, Count, Positions
  <2> QED BY <1>2, <2>1, <2>2, <2>3, <2>4, <2>5
<1>6. /\ \A t \in Task : state'[t] = IF t # h THEN state[t]
                                   ELSE IF NeedsRDP(h) THEN {"SP", "DP"} ELSE {"SP"}
      /\ InCmdQ(h) /\ Completes(h) /\ done # h
  BY <1>1, <1>2, <1>5 DEF CoreInv, TypeOK, StateTyped, ListsOK
<1>7. Count(cmdQ, h) = 1 /\ Count(audioList, h) = 0 /\ Count(gfxList, h) = 0 /\ curRSPTask # h
  BY <1>1, PlacesFacts DEF Places
<1>8. ASSUME NEW t \in Task
      PROVE  /\ InCmdQ(t)' <=> InCmdQ(t) /\ t # h
             /\ t # h => (Completes(t)' <=> Completes(t))
             /\ ~Completes(h)'
             /\ InProgress(t)' <=> InProgress(t)
  <2>1. InCmdQ(t)' <=> InCmdQ(t) /\ t # h
    BY <1>5, <1>7
  <2>2. t # h => (Completes(t)' <=> Completes(t))
    BY <1>6 DEF Completes
  <2>3. ~Completes(h)'
    BY <1>1, <1>6 DEF Completes
  <2> QED BY <1>2, <1>6, <2>1, <2>2, <2>3 DEF InProgress
<1>9. ControlOK' /\ FramesOK'
  BY <1>2, <1>8 DEF CoreInv, ControlOK, FramesOK, bufVars, cfbVars
<1>10. ListsOK'
  <2>1. doAudio' => audioList' # <<>>
    <3>1. Append(audioList, h) # <<>>
      BY <1>1, <1>3, SeqFacts
    <3> QED BY <1>2, <3>1 DEF CoreInv, ListsOK
  <2>2. \A t \in Task : /\ Count(audioList, t)' > 0 => Type[t] = "AUD"
                        /\ Count(gfxList, t)' > 0 => Type[t] # "AUD"
    <3>1. \A t \in Task : /\ Count(audioList', t) > 0 => Type[t] = "AUD"
                          /\ Count(gfxList', t) > 0 => Type[t] # "AUD"
      BY <1>5 DEF CoreInv, ListsOK
    <3> QED BY <3>1 DEF Count, Positions
  <2>3. \A t \in Task : InCmdQ(t)' => Completes(t)' /\ done' # t
    BY <1>2, <1>8 DEF CoreInv, ListsOK
  <2> QED BY <2>1, <2>2, <2>3 DEF ListsOK
<1>11. OwnersOK'
  BY <1>1, <1>2, <1>6 DEF CoreInv, OwnersOK, Completes, curVars, TypeOK, OwnersTyped
<1>12. OnePlace'
  <2> SUFFICES ASSUME NEW t \in Task
               PROVE  Places(t)' = IF InCmdQ(t)' \/ "SP" \in state'[t] THEN 1 ELSE 0
    BY DEF OnePlace
  <2>1. Places(t)' = Count(cmdQ', t) + Count(audioList', t) + Count(gfxList', t)
                     + (IF curRSPTask = t THEN 1 ELSE 0)
    BY <1>2 DEF Places, curVars, Count, Positions
  <2>2. Places(t)' = Places(t)
    BY <1>5, <2>1 DEF Places
  <2>3. Places(t) = IF Count(cmdQ, t) > 0 \/ "SP" \in state[t] THEN 1 ELSE 0
    BY PlacesFacts
  <2> QED BY <1>1, <1>5, <1>6, <1>8, <2>2, <2>3
<1>13. OneReplyEach'
  BY <1>2, <1>8 DEF CoreInv, OneReplyEach, envVars
<1>14. YieldersOK'
  <2>1. Type[h] = "GFX" => "DP" \in state'[h] /\ curRDPTask # h
    <3>1. h # NULL
      BY ConstantsAssumption
    <3>2. curRDPTask # h
      BY <1>6, <3>1 DEF CoreInv, OwnersOK, Completes
    <3> QED BY <1>6, <3>2 DEF NeedsRDP
  <2>2. "YIELD" \notin state'[h]
    BY <1>6
  <2> QED BY <1>2, <1>6, <2>1, <2>2 DEF CoreInv, YieldersOK, curVars
<1> QED BY <1>4, <1>9, <1>10, <1>11, <1>12, <1>13, <1>14 DEF CoreInv

LEMMA CoreYield == CoreInv /\ Sched_Yield => CoreInv'
<1> SUFFICES ASSUME CoreInv, Sched_Yield PROVE CoreInv'
  OBVIOUS
<1>1. /\ curRSPTask \in Task
      /\ state' = state \/ state' = [state EXCEPT ![curRSPTask] = @ \cup {"YIELD"}]
  BY DEF CoreInv, TypeOK, OwnersTyped, Sched_Yield
<1>2. TypeOK'
  <2>1. StateTyped'
    BY <1>1 DEF CoreInv, TypeOK, StateTyped, Bits
  <2>2. ThreadTyped'
    BY DEF CoreInv, TypeOK, ThreadTyped, Sched_Yield
  <2>3. HardwareTyped'
    BY DEF CoreInv, TypeOK, HardwareTyped, Sched_Yield, rdpVars, envVars
  <2> QED BY <2>1, <2>2, <2>3, TypesUnchanged
          DEF CoreInv, TypeOK, Sched_Yield, queueVars, cfbVars, envVars
<1>3. ControlOK'
  BY DEF CoreInv, Sched_Yield, ControlOK
<1>4. \A t \in Task : state'[t] \cap {"SP", "DP"} = state[t] \cap {"SP", "DP"}
  BY <1>1 DEF CoreInv, TypeOK, StateTyped
<1>5. YieldersOK'
  <2>1. state' # state => Type[curRSPTask] \notin {"AUD", "NUL"}
    BY DEF Sched_Yield, CoreInv, OwnersOK
  <2>2. \A t \in Task : \/ state'[t] = state[t]
                        \/ t = curRSPTask /\ state'[t] = state[t] \cup {"YIELD"}
    BY <1>1 DEF CoreInv, TypeOK, StateTyped
  <2>3. UNCHANGED <<curRSPTask, curRDPTask>>
    BY DEF Sched_Yield, curVars
  <2> SUFFICES ASSUME NEW t \in Task
               PROVE  /\ state'[t] \cap {"YIELD", "YIELDED"} # {} => Type[t] \notin {"AUD", "NUL"}
                      /\ Type[t] = "GFX" /\ "SP" \in state'[t]
                            /\ ("DP" \notin state'[t] \/ curRDPTask = t) =>
                            curRSPTask = t \/ "YIELDED" \in state'[t]
    BY <2>3 DEF YieldersOK
  <2>4. CASE state'[t] = state[t]
    BY <2>4 DEF CoreInv, YieldersOK
  <2>5. CASE state'[t] # state[t]
    BY <2>1, <2>2, <2>5
  <2> QED BY <2>4, <2>5
<1> QED BY <1>2, <1>3, <1>4, <1>5, CoreUnchanged
        DEF Sched_Yield, queueVars, listVars, curVars, bufVars, cfbVars, envVars

LEMMA CoreHandleRetrace == CoreInv /\ Sched_HandleRetrace => CoreInv'
<1> SUFFICES ASSUME CoreInv, Sched_HandleRetrace PROVE CoreInv'
  OBVIOUS
<1>1. /\ pendingSwapBuf1' \in {pendingSwapBuf1, NULL}
      /\ curBuf' \in Cfb \cup {NULL}
      /\ updateRate2' \in [Cfb -> 0..MaxRate]
      /\ viNext' \in Fb \cup {Boot}
  <2> DEFINE shown == pendingSwapBuf1 # NULL /\ viCurr = swapBuffer[pendingSwapBuf1]
             buf == IF shown THEN pendingSwapBuf1 ELSE curBuf
             rates == IF buf # NULL /\ updateRate2[buf] > 0
                      THEN [updateRate2 EXCEPT ![buf] = @ - 1] ELSE updateRate2
  <2>1. buf \in Cfb \cup {NULL} /\ pendingSwapBuf1' \in {pendingSwapBuf1, NULL} /\ curBuf' = buf
    BY DEF Sched_HandleRetrace, CoreInv, TypeOK, DisplayTyped
  <2>2. MaxRate \in Nat
    BY ConstantsAssumption
  <2>3. rates \in [Cfb -> 0..MaxRate]
    <3>1. updateRate2 \in [Cfb -> 0..MaxRate]
      BY DEF CoreInv, TypeOK, DisplayTyped
    <3>2. buf \in Cfb => updateRate2[buf] \in 0..MaxRate
      BY <3>1
    <3>3. buf \in Cfb /\ updateRate2[buf] > 0 => updateRate2[buf] - 1 \in 0..MaxRate
      BY <2>2, <3>2
    <3> QED BY <2>1, <3>1, <3>3
  <2>4. \/ updateRate2' = rates /\ viNext' = viNext
        \/ /\ pendingSwapBuf1' # NULL /\ pendingSwapBuf1' = pendingSwapBuf1
           /\ viNext' = swapBuffer[pendingSwapBuf1]
           /\ updateRate2' = [rates EXCEPT ![pendingSwapBuf1] = updateRate[pendingSwapBuf1]]
    BY DEF Sched_HandleRetrace, Sched_SwapFrameBuffer, NoSwap
  <2>5. pendingSwapBuf1 # NULL => /\ swapBuffer[pendingSwapBuf1] \in Fb
                                 /\ updateRate[pendingSwapBuf1] \in 0..MaxRate
    BY DEF CoreInv, FramesOK, TypeOK, DisplayTyped, FramesTyped
  <2>6. viNext' \in Fb \cup {Boot}
    BY <2>4, <2>5 DEF CoreInv, TypeOK, DisplayTyped
  <2>7. updateRate2' \in [Cfb -> 0..MaxRate]
    BY <2>3, <2>4, <2>5
  <2> QED BY <2>1, <2>6, <2>7
<1>2. TypeOK'
  <2>1. QueuesTyped'
    BY RecvType DEF CoreInv, TypeOK, Sched_HandleRetrace, Recv, QueuesTyped
  <2>2. ThreadTyped'
    BY DEF CoreInv, TypeOK, Sched_HandleRetrace, ThreadTyped
  <2>3. DisplayTyped'
    BY <1>1 DEF CoreInv, TypeOK, Sched_HandleRetrace, DisplayTyped
  <2> QED BY <2>1, <2>2, <2>3, TypesUnchanged
          DEF CoreInv, TypeOK, Sched_HandleRetrace, taskVars, envVars
<1>3. ControlOK'
  BY DEF CoreInv, Sched_HandleRetrace, Recv, ControlOK
<1> QED BY <1>1, <1>2, <1>3, CoreUnchanged
        DEF CoreInv, YieldersOK, Sched_HandleRetrace, listVars, curVars, taskVars, envVars

(* A failing assertion leaves everything but the interrupt queue alone. *)
LEMMA CoreAssertFails ==
    ASSUME CoreInv, Assert_Fails, QueuesTyped'
    PROVE  CoreInv'
<1>1. ThreadTyped'
  BY DEF CoreInv, TypeOK, Assert_Fails, ThreadTyped
<1>2. TypeOK'
  BY <1>1, TypesUnchanged DEF CoreInv, TypeOK, Assert_Fails, taskVars, cfbVars, envVars
<1>3. ControlOK'
  BY DEF CoreInv, Assert_Fails, ControlOK
<1> QED BY <1>2, <1>3, CoreUnchanged
        DEF CoreInv, YieldersOK, Assert_Fails, listVars, curVars, bufVars, taskVars, cfbVars, envVars

(* Sched_HandleRSPDone either puts the task that yielded back at the head   *)
(* of gfxList, with its RSP work still pending, or ends that work.          *)
LEMMA CoreHandleRSPDone == CoreInv /\ Sched_HandleRSPDone => CoreInv'
<1> SUFFICES ASSUME CoreInv, Sched_HandleRSPDone PROVE CoreInv'
  OBVIOUS
<1>1. QueuesTyped'
  <2>1. interruptQ # <<>> /\ interruptQ' = Tail(interruptQ) /\ cmdQ' = cmdQ
    BY DEF Sched_HandleRSPDone, Recv, Assert_Fails
  <2> QED BY <2>1, RecvType DEF CoreInv, TypeOK, QueuesTyped
<1>2. CASE curRSPTask = NULL
  BY <1>1, <1>2, CoreAssertFails DEF Sched_HandleRSPDone
<1>3. CASE curRSPTask # NULL
  <2>1. PICK c \in Task : c = curRSPTask
    BY <1>3 DEF CoreInv, TypeOK, OwnersTyped
  <2>2. /\ curRSPTask' = NULL /\ pc = "recv" /\ done = NULL /\ NULL \notin Task
        /\ Type[c] # "NUL"
        /\ UNCHANGED <<cmdQ, msgQ, audioList, doAudio, curRDPTask, bufVars, framebuffer,
                       swap, cfbVars, viVars, rspVars, rdpVars, envVars, failed>>
    BY <1>3, <2>1, ConstantsAssumption
       DEF Sched_HandleRSPDone, Recv, CoreInv, ControlOK, OwnersOK
  <2>3. /\ "SP" \in state[c] /\ Count(cmdQ, c) = 0
        /\ Count(audioList, c) = 0 /\ Count(gfxList, c) = 0
    BY <2>1, PlacesFacts DEF Places
  <2>4. \A t \in Task : /\ Count(cmdQ, t)' = Count(cmdQ, t)
                        /\ Count(audioList, t)' = Count(audioList, t)
                        /\ InCmdQ(t)' <=> InCmdQ(t)
    BY <2>2 DEF Count, Positions, InCmdQ
  <2>5. ~InCmdQ(c)
    BY <2>3, InCmdQIsCount DEF CoreInv, TypeOK
  <2>6. CASE "YIELD" \in state[c] /\ yielded
    <3>1. /\ state' = [state EXCEPT ![c] = @ \cup {"YIELDED"}]
          /\ gfxList' = <<c>> \o gfxList
          /\ pc' = "schedule" /\ done' = NULL
      BY <1>3, <2>1, <2>2, <2>6 DEF Sched_HandleRSPDone
    <3>2. TypeOK'
      <4>1. StateTyped' /\ ThreadTyped'
        BY <2>2, <3>1 DEF CoreInv, TypeOK, StateTyped, ThreadTyped, Bits
      <4>2. ListsTyped'
        BY <2>2, <3>1, SeqFacts DEF CoreInv, TypeOK, ListsTyped
      <4>3. OwnersTyped'
        BY <2>2 DEF CoreInv, TypeOK, OwnersTyped
      <4> QED BY <1>1, <2>2, <4>1, <4>2, <4>3, TypesUnchanged
              DEF CoreInv, TypeOK, cfbVars, envVars
    <3>3. \A t \in Task : state'[t] = IF t = c THEN state[t] \cup {"YIELDED"} ELSE state[t]
      BY <3>1 DEF CoreInv, TypeOK, StateTyped
    <3>4. \A t \in Task : /\ Completes(t)' <=> Completes(t)
                          /\ InProgress(t)' <=> InProgress(t)
      BY <2>2, <2>4, <3>1, <3>3 DEF InProgress, Completes
    <3>5. \A t \in Task : Count(gfxList, t)' = Count(gfxList, t) + (IF c = t THEN 1 ELSE 0)
      <4>1. \A t : Count(<<c>> \o gfxList, t) = Count(gfxList, t) + (IF c = t THEN 1 ELSE 0)
        BY CountCons DEF CoreInv, TypeOK, ListsTyped
      <4> QED BY <3>1, <4>1 DEF Count, Positions
    <3>6. ControlOK' /\ FramesOK'
      BY <2>2, <3>1, <3>4 DEF CoreInv, ControlOK, FramesOK, bufVars, cfbVars
    <3>7. Type[c] # "AUD" /\ YieldersOK'
      BY <2>1, <2>2, <2>6, <3>3 DEF CoreInv, YieldersOK
    <3>8. ListsOK'
      <4>1. \A t \in Task : Count(gfxList, t)' > 0 => Type[t] # "AUD"
        BY <3>5, <3>7, PlacesFacts DEF CoreInv, ListsOK
      <4> QED BY <2>2, <2>4, <3>1, <3>4, <4>1 DEF CoreInv, ListsOK
    <3>9. OwnersOK'
      BY <2>2, <3>3 DEF CoreInv, OwnersOK, TypeOK, OwnersTyped, curVars
    <3>10. \A t \in Task : Places(t)' = Places(t)
      <4> SUFFICES ASSUME NEW t \in Task PROVE Places(t)' = Places(t)
        OBVIOUS
      <4>1. Places(t)' = Count(cmdQ, t)' + Count(audioList, t)' + Count(gfxList, t)'
        BY <2>2, PlacesFacts, <2>4, <3>5 DEF Places
      <4> QED BY <2>1, <2>4, <3>5, <4>1, PlacesFacts DEF Places
    <3>11. OnePlace' /\ OneReplyEach'
      <4>1. ASSUME NEW t \in Task PROVE "SP" \in state'[t] <=> "SP" \in state[t]
        <5>1. state'[t] = state[t] \/ state'[t] = state[t] \cup {"YIELDED"}
          BY <3>3
        <5> QED BY <5>1
      <4>2. OnePlace'
        BY <2>4, <3>10, <4>1 DEF CoreInv, OnePlace
      <4>3. OneReplyEach'
        BY <2>2, <3>4 DEF CoreInv, OneReplyEach, envVars
      <4> QED BY <4>2, <4>3
    <3> QED BY <3>2, <3>6, <3>7, <3>8, <3>9, <3>11 DEF CoreInv
  <2>7. CASE ~("YIELD" \in state[c] /\ yielded)
    <3>1. /\ state' = [state EXCEPT ![c] = @ \ {"SP"}]
          /\ gfxList' = gfxList
          /\ pc' = "complete" /\ done' = c
      BY <1>3, <2>1, <2>2, <2>7 DEF Sched_HandleRSPDone
    <3>2. TypeOK'
      <4>1. StateTyped' /\ ThreadTyped'
        BY <2>2, <3>1 DEF CoreInv, TypeOK, StateTyped, ThreadTyped, Bits
      <4>2. OwnersTyped'
        BY <2>2 DEF CoreInv, TypeOK, OwnersTyped
      <4> QED BY <1>1, <2>2, <3>1, <4>1, <4>2, TypesUnchanged
              DEF CoreInv, TypeOK, cfbVars, envVars, listVars
    <3>3. \A t \in Task : state'[t] = IF t = c THEN state[t] \ {"SP"} ELSE state[t]
      BY <3>1 DEF CoreInv, TypeOK, StateTyped
    <3>4. /\ \A t \in Task : t # c => (Completes(t)' <=> Completes(t))
          /\ \A t \in Task : InProgress(t)' <=> InProgress(t)
      <4>1. ~Completes(c)
        BY <2>3 DEF Completes
      <4> QED BY <2>2, <2>4, <3>1, <3>3, <4>1 DEF InProgress, Completes
    <3>5. ControlOK' /\ FramesOK'
      BY <2>2, <3>1, <3>4 DEF CoreInv, ControlOK, FramesOK, bufVars, cfbVars
    <3>6. ListsOK'
      <4>1. \A t \in Task : Count(gfxList, t)' = Count(gfxList, t)
        BY <3>1 DEF Count, Positions
      <4> QED BY <2>2, <2>4, <2>5, <3>1, <3>4, <4>1 DEF CoreInv, ListsOK
    <3>7. OwnersOK'
      BY <2>2, <3>3 DEF CoreInv, OwnersOK, TypeOK, OwnersTyped, curVars
    <3>8. \A t \in Task : Places(t)' = IF t = c THEN 0 ELSE Places(t)
      <4>1. \A t \in Task : Count(gfxList, t)' = Count(gfxList, t)
        BY <3>1 DEF Count, Positions
      <4> SUFFICES ASSUME NEW t \in Task PROVE Places(t)' = IF t = c THEN 0 ELSE Places(t)
        OBVIOUS
      <4>2. Places(t)' = Count(cmdQ, t) + Count(audioList, t) + Count(gfxList, t)
        BY <2>2, <2>4, <4>1, PlacesFacts DEF Places
      <4> QED BY <2>1, <2>3, <4>2, PlacesFacts DEF Places
    <3>9. OnePlace'
      BY <2>4, <2>5, <3>3, <3>8 DEF CoreInv, OnePlace
    <3>10. OneReplyEach'
      BY <2>2, <3>4 DEF CoreInv, OneReplyEach, envVars
    <3>11. YieldersOK'
      BY <2>1, <2>2, <3>3 DEF CoreInv, YieldersOK
    <3> QED BY <3>2, <3>5, <3>6, <3>7, <3>9, <3>10, <3>11 DEF CoreInv
  <2> QED BY <2>6, <2>7
<1> QED BY <1>2, <1>3

(* Sched_HandleRDPDone ends the RDP work of the task. *)
LEMMA CoreHandleRDPDone == CoreInv /\ Sched_HandleRDPDone => CoreInv'
<1> SUFFICES ASSUME CoreInv, Sched_HandleRDPDone PROVE CoreInv'
  OBVIOUS
<1>1. QueuesTyped'
  <2>1. interruptQ # <<>> /\ interruptQ' = Tail(interruptQ) /\ cmdQ' = cmdQ
    BY DEF Sched_HandleRDPDone, Recv, Assert_Fails
  <2> QED BY <2>1, RecvType DEF CoreInv, TypeOK, QueuesTyped
<1>2. CASE curRDPTask = NULL \/ (curRDPTask # NULL /\ Type[curRDPTask] # "GFX")
  BY <1>1, <1>2, CoreAssertFails DEF Sched_HandleRDPDone
<1>3. CASE curRDPTask # NULL /\ Type[curRDPTask] = "GFX"
  <2>1. PICK c \in Task : c = curRDPTask
    BY <1>3 DEF CoreInv, TypeOK, OwnersTyped
  <2>2. /\ curRDPTask' = NULL /\ pc = "recv" /\ done = NULL /\ NULL \notin Task
        /\ "DP" \in state[c]
        /\ state' = [state EXCEPT ![c] = @ \ {"DP"}]
        /\ pc' = "complete" /\ done' = c
        /\ UNCHANGED <<cmdQ, msgQ, listVars, curRSPTask, bufVars, framebuffer, swap,
                       cfbVars, viVars, rspVars, rdpVars, envVars, failed>>
    BY <1>3, <2>1, ConstantsAssumption
       DEF Sched_HandleRDPDone, Recv, CoreInv, ControlOK, OwnersOK
  <2>3. /\ \A t \in Task : /\ Count(audioList, t)' = Count(audioList, t)
                           /\ Count(gfxList, t)' = Count(gfxList, t)
                           /\ Places(t)' = Places(t)
                           /\ InCmdQ(t)' <=> InCmdQ(t)
    BY <2>2 DEF Count, Positions, InCmdQ, Places, listVars
  <2>4. \A t \in Task : state'[t] = IF t = c THEN state[t] \ {"DP"} ELSE state[t]
    BY <2>2 DEF CoreInv, TypeOK, StateTyped
  <2>5. ~Completes(c) /\ ~InCmdQ(c)
    BY <2>2 DEF Completes, CoreInv, ListsOK
  <2>6. TypeOK'
    <3>1. StateTyped' /\ ThreadTyped'
      BY <2>2 DEF CoreInv, TypeOK, StateTyped, ThreadTyped, Bits
    <3>2. OwnersTyped'
      BY <2>2 DEF CoreInv, TypeOK, OwnersTyped
    <3> QED BY <1>1, <2>2, <3>1, <3>2, TypesUnchanged DEF CoreInv, TypeOK, cfbVars, envVars
  <2>7. /\ \A t \in Task : t # c => (Completes(t)' <=> Completes(t))
        /\ \A t \in Task : InProgress(t)' <=> InProgress(t)
    BY <2>2, <2>3, <2>4, <2>5 DEF InProgress, Completes
  <2>8. ControlOK' /\ FramesOK'
    BY <2>2, <2>7 DEF CoreInv, ControlOK, FramesOK, bufVars, cfbVars
  <2>9. ListsOK'
    BY <2>2, <2>3, <2>5, <2>7 DEF CoreInv, ListsOK, listVars
  <2>10. OwnersOK' /\ YieldersOK'
    BY <2>1, <2>2, <2>4 DEF CoreInv, OwnersOK, YieldersOK
  <2>11. OnePlace'
    BY <2>3, <2>4 DEF CoreInv, OnePlace
  <2>12. OneReplyEach'
    BY <2>2, <2>7 DEF CoreInv, OneReplyEach, envVars
  <2> QED BY <2>6, <2>8, <2>9, <2>10, <2>11, <2>12 DEF CoreInv
<1> QED BY <1>2, <1>3

LEMMA CoreHandleReset == CoreInv /\ Sched_HandleReset => CoreInv'
<1> SUFFICES ASSUME CoreInv, Sched_HandleReset PROVE CoreInv'
  OBVIOUS
<1>1. TypeOK'
  <2> DEFINE q == Send(Tail(interruptQ), "RSP_DONE")
  <2>1. Tail(interruptQ) \in Seq(Messages) /\ Len(Tail(interruptQ)) <= IntQCap
    BY RecvType DEF CoreInv, TypeOK, Sched_HandleReset
  <2>2. q \in Seq(Messages) /\ Len(q) <= IntQCap
    BY <2>1, SendType DEF Messages
  <2>3. Send(q, "RDP_DONE") \in Seq(Messages) /\ Len(Send(q, "RDP_DONE")) <= IntQCap
    BY <2>2, SendType DEF Messages
  <2>4. interruptQ' \in {Tail(interruptQ), q, Send(q, "RDP_DONE")} /\ cmdQ' = cmdQ
    BY DEF Sched_HandleReset
  <2>5. QueuesTyped'
    <3> HIDE DEF q
    <3> QED BY <2>1, <2>2, <2>3, <2>4 DEF CoreInv, TypeOK, QueuesTyped
  <2>6. HardwareTyped'
    BY DEF CoreInv, TypeOK, HardwareTyped, Sched_HandleReset
  <2> QED BY <2>5, <2>6, TypesUnchanged DEF CoreInv, TypeOK, Sched_HandleReset, taskVars, cfbVars
<1>2. ControlOK'
  BY DEF CoreInv, Sched_HandleReset, ControlOK
<1> QED BY <1>1, <1>2, CoreUnchanged
        DEF CoreInv, YieldersOK, Sched_HandleReset, listVars, curVars, bufVars, taskVars, cfbVars

LEMMA CoreHandleStart == CoreInv /\ Sched_HandleStart => CoreInv'
<1> SUFFICES ASSUME CoreInv, Sched_HandleStart PROVE CoreInv'
  OBVIOUS
<1>1. TypeOK'
  <2>1. QueuesTyped'
    BY RecvType DEF CoreInv, TypeOK, QueuesTyped, Sched_HandleStart, Recv
  <2> QED BY <2>1, TypesUnchanged DEF CoreInv, TypeOK, Sched_HandleStart, taskVars, cfbVars, envVars
<1>2. ControlOK'
  BY DEF CoreInv, Sched_HandleStart, ControlOK
<1> QED BY <1>1, <1>2, CoreUnchanged
        DEF CoreInv, YieldersOK, Sched_HandleStart, listVars, curVars, bufVars, taskVars, cfbVars,
            envVars

(* Sched_IsComplete answers the task when it has no work left, and then the *)
(* client no longer waits for the scheduler.                                *)
LEMMA CoreIsComplete == CoreInv /\ Sched_IsComplete => CoreInv'
<1> SUFFICES ASSUME CoreInv, Sched_IsComplete PROVE CoreInv'
  OBVIOUS
<1>1. PICK d \in Task : d = done
  BY DEF CoreInv, TypeOK, ThreadTyped, ControlOK, Sched_IsComplete
<1>2. /\ done' = NULL /\ pc' # "complete" /\ pc' \in {"recv", "schedule"} /\ NULL \notin Task
      /\ UNCHANGED <<interruptQ, cmdQ, listVars, curVars, curBuf, taskVars,
                     swapBuffer, updateRate, viCurr, rspVars, rdpVars, envVars, failed>>
  BY ConstantsAssumption DEF Sched_IsComplete, AfterComplete
<1>3. /\ pendingSwapBuf1' \in Cfb \cup {NULL}
      /\ updateRate2' \in [Cfb -> 0..MaxRate] /\ viNext' \in Fb \cup {Boot}
      /\ pendingSwapBuf1' # NULL => swapBuffer[pendingSwapBuf1'] \in Fb
  <2>1. /\ pendingSwapBuf1 # NULL => swapBuffer[pendingSwapBuf1] \in Fb
        /\ pendingSwapBuf1 \in Cfb \cup {NULL}
        /\ updateRate2 \in [Cfb -> 0..MaxRate] /\ viNext \in Fb \cup {Boot}
        /\ updateRate \in [Cfb -> 0..MaxRate]
        /\ framebuffer[d] \in Cfb \cup {NULL}
        /\ swap[d] => framebuffer[d] # NULL /\ swapBuffer[framebuffer[d]] \in Fb
    BY DEF CoreInv, FramesOK, TypeOK, DisplayTyped, FramesTyped
  <2>2. \/ UNCHANGED <<pendingSwapBuf1, updateRate2, viNext>>
        \/ swap[d] /\ func_800C8BC4(d)
    BY <1>1 DEF Sched_IsComplete, NoSwap
  <2> QED BY <2>1, <2>2 DEF func_800C8BC4, NoSwap, Sched_SwapFrameBuffer
<1>4. /\ Completes(d) => msgQ' = [msgQ EXCEPT ![d] = @ + 1] /\ msgQ[d] < MsgQCap[d]
      /\ ~Completes(d) => msgQ' = msgQ
  <2>1. msgQ[d] \in Nat /\ MsgQCap[d] \in Nat
    BY ConstantsAssumption DEF CoreInv, TypeOK, RepliesTyped
  <2> QED BY <1>1, <2>1 DEF Sched_IsComplete, Blocked
<1>5. TypeOK'
  <2>1. RepliesTyped'
    <3>1. msgQ \in [Task -> Nat] /\ \A t \in Task : msgQ[t] <= MsgQCap[t] /\ MsgQCap[t] \in Nat
      BY ConstantsAssumption DEF CoreInv, TypeOK, RepliesTyped
    <3>2. msgQ' \in [Task -> Nat] /\ \A t \in Task : msgQ'[t] <= MsgQCap[t]
      BY <1>4, <3>1
    <3> QED BY <1>2, <3>2 DEF CoreInv, TypeOK, RepliesTyped, envVars
  <2>2. ThreadTyped'
    BY <1>2 DEF CoreInv, TypeOK, ThreadTyped
  <2>3. DisplayTyped'
    BY <1>2, <1>3 DEF CoreInv, TypeOK, DisplayTyped
  <2> QED BY <1>2, <2>1, <2>2, <2>3, TypesUnchanged DEF CoreInv, TypeOK, taskVars, envVars
<1>6. \A t \in Task : /\ Completes(t)' <=> Completes(t)
                      /\ InCmdQ(t)' <=> InCmdQ(t)
                      /\ InProgress(t)' <=> InProgress(t) /\ ~(t = d /\ Completes(d))
  <2>1. ~InCmdQ(d)
    BY <1>1 DEF CoreInv, ListsOK
  <2> QED BY <1>1, <1>2, <2>1 DEF InProgress, InCmdQ, Completes, taskVars
<1>7. \A t \in Task : /\ Count(audioList, t)' = Count(audioList, t)
                      /\ Count(gfxList, t)' = Count(gfxList, t)
                      /\ Places(t)' = Places(t)
  BY <1>2 DEF Count, Positions, Places, listVars, curVars
<1>8. ControlOK' /\ OwnersOK' /\ YieldersOK'
  BY <1>2 DEF CoreInv, ControlOK, OwnersOK, YieldersOK, curVars, taskVars
<1>9. FramesOK'
  BY <1>2, <1>3, <1>6 DEF CoreInv, FramesOK, taskVars
<1>10. ListsOK'
  BY <1>2, <1>6, <1>7 DEF CoreInv, ListsOK, listVars
<1>11. OnePlace'
  BY <1>2, <1>6, <1>7 DEF CoreInv, OnePlace, taskVars
<1>12. OneReplyEach'
  <2> SUFFICES ASSUME NEW t \in Task
               PROVE  owed'[t] = msgQ'[t] + (IF InProgress(t)' THEN 1 ELSE 0)
    BY DEF OneReplyEach
  <2>1. owed'[t] = owed[t] /\ msgQ[t] \in Nat
        /\ owed[t] = msgQ[t] + (IF InProgress(t) THEN 1 ELSE 0)
    BY <1>2 DEF CoreInv, OneReplyEach, TypeOK, RepliesTyped, envVars
  <2>2. msgQ'[t] = IF t = d /\ Completes(d) THEN msgQ[t] + 1 ELSE msgQ[t]
    BY <1>4 DEF CoreInv, TypeOK, RepliesTyped
  <2>3. t = d => InProgress(t)
    BY <1>1 DEF InProgress
  <2> QED BY <1>6, <2>1, <2>2, <2>3
<1> QED BY <1>5, <1>8, <1>9, <1>10, <1>11, <1>12 DEF CoreInv

(* Taking the head of a list. *)
LEMMA TakeHead ==
    ASSUME NEW L \in Seq(Task), L # <<>>, NEW h, h = Head(L)
    PROVE  /\ h \in Task /\ Tail(L) \in Seq(Task) /\ Count(L, h) > 0
           /\ \A t : Count(Tail(L), t) = Count(L, t) - (IF h = t THEN 1 ELSE 0)
BY SeqFacts, CountHead, CountTail

(* Sched_RunTask starts the task that Sched_Schedule took from the head of  *)
(* a list: it moves from the list to the RSP.                               *)
LEMMA CoreStarts ==
    ASSUME CoreInv, NEW h \in Task, curRSPTask = NULL, pc # "complete",
           StartRsp(h), Type[h] # "NUL",
           \/ /\ audioList # <<>> /\ h = Head(audioList)
              /\ audioList' = Tail(audioList) /\ gfxList' = gfxList /\ doAudio' = FALSE
              /\ curRDPTask' = curRDPTask /\ rdp' = rdp
           \/ /\ gfxList # <<>> /\ h = Head(gfxList)
              /\ gfxList' = Tail(gfxList) /\ audioList' = audioList /\ doAudio' = doAudio
              /\ \/ curRDPTask' = curRDPTask /\ rdp' = rdp
                 \/ curRDPTask = NULL /\ curRDPTask' = h /\ rdp' = "fed" /\ ~Resumable(h),
           UNCHANGED <<queueVars, bufVars, framebuffer, swap, cfbVars, viVars, frozen,
                       envVars, failed>>
    PROVE  CoreInv'
<1>1. /\ pc' = "recv" /\ done = NULL /\ done' = NULL /\ NULL \notin Task
      /\ curRSPTask' = h /\ rspTask' = h /\ yieldSig' = FALSE /\ yielded' = FALSE
      /\ state' = [state EXCEPT ![h] = @ \ {"YIELD", "YIELDED"}]
  BY ConstantsAssumption DEF StartRsp, CoreInv, ControlOK
<1>2. /\ audioList \in Seq(Task) /\ gfxList \in Seq(Task)
      /\ audioList' \in Seq(Task) /\ gfxList' \in Seq(Task)
      /\ Count(audioList, h) > 0 \/ Count(gfxList, h) > 0
  <2>1. audioList \in Seq(Task) /\ gfxList \in Seq(Task)
    BY DEF CoreInv, TypeOK, ListsTyped
  <2> QED BY <2>1, TakeHead
<1>3. \A t \in Task : state'[t] = IF t = h THEN state[t] \ {"YIELD", "YIELDED"} ELSE state[t]
  BY <1>1 DEF CoreInv, TypeOK, StateTyped
<1>4. ASSUME NEW t \in Task
      PROVE  /\ Count(cmdQ, t)' = Count(cmdQ, t)
             /\ Count(audioList, t)' + Count(gfxList, t)' =
                   Count(audioList, t) + Count(gfxList, t) - (IF h = t THEN 1 ELSE 0)
             /\ Count(audioList, t)' \in Nat /\ Count(gfxList, t)' \in Nat
             /\ Count(audioList, t)' <= Count(audioList, t)
             /\ Count(gfxList, t)' <= Count(gfxList, t)
  <2>1. /\ Count(audioList, t) \in Nat /\ Count(gfxList, t) \in Nat
        /\ Count(audioList', t) \in Nat /\ Count(gfxList', t) \in Nat
    BY <1>2, PositionsFinite
  <2>2. /\ Count(cmdQ, t)' = Count(cmdQ, t)
        /\ Count(audioList, t)' = Count(audioList', t)
        /\ Count(gfxList, t)' = Count(gfxList', t)
    BY DEF Count, Positions, queueVars
  <2>3. CASE audioList # <<>> /\ h = Head(audioList) /\ audioList' = Tail(audioList)
             /\ gfxList' = gfxList
    <3>1. Count(audioList', t) = Count(audioList, t) - (IF h = t THEN 1 ELSE 0)
      BY <1>2, <2>3, TakeHead
    <3> QED BY <2>1, <2>2, <2>3, <3>1
  <2>4. CASE gfxList # <<>> /\ h = Head(gfxList) /\ gfxList' = Tail(gfxList)
             /\ audioList' = audioList
    <3>1. Count(gfxList', t) = Count(gfxList, t) - (IF h = t THEN 1 ELSE 0)
      BY <1>2, <2>4, TakeHead
    <3> QED BY <2>1, <2>2, <2>4, <3>1
  <2> QED BY <2>3, <2>4
<1>5. "SP" \in state[h] /\ Count(cmdQ, h) = 0
  BY <1>2, PlacesFacts
<1>6. TypeOK'
  <2>1. ThreadTyped' /\ StateTyped'
    BY <1>1 DEF CoreInv, TypeOK, ThreadTyped, StateTyped
  <2>2. ListsTyped' /\ OwnersTyped'
    BY <1>1, <1>2 DEF CoreInv, TypeOK, ListsTyped, OwnersTyped
  <2>3. HardwareTyped'
    BY <1>1 DEF CoreInv, TypeOK, HardwareTyped, envVars
  <2> QED BY <2>1, <2>2, <2>3, TypesUnchanged DEF CoreInv, TypeOK, queueVars, cfbVars, envVars
<1>7. \A t \in Task : /\ Completes(t)' <=> Completes(t)
                      /\ InCmdQ(t)' <=> InCmdQ(t)
                      /\ InProgress(t)' <=> InProgress(t)
  BY <1>1, <1>3 DEF InProgress, InCmdQ, Completes, queueVars
<1>8. ControlOK' /\ FramesOK'
  BY <1>1, <1>7 DEF CoreInv, ControlOK, FramesOK, bufVars, cfbVars
<1>9. ListsOK'
  <2>1. doAudio' => audioList' # <<>>
    BY DEF CoreInv, ListsOK
  <2>2. \A t \in Task : /\ Count(audioList, t)' > 0 => Type[t] = "AUD"
                        /\ Count(gfxList, t)' > 0 => Type[t] # "AUD"
    BY <1>4, PlacesFacts DEF CoreInv, ListsOK
  <2> QED BY <1>1, <1>7, <2>1, <2>2 DEF CoreInv, ListsOK
<1>10. curRDPTask' # curRDPTask => Type[h] = "GFX" /\ "DP" \in state[h] /\ curRDPTask' = h
  <2> SUFFICES ASSUME curRDPTask' # curRDPTask
               PROVE  Type[h] = "GFX" /\ "DP" \in state[h] /\ curRDPTask' = h
    OBVIOUS
  <2>1. curRDPTask' = h /\ ~Resumable(h)
    OBVIOUS
  <2>2. Type[h] = "GFX" /\ "YIELDED" \notin state[h]
    BY <2>1 DEF Resumable, NeedsRDP
  <2> QED BY <1>1, <1>5, <2>1, <2>2 DEF CoreInv, YieldersOK
<1>11. OwnersOK'
  BY <1>1, <1>3, <1>10 DEF CoreInv, OwnersOK, TypeOK, OwnersTyped
<1>12. YieldersOK'
  BY <1>1, <1>3, <1>10 DEF CoreInv, YieldersOK
<1>13. OnePlace'
  <2> SUFFICES ASSUME NEW t \in Task
               PROVE  Places(t)' = IF InCmdQ(t)' \/ "SP" \in state'[t] THEN 1 ELSE 0
    BY DEF OnePlace
  <2>1. Places(t)' = Count(cmdQ, t)' + Count(audioList, t)' + Count(gfxList, t)'
                     + (IF h = t THEN 1 ELSE 0)
    BY <1>1 DEF Places
  <2>2. Places(t) = Count(cmdQ, t) + Count(audioList, t) + Count(gfxList, t)
    BY <1>1, PlacesFacts DEF Places
  <2>3. Places(t)' = Places(t)
    <3>1. Count(cmdQ, t) \in Nat /\ Count(audioList, t) \in Nat /\ Count(gfxList, t) \in Nat
      BY PlacesFacts
    <3>2. /\ Count(cmdQ, t)' = Count(cmdQ, t) /\ Count(cmdQ, t)' \in Nat
          /\ Count(audioList, t)' + Count(gfxList, t)' =
                Count(audioList, t) + Count(gfxList, t) - (IF h = t THEN 1 ELSE 0)
          /\ Count(audioList, t)' \in Nat /\ Count(gfxList, t)' \in Nat
      BY <1>4, <3>1
    <3> DEFINE moved == IF h = t THEN 1 ELSE 0
    <3>3. moved \in 0..1
      OBVIOUS
    <3> HIDE DEF moved
    <3>4. /\ Places(t)' = Count(cmdQ, t)' + Count(audioList, t)' + Count(gfxList, t)' + moved
          /\ Count(audioList, t)' + Count(gfxList, t)' =
                Count(audioList, t) + Count(gfxList, t) - moved
      BY <2>1, <3>2 DEF moved
    <3> QED BY SMTT(60), <2>2, <3>1, <3>2, <3>3, <3>4
  <2>4. "SP" \in state'[t] <=> "SP" \in state[t]
    BY <1>3
  <2> QED BY <1>7, <2>3, <2>4 DEF CoreInv, OnePlace
<1>14. OneReplyEach'
  BY <1>7 DEF CoreInv, OneReplyEach, queueVars, envVars
<1> QED BY <1>6, <1>8, <1>9, <1>11, <1>12, <1>13, <1>14 DEF CoreInv

LEMMA CoreSchedule ==
    CoreInv /\ (ScheduleAudio \/ ScheduleResume \/ ScheduleStart \/ ScheduleNone) => CoreInv'
<1> SUFFICES ASSUME CoreInv,
                    ScheduleAudio \/ ScheduleResume \/ ScheduleStart \/ ScheduleNone
             PROVE  CoreInv'
  OBVIOUS
<1>1. pc # "complete" /\ done = NULL
  BY DEF ScheduleAudio, ScheduleResume, ScheduleStart, ScheduleNone, Scheduling,
     CoreInv, ControlOK
<1>3. CASE ScheduleAudio
  <2>1. audioList # <<>> /\ audioList \in Seq(Task) /\ curRSPTask = NULL
    BY <1>3 DEF ScheduleAudio, PickAudio, CoreInv, ListsOK, TypeOK, ListsTyped
  <2>2. PICK h \in Task : h = Head(audioList) /\ Count(audioList, h) > 0
    BY <2>1, TakeHead
  <2>3. Type[h] = "AUD"
    BY <2>2 DEF CoreInv, ListsOK
  <2>4. /\ StartRsp(h) /\ audioList' = Tail(audioList) /\ gfxList' = gfxList /\ doAudio' = FALSE
        /\ curRDPTask' = curRDPTask /\ rdp' = rdp
        /\ UNCHANGED <<queueVars, bufVars, framebuffer, swap, cfbVars, viVars, frozen,
                       envVars, failed>>
    BY <1>3, <2>2 DEF ScheduleAudio, rdpVars
  <2> QED BY <1>1, <2>1, <2>2, <2>3, <2>4, CoreStarts
<1>4. CASE ScheduleResume
  <2>1. gfxList # <<>> /\ gfxList \in Seq(Task) /\ curRSPTask = NULL
    BY <1>4 DEF ScheduleResume, PickResume, CoreInv, TypeOK, ListsTyped
  <2>2. PICK h \in Task : h = Head(gfxList) /\ Count(gfxList, h) > 0
    BY <2>1, TakeHead
  <2>3. Type[h] # "NUL"
    BY <1>4, <2>2 DEF ScheduleResume, PickResume, Resumable, NeedsRDP, CoreInv, YieldersOK
  <2>4. /\ StartRsp(h) /\ gfxList' = Tail(gfxList) /\ audioList' = audioList /\ doAudio' = doAudio
        /\ curRDPTask' = curRDPTask /\ rdp' = rdp
        /\ UNCHANGED <<queueVars, bufVars, framebuffer, swap, cfbVars, viVars, frozen,
                       envVars, failed>>
    BY <1>4, <2>2 DEF ScheduleResume, rdpVars
  <2> QED BY <1>1, <2>1, <2>2, <2>3, <2>4, CoreStarts
<1>5. CASE ScheduleStart
  <2>1. gfxList # <<>> /\ gfxList \in Seq(Task) /\ curRSPTask = NULL /\ curRDPTask = NULL
        /\ ~Resumable(Head(gfxList))
    BY <1>5 DEF ScheduleStart, PickStart, CoreInv, TypeOK, ListsTyped
  <2>2. PICK h \in Task : h = Head(gfxList) /\ Count(gfxList, h) > 0
    BY <2>1, TakeHead
  <2>3. CASE Type[h] # "NUL"
    <3>1. /\ StartRsp(h) /\ gfxList' = Tail(gfxList) /\ audioList' = audioList
          /\ doAudio' = doAudio /\ curRDPTask' = h /\ rdp' = "fed"
          /\ UNCHANGED <<queueVars, bufVars, framebuffer, swap, cfbVars, viVars, frozen,
                         envVars, failed>>
      BY <1>5, <2>2, <2>3 DEF ScheduleStart
    <3> QED BY <1>1, <2>1, <2>2, <2>3, <3>1, CoreStarts
  <2>4. CASE Type[h] = "NUL"
    <3>1. /\ gfxList' = Tail(gfxList) /\ pc' = "complete" /\ done' = h
          /\ state' = [state EXCEPT ![h] = @ \ {"SP", "DP"}]
          /\ UNCHANGED <<queueVars, audioList, doAudio, curVars, bufVars, framebuffer, swap,
                         cfbVars, viVars, rspVars, rdpVars, envVars, failed>>
      BY <1>5, <2>2, <2>4 DEF ScheduleStart, rdpVars
    <3>2. \A t \in Task : state'[t] = IF t = h THEN state[t] \ {"SP", "DP"} ELSE state[t]
      BY <3>1 DEF CoreInv, TypeOK, StateTyped
    <3>3. /\ "SP" \in state[h] /\ Count(cmdQ, h) = 0 /\ h # NULL /\ ~InCmdQ(h)
          /\ Count(audioList, h) = 0 /\ Count(gfxList, h) = 1
      <4>1. "SP" \in state[h] /\ Count(cmdQ, h) = 0 /\ Count(audioList, h) \in Nat
            /\ Count(gfxList, h) \in Nat /\ Places(h) = 1
        BY <2>2, PlacesFacts
      <4>2. ~InCmdQ(h)
        BY <4>1, InCmdQIsCount DEF CoreInv, TypeOK
      <4> QED BY <2>2, <4>1, <4>2, ConstantsAssumption DEF Places
    <3>4. Tail(gfxList) \in Seq(Task)
          /\ \A t : Count(gfxList', t) = Count(gfxList, t) - (IF h = t THEN 1 ELSE 0)
      BY <2>1, <2>2, <3>1, TakeHead
    <3>5. \A t \in Task : /\ Count(cmdQ, t)' = Count(cmdQ, t)
                          /\ Count(audioList, t)' = Count(audioList, t)
                          /\ Count(gfxList, t)' = Count(gfxList, t) - (IF h = t THEN 1 ELSE 0)
                          /\ InCmdQ(t)' <=> InCmdQ(t)
      BY <3>1, <3>4 DEF Count, Positions, queueVars, InCmdQ
    <3>6. TypeOK'
      <4>1. ThreadTyped' /\ StateTyped'
        BY <3>1 DEF CoreInv, TypeOK, ThreadTyped, StateTyped
      <4>2. ListsTyped'
        BY <3>1, <3>4 DEF CoreInv, TypeOK, ListsTyped
      <4> QED BY <3>1, <4>1, <4>2, TypesUnchanged DEF CoreInv, TypeOK, queueVars, cfbVars, envVars
    <3>7. /\ \A t \in Task : t # h => (Completes(t)' <=> Completes(t))
          /\ \A t \in Task : InProgress(t)' <=> InProgress(t)
      <4>1. ~Completes(h)
        BY <3>3 DEF Completes
      <4>2. \A t \in Task : t # h => (Completes(t)' <=> Completes(t))
        BY <3>2 DEF Completes
      <4>3. InProgress(h)' /\ InProgress(h)
        BY <3>1, <4>1 DEF InProgress
      <4>4. \A t \in Task : t # h => (InProgress(t)' <=> InProgress(t))
        BY <1>1, <3>1, <3>3, <3>5, <4>2, ConstantsAssumption DEF InProgress
      <4> QED BY <4>2, <4>3, <4>4
    <3>8. ControlOK' /\ FramesOK'
      BY <3>1, <3>3, <3>7 DEF CoreInv, ControlOK, FramesOK, bufVars, cfbVars
    <3>9. ListsOK'
      <4>1. \A t \in Task : Count(gfxList, t)' > 0 => Count(gfxList, t) > 0
        BY <3>5, PlacesFacts
      <4> QED BY <3>1, <3>3, <3>5, <3>7, <4>1 DEF CoreInv, ListsOK
    <3>10. OwnersOK' /\ YieldersOK'
      BY <2>1, <2>4, <3>1, <3>2 DEF CoreInv, OwnersOK, YieldersOK, curVars
    <3>11. OnePlace'
      <4> SUFFICES ASSUME NEW t \in Task
                   PROVE  Places(t)' = IF InCmdQ(t)' \/ "SP" \in state'[t] THEN 1 ELSE 0
        BY DEF OnePlace
      <4>1. Count(cmdQ, t) \in Nat /\ Count(audioList, t) \in Nat /\ Count(gfxList, t) \in Nat
        BY PlacesFacts
      <4>2. Places(t)' = Places(t) - (IF h = t THEN 1 ELSE 0)
        BY <3>1, <3>5, <4>1 DEF Places, curVars
      <4>3. Places(t) = IF InCmdQ(t) \/ "SP" \in state[t] THEN 1 ELSE 0
        BY DEF CoreInv, OnePlace
      <4>4. /\ InCmdQ(t)' <=> InCmdQ(t)
            /\ "SP" \in state'[t] <=> t # h /\ "SP" \in state[t]
        BY <3>2, <3>5
      <4> QED BY <3>3, <4>2, <4>3, <4>4
    <3>12. OneReplyEach'
      BY <3>1, <3>7 DEF CoreInv, OneReplyEach, queueVars, envVars
    <3> QED BY <3>6, <3>8, <3>9, <3>10, <3>11, <3>12 DEF CoreInv
  <2> QED BY <2>3, <2>4
<1>6. CASE ScheduleNone
  <2>1. TypeOK'
    <3>1. ThreadTyped'
      BY <1>6 DEF ScheduleNone, CoreInv, TypeOK, ThreadTyped
    <3> QED BY <1>6, <3>1, TypesUnchanged
            DEF ScheduleNone, CoreInv, TypeOK, queueVars, taskVars, cfbVars, envVars
  <2>2. ControlOK'
    BY <1>1, <1>6 DEF ScheduleNone, ControlOK
  <2> QED BY <1>6, <2>1, <2>2, CoreUnchanged
          DEF CoreInv, YieldersOK, ScheduleNone, queueVars, listVars, curVars, bufVars,
              taskVars, cfbVars, envVars
<1> QED BY <1>3, <1>4, <1>5, <1>6

(* The hardware only posts messages and changes its own state. *)
LEMMA CoreHardware == CoreInv /\ Hardware => CoreInv'
<1> SUFFICES ASSUME CoreInv, Hardware PROVE CoreInv'
  OBVIOUS
<1>1. /\ UNCHANGED <<pc, done, failed, cmdQ, msgQ, listVars, curVars, bufVars, taskVars,
                     cfbVars, viNext, sending, owed>>
      /\ \/ interruptQ' = interruptQ
         \/ \E m \in Messages : interruptQ' = Send(interruptQ, m)
  BY DEF Hardware, RspFinish, RspYield, RspFullSync, RdpFinish, Hang, ViRetrace, PreNmi, Nmi,
     queueVars, viVars, envVars, Messages
<1>2. TypeOK'
  <2>1. QueuesTyped'
    <3>1. interruptQ \in Seq(Messages) /\ Len(interruptQ) <= IntQCap
      BY DEF CoreInv, TypeOK, QueuesTyped
    <3>2. interruptQ' \in Seq(Messages) /\ Len(interruptQ') <= IntQCap
      BY <1>1, <3>1, SendType
    <3> QED BY <1>1, <3>2 DEF CoreInv, TypeOK, QueuesTyped
  <2>2. DisplayTyped'
    <3>1. viCurr' \in {viCurr, viNext}
      BY DEF Hardware, RspFinish, RspYield, RspFullSync, RdpFinish, Hang, ViRetrace, PreNmi, Nmi,
         viVars
    <3> QED BY <1>1, <3>1 DEF CoreInv, TypeOK, DisplayTyped, bufVars, cfbVars
  <2>3. HardwareTyped'
    <3>1. resetStatus' \in {resetStatus, 1, 2}
      BY DEF Hardware, RspFinish, RspYield, RspFullSync, RdpFinish, Hang, ViRetrace, PreNmi, Nmi,
         envVars
    <3>2. /\ rspTask' \in {rspTask, NULL} /\ yieldSig' = yieldSig /\ yielded' \in {yielded, TRUE}
          /\ rdp' \in {rdp, "idle", "sync"} /\ frozen' = frozen /\ hung' \in {hung, TRUE}
      BY DEF Hardware, RspFinish, RspYield, RspFullSync, RdpFinish, Hang, ViRetrace, PreNmi, Nmi,
         rspVars, rdpVars, envVars
    <3>3. HardwareTyped
      BY DEF CoreInv, TypeOK
    <3>4. resetStatus' \in 0..2
      BY <3>1, <3>3 DEF HardwareTyped
    <3> QED BY <3>2, <3>3, <3>4 DEF HardwareTyped
  <2> QED BY <1>1, <2>1, <2>2, <2>3, TypesUnchanged DEF CoreInv, TypeOK, taskVars, cfbVars
<1>3. ControlOK'
  BY <1>1 DEF CoreInv, ControlOK
<1> QED BY <1>1, <1>2, <1>3, CoreUnchanged
        DEF CoreInv, YieldersOK, listVars, curVars, bufVars, taskVars, cfbVars

(* A client hands over a task that is nobody else's business, in a CfbInfo  *)
(* that no unanswered task and no pending swap uses.                        *)
LEMMA CoreClientSubmit == ASSUME NEW t \in Task PROVE CoreInv /\ ClientSubmit(t) => CoreInv'
<1> SUFFICES ASSUME CoreInv, ClientSubmit(t) PROVE CoreInv'
  OBVIOUS
<1>1. /\ cmdQ' = Append(cmdQ, t) /\ Len(cmdQ) < CmdQCap /\ ~InProgress(t)
      /\ owed' = [owed EXCEPT ![t] = @ + 1] /\ owed[t] < Credit[t]
      /\ sending' = [sending EXCEPT ![t] = TRUE]
      /\ UNCHANGED <<pc, done, interruptQ, msgQ, listVars, curVars, bufVars, state,
                     updateRate2, viVars, rspVars, rdpVars, hung, resetStatus, failed>>
  BY DEF ClientSubmit, SendCmd
<1>2. cmdQ \in Seq(Task) /\ cmdQ' \in Seq(Task) /\ Len(cmdQ') <= CmdQCap
  <2>1. cmdQ \in Seq(Task) /\ CmdQCap \in Nat
    BY ConstantsAssumption DEF CoreInv, TypeOK, QueuesTyped
  <2>2. Len(Append(cmdQ, t)) = Len(cmdQ) + 1 /\ Append(cmdQ, t) \in Seq(Task)
        /\ Len(cmdQ) \in Nat
    BY <2>1, SeqFacts
  <2> QED BY <1>1, <2>1, <2>2
<1>3. /\ FramesTyped'
      /\ \A u \in Task : u # t => framebuffer'[u] = framebuffer[u] /\ swap'[u] = swap[u]
      /\ \A c \in CfbInUse : swapBuffer'[c] = swapBuffer[c]
      /\ \A c \in Cfb : swapBuffer[c] \in Fb => swapBuffer'[c] \in Fb
      /\ Type[t] # "GFX" => framebuffer'[t] = framebuffer[t] /\ swap'[t] = swap[t]
      /\ Type[t] = "GFX" => framebuffer'[t] \in Cfb /\ swapBuffer'[framebuffer'[t]] \in Fb
  <2>1. CASE Type[t] = "GFX"
    <3>1. PICK c \in Cfb \ CfbInUse, b \in Fb, rate \in 1..MaxRate, s \in BOOLEAN : FillGfx(t, c, b, rate, s)
      BY <2>1 DEF ClientSubmit
    <3>2. rate \in 0..MaxRate
      BY ConstantsAssumption
    <3>3. FramesTyped'
      BY <3>1, <3>2 DEF FillGfx, CoreInv, TypeOK, FramesTyped
    <3> QED BY <2>1, <3>1, <3>3 DEF FillGfx, CoreInv, TypeOK, FramesTyped
  <2>2. CASE Type[t] # "GFX"
    BY <2>2, TypesUnchanged DEF ClientSubmit, FillOther, CoreInv, TypeOK
  <2> QED BY <2>1, <2>2
<1>4. TypeOK'
  <2>1. QueuesTyped'
    BY <1>1, <1>2 DEF CoreInv, TypeOK, QueuesTyped
  <2>2. RepliesTyped'
    <3>1. owed \in [Task -> Nat] /\ \A u \in Task : owed[u] <= Credit[u] /\ Credit[u] \in Nat
      BY ConstantsAssumption DEF CoreInv, TypeOK, RepliesTyped
    <3>2. owed' \in [Task -> Nat] /\ \A u \in Task : owed'[u] <= Credit[u]
      BY <1>1, <3>1
    <3> QED BY <1>1, <3>2 DEF CoreInv, TypeOK, RepliesTyped
  <2> QED BY <1>1, <1>3, <2>1, <2>2, TypesUnchanged DEF CoreInv, TypeOK
<1>5. \A u \in Task : Count(cmdQ, u)' = Count(cmdQ, u) + (IF t = u THEN 1 ELSE 0)
  <2>1. \A u \in Task : Count(Append(cmdQ, t), u) = Count(cmdQ, u) + (IF t = u THEN 1 ELSE 0)
    BY <1>2, CountAppend
  <2> QED BY <1>1, <2>1 DEF Count, Positions
<1>6. ~InCmdQ(t) /\ Completes(t) /\ done # t
  BY <1>1 DEF InProgress
<1>7. ASSUME NEW u \in Task
      PROVE  /\ InCmdQ(u)' <=> InCmdQ(u) \/ u = t
             /\ Completes(u)' <=> Completes(u)
             /\ InProgress(u)' <=> InProgress(u) \/ u = t
             /\ Count(audioList, u)' = Count(audioList, u)
             /\ Count(gfxList, u)' = Count(gfxList, u)
  <2>1. InCmdQ(u)' <=> Count(cmdQ, u)' > 0
    BY <1>4, InCmdQIsCountPrime DEF TypeOK
  <2>2. (InCmdQ(u) <=> Count(cmdQ, u) > 0) /\ Count(cmdQ, u) \in Nat
    BY InCmdQIsCount, PlacesFacts DEF CoreInv, TypeOK
  <2>3. InCmdQ(u)' <=> InCmdQ(u) \/ u = t
    BY <1>5, <2>1, <2>2
  <2>4. Completes(u)' <=> Completes(u)
    BY <1>1 DEF Completes
  <2> QED BY <1>1, <2>3, <2>4 DEF InProgress, Count, Positions, listVars
<1>8. ControlOK' /\ OwnersOK' /\ YieldersOK'
  BY <1>1 DEF CoreInv, ControlOK, OwnersOK, YieldersOK, curVars
<1>9. FramesOK'
  <2>1. pendingSwapBuf1' # NULL => swapBuffer'[pendingSwapBuf1'] \in Fb
    BY <1>1, <1>3 DEF CoreInv, FramesOK, CfbInUse, bufVars
  <2>2. ASSUME NEW u \in Task
        PROVE  /\ swap'[u] => framebuffer'[u] # NULL
               /\ framebuffer'[u] # NULL => Type[u] = "GFX" /\ swapBuffer'[framebuffer'[u]] \in Fb
               /\ InProgress(u)' /\ Type[u] = "GFX" => framebuffer'[u] # NULL
    <3>1. CASE u = t /\ Type[t] = "GFX"
      BY <1>3, <3>1, ConstantsAssumption
    <3>2. CASE ~(u = t /\ Type[t] = "GFX")
      <4>1. framebuffer'[u] = framebuffer[u] /\ swap'[u] = swap[u]
        BY <1>3, <3>2
      <4>2. framebuffer[u] \in Cfb \cup {NULL}
        BY DEF CoreInv, TypeOK, FramesTyped
      <4>3. InProgress(u)' /\ Type[u] = "GFX" => InProgress(u)
        BY <1>7, <3>2
      <4> QED BY <1>3, <4>1, <4>2, <4>3 DEF CoreInv, FramesOK
    <3> QED BY <3>1, <3>2
  <2> QED BY <2>1, <2>2 DEF FramesOK
<1>10. ListsOK'
  BY <1>1, <1>6, <1>7 DEF CoreInv, ListsOK, listVars
<1>11. OnePlace'
  <2> SUFFICES ASSUME NEW u \in Task
               PROVE  Places(u)' = IF InCmdQ(u)' \/ "SP" \in state'[u] THEN 1 ELSE 0
    BY DEF OnePlace
  <2>1. Places(u)' = Places(u) + (IF t = u THEN 1 ELSE 0)
    <3>1. Count(cmdQ, u) \in Nat /\ Count(audioList, u) \in Nat /\ Count(gfxList, u) \in Nat
      BY PlacesFacts
    <3>2. Count(cmdQ, u)' = Count(cmdQ, u) + (IF t = u THEN 1 ELSE 0)
      BY <1>5
    <3> QED BY <1>1, <1>7, <3>1, <3>2 DEF Places, curVars
  <2>2. Places(u) = IF InCmdQ(u) \/ "SP" \in state[u] THEN 1 ELSE 0
    BY DEF CoreInv, OnePlace
  <2>3. state' = state /\ "SP" \notin state[t]
    BY <1>1, <1>6 DEF Completes
  <2> QED BY <1>6, <1>7, <2>1, <2>2, <2>3
<1>12. OneReplyEach'
  BY <1>1, <1>7 DEF CoreInv, OneReplyEach, TypeOK, RepliesTyped
<1> QED BY <1>4, <1>8, <1>9, <1>10, <1>11, <1>12 DEF CoreInv

LEMMA CoreSendEntryMsg ==
    ASSUME NEW t \in Task PROVE CoreInv /\ Sched_SendEntryMsg(t) => CoreInv'
<1> SUFFICES ASSUME CoreInv, Sched_SendEntryMsg(t) PROVE CoreInv'
  OBVIOUS
<1>1. TypeOK'
  <2>1. QueuesTyped'
    <3>1. interruptQ \in Seq(Messages) /\ Len(interruptQ) <= IntQCap /\ "ENTRY" \in Messages
      BY DEF CoreInv, TypeOK, QueuesTyped, Messages
    <3>2. interruptQ' = Send(interruptQ, "ENTRY") /\ cmdQ' = cmdQ
      BY DEF Sched_SendEntryMsg, Send
    <3>3. interruptQ' \in Seq(Messages) /\ Len(interruptQ') <= IntQCap
      BY <3>1, <3>2, SendType
    <3> QED BY <3>2, <3>3 DEF CoreInv, TypeOK, QueuesTyped
  <2>2. RepliesTyped'
    BY DEF Sched_SendEntryMsg, CoreInv, TypeOK, RepliesTyped
  <2> QED BY <2>1, <2>2, TypesUnchanged
          DEF Sched_SendEntryMsg, CoreInv, TypeOK, taskVars, cfbVars
<1>2. ControlOK'
  BY DEF Sched_SendEntryMsg, CoreInv, ControlOK
<1> QED BY <1>1, <1>2, CoreUnchanged
        DEF CoreInv, YieldersOK, Sched_SendEntryMsg, listVars, curVars, bufVars, taskVars, cfbVars

(* Reading a reply, or queueing one to oneself, leaves the balance.         *)
LEMMA CoreClientReply ==
    ASSUME NEW t \in Task PROVE CoreInv /\ (ClientReceive(t) \/ ClientPrime(t)) => CoreInv'
<1> SUFFICES ASSUME CoreInv, ClientReceive(t) \/ ClientPrime(t) PROVE CoreInv'
  OBVIOUS
<1>1. PICK k \in {-1, 1} :
          /\ msgQ' = [msgQ EXCEPT ![t] = @ + k] /\ owed' = [owed EXCEPT ![t] = @ + k]
          /\ k = -1 => msgQ[t] > 0
          /\ k = 1 => owed[t] = 0 /\ Credit[t] > 0 /\ MsgQCap[t] > 0
  <2>1. msgQ \in [Task -> Nat] /\ owed \in [Task -> Nat]
    BY DEF CoreInv, TypeOK, RepliesTyped
  <2>2. CASE ClientReceive(t)
    <3>1. msgQ[t] > 0 /\ msgQ' = [msgQ EXCEPT ![t] = @ + (-1)]
          /\ owed' = [owed EXCEPT ![t] = @ + (-1)]
      BY <2>1, <2>2 DEF ClientReceive
    <3> QED BY <3>1
  <2>3. CASE ClientPrime(t)
    BY <2>3 DEF ClientPrime
  <2> QED BY <2>2, <2>3
<1>2. UNCHANGED <<pc, done, interruptQ, cmdQ, listVars, curVars, bufVars, taskVars,
                  cfbVars, viVars, rspVars, rdpVars, hung, sending, resetStatus, failed>>
  BY DEF ClientReceive, ClientPrime
<1>3. \A u \in Task : /\ owed[u] \in Nat /\ msgQ[u] \in Nat
                      /\ owed[u] = msgQ[u] + (IF InProgress(u) THEN 1 ELSE 0)
                      /\ owed[u] <= Credit[u] /\ msgQ[u] <= MsgQCap[u]
                      /\ Credit[u] \in Nat /\ MsgQCap[u] \in Nat
  BY ConstantsAssumption DEF CoreInv, OneReplyEach, TypeOK, RepliesTyped
<1>4. msgQ[t] + k \in Nat /\ owed[t] + k \in Nat
      /\ msgQ[t] + k <= MsgQCap[t] /\ owed[t] + k <= Credit[t]
  <2>1. owed[t] \in Nat /\ msgQ[t] \in Nat /\ owed[t] >= msgQ[t]
        /\ owed[t] <= Credit[t] /\ msgQ[t] <= MsgQCap[t]
        /\ Credit[t] \in Nat /\ MsgQCap[t] \in Nat
    BY <1>3
  <2>2. CASE k = -1
    BY <1>1, <2>1, <2>2
  <2>3. CASE k = 1
    BY <1>1, <2>1, <2>3
  <2> QED BY <2>2, <2>3
<1>5. /\ msgQ' \in [Task -> Nat] /\ owed' \in [Task -> Nat]
      /\ \A u \in Task : /\ msgQ'[u] = IF u = t THEN msgQ[u] + k ELSE msgQ[u]
                         /\ owed'[u] = IF u = t THEN owed[u] + k ELSE owed[u]
  BY <1>1, <1>4 DEF CoreInv, TypeOK, RepliesTyped
<1>6. TypeOK'
  <2>1. RepliesTyped'
    BY <1>2, <1>3, <1>4, <1>5 DEF CoreInv, TypeOK, RepliesTyped
  <2> QED BY <1>2, <2>1, TypesUnchanged DEF CoreInv, TypeOK, taskVars, cfbVars
<1>7. \A u \in Task : /\ Completes(u)' <=> Completes(u)
                      /\ InCmdQ(u)' <=> InCmdQ(u)
                      /\ InProgress(u)' <=> InProgress(u)
                      /\ Count(audioList, u)' = Count(audioList, u)
                      /\ Count(gfxList, u)' = Count(gfxList, u)
                      /\ Places(u)' = Places(u)
  BY <1>2 DEF InProgress, InCmdQ, Completes, Places, Count, Positions, listVars, curVars, taskVars
<1>8. ControlOK' /\ OwnersOK' /\ YieldersOK'
  BY <1>2 DEF CoreInv, ControlOK, OwnersOK, YieldersOK, curVars, taskVars
<1>9. FramesOK'
  BY <1>2, <1>7 DEF CoreInv, FramesOK, bufVars, taskVars, cfbVars
<1>10. ListsOK'
  BY <1>2, <1>7 DEF CoreInv, ListsOK, listVars
<1>11. OnePlace'
  BY <1>2, <1>7 DEF CoreInv, OnePlace, taskVars
<1>12. OneReplyEach'
  <2> SUFFICES ASSUME NEW u \in Task
               PROVE  owed'[u] = msgQ'[u] + (IF InProgress(u)' THEN 1 ELSE 0)
    BY DEF OneReplyEach
  <2>1. /\ owed[u] \in Nat /\ msgQ[u] \in Nat
        /\ owed[u] = msgQ[u] + (IF InProgress(u) THEN 1 ELSE 0)
    BY <1>3
  <2> QED BY <1>5, <1>7, <2>1
<1> QED BY <1>6, <1>8, <1>9, <1>10, <1>11, <1>12 DEF CoreInv

LEMMA CoreNext == CoreInv /\ [Next]_vars => CoreInv'
<1> SUFFICES ASSUME CoreInv, [Next]_vars PROVE CoreInv'
  OBVIOUS
<1>1. CASE SchedThread
  BY <1>1, CoreRecvEntry, CoreDrainCmdQ, CoreYield, CoreHandleRetrace, CoreHandleRSPDone,
     CoreHandleRDPDone, CoreHandleReset, CoreHandleStart, CoreIsComplete, CoreSchedule DEF SchedThread
<1>2. CASE Hardware
  BY <1>2, CoreHardware
<1>3. CASE Clients
  BY <1>3, CoreClientSubmit, CoreSendEntryMsg, CoreClientReply DEF Clients
<1>4. CASE UNCHANGED vars
  <2>1. TypeOK' /\ ControlOK'
    BY <1>4, TypesUnchanged
       DEF CoreInv, TypeOK, ControlOK, vars, queueVars, taskVars, cfbVars, envVars
  <2> QED BY <1>4, <2>1, CoreUnchanged
          DEF CoreInv, YieldersOK, vars, queueVars, listVars, curVars, bufVars, taskVars,
              cfbVars, envVars
<1> QED BY <1>1, <1>2, <1>3, <1>4 DEF Next

THEOREM CoreInvariant == Spec => []CoreInv
BY CoreInit, CoreNext, PTL DEF Spec

(* Every variable of the scheduler, of the hardware and of the clients      *)
(* keeps its type; in particular interruptQ and cmdQ (sched.c:494-495) and  *)
(* the reply queues never hold more than their capacity.                    *)
THEOREM TypeCorrect == Spec => []TypeOK
<1>1. CoreInv => TypeOK
  BY DEF CoreInv
<1> QED BY <1>1, CoreInvariant, PTL

(* Sched_IsComplete (sched.c:230-244) answers every submission exactly once *)
(* and not before both processors are done with it.                         *)
THEOREM RepliesExact == Spec => []OneReplyEach
<1>1. CoreInv => OneReplyEach
  BY DEF CoreInv
<1> QED BY <1>1, CoreInvariant, PTL

(* No task is lost between cmdQ, the lists and the RSP, or linked twice     *)
(* (sched.c:95-129, 181-216, 383-388).                                      *)
THEOREM TasksInOnePlace == Spec => []OnePlace
<1>1. CoreInv => OnePlace
  BY DEF CoreInv
<1> QED BY <1>1, CoreInvariant, PTL

(* The scheduler blocks in osSendMesg (sched.c:233) only on a client that   *)
(* has more submissions outstanding than its queue has room for replies.    *)
THEOREM BlocksOnlyOnExcess == Spec => []NeverBlocked
<1>1. CoreInv => NeverBlocked
  <2> SUFFICES ASSUME CoreInv, Blocked PROVE Credit[done] > MsgQCap[done]
    BY DEF NeverBlocked
  <2>1. done \in Task /\ InProgress(done) /\ msgQ[done] >= MsgQCap[done]
    BY DEF CoreInv, TypeOK, ThreadTyped, ControlOK, Blocked, InProgress
  <2>2. owed[done] = msgQ[done] + 1 /\ owed[done] <= Credit[done]
        /\ msgQ[done] \in Nat /\ MsgQCap[done] \in Nat /\ Credit[done] \in Nat
    BY <2>1, ConstantsAssumption DEF CoreInv, OneReplyEach, TypeOK, RepliesTyped
  <2> QED BY <2>1, <2>2
<1> QED BY <1>1, CoreInvariant, PTL
=============================================================================
