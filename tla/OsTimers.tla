------------------------------ MODULE OsTimers ------------------------------
(***************************************************************************)
(* The timers of the operating system: osSetTimer, osStopTimer and         *)
(* __osTimerInterrupt on the list that starts at __osTimerList->next, each *)
(* timer with the time it waits after the one before it.                   *)
(*                                                                         *)
(* The CPU's counter and compare register appear as differences:           *)
(* "elapsed" is the counter minus __osTimerCounter, "left" the compare     *)
(* register minus the counter.  The list ends empty with __osSetCompare(0), *)
(* whose interrupts return at once: they are left out, and so are timers   *)
(* with an interval, which the program has none of.  A step is what is done *)
(* with interrupts disabled; osStopTimer looks at its timer before that.   *)
(***************************************************************************)
EXTENDS Integers, Sequences, FiniteSets, SequencesExt

CONSTANTS
    Timer,          \* the OSTimer structures
    MinWait,        \* the shortest time __osSetTimerIntr sets, 468 cycles
    Latency         \* how long interrupts stay disabled at most

ASSUME TimersAssumption == MinWait \in Nat \ {0} /\ Latency \in Nat

VARIABLES
    timers,         \* the list
    value,          \* the field of each timer
    elapsed, left,
    due,            \* the time each set timer must still wait, to state properties with
    damaged,        \* a timer was set while it was in the list
    stopCall        \* how far osStopTimer has come for each timer

listVars == <<timers, value, elapsed, left, due, damaged>>
timerVars == <<listVars, stopCall>>

TimersTypeOK ==
    /\ timers \in Seq(Timer) /\ IsInjective(timers)
    /\ value \in [Timer -> Nat] /\ due \in [Timer -> Nat]
    /\ elapsed \in Nat /\ left \in Int /\ damaged \in BOOLEAN
    /\ stopCall \in [Timer -> {"none", "tested", "fault"}]

TimersInit ==
    /\ timers = <<>> /\ elapsed = 0 /\ left = 0 /\ damaged = FALSE
    /\ value = [t \in Timer |-> 0] /\ due = [t \in Timer |-> 0]
    /\ stopCall = [t \in Timer |-> "none"]

Active(t) == Contains(timers, t)

(* When the first i timers of the list s have run out, from __osTimerCounter. *)
RunsOut(s, val, i) ==
    LET Later(time, t) == time + val[t] IN FoldLeft(Later, 0, SubSeq(s, 1, i))

(* The interrupt is set for the first timer of s. *)
__osSetTimerIntr(s, val) ==
    /\ timers' = s /\ value' = val /\ elapsed' = 0
    /\ left' = IF s = <<>> THEN 0
               ELSE IF val[s[1]] < MinWait THEN MinWait ELSE val[s[1]]

(* The place for a timer that is to wait for v: behind those that run out sooner. *)
Place(val, v) == Cardinality({i \in DOMAIN timers : RunsOut(timers, val, i) < v}) + 1

__osInsertTimer(val, t, v) ==
    LET i == Place(val, v)
        wait == v - RunsOut(timers, val, i - 1)
        after == IF i > Len(timers) THEN val ELSE [val EXCEPT ![timers[i]] = @ - wait]
    IN  __osSetTimerIntr(InsertAt(timers, i, t), [after EXCEPT ![t] = wait])

(* What the first timer has waited since __osTimerCounter is taken off. *)
Settled ==
    IF timers = <<>> THEN value
    ELSE [value EXCEPT ![timers[1]] = IF elapsed < @ THEN @ - elapsed ELSE 1]

(* A timer in the list loses its next and prev first: __osInsertTimer then   *)
(* writes through a null prev or closes the list to a ring.                 *)
osSetTimer(t, countdown) ==
    IF Active(t)
    THEN damaged' = TRUE /\ UNCHANGED <<timers, value, elapsed, left, due, stopCall>>
    ELSE /\ __osInsertTimer(Settled, t, countdown)
         /\ due' = [due EXCEPT ![t] = countdown]
         /\ UNCHANGED <<damaged, stopCall>>

(* A timer that is taken out leaves its wait to the next. *)
HandedOn_Not(i) == value
HandedOn(i) ==
    IF i = Len(timers) THEN value
    ELSE [value EXCEPT ![timers[i + 1]] = @ + value[timers[i]]]

(* Whether the timer is in the list; if not, the call returns -1.           *)
osStopTimer_Test(t) ==
    /\ stopCall[t] = "none"
    /\ stopCall' = [stopCall EXCEPT ![t] = IF Active(t) THEN "tested" ELSE "none"]
    /\ UNCHANGED listVars

(* The rest, with interrupts disabled.  The compare register stays as it    *)
(* is, unless the list is empty.                                            *)
osStopTimer_Remove(t) ==
    \E i \in DOMAIN timers :
        /\ stopCall[t] = "tested" /\ timers[i] = t
        /\ timers' = RemoveAt(timers, i)
        /\ value' = HandedOn(i)
        /\ elapsed' = IF timers' = <<>> THEN 0 ELSE elapsed
        /\ left' = IF timers' = <<>> THEN 0 ELSE left
        /\ due' = [due EXCEPT ![t] = 0]
        /\ stopCall' = [stopCall EXCEPT ![t] = "none"]
        /\ UNCHANGED damaged

(* The timer ran out after the test, which is not repeated: next is NULL,   *)
(* its value is read and the thread ends in a TLB exception, before         *)
(* anything is written.                                                     *)
osStopTimer_Fault(t) ==
    /\ stopCall[t] = "tested" /\ ~Active(t)
    /\ stopCall' = [stopCall EXCEPT ![t] = "fault"]
    /\ UNCHANGED listVars

osStopTimer(t) == osStopTimer_Test(t) \/ osStopTimer_Remove(t) \/ osStopTimer_Fault(t)

Pending == timers # <<>> /\ left <= 0

(* The first timer runs out, and those after it that wait no longer. *)
Expired ==
    IF elapsed < value[timers[1]] THEN 0
    ELSE Cardinality({i \in DOMAIN timers : RunsOut(timers, value, i) = value[timers[1]]})

__osTimerInterrupt ==
    /\ Pending
    /\ IF Expired = 0
       THEN __osSetTimerIntr(timers, [value EXCEPT ![timers[1]] = @ - elapsed])
       ELSE __osSetTimerIntr(SubSeq(timers, Expired + 1, Len(timers)), value)
    /\ due' = [t \in Timer |-> IF Contains(timers', t) THEN due[t] ELSE 0]
    /\ UNCHANGED <<damaged, stopCall>>

(* The timers whose messages the interrupt sends. *)
SentBy(i) == {timers[j] : j \in 1 .. i}

(* One unit of time; the interrupt is held up for at most Latency. *)
CountUp ==
    /\ timers # <<>> => left > - Latency
    /\ IF timers = <<>> THEN UNCHANGED <<elapsed, left>>
       ELSE elapsed' = elapsed + 1 /\ left' = left - 1
    /\ due' = [t \in Timer |-> IF due[t] = 0 THEN 0 ELSE due[t] - 1]
    /\ UNCHANGED <<timers, value, damaged, stopCall>>

(* No timer runs out before its time, whatever other timers are set,        *)
(* stopped or run out meanwhile and however late interrupts are served:     *)
(* the waits in the list always add up to at least what is due.             *)
NeverEarly ==
    \A i \in DOMAIN timers :
        due[timers[i]] > 0 => RunsOut(timers, value, i) - elapsed >= due[timers[i]]
=============================================================================
