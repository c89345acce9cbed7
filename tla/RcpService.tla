----------------------------- MODULE RcpService -----------------------------
(***************************************************************************)
(* What the scheduler of src/src/code/sched.c promises to those who give   *)
(* it tasks, without its lists, its message queue and the processors:      *)
(*   - tasks that are not audio are started in the order they were sent,   *)
(*     and an audio task never waits behind them;                          *)
(*   - one graphics task at a time, and one task of each other kind;       *)
(*   - the null task is a barrier: it is answered when every task before   *)
(*     it has been answered and none has been started since;               *)
(*   - every task is answered once, after it was started.                  *)
(***************************************************************************)
EXTENDS Integers, Sequences

CONSTANTS Task, Type

VARIABLES
    askedAudio,     \* the audio tasks sent and not started
    asked,          \* the other tasks sent and not started, oldest first
    active,         \* the tasks started and not answered
    replies         \* replies waiting to be read, of each task

serviceVars == <<askedAudio, asked, active, replies>>

ServiceInit ==
    /\ askedAudio = <<>> /\ asked = <<>> /\ active = {}
    /\ replies = [t \in Task |-> 0]

Ask(t) ==
    /\ t \notin active
    /\ IF Type[t] = "AUD" THEN askedAudio' = Append(askedAudio, t) /\ asked' = asked
                          ELSE asked' = Append(asked, t) /\ askedAudio' = askedAudio
    /\ UNCHANGED <<active, replies>>

StartAudio ==
    /\ askedAudio # <<>>
    /\ \A u \in active : Type[u] # "AUD"
    /\ askedAudio' = Tail(askedAudio)
    /\ active' = active \cup {Head(askedAudio)}
    /\ UNCHANGED <<asked, replies>>

StartOther ==
    /\ asked # <<>>
    /\ \A u \in active : /\ Type[u] \notin {Type[Head(asked)], "AUD"}
                         /\ Type[Head(asked)] # "NUL"
    /\ asked' = Tail(asked)
    /\ active' = active \cup {Head(asked)}
    /\ UNCHANGED <<askedAudio, replies>>

Answer(t) ==
    /\ t \in active
    /\ active' = active \ {t}
    /\ replies' = [replies EXCEPT ![t] = @ + 1]
    /\ UNCHANGED <<askedAudio, asked>>

Read(t) ==
    /\ replies[t] > 0
    /\ replies' = [replies EXCEPT ![t] = @ - 1]
    /\ UNCHANGED <<askedAudio, asked, active>>

(* A client may put a reply into its own queue, to start with.              *)
Prime(t) ==
    /\ replies' = [replies EXCEPT ![t] = @ + 1]
    /\ UNCHANGED <<askedAudio, asked, active>>

ServiceNext ==
    \/ StartAudio \/ StartOther
    \/ \E t \in Task : Ask(t) \/ Answer(t) \/ Read(t) \/ Prime(t)

ServiceSpec == ServiceInit /\ [][ServiceNext]_serviceVars
=============================================================================
