SPECIFICATION Spec
CONSTANTS
    t1 = t1  t2 = t2  m1 = m1  m2 = m2  q1 = q1
    NULL = NULL
    Idle = Idle
    Thread = {Idle, t1, t2}
    Queue = {q1}
    Msg = {m1, m2}
    MsgCount <- CapTwo
    Pri = {1, 2}
    MayStop = TRUE
    MayRob = FALSE
SYMMETRY Alike
INVARIANTS
    TypeOK
    InOneList
    PriorityRespected
    NoLostWakeup
PROPERTIES
    ImplementsFifo
