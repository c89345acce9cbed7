SPECIFICATION IrqSpec
CONSTANTS
    irqT = irqT  graphT = graphT  
    pad = pad  aud = aud
    Timer = {irqT, graphT}
    irqTimer = irqT
    otherTimer = graphT
    MinWait = 1
    Latency = 1
    T450 = 3  T30 = 1  T20 = 1  TOther = 4
    Client = {pad, aud}
    Early = {pad}
    QCap <- MCQCap
    IrqQCap = 3
INVARIANTS
    NeverEarly
    ResetTold
PROPERTIES
    OnlyRetryDamages
    ResetEnds
CHECK_DEADLOCK FALSE
