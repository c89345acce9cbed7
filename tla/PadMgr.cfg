SPECIFICATION Spec
CONSTANTS
    irqT = irqT  graphT = graphT  
    pad = pad
    Timer = {irqT, graphT}
    irqTimer = irqT
    otherTimer = graphT
    MinWait = 1
    Latency = 0
    T450 = 2  T30 = 1  T20 = 1  TOther = 1
    Client = {pad}
    Early = {pad}
    QCap <- MCQCap
    IrqQCap = 3
    Port = {0}
    Pak = {"none", "rumble"}
    OnFrames = 1
    OffFrames = 2
    Stops = 1
    Lost = 1
    MaxErrors = 1
    ProbeMayFail = FALSE
INVARIANTS
    TypeOK
    OwnAnswer
    NoPressLost
    QuietAtEnd
CHECK_DEADLOCK FALSE
