SPECIFICATION Spec
CONSTANTS
    gfx = gfx
    aud = aud
    jpeg = jpeg
    null = null
    c0 = c0
    c1 = c1
    f0 = f0
    f1 = f1
    NULL = NULL
    Boot = Boot
    Task = {gfx}
    Type <- MCType
    Cfb = {c0, c1}
    Fb = {f0, f1}
    IntQCap = 8
    CmdQCap = 8
    MsgQCap <- MCMsgQCap
    Credit <- OneEach
    MaxRate = 1
    RetraceBacklog = 1
    EntryBacklog = 3
    MayReset = TRUE
    MayHang = TRUE
    ResetRace = TRUE
INVARIANTS
    RspDoneAssertion
SYMMETRY Symmetry
