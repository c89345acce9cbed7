SPECIFICATION Spec
CONSTANTS
    gfx = gfx
    aud = aud
    jpeg = jpeg
    null = null
    c0 = c0
    c1 = c1
    f0 = f0
    f1 = f1
    NULL = NULL
    Boot = Boot
    Task = {gfx, aud, null}
    Type <- MCType
    Cfb = {c0, c1}
    Fb = {f0, f1}
    IntQCap = 8
    CmdQCap = 8
    MsgQCap <- MCMsgQCap
    Credit <- OneEach
    MaxRate = 1
    RetraceBacklog = 1
    EntryBacklog = 3
    MayReset = FALSE
    MayHang = FALSE
    ResetRace = FALSE
INVARIANTS
    YieldedFirst
PROPERTIES
    ImplementsService
SYMMETRY Symmetry
