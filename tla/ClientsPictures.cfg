SPECIFICATION ClientsSpec
CONSTANTS
    gfx = gfx
    aud = aud
    jpeg = jpeg
    null = null
    c0 = c0
    c1 = c1
    c2 = c2
    f0 = f0
    f1 = f1
    NULL = NULL
    Boot = Boot
    Task = {gfx, jpeg, null}
    Type <- MCType
    Cfb = {c0, c1, c2}
    Fb = {f0, f1}
    CfbRing <- MCCfbRing
    FbPtr <- MCFbPtr
    AudioQCap = 1
    IntQCap = 8
    CmdQCap = 8
    MsgQCap <- MCMsgQCap
    Credit <- MCCredit
    MaxRate = 1
    RetraceBacklog = 1
    EntryBacklog = 3
    MayReset = FALSE
    MayHang = TRUE
    ResetRace = FALSE
    MayTimeOut = TRUE
    MayOverflow = FALSE
    MayTakePicture = TRUE
    SlowAudio = FALSE
PROPERTIES
    ObeysRules
INVARIANTS
    PictureIsReady
    PictureNotShown
    JpegAlone
    NoFalseHang
CHECK_DEADLOCK FALSE
