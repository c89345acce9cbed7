SPECIFICATION FairClientsSpec
CONSTANTS
    gfx = gfx
    aud = aud
    jpeg = jpeg
    null = null
    c0 = c0
    c1 = c1
    c2 = c2
    f0 = f0
    f1 = f1
    NULL = NULL
    Boot = Boot
    Task = {gfx, aud}
    Type <- MCType
    Cfb = {c0, c1}
    Fb = {f0, f1}
    CfbRing <- MCCfbRing
    FbPtr <- MCFbPtr
    AudioQCap = 1
    IntQCap = 8
    CmdQCap = 8
    MsgQCap <- MCMsgQCap
    Credit <- MCCredit
    MaxRate = 1
    RetraceBacklog = 1
    EntryBacklog = 3
    MayReset = FALSE
    MayHang = FALSE
    ResetRace = FALSE
    MayTimeOut = FALSE
    MayOverflow = TRUE
    MayTakePicture = FALSE
    SlowAudio = FALSE
PROPERTIES
    ObeysRules
    FrameAnswered
    BlockEnds
    AudioPlayed
