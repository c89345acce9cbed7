SPECIFICATION Spec
CONSTANTS
    roomA = roomA
    roomB = roomB
    roomC = roomC
    objX = objX
    objY = objY
    objZ = objZ
    Room = {roomA, roomB, roomC}
    Object = {objX, objY, objZ}
    NoRoom = none
    Keep = keep
    ObjectList <- MCObjectList
    SetupActorList <- MCSetupActorList
    Block = {1, 2, 3, 4, 5, 6, 7}
    Plane = {1, 2}
    Sides <- MCSides
    Stepped = {2}
    MayOutrun = FALSE
    Spare = 5
INVARIANTS
    
    
    PlanesKept
    ObjectsKept
PROPERTIES
    NoSelfDelete
    SelfDeleteBetweenTwins
