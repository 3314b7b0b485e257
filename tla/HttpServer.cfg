SPECIFICATION FairSpec
CONSTANTS
    c1 = c1
    c2 = c2
    Client = {c1, c2}
    Polite = {c2}
    Scripts <- MCScripts
    RecvBuf = 4
    MaxRequest = 4
    IoBuf = 2
    FileSize = 3
    Prescribed <- MCPrescribed
INVARIANT TypeOK
INVARIANT HandledInOrder
INVARIANT PoliteReplies
INVARIANT TransfersSound
 
PROPERTY PoliteAnswered
PROPERTY Reaped
CHECK_DEADLOCK FALSE
