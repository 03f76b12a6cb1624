\* Retransmission, duplicates and a block-wise upload over a network that
\* loses, duplicates and reorders; the ids of both sides begin at 1 and collide.
SPECIFICATION Spec
CONSTANTS
    IdMax = 7
    OwnStarts = {7}
    SrvBase = 0
    SrvTop = 5
    ResendCount = 2
    QueueMsgs = 1
    DupSize = 2
    Blocks = 4
    MaxAccepted = 6
    Scenarios <- Mixed
INVARIANTS
    TypeOK
    NoEarlyRedelivery
    UploadWhole
PROPERTIES
    AckIsFinal
    EverySendEnds
CHECK_DEADLOCK FALSE
