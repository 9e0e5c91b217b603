SPECIFICATION FairSpec
CONSTANTS
    Roles = {"INITIATOR", "RESPONDER"}
    Threads = {"main", "stream"}
    Early = FALSE
    Overlaps = {"main"}
    MaxPacket = 3
    MaxXmit = 1
    MaxRead = 2
CHECK_DEADLOCK FALSE
INVARIANT DeletedLast
INVARIANT MessagesValid
INVARIANT CloseToldOnce
INVARIANT NoLostEvent
PROPERTY Released
