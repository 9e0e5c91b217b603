SPECIFICATION Spec
CONSTANTS
    A = "a"
    B = "b"
    Pairs = {1, 2}
    Network <- TwoNetworks
    Protocols = {"RFC5245", "GOOGLE"}
    Hybrid = {"a"}
    Roles <- ProperRoles
    Late <- LateAtB
    Troubled <- TopAtB
    MaxReq = 1
    MaxTrouble = 1
CHECK_DEADLOCK FALSE
INVARIANT TypeOK
INVARIANT DeadUnused
INVARIANT ChannelFollows
