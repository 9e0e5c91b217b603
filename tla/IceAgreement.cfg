SPECIFICATION FairSpec
CONSTANTS
    A = "a"
    B = "b"
    Pairs = {1, 2}
    Network <- OneNetwork
    Protocols = {"RFC5245"}
    Hybrid = {}
    Roles <- EqualRoles
    Late <- NoneLate
    Troubled <- NoTrouble
    MaxReq = 1
    MaxTrouble = 0
CHECK_DEADLOCK FALSE
INVARIANT RolesOnce
PROPERTY Agreement
