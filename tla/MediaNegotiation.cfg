SPECIFICATION Spec
CONSTANTS
    Caller = "caller"
    Callee = "callee"
    Policies <- SomePolicies
    MuxOptions = {TRUE, FALSE}
    Bundles = {TRUE, FALSE}
    Directions = {"sendrecv"}
    Replaces = TRUE
    MaxOffers = 2
    MaxProvisional = 1
    MaxFlap = 1
CHECK_DEADLOCK FALSE
INVARIANT TypeOK EndToEnd NeverMisread SecureSend EngineFollows
