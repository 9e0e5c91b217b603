--------------------------- MODULE MCMediaChannel ---------------------------
\* MediaChannel where encryption is required and given, wanted and given,
\* wanted and not given, or required and not given.
EXTENDS MediaChannel

Policy2(caller, callee) == [p \in Peers |-> IF p = Caller THEN caller ELSE callee]
SomePolicies == { Policy2("required", "enabled"), Policy2("enabled", "enabled"),
                  Policy2("enabled", "disabled"), Policy2("required", "disabled") }
=============================================================================
