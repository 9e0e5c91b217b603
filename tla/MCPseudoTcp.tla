---------------------------- MODULE MCPseudoTcp ----------------------------
\* PseudoTcp with small buffers; the client writes, both close.
EXTENDS PseudoTcp

ClientWrites2 == [e \in Ends |-> IF e = Client THEN 2 ELSE 0]
ClientWrites3 == [e \in Ends |-> IF e = Client THEN 3 ELSE 0]
NobodyCloses == [e \in Ends |-> {}]
BothClose ==
    [e \in Ends |-> IF e = Client THEN {"GRACEFUL", "FORCEFUL"} ELSE {"GRACEFUL"}]
=============================================================================
