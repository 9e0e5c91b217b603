---------------------------- MODULE MCThreadQueue ----------------------------
\* ThreadQueue with one handler per thread, named like the thread.
EXTENDS ThreadQueue

CONSTANTS t1, t2
MCHome == [h \in Handlers |-> h]
=============================================================================
