---------------------------- MODULE MCIceChannel ----------------------------
\* IceChannel with two pairs on one network, where one is pruned for the other,
\* or on two, where both are kept; started with the proper roles or with equal
\* ones.
EXTENDS IceChannel

OneNetwork == [p \in Pairs |-> 0]
TwoNetworks == [p \in Pairs |-> p]
ProperRoles == { [a \in Agents |-> IF a = A THEN "CONTROLLING" ELSE "CONTROLLED"] }
EqualRoles == { [a \in Agents |-> r] : r \in {"CONTROLLING", "CONTROLLED"} }
NoneLate == [a \in Agents |-> <<>>]
LateAtB == [a \in Agents |-> IF a = B THEN <<1, 2>> ELSE <<>>]
NoTrouble == {}
TopAtB == {<<B, 2>>}
=============================================================================
