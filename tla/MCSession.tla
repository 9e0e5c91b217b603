----------------------------- MODULE MCSession -----------------------------
(* Instances of Session for TLC.                                           *)
EXTENDS Session

\* Every content described and every description taken.
FullAnswer == [lists |-> Contents, local |-> Contents,
               connected |-> Contents, remote |-> Contents]
FullAnswers == [full |-> FullAnswer]

\* Besides: the second content is rejected; the first transport refuses its
\* description, on both sides, and the pushdown does not get to the second.
First == {"a"}
SomeAnswers ==
    [full    |-> FullAnswer,
     partial |-> [FullAnswer EXCEPT !.lists = First, !.remote = First],
     refused |-> [FullAnswer EXCEPT !.local = First, !.connected = {},
                                    !.remote = First]]
=============================================================================
