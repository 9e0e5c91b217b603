---------------------------- MODULE ByteStream ----------------------------
(***************************************************************************)
(* What a PseudoTcp connection promises the two applications that use it   *)
(* (p2p/base/pseudotcp.h), whatever the network does: two byte streams,    *)
(* one each way, without loss, repetition or disorder, in bounded memory,  *)
(* and a graceful Close after which everything written still arrives.      *)
(* PseudoTcp implements it; no packet, timer or window is left here.       *)
(***************************************************************************)
EXTENDS Naturals, Sequences

CONSTANTS
    Ends,      \* the two endpoints
    Peer,      \* endpoint -> the other one
    Room,      \* bytes written that need not have arrived
    Inbox      \* bytes arrived that need not have been read

VARIABLES
    phase,     \* endpoint -> how far its connection is
    written,   \* endpoint -> bytes written
    pipe,      \* endpoint -> what it wrote and has not arrived, in order
    inbox      \* endpoint -> what has arrived and can be read

vars == <<phase, written, pipe, inbox>>

Phases == {"new", "open", "closing", "gone", "shut"}

\* An endpoint that still takes what arrives.
Listens(e) == phase[e] \in {"new", "open"}

Init ==
    /\ phase = [e \in Ends |-> "new"]
    /\ written = [e \in Ends |-> 0]
    /\ pipe = [e \in Ends |-> <<>>]
    /\ inbox = [e \in Ends |-> <<>>]

Becomes(e, p) == phase' = [phase EXCEPT ![e] = p] /\ UNCHANGED <<written, pipe, inbox>>

Open(e) == phase[e] = "new" /\ Becomes(e, "open")

\* Send: a peer that has closed does not keep the writer from going on.
Write(e, n) ==
    /\ phase[e] = "open"
    /\ Listens(Peer[e]) => Len(pipe[e]) + n <= Room
    /\ written' = [written EXCEPT ![e] = @ + n]
    /\ pipe' = [pipe EXCEPT ![e] = @ \o [i \in 1 .. n |-> written[e] + i]]
    /\ UNCHANGED <<phase, inbox>>

\* The next n bytes arrive; the packet that brings them may open the connection.
Carry(e, n) ==
    LET p == pipe[Peer[e]]
    IN /\ Listens(e)
       /\ Len(inbox[e]) + n <= Inbox
       /\ inbox' = [inbox EXCEPT ![e] = @ \o SubSeq(p, 1, n)]
       /\ pipe' = [pipe EXCEPT ![Peer[e]] = SubSeq(p, n + 1, Len(p))]
       /\ phase' \in {phase, [phase EXCEPT ![e] = "open"]}
       /\ UNCHANGED written

\* Recv.
Read(e, n) ==
    /\ phase[e] = "open"
    /\ inbox' = [inbox EXCEPT ![e] = SubSeq(@, n + 1, Len(@))]
    /\ UNCHANGED <<phase, written, pipe>>

\* Close(false) of an open connection.
Close(e) == phase[e] = "open" /\ Becomes(e, "closing")

\* The endpoint is ready to be destroyed, perhaps at once: all it wrote has
\* arrived, unless the other end has closed and takes nothing any more.
Leave(e) ==
    /\ phase[e] \in {"open", "closing"}
    /\ pipe[e] = <<>> \/ ~Listens(Peer[e])
    /\ Becomes(e, "gone")

\* Close(true), the end of a connection that never opened, or of the retries.
Break(e) == phase[e] \in {"new", "open", "closing"} /\ Becomes(e, "shut")

Next ==
    \E e \in Ends :
        \/ Open(e) \/ Close(e) \/ Leave(e) \/ Break(e)
        \/ \E n \in 1 .. Room : Write(e, n)
        \/ \E n \in 1 .. Len(pipe[Peer[e]]) : Carry(e, n)
        \/ \E n \in 1 .. Len(inbox[e]) : Read(e, n)

Spec == Init /\ [][Next]_vars
=============================================================================
