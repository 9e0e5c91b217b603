--------------------------- MODULE TunnelChannel ---------------------------
(***************************************************************************)
(* The life of one tunnel at one end: the PseudoTcpChannel and the stream  *)
(* it hands out (session/tunnel/pseudotcpchannel.cc), the TunnelSession    *)
(* and its client (tunnelsessionclient.cc), the Session and the transport  *)
(* channel below.                                                          *)
(*                                                                         *)
(* The signaling thread is also the worker thread, "main": the channel     *)
(* creates and destroys its transport channel on the signaling thread and  *)
(* the TransportProxy asserts that this is the worker.  The stream is used *)
(* on main or, by an initiator, on a thread of its own, "stream".  A       *)
(* method of the channel holds cs_ and is one step; taking a message off   *)
(* the queue and handling it are two.                                      *)
(*                                                                         *)
(* PseudoTcp is reduced to what the channel can see of it (module          *)
(* PseudoTcp has the rest), the other end to the messages that arrive, and *)
(* time to when a delayed message is due.                                  *)
(***************************************************************************)
EXTENDS Naturals, Sequences, FiniteSets, Lists

CONSTANTS
    Roles,       \* whether the tunnel is created here or by the other end
    Threads,     \* the threads on which an initiator may use its stream
    Early,       \* whether the stream is closed, or the client deleted, before Connect
    Overlaps,    \* stream threads for which an ending session may be ended once more
    MaxPacket,   \* bound: packets and other news from the transport channel
    MaxXmit,     \* transmissions of a segment (15 in the code)
    MaxRead      \* bound: bytes in the receive buffer

ASSUME TunnelAssumption ==
    /\ Roles \subseteq {"INITIATOR", "RESPONDER"} /\ Threads \subseteq {"main", "stream"}
    /\ Early \in BOOLEAN /\ Overlaps \subseteq {"main", "stream"}
    /\ MaxPacket \in Nat /\ MaxXmit \in Nat \ {0} /\ MaxRead \in Nat \ {0}

VARIABLES
    sys,     \* the PseudoTcpChannel, the message queues and the delayed messages
    ses,     \* the state of the Session
    owner,   \* the TunnelSession exists; its channel_ points to the PseudoTcpChannel
    busy,    \* thread -> the message it has taken and not yet handled
    app,     \* what the owner of the stream knows
    packets  \* news from the transport channel so far

vars == <<sys, ses, owner, busy, app, packets>>

-----------------------------------------------------------------------------
(* Messages                                                                *)

NoMsg == [id |-> "NONE", events |-> {}]
Msg(id) == [id |-> id, events |-> {}]
Event(events) == [id |-> "ST_EVENT", events |-> events]

Post(s, t, m) == [s EXCEPT !.queue[t] = Append(@, m)]
StreamEvents == {"OPEN", "READ", "WRITE", "CLOSE"}
Messages == [id \in {"STATE", "WK_CLOCK", "SI_DESTROYCHANNEL", "ST_EVENT"} |->
                [id : {id}, events : SUBSET StreamEvents]]
Clear(s, t, id) == [s EXCEPT !.queue[t] = Without(@, Messages[id])]
ClearClock(s) == [Clear(s, "main", "WK_CLOCK") EXCEPT !.clocks = 0]
PostEvent(s, events) == Post(s, s.ch.stream_thread, Event(events))

-----------------------------------------------------------------------------
(* PseudoTcp, as its channel sees it                                       *)

NoTcp == [state |-> "NULL", shutdown |-> "NONE", unsent |-> FALSE, ackDue |-> FALSE,
          xmit |-> 0, rbuf |-> 0, readEnable |-> FALSE, writeEnable |-> FALSE]
NewTcp == [NoTcp EXCEPT !.state = "LISTEN", !.readEnable = TRUE]

\* clock_check.  unsent: the send buffer is not empty; ackDue: m_t_ack # 0.
NextClock(tcp) ==
    CASE tcp.shutdown = "FORCEFUL" -> FALSE
      [] tcp.shutdown = "GRACEFUL" -> tcp.state = "ESTABLISHED" /\ (tcp.unsent \/ tcp.ackDue)
      [] OTHER -> TRUE

-----------------------------------------------------------------------------
(* PseudoTcpChannel                                                        *)

\* The constructor.
NewChannel(thread) ==
    [alive |-> TRUE, session |-> TRUE, channel |-> FALSE, worker |-> FALSE,
     stream |-> FALSE, ready |-> FALSE, pending |-> FALSE, tcp |-> NoTcp,
     stream_thread |-> thread, misused |-> FALSE]

\* A call of the TunnelSession, which does not know whether channel_ still exists.
Call(s, result) == IF s.ch.alive THEN result ELSE [s EXCEPT !.ch.misused = TRUE]

Connect(s) ==
    Call(s, [s EXCEPT !.ch.worker = TRUE, !.ch.channel = TRUE, !.ch.tcp = NewTcp,
                      !.ch.ready = (s.role = "INITIATOR")])
GetStream(s) == [s EXCEPT !.ch.stream = TRUE]

\* Mutant: the worker thread is not waited for.
CheckDestroyStream(s) == IF s.ch.stream THEN s ELSE Post(s, "main", Msg("SI_DESTROY"))
CheckDestroy(s) ==
    IF s.ch.worker \/ s.ch.stream THEN s ELSE Post(s, "main", Msg("SI_DESTROY"))

\* Mutant: the transport channel is not destroyed with the connection.
AdjustClockQuietly(s, clear) ==
    IF NextClock(s.ch.tcp)
    THEN [(IF clear THEN ClearClock(s) ELSE s) EXCEPT !.clocks = @ + 1]
    ELSE [s EXCEPT !.ch.tcp = NoTcp, !.ch.ready = FALSE]
AdjustClock(s, clear) ==
    IF NextClock(s.ch.tcp)
    THEN [(IF clear THEN ClearClock(s) ELSE s) EXCEPT !.clocks = @ + 1]
    ELSE LET gone == [s EXCEPT !.ch.tcp = NoTcp, !.ch.ready = FALSE]
         IN IF s.ch.channel THEN Post(gone, "main", Msg("SI_DESTROYCHANNEL")) ELSE gone

\* Mutant: a MSG_SI_DESTROYCHANNEL on its way is not cleared.
OnChannelDestroyedTwice(s) ==
    LET purged  == [Post(ClearClock(s), "main", Msg("WK_PURGE"))
                        EXCEPT !.ch.session = FALSE, !.ch.channel = FALSE]
    IN [(IF s.ch.stream /\ s.ch.tcp.state # "CLOSED"
         THEN PostEvent(purged, {"CLOSE"}) ELSE purged) EXCEPT !.ch.tcp = NoTcp]
\* The transport channel is being deleted; the caller signals SignalChannelClosed.
OnChannelDestroyed(s) ==
    LET cleared == ClearClock(Clear(s, "main", "SI_DESTROYCHANNEL"))
        purged  == [Post(cleared, "main", Msg("WK_PURGE"))
                        EXCEPT !.ch.session = FALSE, !.ch.channel = FALSE]
        told    == IF s.ch.stream /\ s.ch.tcp.state # "CLOSED"
                   THEN PostEvent(purged, {"CLOSE"}) ELSE purged
    IN IF s.ch.tcp = NoTcp THEN told
       ELSE AdjustClock([told EXCEPT !.ch.tcp.shutdown = "FORCEFUL"], TRUE)

\* Mutant: the stream is not told.
OnSessionTerminateQuietly(s) ==
    Call(s, IF s.ch.session /\ ~s.ch.channel
            THEN [s EXCEPT !.ch.session = FALSE] ELSE s)
\* The session ends; before Connect nothing else will tell the stream.
OnSessionTerminate(s) ==
    LET off == [s EXCEPT !.ch.session = FALSE]
    IN Call(s, IF ~s.ch.session \/ s.ch.channel THEN s
               ELSE IF s.ch.stream THEN PostEvent(off, {"CLOSE"}) ELSE off)

\* InternalStream::Close on the stream's thread.
CloseStream(s) ==
    LET off == Clear([s EXCEPT !.ch.stream = FALSE], s.ch.stream_thread, "ST_EVENT")
    IN IF s.ch.tcp # NoTcp
       THEN AdjustClock([off EXCEPT !.ch.tcp.shutdown = "GRACEFUL"], TRUE)
       ELSE CheckDestroy(off)

\* The callbacks of PseudoTcp; each tells the stream if there is one.
OnTcpOpen(s) ==
    IF s.ch.stream
    THEN PostEvent([s EXCEPT !.ch.pending = TRUE], {"OPEN", "READ", "WRITE"}) ELSE s
OnTcpReadable(s) ==
    IF s.ch.stream /\ ~s.ch.pending
    THEN PostEvent([s EXCEPT !.ch.pending = TRUE], {"READ"}) ELSE s
OnTcpWriteable(s) == IF s.ch.stream THEN PostEvent(s, {"WRITE"}) ELSE s
OnTcpClosed(s) == IF s.ch.stream THEN PostEvent(s, {"CLOSE"}) ELSE s

\* PseudoTcp::closedown.
Closedown(s) == OnTcpClosed([s EXCEPT !.ch.tcp.state = "CLOSED"])

\* PseudoTcp::NotifyPacket with a packet of this kind that moves things on;
\* "reset" also stands for a retransmission that fails.  more: data is left in
\* the send buffer; delayed: attemptSend puts the acknowledgement off.
Opens(s) == OnTcpOpen([s EXCEPT !.ch.tcp.state = "ESTABLISHED"])
Established(s) == IF s.ch.tcp.state = "SYN_RECEIVED" THEN Opens(s) ELSE s
OnConnectPacket(s, delayed) ==
    CASE s.ch.tcp.state = "LISTEN" ->
            [s EXCEPT !.ch.tcp.state = "SYN_RECEIVED", !.ch.tcp.unsent = TRUE]
      [] s.ch.tcp.state = "SYN_SENT" -> Opens([s EXCEPT !.ch.tcp.ackDue = delayed])
      [] OTHER -> s
OnAckPacket(s, more) ==
    LET e == Established([s EXCEPT !.ch.tcp.unsent = @ /\ more, !.ch.tcp.xmit = 0])
    IN IF e.ch.tcp.writeEnable
       THEN OnTcpWriteable([e EXCEPT !.ch.tcp.writeEnable = FALSE]) ELSE e
OnDataPacket(s, delayed) ==
    LET e == [Established(s) EXCEPT !.ch.tcp.ackDue = delayed]
        d == [e EXCEPT !.ch.tcp.rbuf = @ + 1, !.ch.tcp.readEnable = FALSE]
    IN IF e.ch.tcp.shutdown # "NONE" \/ e.ch.tcp.rbuf = MaxRead THEN e
       ELSE IF e.ch.tcp.readEnable THEN OnTcpReadable(d) ELSE d
NotifyPacket(s, kind, more, delayed) ==
    LET state == s.ch.tcp.state
    IN IF state = "CLOSED" THEN s
       ELSE CASE kind = "reset" -> Closedown(s)
              [] kind = "connect" -> OnConnectPacket(s, delayed)
              [] kind = "ack" -> IF state = "LISTEN" THEN s ELSE OnAckPacket(s, more)
              [] kind = "data" -> IF state \in {"LISTEN", "SYN_SENT"} THEN s
                                  ELSE OnDataPacket(s, delayed)

\* PseudoTcp::NotifyClock; acks: a delayed acknowledgement is due, but no
\* retransmission.
NotifyClock(s, acks) ==
    LET tcp == s.ch.tcp
        again == tcp.unsent /\ ~(acks /\ tcp.ackDue)
    IN IF tcp.state = "CLOSED" THEN s
       ELSE IF ~again THEN [s EXCEPT !.ch.tcp.ackDue = FALSE]
       ELSE IF tcp.xmit >= MaxXmit THEN Closedown(s)
       ELSE [s EXCEPT !.ch.tcp.xmit = @ + 1, !.ch.tcp.ackDue = FALSE]

-----------------------------------------------------------------------------
(* Sessions                                                                *)

Ended == {"SENTTERMINATE", "RECEIVEDTERMINATE"}
Live == {"SENTINITIATE", "RECEIVEDINITIATE", "SENTACCEPT", "RECEIVEDACCEPT",
         "INPROGRESS", "SENTREJECT", "RECEIVEDREJECT"}

\* TunnelSession::OnSessionState.
OnSessionState(s, state) ==
    CASE owner /\ state \in {"SENTACCEPT", "RECEIVEDACCEPT"} -> Connect(s)
      [] owner /\ state \in Ended -> OnSessionTerminate(s)
      [] OTHER -> s

Idle(t) == busy[t] = NoMsg
Turn(m) == [busy EXCEPT !["main"] = m]

\* BaseSession::SetState signals the state and then posts MSG_STATE: a step of
\* its own (PostState), since a stream on another thread can act in between.
\* (What a client does from within the signal is module Session's subject.)
SetState(s, state) ==
    /\ ses' = state
    /\ sys' = OnSessionState(s, state)
    /\ busy' = Turn(Msg("POST_STATE"))

\* SessionManager::DestroySession: ReleaseSession, then ~Session with its transports.
DestroySession(s) ==
    LET off == Clear(s, "main", "STATE")
    IN /\ ses' = "DEINIT"
       /\ owner' = FALSE
       /\ sys' = IF s.ch.channel THEN OnChannelDestroyed(off) ELSE off

-----------------------------------------------------------------------------
(* The client and the other end, on main                                   *)

Init ==
    \E role \in Roles :
      /\ sys = [role |-> role, clocks |-> 0, queue |-> [t \in {"main", "stream"} |-> <<>>],
                ch |-> [NewChannel("main") EXCEPT !.session = FALSE]]
      /\ ses = "INIT"
      /\ owner = FALSE
      /\ busy = [t \in {"main", "stream"} |-> NoMsg]
      /\ app = [closed |-> FALSE, closes |-> 0, readTurn |-> FALSE, writeWait |-> FALSE]
      /\ packets = 0

\* TunnelSessionClientBase::CreateTunnel and its MSG_CREATE_TUNNEL.
CreateTunnel(thread) ==
    /\ ses = "INIT" /\ sys.role = "INITIATOR"
    /\ ses' = "SENTINITIATE"
    /\ owner' = TRUE
    /\ sys' = GetStream(Post([sys EXCEPT !.ch = NewChannel(thread)], "main", Msg("STATE")))
    /\ UNCHANGED <<busy, app, packets>>

\* OnSessionCreate for a session the other end initiates; the application is asked.
IncomingTunnel ==
    /\ ses = "INIT" /\ sys.role = "RESPONDER"
    /\ owner' = TRUE
    /\ SetState([sys EXCEPT !.ch = NewChannel("main")], "RECEIVEDINITIATE")
    /\ UNCHANGED <<app, packets>>

AcceptTunnel ==
    /\ Idle("main") /\ ses = "RECEIVEDINITIATE"
    /\ ses' = "SENTACCEPT"
    /\ sys' = GetStream(OnSessionState(sys, "SENTACCEPT"))
    /\ busy' = Turn(Msg("POST_STATE"))
    /\ UNCHANGED <<owner, app, packets>>

DeclineTunnel ==
    /\ Idle("main") /\ ses = "RECEIVEDINITIATE"
    /\ SetState(sys, "SENTREJECT")
    /\ UNCHANGED <<owner, app, packets>>

OnAcceptMessage ==
    /\ Idle("main") /\ ses = "SENTINITIATE"
    /\ SetState(sys, "RECEIVEDACCEPT")
    /\ UNCHANGED <<owner, app, packets>>

OnRejectMessage ==
    /\ Idle("main") /\ ses = "SENTINITIATE"
    /\ SetState(sys, "RECEIVEDREJECT")
    /\ UNCHANGED <<owner, app, packets>>

\* Session::Terminate, by an error or a timeout of the session.
Terminate ==
    /\ Idle("main") /\ ses \in Live
    /\ SetState(sys, "SENTTERMINATE")
    /\ UNCHANGED <<owner, app, packets>>

OnTerminateMessage ==
    /\ Idle("main")
    /\ \/ ses \in Live
       \/ ses = "SENTTERMINATE" /\ sys.ch.stream_thread \in Overlaps
    /\ SetState(sys, "RECEIVEDTERMINATE")
    /\ UNCHANGED <<owner, app, packets>>

\* ~TunnelSessionClientBase.
DeleteClient ==
    /\ Idle("main")
    /\ ses \in Live \/ (ses \in Ended /\ sys.ch.stream_thread \in Overlaps)
    /\ Early \/ sys.ch.channel \/ ~sys.ch.session
    /\ DestroySession(Call(sys, sys))
    /\ UNCHANGED <<busy, app, packets>>

-----------------------------------------------------------------------------
(* The transport channel, on main                                          *)

News ==
    /\ Idle("main") /\ sys.ch.channel /\ sys.ch.tcp # NoTcp
    /\ packets < MaxPacket
    /\ packets' = packets + 1
    /\ UNCHANGED <<ses, owner, busy, app>>

OnChannelWritableState ==
    /\ News /\ sys.ch.ready
    /\ LET s == [sys EXCEPT !.ch.ready = FALSE]
       IN sys' = AdjustClock(IF s.ch.tcp.state = "LISTEN"
                             THEN [s EXCEPT !.ch.tcp.state = "SYN_SENT",
                                            !.ch.tcp.unsent = TRUE]
                             ELSE s, TRUE)

OnChannelRead(kind) ==
    /\ News
    /\ \E more, delayed \in BOOLEAN :
          sys' = AdjustClock(NotifyPacket(sys, kind, more, delayed), TRUE)

\* The new MTU changes nothing the channel can see.
OnChannelConnectionChanged ==
    /\ News
    /\ sys' = AdjustClock(sys, TRUE)

-----------------------------------------------------------------------------
(* Messages and timers                                                     *)

Get(t) ==
    /\ Idle(t) /\ sys.queue[t] # <<>>
    /\ busy' = [busy EXCEPT ![t] = Head(sys.queue[t])]
    /\ sys' = [sys EXCEPT !.queue[t] = Tail(@)]
    /\ UNCHANGED <<ses, owner, app, packets>>

ClockDue ==
    /\ sys.clocks > 0
    /\ sys' = Post([sys EXCEPT !.clocks = @ - 1], "main", Msg("WK_CLOCK"))
    /\ UNCHANGED <<ses, owner, busy, app, packets>>

Handle(id) == busy["main"].id = id

PostState ==
    /\ Handle("POST_STATE")
    /\ sys' = Post(sys, "main", Msg("STATE"))
    /\ busy' = Turn(NoMsg)
    /\ UNCHANGED <<ses, owner, app, packets>>

\* Session::OnMessage(MSG_STATE).
OnState ==
    /\ Handle("STATE")
    /\ \/ /\ ses \in {"SENTACCEPT", "RECEIVEDACCEPT"}
          /\ SetState(sys, "INPROGRESS") /\ UNCHANGED owner
       \/ /\ ses \in {"SENTREJECT", "RECEIVEDREJECT"}
          /\ SetState(sys, "SENTTERMINATE") /\ UNCHANGED owner
       \/ /\ ses \in Ended
          /\ DestroySession(sys) /\ busy' = Turn(NoMsg)
       \/ /\ ses \in {"SENTINITIATE", "RECEIVEDINITIATE", "INPROGRESS"}
          /\ busy' = Turn(NoMsg) /\ UNCHANGED <<sys, ses, owner>>
    /\ UNCHANGED <<app, packets>>

OnClock ==
    /\ Handle("WK_CLOCK")
    /\ \E acks \in BOOLEAN :
          sys' = IF sys.ch.tcp = NoTcp THEN sys
                 ELSE AdjustClock(NotifyClock(sys, acks), FALSE)
    /\ busy' = Turn(NoMsg)
    /\ UNCHANGED <<ses, owner, app, packets>>

OnPurge ==
    /\ Handle("WK_PURGE")
    /\ sys' = CheckDestroy([sys EXCEPT !.ch.worker = FALSE])
    /\ busy' = Turn(NoMsg)
    /\ UNCHANGED <<ses, owner, app, packets>>

\* BaseSession::DestroyChannel; TunnelSession::OnChannelClosed ends the session.
OnDestroyChannel ==
    /\ Handle("SI_DESTROYCHANNEL")
    /\ IF owner /\ ses \notin Ended
       THEN SetState(OnChannelDestroyed(sys), "SENTTERMINATE")
       ELSE /\ sys' = OnChannelDestroyed(sys)
            /\ busy' = Turn(NoMsg) /\ UNCHANGED ses
    /\ UNCHANGED <<owner, app, packets>>

\* delete this; a message that were left would stay in its queue, to be seen.
OnDestroy ==
    /\ Handle("SI_DESTROY")
    /\ sys' = [sys EXCEPT !.ch.alive = FALSE]
    /\ busy' = Turn(NoMsg)
    /\ UNCHANGED <<ses, owner, app, packets>>

-----------------------------------------------------------------------------
(* The stream, on its thread                                               *)

OnEvent ==
    LET t == sys.ch.stream_thread
        events == busy[t].events
    IN /\ busy[t].id = "ST_EVENT"
       /\ sys' = IF "READ" \in events THEN [sys EXCEPT !.ch.pending = FALSE] ELSE sys
       /\ app' = [app EXCEPT !.readTurn = @ \/ "READ" \in events,
                             !.writeWait = @ /\ "WRITE" \notin events,
                             !.closes = @ + (IF "CLOSE" \in events THEN 1 ELSE 0)]
       /\ busy' = [busy EXCEPT ![t] = NoMsg]
       /\ UNCHANGED <<ses, owner, packets>>

UseStream ==
    /\ sys.ch.stream /\ Idle(sys.ch.stream_thread)
    /\ UNCHANGED <<ses, owner, busy, packets>>

\* Mutant: SE_READ is not repeated.
ReadSomeOnce(s, n) == [s EXCEPT !.ch.tcp.rbuf = @ - n]

\* Read when PseudoTcp::Recv returns n bytes: SE_READ is repeated, and a window
\* that was closed is opened with an acknowledgement.  (Without a connection
\* Read and Write return an error or block, and change nothing.)
ReadSome(s, n) ==
    LET r == [s EXCEPT !.ch.tcp.rbuf = @ - n, !.ch.pending = TRUE,
                       !.ch.tcp.ackDue = @ /\ s.ch.tcp.rbuf < MaxRead]
    IN IF s.ch.pending THEN r ELSE PostEvent(r, {"READ"})
Read ==
    /\ UseStream
    /\ sys.ch.tcp.state = "ESTABLISHED"
    /\ \/ \E n \in 1 .. sys.ch.tcp.rbuf : sys' = ReadSome(sys, n)
       \/ sys.ch.tcp.rbuf = 0 /\ sys' = [sys EXCEPT !.ch.tcp.readEnable = TRUE]
    /\ app' = [app EXCEPT !.readTurn = FALSE]

\* PseudoTcp::Send takes the bytes (and may send them at once, with the
\* acknowledgement that is due), or there is no room for them.
Write ==
    /\ UseStream
    /\ sys.ch.tcp.state = "ESTABLISHED"
    /\ \/ /\ \E due \in {FALSE, sys.ch.tcp.ackDue} :
                sys' = [sys EXCEPT !.ch.tcp.unsent = TRUE, !.ch.tcp.ackDue = due]
          /\ UNCHANGED app
       \/ /\ sys.ch.tcp.unsent
          /\ sys' = [sys EXCEPT !.ch.tcp.writeEnable = TRUE]
          /\ app' = [app EXCEPT !.writeWait = TRUE]

Close ==
    /\ UseStream
    /\ Early \/ sys.ch.channel \/ ~sys.ch.session
    /\ sys' = CloseStream(sys)
    /\ app' = [app EXCEPT !.closed = TRUE]

-----------------------------------------------------------------------------
Client == \/ \E thread \in Threads : CreateTunnel(thread)
          \/ IncomingTunnel \/ AcceptTunnel \/ DeclineTunnel
          \/ DeleteClient \/ Terminate
Remote == OnAcceptMessage \/ OnRejectMessage \/ OnTerminateMessage
Transport == \/ OnChannelWritableState \/ OnChannelConnectionChanged
             \/ \E kind \in {"connect", "ack", "data", "reset"} : OnChannelRead(kind)
Main == \/ Get("main") \/ PostState \/ OnState \/ OnClock \/ OnPurge
        \/ OnDestroyChannel \/ OnDestroy
Stream == Get("stream") \/ OnEvent
Next == \/ Client \/ Remote \/ Transport \/ Main \/ Stream \/ ClockDue
        \/ Read \/ Write \/ Close

\* A thread that has a message takes and handles it, and time passes.
Fairness == WF_vars(Main) /\ WF_vars(Stream) /\ WF_vars(ClockDue)

Spec == Init /\ [][Next]_vars
FairSpec == Spec /\ Fairness

-----------------------------------------------------------------------------
(* Properties                                                              *)

Queued == UNION {{sys.queue[t][i] : i \in DOMAIN sys.queue[t]} \cup {busy[t]} :
                    t \in {"main", "stream"}}
ForChannel == {m \in Queued : m.id \notin {"NONE", "STATE", "POST_STATE"}}
Told(e) == \E m \in Queued : m.id = "ST_EVENT" /\ e \in m.events

\* "The message queue is empty, so it is safe to destroy ourselves"
\* (pseudotcpchannel.cc, MSG_SI_DESTROY): when the channel is deleted, stream,
\* transport channel and session are gone and no message or timer is left for it;
\* and its TunnelSession, which may still point to it, never calls it again.
\* That is so for a stream that is closed once it is connected and threads of
\* which only the main one runs into the other (Early = FALSE, Overlaps = {"main"}).
DeletedLast ==
    /\ ~sys.ch.misused
    /\ ~sys.ch.alive =>
         /\ ~sys.ch.session /\ ~sys.ch.channel /\ ~sys.ch.worker /\ ~sys.ch.stream
         /\ sys.ch.tcp = NoTcp
         /\ ForChannel = {} /\ sys.clocks = 0

\* The assertions of OnMessage and of AdjustClock and TcpWritePacket: a message
\* finds what it is about, although another thread acts while it is queued; and
\* clocks do not pile up, although one may be set while another is handled.
MessagesValid ==
    /\ sys.clocks \in 0 .. 2
    /\ Handle("SI_DESTROYCHANNEL") => sys.ch.session /\ sys.ch.channel
    /\ Handle("WK_PURGE") => ~sys.ch.session /\ ~sys.ch.channel
    /\ Handle("WK_CLOCK") => sys.ch.worker
    /\ busy[sys.ch.stream_thread].id = "ST_EVENT" => sys.ch.stream
    /\ sys.ch.tcp # NoTcp => sys.ch.channel
    /\ sys.ch.channel => ses \notin {"INIT", "DEINIT"}

\* A stream whose session or connection is gone has been told SE_CLOSE, or will
\* be, exactly once, whichever of the three paths closed it.
CloseToldOnce ==
    LET Count(t) == Cardinality({i \in DOMAIN sys.queue[t] :
                                    "CLOSE" \in sys.queue[t][i].events})
        taken == {t \in {"main", "stream"} : "CLOSE" \in busy[t].events}
    IN sys.ch.stream =>
         Count("main") + Count("stream") + Cardinality(taken) + app.closes =
           IF ~sys.ch.session \/ sys.ch.tcp.state = "CLOSED" THEN 1 ELSE 0

\* PseudoTcp signals once and waits for a Read or Write that blocks; the channel
\* repeats SE_READ.  A reader that has data, and a writer that has room again,
\* always has its turn or an event on the way.
NoLostEvent ==
    sys.ch.stream /\ sys.ch.tcp.state = "ESTABLISHED" =>
      /\ sys.ch.tcp.rbuf > 0 => app.readTurn \/ Told("READ")
      /\ app.writeWait => sys.ch.tcp.writeEnable \/ Told("WRITE")

\* Closing the stream ends the session, and the channel is deleted: the object
\* that nobody owns does not stay behind, and neither does the session.
Released == app.closed ~> (~sys.ch.alive /\ ses = "DEINIT")
=============================================================================
