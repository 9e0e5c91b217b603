----------------------------- MODULE PseudoTcp -----------------------------
(***************************************************************************)
(* The reliable byte stream of tunnels (p2p/base/pseudotcp.cc): two        *)
(* PseudoTcp endpoints over a datagram channel that loses, repeats and     *)
(* reorders packets, each with an application that writes and reads the    *)
(* way PseudoTcpChannel does: until it gets EWOULDBLOCK, then again when   *)
(* OnTcpWriteable or OnTcpReadable has been called.                        *)
(*                                                                         *)
(* One call into an endpoint (Connect, Send, Recv, NotifyPacket,           *)
(* NotifyClock, Close) is one step: the channel holds its lock around it.  *)
(* Every function is an operator from an endpoint record to an endpoint    *)
(* record, whose field "out" collects the packets written.  A payload byte *)
(* is its position in its writer's stream, so that a byte that is lost,    *)
(* repeated or misplaced shows.  Clock readings are left out: a timer that *)
(* is set may expire at any time.                                          *)
(***************************************************************************)
EXTENDS Integers, Sequences, FiniteSets

CONSTANTS
    Writes,      \* endpoint -> the bytes its application writes
    Sizes,       \* how many bytes the application asks for in one call
    Idles,       \* whether the sender may have been idle for long
    SndBuf,      \* m_sbuf_len
    RcvBuf,      \* m_rbuf_len
    Mss,         \* the first m_mtu_advise, less the headers
    Mtus,        \* the values NotifyMTU may advise, less the headers
    CtlLen,      \* length of the connect message
    Scale,       \* 2 ^ m_rwnd_scale of both ends: a shift is a product
    Nagling,     \* m_use_nagling
    AckDelay,    \* m_ack_delay # 0
    Results,     \* what TcpWritePacket may return
    Closes,      \* endpoint -> the ways its application may close
    Giveup,      \* whether a closed window may last 15 seconds
    MaxXmit,     \* transmissions of a segment (15 in the code)
    MaxSynXmit,  \* ... before the connection is established (30)
    MaxCwnd,     \* bound: larger congestion windows are all alike
    MaxLoss,     \* bound: packets lost
    MaxDup       \* bound: packets repeated

Client == "client"   \* calls Connect
Server == "server"
Ends == {Client, Server}
Other(e) == IF e = Client THEN Server ELSE Client

ASSUME SizeAssumption ==
    /\ SndBuf \in Nat \ {0} /\ RcvBuf \in Nat \ {0} /\ Mss \in Nat \ {0}
    /\ CtlLen \in Nat \ {0} /\ CtlLen <= Mss /\ CtlLen <= SndBuf /\ CtlLen <= RcvBuf
    /\ Mtus \subseteq CtlLen .. Mss /\ Scale \in Nat \ {0}
    /\ MaxXmit \in Nat \ {0} /\ MaxSynXmit \in Nat \ {0}
    /\ MaxCwnd \in Nat /\ MaxCwnd >= RcvBuf + SndBuf + 4 * Mss
    /\ MaxLoss \in Nat /\ MaxDup \in Nat
ASSUME ChoiceAssumption ==
    /\ Writes \in [Ends -> Nat] /\ Sizes \subseteq Nat \ {0}
    /\ Idles \subseteq BOOLEAN /\ Idles # {}
    /\ Nagling \in BOOLEAN /\ AckDelay \in BOOLEAN /\ Giveup \in BOOLEAN
    /\ Results \subseteq {"success", "fail", "too_large"} /\ "success" \in Results
    /\ Closes \in [Ends -> SUBSET {"GRACEFUL", "FORCEFUL"}]

VARIABLES
    tcp,     \* endpoint -> its PseudoTcp and its application
    net,     \* endpoint -> the packets on their way to it
    left     \* what is left of the bounds

vars == <<tcp, net, left>>

Least(a, b) == IF a < b THEN a ELSE b
Most(a, b) == IF a > b THEN a ELSE b
Drop(s, n) == SubSeq(s, n + 1, Len(s))
Take(s, n) == SubSeq(s, 1, n)

MinMss == CtlLen     \* MIN_PACKET - PACKET_OVERHEAD: the connect message fits
Ctl == 0             \* a byte of the connect message
Stale == -1          \* a byte of a receive buffer that nobody has written
Byte == Nat \cup {Stale}
Packet == [seq : Int, ack : Nat, wnd : Nat, ctl : BOOLEAN, data : Seq(Byte)]
SSegment == [seq : Nat, len : Nat, xmit : Nat, ctl : BOOLEAN]
RSegment == [seq : Nat, len : Nat]
TcpState == {"LISTEN", "SYN_SENT", "SYN_RECEIVED", "ESTABLISHED", "CLOSED"}

Endpoint ==
    [state : TcpState, shutdown : {"NONE", "GRACEFUL", "FORCEFUL"},
     deleted : BOOLEAN,             \* tcp_ = NULL: GetNextClock returned false
     snd_una : Nat, snd_nxt : Nat, snd_wnd : Nat,
     swnd_scale : Nat,              \* 2 ^ m_swnd_scale
     slist : Seq(SSegment), sbuf : Seq(Byte),
     rto_set : BOOLEAN,             \* m_rto_base # 0
     cwnd : Nat, ssthresh : Nat, mss : Nat, mtu_advise : Nat, dup_acks : Nat, recover : Nat,
     rcv_nxt : Nat, rcv_wnd : Nat, rlist : Seq(RSegment),
     readable : Seq(Byte),          \* m_rbuf: what has been consumed into it
     ahead : Seq(Byte),             \* m_rbuf: the memory behind that
     ack_set : BOOLEAN,             \* m_t_ack # 0
     bReadEnable : BOOLEAN, bWriteEnable : BOOLEAN,
     wrote : Nat, got : Nat,        \* application: bytes written, bytes read
     writing : BOOLEAN, reading : BOOLEAN,   \* ... may go on doing so
     out : SUBSET Packet]

NewTcp ==
    [state |-> "LISTEN", shutdown |-> "NONE", deleted |-> FALSE,
     snd_una |-> 0, snd_nxt |-> 0, snd_wnd |-> 1, swnd_scale |-> 1,
     slist |-> <<>>, sbuf |-> <<>>, rto_set |-> FALSE,
     cwnd |-> 2 * MinMss, ssthresh |-> RcvBuf, mss |-> MinMss,
     mtu_advise |-> Mss, dup_acks |-> 0, recover |-> 0,
     rcv_nxt |-> 0, rcv_wnd |-> RcvBuf, rlist |-> <<>>, readable |-> <<>>,
     ahead |-> [i \in 1 .. RcvBuf |-> Stale], ack_set |-> FALSE,
     bReadEnable |-> TRUE, bWriteEnable |-> FALSE, wrote |-> 0, got |-> 0,
     writing |-> FALSE, reading |-> FALSE, out |-> {}]

-----------------------------------------------------------------------------
(* Writing: queue, packet, transmit, attemptSend                           *)

InFlight(x) == x.snd_nxt - x.snd_una
SetCwnd(x, n) == [x EXCEPT !.cwnd = Least(n, MaxCwnd)]

\* Append to the last segment when it is of the same kind and not yet sent.
queue(x, data, ctl) ==
    LET n == Len(x.slist)
        d == Take(data, Least(Len(data), SndBuf - Len(x.sbuf)))
        join == n > 0 /\ x.slist[n].ctl = ctl /\ x.slist[n].xmit = 0
    IN [x EXCEPT
          !.sbuf = @ \o d,
          !.slist = IF join THEN [x.slist EXCEPT ![n].len = @ + Len(d)]
                    ELSE Append(@, [seq |-> x.snd_una + Len(x.sbuf),
                                    len |-> Len(d), xmit |-> 0, ctl |-> ctl])]

\* A packet the network took: it acknowledges whatever was received.
packet(x, seq, ctl, offset, len) ==
    [x EXCEPT !.ack_set = FALSE,
              !.out = @ \cup {[seq |-> seq, ack |-> x.rcv_nxt,
                               wnd |-> x.rcv_wnd \div Scale, ctl |-> ctl,
                               data |-> SubSeq(x.sbuf, offset + 1, offset + len)]}]
SendAck(x) == packet(x, x.snd_nxt, FALSE, 0, 0)

\* Wrong variant of Split: the second half counts as not yet sent.
SplitUnsent(slist, i, n) ==
    Take(slist, i - 1)
    \o <<[slist[i] EXCEPT !.len = n],
         [slist[i] EXCEPT !.seq = @ + n, !.len = @ - n, !.xmit = 0]>>
    \o Drop(slist, i)
\* The list with segment i cut into n bytes and the rest.
Split(slist, i, n) ==
    IF n >= slist[i].len THEN slist
    ELSE Take(slist, i - 1)
         \o <<[slist[i] EXCEPT !.len = n],
              [slist[i] EXCEPT !.seq = @ + n, !.len = @ - n]>>
         \o Drop(slist, i)

\* What transmit can do with segment i, given the result of its packet: the
\* result "too_large" steps the MTU down until the packet is smaller.
TooOften(x, i) ==
    x.slist[i].xmit >= IF x.state = "ESTABLISHED" THEN MaxXmit ELSE MaxSynXmit
FailsToTransmit(x, i, result) ==
    \/ TooOften(x, i)
    \/ result = "fail"
    \/ result = "too_large" /\ Least(x.slist[i].len, x.mss) <= MinMss
\* A smaller MTU: two packets of the new size may be in flight.
StepDown(x, mss) == SetCwnd([x EXCEPT !.mss = mss], 2 * mss)
\* The endpoint after a transmit that fails: no smaller MTU is left to try.
NotTransmitted(x, i, result) ==
    IF result = "too_large" /\ ~TooOften(x, i) /\ x.mss > MinMss
    THEN StepDown(x, MinMss) ELSE x
\* The list once n bytes of segment i, which is split when it has more, have
\* gone out.
SentList(slist, i, n) == [Split(slist, i, n) EXCEPT ![i].xmit = @ + 1]
\* The network took n bytes of segment i.
Transmitted(x, i, n) ==
    LET seg == x.slist[i]
    IN [packet(x, seg.seq, seg.ctl, seg.seq - x.snd_una, n) EXCEPT
          !.slist = SentList(@, i, n),
          !.snd_nxt = IF seg.xmit = 0 THEN @ + n ELSE @,
          !.rto_set = TRUE]
transmit(x, i, result) ==
    LET n == Least(x.slist[i].len, x.mss)
    IN IF result = "too_large" THEN Transmitted(StepDown(x, n - 1), i, n - 1)
       ELSE Transmitted(x, i, n)

\* Wrong variant of Window: the peer's window is not looked at.
WindowCongestion(x) ==
    IF x.dup_acks \in {1, 2} THEN x.cwnd + x.dup_acks * x.mss ELSE x.cwnd
Window(x) ==
    Least(x.snd_wnd, IF x.dup_acks \in {1, 2} THEN x.cwnd + x.dup_acks * x.mss
                     ELSE x.cwnd)                       \* limited transmit

\* The bytes attemptSend may send now (RFC 813: no silly windows).
Available(x) ==
    LET useable == IF InFlight(x) < Window(x) THEN Window(x) - InFlight(x) ELSE 0
        n == Least(Len(x.sbuf) - InFlight(x), x.mss)
    IN IF n <= useable THEN n
       ELSE IF useable * 4 < Window(x) THEN 0 ELSE useable

FirstUnsent(slist) ==
    CHOOSE i \in 1 .. Len(slist) :
        slist[i].xmit = 0 /\ \A j \in 1 .. i - 1 : slist[j].xmit > 0

\* One turn of the loop of attemptSend.  y: the endpoint, the acknowledgement
\* still owed, the result of the next write, and whether to go round again.
\* x: the endpoint once the next segment i has been cut to the size to send.
SendSegment(y, x, i) ==
    IF FailsToTransmit(x, i, y.result)
    THEN [y EXCEPT !.x = NotTransmitted(x, i, y.result), !.more = FALSE]
    ELSE [x |-> transmit(x, i, y.result), ack |-> "none",
          result |-> "success", more |-> TRUE]
SendBytes(y, x, n) ==
    IF n = 0
    THEN [y EXCEPT !.more = FALSE,
            !.x = IF y.ack = "none" THEN x
                  ELSE IF y.ack = "now" \/ x.ack_set THEN SendAck(x)
                  ELSE [x EXCEPT !.ack_set = TRUE]]
    ELSE IF Nagling /\ x.snd_nxt > x.snd_una /\ n < x.mss
    THEN [y EXCEPT !.more = FALSE]
    ELSE SendSegment(y, [x EXCEPT !.slist = Split(@, FirstUnsent(@), n)],
                     FirstUnsent(x.slist))
SendOnce(y) == IF y.more THEN SendBytes(y, y.x, Available(y.x)) ELSE y

\* idle: nothing was sent for longer than the retransmission time.
attemptSend(x, ack, idle, result) ==
    LET start == [x |-> IF idle THEN [x EXCEPT !.cwnd = x.mss] ELSE x,
                  ack |-> ack, result |-> result, more |-> TRUE]
        turn[k \in 0 .. SndBuf + 1] ==
            IF k = 0 THEN start ELSE SendOnce(turn[k - 1])
    IN turn[SndBuf + 1].x

\* TCP_CLOSED: OnTcpClosed tells the application.
closedown(x) == [x EXCEPT !.state = "CLOSED", !.writing = FALSE, !.reading = FALSE]

-----------------------------------------------------------------------------
(* Connecting                                                              *)

queueConnectMessage(x) ==
    queue([x EXCEPT !.snd_wnd = CtlLen], [i \in 1 .. CtlLen |-> Ctl], TRUE)

adjustMTU(x) ==
    [x EXCEPT !.mss = x.mtu_advise, !.ssthresh = Most(@, 2 * x.mtu_advise),
              !.cwnd = Most(@, x.mtu_advise)]

\* The state becomes TCP_ESTABLISHED: adjustMTU and OnTcpOpen.
Established(x) ==
    [adjustMTU(x) EXCEPT !.state = "ESTABLISHED", !.writing = TRUE,
                         !.reading = TRUE]

\* A connect message, with the peer's window scale among its options.
OnConnect(x) ==
    LET y == [x EXCEPT !.swnd_scale = Scale]
    IN CASE x.state = "LISTEN" ->
              queueConnectMessage([y EXCEPT !.state = "SYN_RECEIVED"])
         [] x.state = "SYN_SENT" -> Established(y)
         [] OTHER -> y

-----------------------------------------------------------------------------
(* process: acknowledgements                                               *)

\* Wrong variant of Freed: all bytes are taken from the first segment.
FreedFirst(slist, acked) ==
    IF slist[1].len = acked THEN Tail(slist)
    ELSE [slist EXCEPT ![1].len = @ - acked]
\* The acknowledged bytes leave the segment list.
Freed(slist, acked) ==
    LET end[i \in 0 .. Len(slist)] == IF i = 0 THEN 0 ELSE end[i - 1] + slist[i].len
        whole == Cardinality({i \in 1 .. Len(slist) : end[i] <= acked})
        rest == Drop(slist, whole)
        part == acked - end[whole]
    IN IF part > 0 /\ rest # <<>> THEN [rest EXCEPT ![1].len = @ - part] ELSE rest

\* Wrong variant of OnNewAck: any acknowledgement stops the timer.
OnNewAckStops(x, seg, result) ==
    LET acked == seg.ack - x.snd_una
    IN SetCwnd([x EXCEPT !.snd_wnd = seg.wnd * x.swnd_scale,
                         !.snd_una = seg.ack, !.sbuf = Drop(@, acked),
                         !.slist = Freed(@, acked), !.dup_acks = 0,
                         !.rto_set = FALSE], x.cwnd + x.mss)
\* ack > m_snd_una: what it acknowledges is forgotten.
Acknowledged(x, seg) ==
    LET acked == seg.ack - x.snd_una
    IN [x EXCEPT !.snd_wnd = seg.wnd * x.swnd_scale,
                 !.snd_una = seg.ack, !.sbuf = Drop(@, acked),
                 !.slist = Freed(@, acked), !.rto_set = seg.ack # x.snd_nxt]
\* Slow start, or congestion avoidance.
Grown(x) ==
    SetCwnd([x EXCEPT !.dup_acks = 0],
            IF x.cwnd < x.ssthresh THEN x.cwnd + x.mss
            ELSE x.cwnd + Most(1, (x.mss * x.mss) \div x.cwnd))
\* NewReno: the end of a recovery, and an acknowledgement of a part of it.
RecoveryEnds(x) ==
    SetCwnd([x EXCEPT !.dup_acks = 0], Least(x.ssthresh, InFlight(x) + x.mss))
RecoveryGoesOn(x, acked) == SetCwnd(x, x.cwnd + x.mss - Least(acked, x.cwnd))
RecoveryBegins(x, thresh) ==
    SetCwnd([x EXCEPT !.recover = x.snd_nxt, !.ssthresh = thresh],
            thresh + 3 * x.mss)

\* The first segment again; a failure closes the connection.
Resent(x, result) ==
    IF FailsToTransmit(x, 1, result) THEN closedown(NotTransmitted(x, 1, result))
    ELSE transmit(x, 1, result)
UnlessClosed(x, y) == IF x.state = "CLOSED" THEN x ELSE y
PartlyAcknowledged(x, acked) == UnlessClosed(x, RecoveryGoesOn(x, acked))
FastRetransmitted(x) ==
    UnlessClosed(x, RecoveryBegins(x, Most(InFlight(x) \div 2, 2 * x.mss)))

\* The result says with what a retransmission would meet.
OnNewAck(x, seg, result) ==
    IF x.dup_acks < 3 THEN Grown(Acknowledged(x, seg))
    ELSE IF seg.ack >= x.recover THEN RecoveryEnds(Acknowledged(x, seg))
    ELSE PartlyAcknowledged(Resent(Acknowledged(x, seg), result),
                            seg.ack - x.snd_una)

\* ack = m_snd_una: a window update, and perhaps a duplicate.
OnSameAck(x, seg, result) ==
    LET y == [x EXCEPT !.snd_wnd = seg.wnd * x.swnd_scale]
    IN IF seg.data # <<>> THEN y
       ELSE IF x.snd_una = x.snd_nxt THEN [y EXCEPT !.dup_acks = 0]
       ELSE IF x.dup_acks = 2
       THEN FastRetransmitted(Resent([y EXCEPT !.dup_acks = 3], result))
       ELSE IF x.dup_acks >= 3
       THEN SetCwnd([y EXCEPT !.dup_acks = 4], y.cwnd + y.mss)
       ELSE [y EXCEPT !.dup_acks = @ + 1]

OnAck(x, seg, result) ==
    IF seg.ack > x.snd_una /\ seg.ack <= x.snd_nxt THEN OnNewAck(x, seg, result)
    ELSE IF seg.ack = x.snd_una THEN OnSameAck(x, seg, result)
    ELSE x

-----------------------------------------------------------------------------
(* process: data                                                           *)

\* Overwrite s from position offset + 1 on (FifoBuffer::WriteOffset).
WriteOffset(s, d, offset) ==
    [i \in 1 .. Len(s) |->
        IF i \in offset + 1 .. offset + Len(d) THEN d[i - offset] ELSE s[i]]
ConsumeWriteBuffer(x, n) ==
    [x EXCEPT !.readable = @ \o Take(x.ahead, n), !.ahead = Drop(@, n)]

\* Wrong variant of Fitted: bytes that have been received are taken as new ones.
FittedAgain(x, seg) ==
    LET s == [seg EXCEPT !.seq = Most(@, x.rcv_nxt)]
    IN [s EXCEPT !.data = Take(@, Least(Len(@), Len(x.ahead)))]
\* The segment, cut to what is new and to what fits the receive buffer.
Fitted(x, seg) ==
    LET old == Most(0, x.rcv_nxt - seg.seq)
        s == IF old < Len(seg.data)
             THEN [seg EXCEPT !.seq = @ + old, !.data = Drop(@, old)]
             ELSE [seg EXCEPT !.data = <<>>]
        over == Most(0, s.seq + Len(s.data) - x.rcv_nxt - Len(x.ahead))
    IN [s EXCEPT !.data = Take(@, Most(0, Len(@) - over))]

Consumed(x, n) ==
    [ConsumeWriteBuffer(x, n) EXCEPT !.rcv_nxt = @ + n, !.rcv_wnd = @ - n]

\* Wrong variant of Recovered: gaps between the saved segments are ignored.
RecoveredAll(x) ==
    LET end == IF x.rlist = <<>> THEN x.rcv_nxt
               ELSE x.rlist[Len(x.rlist)].seq + x.rlist[Len(x.rlist)].len
    IN [Consumed(x, Most(0, end - x.rcv_nxt)) EXCEPT !.rlist = <<>>]
\* The saved segments that have become contiguous.
Recovered(x) ==
    LET step(y) == IF y.rlist = <<>> \/ y.rlist[1].seq > y.rcv_nxt THEN y
                   ELSE LET end == y.rlist[1].seq + y.rlist[1].len
                        IN [Consumed(y, Most(0, end - y.rcv_nxt)) EXCEPT
                              !.rlist = Tail(@)]
        turn[k \in 0 .. Len(x.rlist)] == IF k = 0 THEN x ELSE step(turn[k - 1])
    IN turn[Len(x.rlist)]

\* A segment ahead of rcv_nxt goes into the list, in order of seq.
Saved(rlist, r) ==
    LET n == Cardinality({i \in 1 .. Len(rlist) :
                            \A j \in 1 .. i : rlist[j].seq < r.seq})
    IN Take(rlist, n) \o <<r>> \o Drop(rlist, n)

\* Data of a control segment or after Close is acknowledged, not stored.
Store(x, seg) ==
    LET n == Len(seg.data)
        y == [x EXCEPT !.ahead = WriteOffset(@, seg.data, seg.seq - x.rcv_nxt)]
    IN IF n = 0 THEN x
       ELSE IF seg.ctl \/ x.shutdown # "NONE"
       THEN IF seg.seq = x.rcv_nxt THEN [x EXCEPT !.rcv_nxt = @ + n] ELSE x
       ELSE IF seg.seq = x.rcv_nxt THEN Recovered(Consumed(y, n))
       ELSE [y EXCEPT !.rlist = Saved(@, [seq |-> seg.seq, len |-> n])]

\* OnTcpWriteable, when the application waits for it and there is room.
NotifyWriteable(x) ==
    IF x.bWriteEnable /\ Len(x.sbuf) < (SndBuf + RcvBuf) \div 2
    THEN [x EXCEPT !.bWriteEnable = FALSE, !.writing = TRUE] ELSE x

\* OnTcpReadable, when the application waits for it and there is new data.
NotifyReadable(x, new) ==
    IF new /\ x.bReadEnable
    THEN [x EXCEPT !.bReadEnable = FALSE, !.reading = TRUE] ELSE x

\* The acknowledgement owed for a segment of which s was new: x before, y after.
AckOwed(x, y, seg, s) ==
    IF seg.seq # x.rcv_nxt \/ y.rcv_nxt > x.rcv_nxt + Len(s.data) THEN "now"
    ELSE IF seg.data = <<>> THEN "none"
    ELSE IF AckDelay THEN "delayed" ELSE "now"
Stored(x, y, seg, s, idle, result) ==
    NotifyReadable(attemptSend(y, AckOwed(x, y, seg, s), idle, result),
                   Len(y.readable) > Len(x.readable))
OnData(x, seg, s, idle, result) ==
    Stored(x, Store(x, s), seg, s, idle, result)

\* x: the endpoint once the acknowledgement has been looked at, with or without
\* a retransmission that had the result.
OnAcked(x, seg, idle, result) ==
    LET opened == IF x.state = "SYN_RECEIVED" /\ ~seg.ctl THEN Established(x) ELSE x
        y == NotifyWriteable(opened)
    IN IF x.state = "CLOSED" THEN x
       ELSE OnData(y, seg, Fitted(y, seg), idle,
                   IF x.out # {} THEN "success" ELSE result)

process(x, seg, idle, result) ==
    IF x.state = "CLOSED" THEN x
    ELSE OnAcked(OnAck(IF seg.ctl THEN OnConnect(x) ELSE x, seg, result),
                 seg, idle, result)

-----------------------------------------------------------------------------
(* The calls of the channel and of the application                         *)

\* Wrong variant of Finished: all that was written has been sent.
FinishedSent(x) ==
    /\ x.shutdown = "GRACEFUL"
    /\ x.state # "ESTABLISHED" \/ (InFlight(x) = Len(x.sbuf) /\ ~x.ack_set)
\* clock_check returns false: "the socket is ready to be destroyed".
Finished(x) ==
    \/ x.shutdown = "FORCEFUL"
    \/ /\ x.shutdown = "GRACEFUL"
       /\ x.state # "ESTABLISHED" \/ (x.sbuf = <<>> /\ ~x.ack_set)

\* The channel's AdjustClock, which ends each of its calls.
AdjustClock(x) == [x EXCEPT !.deleted = @ \/ Finished(x), !.out = {}]

\* Store the endpoint after a call, and put on the network what it wrote.
Took(e, gone, x) ==
    /\ tcp' = [tcp EXCEPT ![e] = AdjustClock(x)]
    /\ net' = [net EXCEPT ![e] = @ \ gone, ![Other(e)] = @ \cup x.out]
After(e, x) == Took(e, {}, x)

Connect ==
    /\ tcp[Client].state = "LISTEN" /\ ~tcp[Client].deleted
    /\ \E result \in Results :
         After(Client, attemptSend(
             queueConnectMessage([tcp[Client] EXCEPT !.state = "SYN_SENT"]),
             "none", FALSE, result))
    /\ UNCHANGED left

\* Send: the application writes as much as it has, or learns it must wait.
Send(e, n) ==
    LET x == tcp[e]
        new == [i \in 1 .. Least(n, Writes[e] - x.wrote) |-> x.wrote + i]
        y == queue(x, new, FALSE)
        written == Len(y.sbuf) - Len(x.sbuf)
    IN /\ x.writing /\ x.state = "ESTABLISHED" /\ x.shutdown = "NONE"
       /\ x.wrote < Writes[e]
       /\ IF Len(x.sbuf) = SndBuf
          THEN After(e, [x EXCEPT !.bWriteEnable = TRUE, !.writing = FALSE])
          ELSE \E idle \in Idles, result \in Results :
                 After(e, attemptSend([y EXCEPT !.wrote = @ + written],
                                      "none", idle, result))
       /\ UNCHANGED left

\* Recv of n bytes: the window is opened when it is worth it, and announced
\* when it was closed.
Recv(e, n) ==
    LET x == tcp[e]
        k == Least(n, Len(x.readable))
        y == [x EXCEPT !.readable = Drop(@, k), !.got = @ + k,
                       !.ahead = @ \o [i \in 1 .. k |-> Stale]]
        opens == Len(y.ahead) - y.rcv_wnd >= Least(RcvBuf \div 2, y.mss)
        z == [y EXCEPT !.rcv_wnd = Len(y.ahead)]
    IN /\ x.reading /\ x.state = "ESTABLISHED" /\ x.shutdown = "NONE"
       /\ IF k = 0
          THEN After(e, [x EXCEPT !.bReadEnable = TRUE, !.reading = FALSE])
          ELSE \E idle \in Idles, result \in Results :
                 After(e, IF ~opens THEN y
                          ELSE IF y.rcv_wnd = 0
                          THEN attemptSend(z, "now", idle, result)
                          ELSE z)
       /\ UNCHANGED left

NotifyPacket(x, seg, idle, result) ==
    IF x.deleted THEN x ELSE process(x, seg, idle, result)

Deliver(e) ==
    /\ \E seg \in net[e], idle \in Idles, result \in Results :
         Took(e, {seg}, NotifyPacket(tcp[e], seg, idle, result))
    /\ UNCHANGED left

\* The network delivers a packet and keeps a copy for later.
DeliverCopy(e) ==
    /\ left.dup > 0 /\ left' = [left EXCEPT !.dup = @ - 1] /\ ~tcp[e].deleted
    /\ \E seg \in net[e], idle \in Idles, result \in Results :
         After(e, NotifyPacket(tcp[e], seg, idle, result))

Lose(e) ==
    /\ left.loss > 0 /\ left' = [left EXCEPT !.loss = @ - 1]
    /\ \E seg \in net[e] : net' = [net EXCEPT ![e] = @ \ {seg}]
    /\ UNCHANGED tcp

\* NotifyClock's three timers, each of which has expired or not.
Backoff(x) ==
    SetCwnd([x EXCEPT !.ssthresh = Most(InFlight(x) \div 2, 2 * x.mss)], x.mss)
Probe(x) == packet(x, x.snd_nxt - 1, FALSE, 0, 0)
OnAckTimer(x, due) == IF "ack" \in due /\ x.ack_set THEN SendAck(x) ELSE x
OnProbeTimer(x, due) ==
    IF x.state = "CLOSED" THEN x
    ELSE IF "silent" \in due THEN closedown(x)
    ELSE OnAckTimer(IF "probe" \in due THEN Probe(x) ELSE x, due)
OnResent(x, due) == OnProbeTimer(UnlessClosed(x, Backoff(x)), due)
OnTimers(x, due, result) ==
    IF "rto" \in due THEN OnResent(Resent(x, result), due) ELSE OnProbeTimer(x, due)

\* Wrong variant of Expired: a closed window is not probed.
ExpiredNoProbe(x, due) ==
    /\ due \subseteq {"rto", "ack"}
    /\ ("rto" \in due => x.rto_set) /\ ("ack" \in due => x.ack_set)
\* The timers in "due" can have expired.  A retransmission puts off the probe.
Expired(x, due) ==
    /\ "rto" \in due => x.rto_set
    /\ "probe" \in due => x.snd_wnd = 0 /\ "rto" \notin due
    /\ "silent" \in due => Giveup /\ "probe" \in due
    /\ "ack" \in due => x.ack_set

Timers == {"rto", "probe", "silent", "ack"}
NotifyClock(e, due) ==
    /\ ~tcp[e].deleted /\ tcp[e].state # "CLOSED" /\ Expired(tcp[e], due)
    /\ \E result \in Results : After(e, OnTimers(tcp[e], due, result))
    /\ UNCHANGED left

NotifyMTU(e, mtu) ==
    /\ ~tcp[e].deleted /\ tcp[e].mtu_advise # mtu
    /\ LET x == [tcp[e] EXCEPT !.mtu_advise = mtu]
       IN After(e, IF x.state = "ESTABLISHED" THEN adjustMTU(x) ELSE x)
    /\ UNCHANGED left

\* The application closes the stream; the channel is destroyed.
Close(e) ==
    /\ ~tcp[e].deleted
    /\ \E how \in Closes[e] :
         /\ how = "FORCEFUL" \/ tcp[e].shutdown = "NONE"
         /\ After(e, [tcp[e] EXCEPT !.shutdown = how, !.writing = FALSE,
                                    !.reading = FALSE])
    /\ UNCHANGED left

-----------------------------------------------------------------------------
Init ==
    /\ tcp = [e \in Ends |-> NewTcp]
    /\ net = [e \in Ends |-> {}]
    /\ left = [loss |-> MaxLoss, dup |-> MaxDup]

Next ==
    \/ Connect
    \/ \E e \in Ends :
         \/ \E n \in Sizes : Send(e, n)
         \/ \E n \in Sizes : Recv(e, n)
         \/ Deliver(e) \/ DeliverCopy(e) \/ Lose(e)
         \/ \E mtu \in Mtus : NotifyMTU(e, mtu)
         \/ \E due \in SUBSET Timers : NotifyClock(e, due)
         \/ Close(e)

Spec == Init /\ [][Next]_vars

\* When a call would change something: ENABLED <<...>>_vars, spelled out.
CanSend(e) == tcp[e].writing /\ tcp[e].shutdown = "NONE" /\ tcp[e].wrote < Writes[e]
CanRecv(e) == tcp[e].reading /\ tcp[e].shutdown = "NONE"
Pending(e, timer) ==
    /\ ~tcp[e].deleted /\ tcp[e].state # "CLOSED" /\ Expired(tcp[e], {timer})
    /\ timer = "probe" => ~(Probe(tcp[e]).out \subseteq net[Other(e)])
Expires(e, timer) == \E due \in SUBSET Timers : timer \in due /\ NotifyClock(e, due)

\* Weak fairness: packets arrive, timers expire and the application goes on.
FairSpec ==
    /\ Spec
    /\ <>[](tcp[Client].state = "LISTEN") => []<><<Connect>>_vars
    /\ \A e \in Ends :
         /\ <>[](net[e] # {}) => []<><<Deliver(e)>>_vars
         /\ \A timer \in {"rto", "probe", "ack"} :
              <>[]Pending(e, timer) => []<><<Expires(e, timer)>>_vars
         /\ <>[]CanSend(e) => []<><<\E n \in Sizes : Send(e, n)>>_vars
         /\ <>[]CanRecv(e) => []<><<\E n \in Sizes : Recv(e, n)>>_vars

-----------------------------------------------------------------------------
(* Properties                                                              *)

\* The types of an endpoint and of a packet; all counters are unsigned in the
\* code, so that a value below zero would be a wrap-around.
TypeOK ==
    /\ \A e \in Ends : tcp[e] \in Endpoint
    /\ net \in [Ends -> SUBSET Packet]
    /\ left \in [{"loss", "dup"} -> Nat]

Sent(x) == {i \in 1 .. Len(x.slist) : x.slist[i].xmit > 0}

\* The segment list covers exactly the bytes of the send buffer, in order and
\* without gap, those sent at least once before the others, up to m_snd_nxt.
\* process and transmit index the buffer through it.
SegmentsTile ==
    \A e \in Ends :
        LET x == tcp[e]
            n == Len(x.slist)
            End(i) == x.slist[i].seq + x.slist[i].len
        IN /\ n > 0 => x.slist[1].seq = x.snd_una
           /\ \A i \in 1 .. n : x.slist[i].len > 0
           /\ \A i \in 1 .. n - 1 : x.slist[i + 1].seq = End(i)
           /\ x.snd_una + Len(x.sbuf) = IF n = 0 THEN x.snd_una ELSE End(n)
           /\ Sent(x) = 1 .. Cardinality(Sent(x))
           /\ x.snd_nxt = IF Sent(x) = {} THEN x.snd_una
                          ELSE End(Cardinality(Sent(x)))

\* NotifyClock: "if (m_slist.empty()) ASSERT(false)".  The retransmission timer
\* runs exactly while something sent is not acknowledged.
TimerRuns ==
    \A e \in Ends : tcp[e].state # "CLOSED" =>
        (tcp[e].rto_set <=> tcp[e].snd_una # tcp[e].snd_nxt)

\* What is sent fits the window the receiver has announced, whatever the order
\* in which its announcements arrive: no data is cut off at the other end, and
\* m_rcv_wnd does not wrap.
WindowKept ==
    \A e \in Ends : tcp[e].shutdown = "NONE" =>
        /\ tcp[e].rcv_wnd <= Len(tcp[e].ahead)
        /\ \A seg \in net[e] : ~seg.ctl /\ seg.data # <<>> =>
              seg.seq + Len(seg.data) <= tcp[e].rcv_nxt + tcp[e].rcv_wnd

\* What the application can read is what the other one wrote, in order, with
\* nothing left out or repeated.
InOrder ==
    \A e \in Ends :
        /\ \A i \in 1 .. Len(tcp[e].readable) : tcp[e].readable[i] = tcp[e].got + i
        /\ tcp[e].got + Len(tcp[e].readable) <= tcp[Other(e)].wrote

\* pseudotcp.h: GetNextClock "Returns false if the socket is ready to be
\* destroyed": after a graceful Close of a connection that stays up that is not
\* before the other end has everything that was written.
GracefulDelivers ==
    \A e \in Ends :
        /\ tcp[e].deleted /\ tcp[e].shutdown = "GRACEFUL"
        /\ tcp[e].state = "ESTABLISHED" /\ tcp[Other(e)].shutdown = "NONE"
        => tcp[Other(e)].got + Len(tcp[Other(e)].readable) = tcp[e].wrote

\* Whatever is lost, the applications write all they have and read it, or the
\* connection is closed: no timer, window update or notification is forgotten.
EverythingRead ==
    \A e \in Ends : <>(\/ tcp[Other(e)].got = Writes[e]
                       \/ \E f \in Ends : tcp[f].state = "CLOSED")

-----------------------------------------------------------------------------
(* PseudoTcp implements ByteStream                                         *)

Phase(x) ==
    CASE x.state = "CLOSED" \/ x.shutdown = "FORCEFUL" -> "shut"
      [] x.state = "ESTABLISHED" /\ x.shutdown = "NONE" -> "open"
      [] x.state = "ESTABLISHED" /\ x.shutdown = "GRACEFUL" ->
            IF x.deleted THEN "gone" ELSE "closing"
      [] OTHER -> IF x.shutdown = "NONE" THEN "new" ELSE "shut"
Arrived(x) == x.got + Len(x.readable)

Stream == INSTANCE ByteStream WITH
    Peer <- [e \in Ends |-> Other(e)],
    Room <- SndBuf,
    Inbox <- RcvBuf,
    phase <- [e \in Ends |-> Phase(tcp[e])],
    written <- [e \in Ends |-> tcp[e].wrote],
    pipe <- [e \in Ends |->
               [i \in 1 .. tcp[e].wrote - Arrived(tcp[Other(e)]) |->
                   Arrived(tcp[Other(e)]) + i]],
    inbox <- [e \in Ends |-> tcp[e].readable]

\* The applications see two byte streams (ByteStream): a step of either
\* endpoint, which may handle an acknowledgement, store a segment and all the
\* saved ones behind it, and send, is one step of the streams or none.
IsByteStream == Stream!Spec
=============================================================================
