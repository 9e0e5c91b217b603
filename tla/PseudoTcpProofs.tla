-------------------------- MODULE PseudoTcpProofs --------------------------
(***************************************************************************)
(* Theorems about PseudoTcp, for any amount of data, sizes of buffers and  *)
(* segments, losses, repetitions and splits: the types, the segment list,  *)
(* the timer, the window, the graceful close and the stream the accepting  *)
(* end reads, whichever ends write; and, unless data overtakes the connect *)
(* message of the accepting end, both streams and the refinement of        *)
(* ByteStream.                                                             *)
(*                                                                         *)
(* TcpInv joins the two ends: each is OK with the window and the segment   *)
(* boundaries of the other, has not been acknowledged more than arrived,   *)
(* and every packet on its way is one the other may have sent.  A call is  *)
(* a move (Moves) of one end and so keeps both halves.  StreamInv adds the *)
(* handshake: data comes in only after the connect message, which is what  *)
(* keeps the receive buffer Clean; the count of readable bytes (Level)     *)
(* does not depend on it.                                                  *)
(***************************************************************************)
EXTENDS PseudoTcpLemmas

-----------------------------------------------------------------------------
(* The two ends                                                            *)

LEMMA Numbers ==
    ASSUME NEW L, NEW C, NEW x, OK(x, L, C)
    PROVE  /\ Edge(x) \in Nat /\ RcvBuf <= Edge(x) /\ CtlLen <= Edge(x)
           /\ Total(x) \in Nat /\ x.snd_nxt \in Nat /\ x.snd_nxt <= Total(x) /\ x.snd_nxt <= L
           /\ \A c \in XCuts(x) : c \in Nat /\ c <= x.snd_nxt
           /\ x.snd_una \in XCuts(x) /\ x.snd_una \in Nat
  <1>0. /\ x \in Endpoint /\ x.rcv_nxt \in Nat /\ x.rcv_wnd \in Nat /\ x.snd_una \in Nat
        /\ x.slist \in Seq(SSegment) /\ x.snd_nxt \in Nat
    BY Fields DEF OK
  <1>1. Edge(x) \in Nat BY <1>0 DEF Edge
  <1>2. RcvBuf <= Edge(x) /\ x.snd_nxt <= L BY DEF OK, Received, Limited
  <1>3. CtlLen <= Edge(x)
    <2> DEFINE n == Edge(x)
    <2>1. n \in Nat /\ RcvBuf <= n BY <1>1, <1>2
    <2> HIDE DEF n
    <2>2. CtlLen <= n BY <2>1, SizesAre
    <2> QED BY <2>2 DEF n
  <1>4. PICK m : Tiling(x.slist, x.snd_una, x.snd_nxt, Total(x), m) BY DEF OK, Tiled
  <1>5. /\ Total(x) \in Nat /\ x.snd_nxt <= Total(x)
        /\ \A c \in Cuts(x.slist, x.snd_una) : c <= x.snd_nxt
        /\ x.snd_una \in Cuts(x.slist, x.snd_una)
    BY <1>0, <1>4, CutsBelow
  <1>6. \A c \in Cuts(x.slist, x.snd_una) : c \in Nat BY DEF Cuts
  <1> QED BY <1>0, <1>1, <1>2, <1>3, <1>5, <1>6 DEF XCuts

\* y: x, whose packets have gone out.
Adjusts(x, y) ==
    /\ y \in Endpoint /\ y.out = {}
    /\ y.state = x.state /\ y.shutdown = x.shutdown /\ y.got = x.got
    /\ y.swnd_scale = x.swnd_scale /\ y.mtu_advise = x.mtu_advise
    /\ y.snd_una = x.snd_una /\ y.snd_nxt = x.snd_nxt /\ y.snd_wnd = x.snd_wnd
    /\ y.slist = x.slist /\ y.sbuf = x.sbuf /\ y.rto_set = x.rto_set
    /\ y.recover = x.recover /\ y.wrote = x.wrote /\ SameInbox(x, y)
    /\ y.mss = x.mss /\ y.cwnd = x.cwnd /\ y.ssthresh = x.ssthresh
    /\ y.dup_acks = x.dup_acks /\ y.ack_set = x.ack_set
    /\ y.deleted = (x.deleted \/ Finished(x))

LEMMA AdjustClockIs ==
    ASSUME NEW x \in Endpoint
    PROVE  Adjusts(x, AdjustClock(x))
  <1> DEFINE d == x.deleted \/ Finished(x)
             y == AdjustClock(x)
  <1>1. y = [x EXCEPT !.deleted = d, !.out = {}] BY DEF AdjustClock
  <1>2. d \in BOOLEAN BY DEF Finished
  <1>3. y.deleted = d => y.deleted = (x.deleted \/ Finished(x)) OBVIOUS
  <1> SUFFICES Adjusts(x, y) OBVIOUS
  <1> HIDE DEF y, d
  <1>4. y \in Endpoint
    <2> DEFINE o == {}
    <2>1. o \in SUBSET Packet OBVIOUS
    <2> HIDE DEF o
    <2>2. [x EXCEPT !.deleted = d, !.out = o] \in Endpoint BY <1>2, <2>1, Zenon DEF Endpoint
    <2> QED BY <2>2, <1>1 DEF o
  <1>5. /\ y.out = {} /\ y.deleted = d /\ y.state = x.state /\ y.shutdown = x.shutdown
        /\ y.swnd_scale = x.swnd_scale /\ y.mtu_advise = x.mtu_advise /\ y.wrote = x.wrote
    BY <1>1 DEF Endpoint
  <1>6. /\ y.snd_una = x.snd_una /\ y.snd_nxt = x.snd_nxt /\ y.snd_wnd = x.snd_wnd
        /\ y.slist = x.slist /\ y.sbuf = x.sbuf /\ y.rto_set = x.rto_set /\ y.recover = x.recover
    BY <1>1 DEF Endpoint
  <1>7. /\ y.mss = x.mss /\ y.cwnd = x.cwnd /\ y.ssthresh = x.ssthresh
        /\ y.dup_acks = x.dup_acks /\ y.ack_set = x.ack_set /\ y.got = x.got
    BY <1>1 DEF Endpoint
  <1>8. SameInbox(x, y) BY <1>1 DEF Endpoint, SameInbox
  <1> QED BY <1>3, <1>4, <1>5, <1>6, <1>7, <1>8 DEF Adjusts

LEMMA AdjustsOK ==
    ASSUME NEW L, NEW C, NEW x, OK(x, L, C), NEW y, Adjusts(x, y)
    PROVE  /\ OK(y, L, C) /\ Edge(y) = Edge(x) /\ XCuts(y) = XCuts(x) /\ Total(y) = Total(x)
           /\ Grows(x, y)
  <1>0. x \in Endpoint BY DEF OK
  <1>1. Edge(y) = Edge(x) /\ XCuts(y) = XCuts(x) /\ Total(y) = Total(x)
    BY DEF Adjusts, SameInbox, Edge, XCuts, Total
  <1>2. y \in Endpoint /\ Tiled(y) BY <1>1 DEF OK, Tiled, Adjusts
  <1>3. Timed(y) BY DEF OK, Timed, Adjusts
  <1>4. Limited(y, L) BY DEF OK, Limited, Adjusts
  <1>5. Counted(y) BY <1>1 DEF OK, Counted, Adjusts
  <1>6. Received(y, C) BY <1>1 DEF OK, Received, Adjusts, SameInbox
  <1>7. Tuned(y) BY DEF OK, Tuned, Adjusts
  <1>8. Written(y, C) BY DEF Written, Adjusts
  <1>9. Grows(x, y)
    <2>1. Cuts(x.slist, x.snd_una) \subseteq Cuts(y.slist, x.snd_una) BY DEF Adjusts
    <2> QED BY <2>1, <1>0, <1>2, GrowsSame DEF Adjusts, SameInbox
  <1> QED BY <1>1, <1>2, <1>3, <1>4, <1>5, <1>6, <1>7, <1>8, <1>9 DEF OK

\* An endpoint does not mind that the other one has opened its window or sent more.
LEMMA Widened ==
    ASSUME NEW L \in Nat, NEW C, NEW x, OK(x, L, C), NEW M \in Nat, L <= M,
           NEW D, C \subseteq D, \A c \in D : c <= Edge(x)
    PROVE  OK(x, M, D)
  <1>0. x \in Endpoint BY DEF OK
  <1>1. Limited(x, M)
    <2> DEFINE a == x.snd_nxt
               b == x.snd_una + x.snd_wnd
    <2>1. a \in Nat /\ b \in Nat BY <1>0, Fields
    <2>2. a <= L /\ b <= L BY DEF OK, Limited
    <2> HIDE DEF a, b
    <2>3. a <= M /\ b <= M BY <2>1, <2>2
    <2> QED BY <2>3 DEF Limited, a, b
  <1>2. Received(x, D) BY DEF OK, Received
  <1>3. Written(x, D) BY DEF OK, Written, PacketOK
  <1> QED BY <1>1, <1>2, <1>3 DEF OK

LEMMA EndsAre ==
    ASSUME NEW e \in Ends
    PROVE  /\ Other(e) \in Ends /\ Other(e) # e /\ Other(Other(e)) = e
           /\ \A f \in Ends : f = e \/ f = Other(e)
  BY DEF Ends, Other, Client, Server

\* The packets P are ones that y may have sent to x.
Carried(y, x, P) == \A p \in P : PacketOK(y, p, XCuts(x))
\* What AdjustClock leaves behind.
Ended(x) == x.deleted <=> Finished(x)
\* One end x, the other end y, and the packets P on their way to x.
Half(x, y, P) ==
    /\ OK(x, Edge(y), XCuts(y)) /\ y.snd_una <= x.rcv_nxt
    /\ Carried(y, x, P) /\ x.out = {} /\ Ended(x)

\* z: what a call makes of x.
Moves(x, y, z) ==
    /\ OK(z, Edge(y), XCuts(y)) /\ Grows(x, z) /\ z.snd_una <= y.rcv_nxt
    /\ z.deleted = x.deleted /\ (x.deleted => z = x)

LEMMA EndedIs ==
    ASSUME NEW x, NEW z, NEW w, Ended(x), z.deleted = x.deleted, x.deleted => z = x,
           Adjusts(z, w)
    PROVE  Ended(w)
  <1>1. Finished(w) <=> Finished(z) BY DEF Adjusts, Finished
  <1>2. w.deleted = (z.deleted \/ Finished(z)) BY DEF Adjusts
  <1>3. CASE x.deleted
    <2>1. Finished(z) BY <1>3 DEF Ended
    <2> QED BY <2>1, <1>1, <1>2 DEF Ended
  <1>4. CASE ~x.deleted
    <2>1. ~z.deleted BY <1>4
    <2> QED BY <2>1, <1>1, <1>2 DEF Ended
  <1> QED BY <1>3, <1>4

\* A call keeps both halves.
LEMMA CallKept ==
    ASSUME NEW x, NEW y, NEW P, NEW Q, Half(x, y, P), Half(y, x, Q), NEW z, Moves(x, y, z),
           NEW w, Adjusts(z, w), NEW G, G \subseteq P, NEW H, H \subseteq Q \cup z.out
    PROVE  Half(w, y, G) /\ Half(y, w, H)
  <1>0. /\ OK(x, Edge(y), XCuts(y)) /\ OK(y, Edge(x), XCuts(x)) /\ OK(z, Edge(y), XCuts(y))
        /\ Grows(x, z)
    BY DEF Half, Moves
  <1>1. /\ OK(w, Edge(y), XCuts(y)) /\ Edge(w) = Edge(z) /\ XCuts(w) = XCuts(z) /\ Grows(z, w)
    BY <1>0, AdjustsOK
  <1>2. x \in Endpoint /\ y \in Endpoint /\ z \in Endpoint /\ w \in Endpoint
    BY <1>0, <1>1 DEF OK
  <1>3. Grows(x, w) BY <1>0, <1>1, <1>2, GrowsTrans
  <1>4. Half(w, y, G)
    <2>1. y.snd_una <= w.rcv_nxt
      <3> DEFINE a == y.snd_una
                 b == x.rcv_nxt
                 c == w.rcv_nxt
      <3>1. a \in Nat /\ b \in Nat /\ c \in Nat BY <1>2, Fields
      <3>2. a <= b /\ b <= c BY <1>3 DEF Half, Grows
      <3> HIDE DEF a, b, c
      <3>3. a <= c BY <3>1, <3>2
      <3> QED BY <3>3 DEF a, c
    <2>2. Carried(y, w, G)
      <3>1. XCuts(x) \subseteq XCuts(w) BY <1>3 DEF Grows
      <3>2. Carried(y, x, P) BY DEF Half
      <3> QED BY <3>1, <3>2 DEF Carried, PacketOK
    <2>3. w.out = {} BY DEF Adjusts
    <2>4. Ended(w) BY EndedIs DEF Half, Moves
    <2> QED BY <1>1, <2>1, <2>2, <2>3, <2>4 DEF Half
  <1>5. Half(y, w, H)
    <2>1. OK(y, Edge(w), XCuts(w))
      <3>1. Edge(x) \in Nat BY <1>0, Numbers
      <3>2. Edge(w) \in Nat /\ \A c \in XCuts(w) : c \in Nat /\ c <= w.snd_nxt BY <1>1, Numbers
      <3>3. w.snd_nxt \in Nat /\ w.snd_nxt <= Edge(y) BY <1>1, Numbers
      <3>4. Edge(y) \in Nat BY <1>0, Numbers
      <3>5. \A c \in XCuts(w) : c <= Edge(y)
        <4> DEFINE a == w.snd_nxt
                   b == Edge(y)
                   D == XCuts(w)
        <4>1. a \in Nat /\ b \in Nat /\ a <= b /\ \A c \in D : c \in Nat /\ c <= a
          BY <3>2, <3>3, <3>4
        <4> SUFFICES \A c \in D : c <= b OBVIOUS
        <4> HIDE DEF a, b, D
        <4> QED BY <4>1
      <3>6. Edge(x) <= Edge(w) /\ XCuts(x) \subseteq XCuts(w) BY <1>3 DEF Grows
      <3> QED BY <1>0, <3>1, <3>2, <3>5, <3>6, Widened
    <2>2. w.snd_una <= y.rcv_nxt BY DEF Adjusts, Moves
    <2>3. ASSUME NEW p \in H PROVE PacketOK(w, p, XCuts(y))
      <3>1. CASE p \in Q
        <4>1. PacketOK(x, p, XCuts(y)) BY <3>1 DEF Half, Carried
        <4> QED BY <4>1, <1>2, <1>3, PacketKept
      <3>2. CASE p \in z.out
        <4>1. PacketOK(z, p, XCuts(y)) BY <3>2, <1>0 DEF OK, Written
        <4> QED BY <4>1, <1>1, <1>2, PacketKept
      <3> QED BY <3>1, <3>2
    <2> QED BY <2>1, <2>2, <2>3 DEF Half, Carried
  <1> QED BY <1>4, <1>5

\* The two ends and the packets between them.
TcpInv ==
    /\ tcp \in [Ends -> Endpoint] /\ net \in [Ends -> SUBSET Packet]
    /\ left \in [{"loss", "dup"} -> Nat]
    /\ \A e \in Ends : Half(tcp[e], tcp[Other(e)], net[e])

\* z: what a call made of end e; the packets in gone have been taken.
LEMMA TookIs ==
    ASSUME TcpInv, NEW e \in Ends, NEW z \in Endpoint, NEW gone, Took(e, gone, z)
    PROVE  /\ tcp' \in [Ends -> Endpoint] /\ net' \in [Ends -> SUBSET Packet]
           /\ tcp'[e] = AdjustClock(z) /\ tcp'[Other(e)] = tcp[Other(e)]
           /\ net'[e] = net[e] \ gone /\ net'[Other(e)] = net[Other(e)] \cup z.out
  <1> DEFINE f == Other(e)
             a == AdjustClock(z)
             o == z.out
  <1>1. f \in Ends /\ f # e /\ \A g \in Ends : g = e \/ g = f BY EndsAre
  <1>2. a \in Endpoint BY AdjustClockIs DEF Adjusts
  <1>3. o \in SUBSET Packet BY Fields
  <1>4. tcp \in [Ends -> Endpoint] /\ net \in [Ends -> SUBSET Packet] BY DEF TcpInv
  <1>5. tcp' = [tcp EXCEPT ![e] = a] /\ net' = [net EXCEPT ![e] = @ \ gone, ![f] = @ \cup o]
    BY DEF Took
  <1> SUFFICES /\ tcp' \in [Ends -> Endpoint] /\ net' \in [Ends -> SUBSET Packet]
               /\ tcp'[e] = a /\ tcp'[f] = tcp[f]
               /\ net'[e] = net[e] \ gone /\ net'[f] = net[f] \cup o
    OBVIOUS
  <1> HIDE DEF f, a, o
  <1>6. tcp' \in [Ends -> Endpoint] /\ tcp'[e] = a /\ tcp'[f] = tcp[f]
    BY <1>1, <1>2, <1>4, <1>5
  <1>7. net'[e] = net[e] \ gone /\ net'[f] = net[f] \cup o BY <1>1, <1>4, <1>5
  <1>8. net' \in [Ends -> SUBSET Packet] BY <1>1, <1>3, <1>4, <1>5
  <1> QED BY <1>6, <1>7, <1>8

LEMMA TookKept ==
    ASSUME TcpInv, NEW e \in Ends, NEW z, Moves(tcp[e], tcp[Other(e)], z), NEW gone,
           Took(e, gone, z), left' \in [{"loss", "dup"} -> Nat]
    PROVE  TcpInv'
  <1> DEFINE f == Other(e)
             w == AdjustClock(z)
  <1>1. f \in Ends /\ Other(f) = e /\ \A g \in Ends : g = e \/ g = f BY EndsAre
  <1>2. z \in Endpoint BY DEF Moves, OK
  <1>3. /\ tcp' \in [Ends -> Endpoint] /\ net' \in [Ends -> SUBSET Packet]
        /\ tcp'[e] = w /\ tcp'[f] = tcp[f]
        /\ net'[e] = net[e] \ gone /\ net'[f] = net[f] \cup z.out
    BY <1>2, TookIs
  <1>4. Half(tcp[e], tcp[f], net[e]) BY DEF TcpInv
  <1>5. Half(tcp[f], tcp[e], net[f]) BY <1>1 DEF TcpInv
  <1>6. Adjusts(z, w) BY <1>2, AdjustClockIs
  <1>7. net'[e] \subseteq net[e] /\ net'[f] \subseteq net[f] \cup z.out BY <1>3
  <1> HIDE DEF w
  <1>8. Half(w, tcp[f], net'[e]) /\ Half(tcp[f], w, net'[f])
    BY <1>4, <1>5, <1>6, <1>7, CallKept
  <1>9. Half(tcp'[e], tcp'[f], net'[e]) /\ Half(tcp'[f], tcp'[e], net'[f]) BY <1>3, <1>8
  <1>10. \A g \in Ends : Half(tcp'[g], tcp'[Other(g)], net'[g])
    <2> HIDE DEF f
    <2>1. Other(e) = f BY DEF f
    <2> QED BY <1>1, <1>9, <2>1
  <1> QED BY <1>3, <1>10 DEF TcpInv

-----------------------------------------------------------------------------
(* The calls                                                               *)

\* The ends x and y, with the packets P on their way to x and Q to y.
Pair(x, y, P, Q) == Half(x, y, P) /\ Half(y, x, Q)

LEMMA PairFacts ==
    ASSUME NEW x, NEW y, NEW P, NEW Q, Pair(x, y, P, Q)
    PROVE  /\ OK(x, Edge(y), XCuts(y)) /\ x \in Endpoint /\ Edge(y) \in Nat /\ CtlLen <= Edge(y)
           /\ \A c \in XCuts(y) : c \in Nat
           /\ x.snd_una <= y.rcv_nxt /\ x.out = {} /\ Ended(x)
  <1>1. OK(x, Edge(y), XCuts(y)) /\ OK(y, Edge(x), XCuts(x)) BY DEF Pair, Half
  <1>2. x \in Endpoint BY <1>1 DEF OK
  <1>3. Edge(y) \in Nat /\ CtlLen <= Edge(y) /\ \A c \in XCuts(y) : c \in Nat BY <1>1, Numbers
  <1> QED BY <1>1, <1>2, <1>3 DEF Pair, Half

\* An end that waits for the first packet, and whose timers are all off.
Dormant(x) ==
    /\ x.state # "ESTABLISHED" /\ x.state # "CLOSED" /\ x.snd_nxt = 0 /\ x.snd_una = 0
    /\ ~x.ack_set /\ x.snd_wnd # 0
Rests(x, z) ==
    /\ z.state = x.state /\ z.snd_nxt = x.snd_nxt /\ z.snd_wnd = x.snd_wnd
    /\ z.ack_set = x.ack_set /\ z.dup_acks = x.dup_acks /\ z.cwnd = x.cwnd /\ z.out = x.out
\* z: what a call other than Connect and NotifyPacket makes of x.
Stirs(x, y, z) ==
    /\ Moves(x, y, z) /\ x.snd_nxt <= z.snd_nxt
    /\ Unsplit(x) => Unsplit(z)
    /\ Fares(x, z)
    /\ z.state = x.state \/ z.state = "CLOSED"
    /\ x.state # "ESTABLISHED" => Total(z) = Total(x)
    /\ Dormant(x) => Rests(x, z)
SameApp(x, z) == z.wrote = x.wrote /\ z.got = x.got /\ z.readable = x.readable

LEMMA MovesBy ==
    ASSUME NEW x, NEW y, NEW P, NEW Q, Pair(x, y, P, Q), NEW z, OK(z, Edge(y), XCuts(y)),
           Grows(x, z), z.snd_una = x.snd_una, z.deleted = x.deleted, ~x.deleted
    PROVE  Moves(x, y, z)
  BY PairFacts DEF Moves

\* A call that changes nothing that matters here.
LEMMA FlagsStir ==
    ASSUME NEW x, NEW y, NEW P, NEW Q, Pair(x, y, P, Q), ~x.deleted, NEW z \in Endpoint,
           Steady(x, z), z.got = x.got, z.deleted = x.deleted, z.state = x.state, Tuned(z),
           z.shutdown = x.shutdown \/ z.shutdown # "NONE", Dormant(x) => Rests(x, z)
    PROVE  Stirs(x, y, z) /\ SameApp(x, z)
  <1>1. OK(x, Edge(y), XCuts(y)) /\ x \in Endpoint BY PairFacts
  <1>2. StateMoves(x, z) BY DEF StateMoves
  <1>3. OK(z, Edge(y), XCuts(y)) /\ Grows(x, z) BY <1>1, <1>2, Retuned
  <1>4. z.snd_una = x.snd_una BY DEF Steady
  <1>5. Moves(x, y, z) BY <1>3, <1>4, MovesBy
  <1>6. x.snd_nxt <= z.snd_nxt
    <2>1. z.snd_nxt = x.snd_nxt /\ x.snd_nxt \in Nat BY <1>1, Fields DEF Steady
    <2> QED BY <2>1
  <1>7. Unsplit(x) => Unsplit(z) BY DEF Unsplit, Steady
  <1>8. Fares(x, z)
    <2>1. Arrived(z) = Arrived(x) BY DEF Steady, Arrived
    <2>2. z.shutdown = "NONE" => x.shutdown = "NONE" OBVIOUS
    <2>3. Clean(x) => Clean(z) BY <2>1, <2>2 DEF Clean, InStep, InPlace, Steady
    <2>4. Level(x) => Level(z) BY <2>1, <2>2 DEF Level, Steady
    <2> QED BY <2>3, <2>4 DEF Fares
  <1>9. Total(z) = Total(x) BY DEF Steady, Total
  <1> QED BY <1>5, <1>6, <1>7, <1>8, <1>9 DEF Stirs, SameApp, Steady

\* v: x once a call has done its own work.
Prepared(x, y, v) ==
    /\ OK(v, Edge(y), XCuts(y)) /\ Grows(x, v) /\ v.snd_una = x.snd_una
    /\ v.snd_nxt = x.snd_nxt /\ v.deleted = x.deleted /\ v.state = x.state
    /\ v.shutdown = x.shutdown /\ (Unsplit(x) => Unsplit(v)) /\ Fares(x, v)
Completes(x, y, v, z) ==
    Stirs(x, y, z) /\ SameApp(v, z) /\ z.state = x.state /\ z.shutdown = x.shutdown
\* attemptSend, which ends the call.
LEMMA AttemptStirs ==
    ASSUME NEW x, NEW y, NEW P, NEW Q, Pair(x, y, P, Q), ~x.deleted, x.state = "ESTABLISHED",
           NEW v, Prepared(x, y, v),
           NEW ack \in {"none", "now", "delayed"}, NEW idle \in BOOLEAN,
           NEW result \in {"success", "fail", "too_large"}
    PROVE  Completes(x, y, v, attemptSend(v, ack, idle, result))
  <1> DEFINE z == attemptSend(v, ack, idle, result)
  <1> SUFFICES Completes(x, y, v, z) OBVIOUS
  <1>1. x \in Endpoint /\ Edge(y) \in Nat BY PairFacts
  <1>0. /\ OK(v, Edge(y), XCuts(y)) /\ Grows(x, v) /\ v.snd_una = x.snd_una
        /\ v.snd_nxt = x.snd_nxt /\ v.deleted = x.deleted /\ v.state = x.state
        /\ v.shutdown = x.shutdown /\ (Unsplit(x) => Unsplit(v)) /\ Fares(x, v)
    BY DEF Prepared
  <1>2. Progress(v, Edge(y), XCuts(y), z) BY <1>0, <1>1, AttemptOK
  <1> HIDE DEF z
  <1>3. OK(z, Edge(y), XCuts(y)) /\ Grows(v, z) /\ Sends(v, z) /\ v.snd_nxt <= z.snd_nxt
    BY <1>2 DEF Progress
  <1>4. v \in Endpoint /\ z \in Endpoint BY <1>0, <1>3 DEF OK
  <1>5. Grows(x, z) BY <1>0, <1>1, <1>3, <1>4, GrowsTrans
  <1>6. Moves(x, y, z) BY <1>0, <1>3, <1>5, MovesBy DEF Sends, Keeps
  <1>7. Fares(v, z)
    <2>1. SameInbox(v, z) /\ z.shutdown = v.shutdown BY <1>3 DEF SameInbox, Sends, Receiving, Keeps
    <2> QED BY <2>1, CleanSame
  <1>8. Unsplit(v) => Unsplit(z) BY <1>2 DEF Progress
  <1>9. x.snd_nxt <= z.snd_nxt BY <1>0, <1>3
  <1>10. z.state = x.state /\ z.shutdown = x.shutdown /\ SameApp(v, z)
    BY <1>0, <1>3 DEF Sends, Receiving, Keeps, SameApp
  <1>11. ~Dormant(x) BY DEF Dormant
  <1>12. Fares(x, z) BY <1>0, <1>7 DEF Fares
  <1> QED BY <1>0, <1>6, <1>8, <1>9, <1>10, <1>11, <1>12 DEF Stirs, Completes

\* z: what Connect makes of x.
Dials(x, y, z) ==
    /\ Moves(x, y, z) /\ SameApp(x, z) /\ z.state = "SYN_SENT" /\ z.shutdown = x.shutdown
    /\ Fares(x, z)
    /\ x.cwnd >= CtlLen /\ x.dup_acks = 0 =>
         /\ z.snd_nxt # 0 => Unsplit(z)
         /\ z.snd_nxt = 0 => z.out = {} /\ (z.ack_set => x.ack_set) /\ z.snd_wnd # 0
LEMMA ConnectDials ==
    ASSUME NEW x, NEW y, NEW P, NEW Q, Pair(x, y, P, Q), x.state = "LISTEN", ~x.deleted,
           NEW result \in {"success", "fail", "too_large"}, NEW z,
           z = attemptSend(queueConnectMessage([x EXCEPT !.state = "SYN_SENT"]),
                           "none", FALSE, result)
    PROVE  Dials(x, y, z)
  <1> DEFINE s == [x EXCEPT !.state = "SYN_SENT"]
             v == queueConnectMessage(s)
             L == Edge(y)
             C == XCuts(y)
  <1>1. /\ OK(x, L, C) /\ x \in Endpoint /\ L \in Nat /\ CtlLen <= L /\ x.out = {}
    BY PairFacts
  <1>2. s \in Endpoint
    <2> DEFINE t == "SYN_SENT"
    <2>1. t \in TcpState BY DEF TcpState
    <2> HIDE DEF t
    <2>2. [x EXCEPT !.state = t] \in Endpoint BY <1>1, <2>1, Zenon DEF Endpoint
    <2> QED BY <2>2 DEF t
  <1>3. Alike(x, s) BY <1>1 DEF Endpoint, Alike, Steady
  <1>4. s.state = "SYN_SENT" /\ s.swnd_scale = x.swnd_scale BY <1>1 DEF Endpoint
  <1>5. x.swnd_scale \in {1, Scale} BY <1>1 DEF OK, Tuned
  <1> SUFFICES Dials(x, y, z) OBVIOUS
  <1> HIDE DEF s
  <1>6. Connecting(x, L, C, v) /\ v.state = s.state
    BY <1>1, <1>2, <1>3, <1>4, <1>5, ConnectOK
  <1>7. z = attemptSend(v, "none", FALSE, result) BY DEF s
  <1> HIDE DEF v
  <1>8. OK(v, L, C) /\ Grows(x, v) /\ v.snd_una = 0 BY <1>6 DEF Connecting
  <1>9. Progress(v, L, C, z) /\ Quiet(v, z) BY <1>1, <1>7, <1>8, AttemptOK
  <1>10. OK(z, L, C) /\ Grows(v, z) /\ Sends(v, z) BY <1>9 DEF Progress
  <1>11. v \in Endpoint /\ z \in Endpoint BY <1>8, <1>10 DEF OK
  <1>12. Grows(x, z) BY <1>1, <1>8, <1>10, <1>11, GrowsTrans
  <1>13. z.snd_una = x.snd_una
    <2>1. z.snd_una = 0 BY <1>8, <1>10 DEF Sends
    <2>2. x.snd_una <= z.snd_una BY <1>12 DEF Grows
    <2>3. x.snd_una \in Nat BY <1>1, Fields
    <2> DEFINE a == x.snd_una
               b == z.snd_una
    <2>4. a \in Nat /\ a <= b /\ b = 0 BY <2>1, <2>2, <2>3
    <2> SUFFICES b = a OBVIOUS
    <2> HIDE DEF a, b
    <2> QED BY <2>4
  <1>14. z.deleted = x.deleted BY <1>6, <1>10 DEF Connecting, Sends, Keeps
  <1>15. Moves(x, y, z) BY <1>10, <1>12, <1>13, <1>14, MovesBy
  <1>16. SameApp(x, z) /\ z.shutdown = x.shutdown /\ SameInbox(x, z)
    BY <1>6, <1>10 DEF Connecting, Sends, Receiving, Keeps, SameApp, SameInbox
  <1>17. Fares(x, z) BY <1>16, CleanSame
  <1>18. z.state = "SYN_SENT" BY <1>4, <1>6, <1>10 DEF Sends
  <1>19. ASSUME x.cwnd >= CtlLen, x.dup_acks = 0
         PROVE  /\ z.snd_nxt # 0 => Unsplit(z)
                /\ z.snd_nxt = 0 => z.out = {} /\ (z.ack_set => x.ack_set) /\ z.snd_wnd # 0
    <2>1. Fresh(v) BY <1>19, <1>6, <1>1 DEF Connecting
    <2>2. z.snd_nxt # 0 => Unsplit(z) BY <2>1, <1>9 DEF Progress, Fresh
    <2>3. v.snd_nxt = 0 /\ v.out = {} /\ v.snd_wnd = CtlLen BY <2>1 DEF Fresh
    <2>4. v.ack_set = x.ack_set BY <1>6 DEF Connecting
    <2>5. z.snd_wnd = v.snd_wnd BY <1>10 DEF Sends
    <2>6. CtlLen # 0 BY SizesAre
    <2> QED BY <2>2, <2>3, <2>4, <2>5, <2>6, <1>9 DEF Quiet
  <1> QED BY <1>15, <1>16, <1>17, <1>18, <1>19 DEF Dials

\* Send.
SendStirs(x, y, n, z) ==
    /\ Stirs(x, y, z) /\ z.state = x.state /\ z.shutdown = x.shutdown
    /\ z.got = x.got /\ z.readable = x.readable
    /\ \/ z.wrote = x.wrote
       \/ \E m \in 1 .. n : z.wrote = x.wrote + m /\ Len(x.sbuf) + m <= SndBuf
LEMMA SendsSome ==
    ASSUME NEW x, NEW y, NEW P, NEW Q, Pair(x, y, P, Q), x.state = "ESTABLISHED",
           x.shutdown = "NONE", Len(x.sbuf) # SndBuf, NEW n \in Nat, n > 0,
           NEW q, q = queue(x, Bytes(x.wrote, n), FALSE),
           NEW idle \in BOOLEAN, NEW result \in {"success", "fail", "too_large"},
           NEW z, z = attemptSend(Wrote(q, Len(q.sbuf) - Len(x.sbuf)), "none", idle, result)
    PROVE  SendStirs(x, y, n, z)
  <1> DEFINE v == Wrote(q, Len(q.sbuf) - Len(x.sbuf))
             L == Edge(y)
             C == XCuts(y)
  <1>1. OK(x, L, C) /\ x \in Endpoint /\ Ended(x) BY PairFacts
  <1>2. ~x.deleted BY <1>1 DEF Ended, Finished
  <1>3. PICK m \in 1 .. n : WritesMore(x, L, C, m, v) BY <1>1, SendQueues
  <1> SUFFICES SendStirs(x, y, n, z) OBVIOUS
  <1>4. z = attemptSend(v, "none", idle, result) OBVIOUS
  <1> HIDE DEF v, L, C
  <1>5. /\ OK(v, L, C) /\ Grows(x, v) /\ Receiving(x, v) /\ v.state = x.state
        /\ v.shutdown = x.shutdown /\ v.deleted = x.deleted /\ v.wrote = x.wrote + m
        /\ v.snd_nxt = x.snd_nxt /\ v.snd_una = x.snd_una
        /\ Len(x.sbuf) + m <= SndBuf /\ (Unsplit(x) => Unsplit(v))
    BY <1>3 DEF WritesMore
  <1>6. Fares(x, v)
    <2>1. SameInbox(x, v) BY <1>5 DEF SameInbox, Receiving
    <2> QED BY <2>1, <1>5, CleanSame
  <1>9. Prepared(x, y, v) BY <1>5, <1>6 DEF Prepared, L, C
  <1>7. Stirs(x, y, z) /\ SameApp(v, z) /\ z.state = x.state /\ z.shutdown = x.shutdown
    <2>1. Completes(x, y, v, attemptSend(v, "none", idle, result)) BY <1>2, <1>9, AttemptStirs
    <2> QED BY <2>1, <1>4 DEF Completes
  <1>8. z.wrote = x.wrote + m /\ z.got = x.got /\ z.readable = x.readable
    BY <1>5, <1>7 DEF SameApp, Receiving
  <1> QED BY <1>5, <1>7, <1>8 DEF SendStirs

LEMMA SendsNone ==
    ASSUME NEW x, NEW y, NEW P, NEW Q, Pair(x, y, P, Q), x.state = "ESTABLISHED",
           x.shutdown = "NONE", NEW n,
           NEW z, z = [x EXCEPT !.bWriteEnable = TRUE, !.writing = FALSE]
    PROVE  SendStirs(x, y, n, z)
  <1>1. OK(x, Edge(y), XCuts(y)) /\ x \in Endpoint /\ Ended(x) BY PairFacts
  <1>2. ~x.deleted BY <1>1 DEF Ended, Finished
  <1>3. z \in Endpoint
    <2> DEFINE t == TRUE
               u == FALSE
    <2>1. t \in BOOLEAN /\ u \in BOOLEAN OBVIOUS
    <2> HIDE DEF t, u
    <2>2. [x EXCEPT !.bWriteEnable = t, !.writing = u] \in Endpoint
      BY <1>1, <2>1, Zenon DEF Endpoint
    <2> QED BY <2>2 DEF t, u
  <1>4. Steady(x, z) BY <1>1 DEF Endpoint, Steady
  <1>5. /\ z.got = x.got /\ z.deleted = x.deleted /\ z.state = x.state /\ z.shutdown = x.shutdown
    BY <1>1 DEF Endpoint
  <1>6. Tuned(z)
    <2>1. Tuned(x) BY <1>1 DEF OK
    <2>2. /\ z.mss = x.mss /\ z.mtu_advise = x.mtu_advise /\ z.cwnd = x.cwnd
          /\ z.ssthresh = x.ssthresh /\ z.swnd_scale = x.swnd_scale
      BY <1>1 DEF Endpoint
    <2> QED BY <2>1, <2>2 DEF Tuned
  <1>7. ~Dormant(x) BY DEF Dormant
  <1>8. Stirs(x, y, z) /\ SameApp(x, z) BY <1>2, <1>3, <1>4, <1>5, <1>6, <1>7, FlagsStir
  <1> QED BY <1>5, <1>8 DEF SendStirs, SameApp

LEMMA PreparedStirs ==
    ASSUME NEW x, NEW y, NEW P, NEW Q, Pair(x, y, P, Q), ~x.deleted, x.state = "ESTABLISHED",
           NEW v, Prepared(x, y, v)
    PROVE  Completes(x, y, v, v)
  <1>1. Moves(x, y, v) BY MovesBy DEF Prepared
  <1>2. x.snd_nxt <= v.snd_nxt
    <2>1. v.snd_nxt = x.snd_nxt /\ x.snd_nxt \in Nat BY PairFacts, Fields DEF Prepared
    <2> QED BY <2>1
  <1>3. ~Dormant(x) BY DEF Dormant
  <1> QED BY <1>1, <1>2, <1>3 DEF Prepared, Completes, Stirs, SameApp

\* Recv.
RecvStirs(x, y, z) ==
    /\ Stirs(x, y, z) /\ z.state = x.state /\ z.shutdown = x.shutdown /\ z.wrote = x.wrote
    /\ \/ z.got = x.got /\ z.readable = x.readable
       \/ \E k \in 1 .. Len(x.readable) : z.got = x.got + k /\ z.readable = Drop(x.readable, k)
\* The three ways in which Recv of something may end.
Receives(v, idle, result, z) ==
    z \in {v, Opened(v), attemptSend(Opened(v), "now", idle, result)}
LEMMA DrainsPrepared ==
    ASSUME NEW x, NEW y, NEW v, OK(v, Edge(y), XCuts(y)), Grows(x, v), Drains(x, v),
           Fares(x, v)
    PROVE  Prepared(x, y, v) /\ v.wrote = x.wrote
  <1>1. Unsplit(x) => Unsplit(v) BY DEF Drains, Unsplit
  <1> QED BY <1>1 DEF Prepared, Drains, Keeps
LEMMA ReadsSome ==
    ASSUME NEW x, NEW y, NEW P, NEW Q, Pair(x, y, P, Q), x.state = "ESTABLISHED",
           x.shutdown = "NONE", NEW k \in 1 .. Len(x.readable),
           NEW idle \in BOOLEAN, NEW result \in {"success", "fail", "too_large"},
           NEW z, Receives(ReadBytes(x, k), idle, result, z)
    PROVE  RecvStirs(x, y, z)
  <1> DEFINE v == ReadBytes(x, k)
             o == Opened(v)
             L == Edge(y)
             C == XCuts(y)
  <1>1. OK(x, L, C) /\ x \in Endpoint /\ Ended(x) /\ \A c \in C : c \in Nat BY PairFacts
  <1>2. ~x.deleted BY <1>1 DEF Ended, Finished
  <1>3. Reads(x, L, C, k, v)
    <2>1. Len(x.readable) \in Nat BY <1>1, Fields
    <2>2. k \in 0 .. Len(x.readable) BY <2>1
    <2> QED BY <2>2, <1>1, ReadBytesOK
  <1>0. Receives(v, idle, result, z) OBVIOUS
  <1> HIDE DEF v
  <1>4. OK(v, L, C) /\ Grows(x, v) /\ Drains(x, v) /\ Fares(x, v) BY <1>3 DEF Reads
  <1>5. /\ OK(o, L, C) /\ Grows(v, o) /\ Drains(v, o) /\ o.got = v.got /\ o.readable = v.readable
        /\ Fares(v, o)
    BY <1>1, <1>4, OpenedOK
  <1>6. z = v \/ z = o \/ z = attemptSend(o, "now", idle, result) BY <1>0 DEF Receives
  <1> HIDE DEF o
  <1>7. v \in Endpoint /\ o \in Endpoint BY <1>4, <1>5 DEF OK
  <1>8. Grows(x, o) /\ Drains(x, o) /\ Fares(x, o)
    <2>1. Grows(x, o) BY <1>1, <1>4, <1>5, <1>7, GrowsTrans
    <2>2. Drains(x, o) BY <1>4, <1>5 DEF Drains, Keeps
    <2>3. Fares(x, o) BY <1>4, <1>5 DEF Fares
    <2> QED BY <2>1, <2>2, <2>3
  <1>9. Prepared(x, y, v) /\ Prepared(x, y, o) /\ v.wrote = x.wrote /\ o.wrote = x.wrote
    BY <1>4, <1>5, <1>8, DrainsPrepared
  <1>10. \E u : /\ Completes(x, y, u, z) /\ u.wrote = x.wrote /\ u.got = v.got
                /\ u.readable = v.readable
    <2>1. CASE z = v
      <3>1. Completes(x, y, v, v) BY <1>2, <1>9, PreparedStirs
      <3> QED BY <3>1, <2>1, <1>9
    <2>2. CASE z = o
      <3>1. Completes(x, y, o, o) BY <1>2, <1>9, PreparedStirs
      <3> QED BY <3>1, <2>2, <1>9, <1>5
    <2>3. CASE z = attemptSend(o, "now", idle, result)
      <3>1. Completes(x, y, o, attemptSend(o, "now", idle, result)) BY <1>2, <1>9, AttemptStirs
      <3> QED BY <3>1, <2>3, <1>9, <1>5
    <2> QED BY <1>6, <2>1, <2>2, <2>3
  <1>11. v.got = x.got + k /\ v.readable = Drop(x.readable, k) BY <1>3 DEF Reads
  <1>12. /\ Stirs(x, y, z) /\ z.state = x.state /\ z.shutdown = x.shutdown /\ z.wrote = x.wrote
         /\ z.got = x.got + k /\ z.readable = Drop(x.readable, k)
    BY <1>10, <1>11 DEF Completes, SameApp
  <1> QED BY <1>12 DEF RecvStirs

LEMMA ReadsNone ==
    ASSUME NEW x, NEW y, NEW P, NEW Q, Pair(x, y, P, Q), x.state = "ESTABLISHED",
           x.shutdown = "NONE", NEW z, z = [x EXCEPT !.bReadEnable = TRUE, !.reading = FALSE]
    PROVE  RecvStirs(x, y, z)
  <1>1. OK(x, Edge(y), XCuts(y)) /\ x \in Endpoint /\ Ended(x) BY PairFacts
  <1>2. ~x.deleted BY <1>1 DEF Ended, Finished
  <1>3. z \in Endpoint
    <2> DEFINE t == TRUE
               u == FALSE
    <2>1. t \in BOOLEAN /\ u \in BOOLEAN OBVIOUS
    <2> HIDE DEF t, u
    <2>2. [x EXCEPT !.bReadEnable = t, !.reading = u] \in Endpoint
      BY <1>1, <2>1, Zenon DEF Endpoint
    <2> QED BY <2>2 DEF t, u
  <1>4. Steady(x, z) BY <1>1 DEF Endpoint, Steady
  <1>5. /\ z.got = x.got /\ z.deleted = x.deleted /\ z.state = x.state /\ z.shutdown = x.shutdown
    BY <1>1 DEF Endpoint
  <1>6. Tuned(z)
    <2>1. Tuned(x) BY <1>1 DEF OK
    <2>2. /\ z.mss = x.mss /\ z.mtu_advise = x.mtu_advise /\ z.cwnd = x.cwnd
          /\ z.ssthresh = x.ssthresh /\ z.swnd_scale = x.swnd_scale
      BY <1>1 DEF Endpoint
    <2> QED BY <2>1, <2>2 DEF Tuned
  <1>7. ~Dormant(x) BY DEF Dormant
  <1>8. Stirs(x, y, z) /\ SameApp(x, z) BY <1>2, <1>3, <1>4, <1>5, <1>6, <1>7, FlagsStir
  <1> QED BY <1>5, <1>8 DEF RecvStirs, SameApp

\* NotifyClock.
LEMMA TimersStir ==
    ASSUME NEW x, NEW y, NEW P, NEW Q, Pair(x, y, P, Q), ~x.deleted, x.state # "CLOSED",
           NEW due, Expired(x, due), NEW result, NEW z, z = OnTimers(x, due, result)
    PROVE  Stirs(x, y, z) /\ SameApp(x, z) /\ z.shutdown = x.shutdown
  <1>1. OK(x, Edge(y), XCuts(y)) /\ x \in Endpoint /\ Edge(y) \in Nat BY PairFacts
  <1>2. Reacts(x, Edge(y), XCuts(y), z) BY <1>1, OnTimersOK
  <1>3. /\ OK(z, Edge(y), XCuts(y)) /\ Grows(x, z) /\ SameInbox(x, z) /\ Keeps(x, z)
        /\ z.state = x.state \/ z.state = "CLOSED"
        /\ z.snd_una = x.snd_una /\ x.snd_nxt <= z.snd_nxt /\ Total(z) = Total(x)
        /\ Unsplit(x) => Unsplit(z)
    BY <1>2 DEF Reacts
  <1>4. Moves(x, y, z) BY <1>3, MovesBy DEF Keeps
  <1>5. Fares(x, z) BY <1>3, CleanSame DEF Keeps
  <1>6. ASSUME Dormant(x) PROVE Rests(x, z)
    <2>1. ~x.rto_set BY <1>1, <1>6 DEF OK, Timed, Dormant
    <2>2. z = x BY <2>1, <1>6, NoTimer DEF Dormant
    <2> QED BY <2>2 DEF Rests
  <1> QED BY <1>3, <1>4, <1>5, <1>6 DEF Stirs, SameApp, SameInbox, Keeps

\* NotifyMTU.
Advised(x, mtu) ==
    LET v == [x EXCEPT !.mtu_advise = mtu]
    IN IF v.state = "ESTABLISHED" THEN adjustMTU(v) ELSE v
LEMMA MtuStirs ==
    ASSUME NEW x, NEW y, NEW P, NEW Q, Pair(x, y, P, Q), ~x.deleted, NEW mtu \in Mtus,
           NEW z, z = Advised(x, mtu)
    PROVE  Stirs(x, y, z) /\ SameApp(x, z) /\ z.shutdown = x.shutdown
  <1> DEFINE L == Edge(y)
             C == XCuts(y)
             v == [x EXCEPT !.mtu_advise = mtu]
  <1>0. z = IF v.state = "ESTABLISHED" THEN adjustMTU(v) ELSE v BY DEF Advised
  <1>v. v = [x EXCEPT !.mtu_advise = mtu] OBVIOUS
  <1> HIDE DEF v
  <1>1. OK(x, L, C) /\ x \in Endpoint BY PairFacts
  <1>2. mtu \in Nat /\ mtu >= CtlLen
    <2>1. mtu \in CtlLen .. Mss /\ CtlLen \in Nat /\ Mss \in Nat BY SizeAssumption
    <2> QED BY <2>1
  <1>3. v \in Endpoint
    <2>1. [x EXCEPT !.mtu_advise = mtu] \in Endpoint BY <1>1, <1>2, Zenon DEF Endpoint
    <2> QED BY <2>1, <1>v
  <1>4. Steady(x, v) BY <1>1, <1>v DEF Endpoint, Steady
  <1>5. /\ v.got = x.got /\ v.deleted = x.deleted /\ v.state = x.state /\ v.shutdown = x.shutdown
        /\ v.ack_set = x.ack_set /\ v.dup_acks = x.dup_acks
    BY <1>1, <1>v DEF Endpoint
  <1>6. /\ v.mss = x.mss /\ v.mtu_advise = mtu /\ v.cwnd = x.cwnd
        /\ v.ssthresh = x.ssthresh /\ v.swnd_scale = x.swnd_scale
    BY <1>1, <1>v DEF Endpoint
  <1>7. Tuned(v)
    <2>1. Tuned(x) BY <1>1 DEF OK
    <2> QED BY <2>1, <1>2, <1>6 DEF Tuned
  <1>8. Rests(x, v) BY <1>4, <1>5, <1>6 DEF Rests, Steady
  <1>9. Stirs(x, y, v) /\ SameApp(x, v) BY <1>3, <1>4, <1>5, <1>7, <1>8, FlagsStir
  <1>10. CASE v.state # "ESTABLISHED"
    <2>1. z = v BY <1>0, <1>10
    <2> QED BY <2>1, <1>5, <1>9
  <1>11. CASE v.state = "ESTABLISHED"
    <2>1. z = adjustMTU(v) BY <1>0, <1>11
    <2>2. OK(v, L, C) /\ Grows(x, v) BY <1>9 DEF Stirs, Moves
    <2>3. Settles(v, L, C, z) /\ z.state = v.state
      <3>1. Settles(v, L, C, adjustMTU(v)) /\ adjustMTU(v).state = v.state
        <4> HIDE DEF L, C
        <4> QED BY <2>2, AdjustMtuOK, Zenon
      <3> QED BY <3>1, <2>1
    <2>4. OK(z, L, C) /\ Grows(v, z) /\ Restated(v, z) BY <2>3 DEF Settles
    <2>5. z \in Endpoint BY <2>4 DEF OK
    <2>6. Grows(x, z) BY <1>1, <1>3, <2>2, <2>4, <2>5, GrowsTrans
    <2>7. Steady(x, z) BY <1>4, <2>4 DEF Steady, Restated
    <2>8. /\ z.got = x.got /\ z.deleted = x.deleted /\ z.state = x.state
          /\ z.shutdown = x.shutdown
      BY <1>5, <2>3, <2>4 DEF Restated
    <2>9. Tuned(z) BY <2>4 DEF OK
    <2>10. ~Dormant(x) BY <1>5, <1>11 DEF Dormant
    <2>11. Stirs(x, y, z) /\ SameApp(x, z) BY <2>5, <2>7, <2>8, <2>9, <2>10, FlagsStir
    <2> QED BY <2>11, <2>8
  <1> QED BY <1>10, <1>11

\* Close.
LEMMA CloseStirs ==
    ASSUME NEW x, NEW y, NEW P, NEW Q, Pair(x, y, P, Q), ~x.deleted,
           NEW how \in {"GRACEFUL", "FORCEFUL"}, NEW z,
           z = [x EXCEPT !.shutdown = how, !.writing = FALSE, !.reading = FALSE]
    PROVE  Stirs(x, y, z) /\ SameApp(x, z) /\ z.shutdown = how /\ z.state = x.state
  <1>1. OK(x, Edge(y), XCuts(y)) /\ x \in Endpoint BY PairFacts
  <1>3. z \in Endpoint
    <2> DEFINE u == FALSE
    <2>1. u \in BOOLEAN /\ how \in {"NONE", "GRACEFUL", "FORCEFUL"} OBVIOUS
    <2> HIDE DEF u
    <2>2. [x EXCEPT !.shutdown = how, !.writing = u, !.reading = u] \in Endpoint
      BY <1>1, <2>1, Zenon DEF Endpoint
    <2> QED BY <2>2 DEF u
  <1>4. Steady(x, z) BY <1>1 DEF Endpoint, Steady
  <1>5. /\ z.got = x.got /\ z.deleted = x.deleted /\ z.state = x.state /\ z.shutdown = how
        /\ z.ack_set = x.ack_set /\ z.dup_acks = x.dup_acks
    BY <1>1 DEF Endpoint
  <1>6. /\ z.mss = x.mss /\ z.mtu_advise = x.mtu_advise /\ z.cwnd = x.cwnd
        /\ z.ssthresh = x.ssthresh /\ z.swnd_scale = x.swnd_scale
    BY <1>1 DEF Endpoint
  <1>7. Tuned(z)
    <2>1. Tuned(x) BY <1>1 DEF OK
    <2> QED BY <2>1, <1>6 DEF Tuned
  <1>8. Rests(x, z) BY <1>4, <1>5, <1>6 DEF Rests, Steady
  <1>9. Stirs(x, y, z) /\ SameApp(x, z) BY <1>3, <1>4, <1>5, <1>7, <1>8, FlagsStir
  <1> QED BY <1>5, <1>9

\* NotifyPacket.
LEMMA PacketHandled ==
    ASSUME NEW x, NEW y, NEW P, NEW Q, Pair(x, y, P, Q), NEW seg \in P,
           NEW idle \in BOOLEAN, NEW result \in {"success", "fail", "too_large"},
           NEW z, z = NotifyPacket(x, seg, idle, result)
    PROVE  /\ Moves(x, y, z)
           /\ ~x.deleted => Handles(x, Edge(y), XCuts(y), seg, z)
           /\ x.deleted => z = x
  <1> DEFINE L == Edge(y)
             C == XCuts(y)
  <1>1. /\ OK(x, L, C) /\ x \in Endpoint /\ L \in Nat /\ CtlLen <= L /\ \A c \in C : c \in Nat
        /\ x.snd_una <= y.rcv_nxt
    BY PairFacts
  <1>2. PacketOK(y, seg, XCuts(x)) BY DEF Pair, Half, Carried
  <1>3. CASE x.deleted
    <2>1. z = x BY <1>3 DEF NotifyPacket
    <2>2. Grows(x, x)
      <3>1. Cuts(x.slist, x.snd_una) \subseteq Cuts(x.slist, x.snd_una) OBVIOUS
      <3> QED BY <3>1, <1>1, GrowsSame
    <2> QED BY <2>1, <2>2, <1>1, <1>3 DEF Moves
  <1>4. CASE ~x.deleted
    <2>1. z = process(x, seg, idle, result) BY <1>4 DEF NotifyPacket
    <2>2. AckOK(x, L, seg) BY <1>2 DEF AckOK, PacketOK
    <2>3. DataOK(C, seg) BY <1>2 DEF DataOK, PacketOK, Carries
    <2>4. seg.data = <<>> => ~seg.ctl BY <1>2 DEF PacketOK
    <2>5. Handles(x, L, C, seg, z) BY <1>1, <2>1, <2>2, <2>3, <2>4, ProcessOK
    <2>6. /\ OK(z, L, C) /\ Grows(x, z) /\ z.deleted = x.deleted
          /\ z.snd_una = x.snd_una \/ z.snd_una = seg.ack
      BY <2>5 DEF Handles
    <2>7. seg.ack <= y.rcv_nxt BY <1>2 DEF PacketOK
    <2>8. z.snd_una <= y.rcv_nxt BY <2>6, <2>7, <1>1
    <2> QED BY <1>4, <2>5, <2>6, <2>8 DEF Moves
  <1> QED BY <1>3, <1>4

-----------------------------------------------------------------------------
(* The steps                                                               *)

\* What each action does, in the words of the lemmas above.
Dialling ==
    /\ tcp[Client].state = "LISTEN"
    /\ \E z : After(Client, z) /\ Dials(tcp[Client], tcp[Server], z)
Sending(e) ==
    /\ tcp[e].state = "ESTABLISHED" /\ tcp[e].shutdown = "NONE" /\ tcp[e].wrote < Writes[e]
    /\ \E z : \E n : After(e, z) /\ SendStirs(tcp[e], tcp[Other(e)], n, z)
Reading(e) ==
    /\ tcp[e].state = "ESTABLISHED" /\ tcp[e].shutdown = "NONE"
    /\ \E z : After(e, z) /\ RecvStirs(tcp[e], tcp[Other(e)], z)
\* A packet with data overtakes the connect message of the server: the client
\* handles it while it has no use for the data.
Overtaken ==
    \E seg \in net[Client] : \E gone \in {{}, {seg}} :
        /\ tcp[Client].rcv_nxt < CtlLen /\ ~seg.ctl /\ seg.data # <<>>
        /\ \E idle \in Idles, result \in Results :
             Took(Client, gone, NotifyPacket(tcp[Client], seg, idle, result))
Getting(e) ==
    \E seg \in net[e] : \E z : \E gone :
        /\ e = Client /\ ~Overtaken => Ready(tcp[e], seg)
        /\ Took(e, gone, z) /\ Moves(tcp[e], tcp[Other(e)], z)
        /\ ~tcp[e].deleted =>
             Handles(tcp[e], Edge(tcp[Other(e)]), XCuts(tcp[Other(e)]), seg, z)
        /\ tcp[e].deleted => z = tcp[e]
Losing(e) == tcp' = tcp /\ \E seg : net' = [net EXCEPT ![e] = @ \ {seg}]
Ticking(e) ==
    \E z : /\ After(e, z) /\ Stirs(tcp[e], tcp[Other(e)], z) /\ SameApp(tcp[e], z)
           /\ z.shutdown = tcp[e].shutdown
Closing(e) ==
    \E z : /\ After(e, z) /\ Stirs(tcp[e], tcp[Other(e)], z) /\ SameApp(tcp[e], z)
           /\ z.state = tcp[e].state /\ z.shutdown \in {"GRACEFUL", "FORCEFUL"}
           /\ z.shutdown = "FORCEFUL" \/ tcp[e].shutdown = "NONE"
Steps(e) ==
    Sending(e) \/ Reading(e) \/ Getting(e) \/ Losing(e) \/ Ticking(e) \/ Closing(e)

LEMMA PairIs ==
    ASSUME TcpInv, NEW e \in Ends
    PROVE  Pair(tcp[e], tcp[Other(e)], net[e], net[Other(e)])
  <1>1. Other(e) \in Ends /\ Other(Other(e)) = e BY EndsAre
  <1> QED BY <1>1 DEF TcpInv, Pair

LEMMA Choices ==
    /\ Idles \subseteq BOOLEAN /\ FALSE \in BOOLEAN
    /\ \A result \in Results : result \in {"success", "fail", "too_large"}
    /\ \A n \in Sizes : n \in Nat /\ n > 0
    /\ \A e \in Ends : Writes[e] \in Nat /\ \A how \in Closes[e] : how \in {"GRACEFUL", "FORCEFUL"}
  <1>1. \A e \in Ends : Writes[e] \in Nat /\ \A how \in Closes[e] : how \in {"GRACEFUL", "FORCEFUL"}
    BY ChoiceAssumption
  <1>2. \A n \in Sizes : n \in Nat /\ n > 0 BY ChoiceAssumption
  <1> QED BY <1>1, <1>2, ChoiceAssumption

LEMMA ConnectIs ==
    ASSUME TcpInv, Connect
    PROVE  Dialling /\ left' = left
  <1> DEFINE x == tcp[Client]
             y == tcp[Server]
  <1>1. Pair(x, y, net[Client], net[Server])
    <2>1. Client \in Ends /\ Other(Client) = Server BY DEF Ends, Other, Client, Server
    <2> QED BY <2>1, PairIs
  <1>2. PICK result \in Results :
          After(Client, attemptSend(queueConnectMessage([x EXCEPT !.state = "SYN_SENT"]),
                                    "none", FALSE, result))
    BY DEF Connect
  <1>3. x.state = "LISTEN" /\ ~x.deleted /\ left' = left BY DEF Connect
  <1> HIDE DEF x, y
  <1> DEFINE z == attemptSend(queueConnectMessage([x EXCEPT !.state = "SYN_SENT"]),
                              "none", FALSE, result)
  <1>4. result \in {"success", "fail", "too_large"} BY Choices
  <1>5. Dials(x, y, z) BY <1>1, <1>3, <1>4, ConnectDials
  <1>6. After(Client, z) BY <1>2
  <1> HIDE DEF z
  <1> QED BY <1>3, <1>5, <1>6 DEF Dialling, x, y

LEMMA SendIs ==
    ASSUME TcpInv, NEW e \in Ends, NEW n \in Sizes, Send(e, n)
    PROVE  Sending(e) /\ left' = left
  <1> DEFINE x == tcp[e]
             y == tcp[Other(e)]
             k == Least(n, Writes[e] - x.wrote)
             q == queue(x, Bytes(x.wrote, k), FALSE)
  <1>1. Pair(x, y, net[e], net[Other(e)]) BY PairIs
  <1>2. x.state = "ESTABLISHED" /\ x.shutdown = "NONE" /\ x.wrote < Writes[e] /\ left' = left
    BY DEF Send
  <1>3. k \in Nat /\ k > 0
    <2>1. x.wrote \in Nat BY <1>1, PairFacts, Fields
    <2>2. Writes[e] \in Nat /\ n \in Nat /\ n > 0 BY Choices
    <2> DEFINE a == x.wrote
               b == Writes[e]
    <2>3. a \in Nat /\ b \in Nat /\ a < b BY <2>1, <2>2, <1>2
    <2> SUFFICES Least(n, b - a) \in Nat /\ Least(n, b - a) > 0 OBVIOUS
    <2> HIDE DEF a, b
    <2> QED BY <2>2, <2>3 DEF Least
  <1>4. CASE Len(x.sbuf) = SndBuf
    <2> DEFINE z == [x EXCEPT !.bWriteEnable = TRUE, !.writing = FALSE]
    <2>1. After(e, z) BY <1>4 DEF Send
    <2> HIDE DEF x, y
    <2>2. SendStirs(x, y, n, z) BY <1>1, <1>2, SendsNone
    <2> HIDE DEF z
    <2> QED BY <2>1, <2>2, <1>2 DEF Sending, x, y
  <1>5. CASE Len(x.sbuf) # SndBuf
    <2>1. PICK idle \in Idles, result \in Results :
            After(e, attemptSend([q EXCEPT !.wrote = @ + (Len(q.sbuf) - Len(x.sbuf))],
                                 "none", idle, result))
      BY <1>5 DEF Send, Bytes
    <2>2. idle \in BOOLEAN /\ result \in {"success", "fail", "too_large"} BY Choices
    <2>3. q.wrote = x.wrote
      <3> HIDE DEF x, y, k
      <3>1. x \in Endpoint BY <1>1, PairFacts
      <3> QED BY <3>1 DEF queue, Endpoint
    <2> DEFINE z == attemptSend(Wrote(q, Len(q.sbuf) - Len(x.sbuf)), "none", idle, result)
    <2>4. After(e, z) BY <2>1, <2>3 DEF Wrote
    <2> HIDE DEF x, y, k
    <2>5. SendStirs(x, y, k, z) BY <1>1, <1>2, <1>3, <1>5, <2>2, SendsSome
    <2> HIDE DEF z
    <2> QED BY <2>4, <2>5, <1>2 DEF Sending, x, y
  <1> QED BY <1>4, <1>5

LEMMA RecvIs ==
    ASSUME TcpInv, NEW e \in Ends, NEW n \in Sizes, Recv(e, n)
    PROVE  Reading(e) /\ left' = left
  <1> DEFINE x == tcp[e]
             y == tcp[Other(e)]
             k == Least(n, Len(x.readable))
             v == [x EXCEPT !.readable = Drop(@, k), !.got = @ + k,
                            !.ahead = @ \o [i \in 1 .. k |-> Stale]]
  <1>1. Pair(x, y, net[e], net[Other(e)]) BY PairIs
  <1>2. x.state = "ESTABLISHED" /\ x.shutdown = "NONE" /\ left' = left BY DEF Recv
  <1>3. k \in 0 .. Len(x.readable)
    <2>1. Len(x.readable) \in Nat BY <1>1, PairFacts, Fields
    <2>2. n \in Nat BY Choices
    <2> DEFINE m == Len(x.readable)
    <2>3. m \in Nat BY <2>1
    <2> SUFFICES Least(n, m) \in 0 .. m OBVIOUS
    <2> HIDE DEF m
    <2> QED BY <2>2, <2>3 DEF Least
  <1>4. CASE k = 0
    <2> DEFINE z == [x EXCEPT !.bReadEnable = TRUE, !.reading = FALSE]
    <2>1. After(e, z) BY <1>4 DEF Recv
    <2> HIDE DEF x, y, k
    <2>2. RecvStirs(x, y, z) BY <1>1, <1>2, ReadsNone
    <2> HIDE DEF z
    <2> QED BY <2>1, <2>2, <1>2 DEF Reading, x, y
  <1>5. CASE k # 0
    <2>1. PICK idle \in Idles, result \in Results :
            \/ After(e, v)
            \/ After(e, attemptSend([v EXCEPT !.rcv_wnd = Len(v.ahead)], "now", idle, result))
            \/ After(e, [v EXCEPT !.rcv_wnd = Len(v.ahead)])
      BY <1>5 DEF Recv
    <2>2. idle \in BOOLEAN /\ result \in {"success", "fail", "too_large"} BY Choices
    <2>3. v = ReadBytes(x, k)
      <3> HIDE DEF x, y, k
      <3> QED BY Zenon DEF ReadBytes, Blank
    <2>4. k \in 1 .. Len(x.readable)
      <3> HIDE DEF k
      <3> QED BY <1>3, <1>5
    <2> HIDE DEF v
    <2>5. \/ After(e, v) \/ After(e, Opened(v))
          \/ After(e, attemptSend(Opened(v), "now", idle, result))
      BY <2>1 DEF Opened
    <2>6. PICK z \in {v, Opened(v), attemptSend(Opened(v), "now", idle, result)} : After(e, z)
      BY <2>5, Zenon
    <2>7. Receives(v, idle, result, z) BY <2>6 DEF Receives
    <2> HIDE DEF x, y, k
    <2>8. RecvStirs(x, y, z)
      <3>1. Receives(ReadBytes(x, k), idle, result, z) BY <2>3, <2>7
      <3> QED BY <3>1, <1>1, <1>2, <2>2, <2>4, ReadsSome
    <2> QED BY <2>6, <2>8, <1>2 DEF Reading, x, y
  <1> QED BY <1>4, <1>5

LEMMA DeliverIs ==
    ASSUME TcpInv, NEW e \in Ends, Deliver(e) \/ DeliverCopy(e)
    PROVE  Getting(e)
  <1> DEFINE x == tcp[e]
             y == tcp[Other(e)]
  <1>1. Pair(x, y, net[e], net[Other(e)]) BY PairIs
  <1>2. PICK seg \in net[e] : \E gone \in {{}, {seg}} : \E idle \in Idles, result \in Results :
          Took(e, gone, NotifyPacket(x, seg, idle, result))
    BY DEF Deliver, DeliverCopy, After
  <1>3. PICK gone \in {{}, {seg}}, idle \in Idles, result \in Results :
          Took(e, gone, NotifyPacket(x, seg, idle, result))
    BY <1>2
  <1>4. e = Client /\ ~Overtaken => Ready(x, seg)
    <2> SUFFICES ASSUME e = Client, ~Overtaken, seg.data # <<>>, ~seg.ctl
                 PROVE  CtlLen <= x.rcv_nxt
      BY DEF Ready
    <2>1. ~(x.rcv_nxt < CtlLen) BY <1>3 DEF Overtaken
    <2>2. x.rcv_nxt \in Nat /\ CtlLen \in Nat BY <1>1, PairFacts, Fields, SizesAre
    <2> DEFINE r == x.rcv_nxt
    <2>3. r \in Nat /\ ~(r < CtlLen) BY <2>1, <2>2
    <2> SUFFICES CtlLen <= r OBVIOUS
    <2> HIDE DEF r
    <2> QED BY <2>2, <2>3
  <1>5. idle \in BOOLEAN /\ result \in {"success", "fail", "too_large"} BY Choices
  <1> DEFINE z == NotifyPacket(x, seg, idle, result)
  <1>6. Took(e, gone, z) BY <1>3
  <1> HIDE DEF x, y
  <1>7. /\ Moves(x, y, z) /\ (~x.deleted => Handles(x, Edge(y), XCuts(y), seg, z))
        /\ x.deleted => z = x
    BY <1>1, <1>5, PacketHandled
  <1> HIDE DEF z
  <1> QED BY <1>6, <1>7, <1>4 DEF Getting, x, y

LEMMA ClockIs ==
    ASSUME TcpInv, NEW e \in Ends, NEW due, NotifyClock(e, due)
    PROVE  Ticking(e) /\ left' = left
  <1> DEFINE x == tcp[e]
             y == tcp[Other(e)]
  <1>1. Pair(x, y, net[e], net[Other(e)]) BY PairIs
  <1>2. ~x.deleted /\ x.state # "CLOSED" /\ Expired(x, due) /\ left' = left BY DEF NotifyClock
  <1>3. PICK result \in Results : After(e, OnTimers(x, due, result)) BY DEF NotifyClock
  <1> DEFINE z == OnTimers(x, due, result)
  <1>4. After(e, z) BY <1>3
  <1> HIDE DEF x, y
  <1>5. Stirs(x, y, z) /\ SameApp(x, z) /\ z.shutdown = x.shutdown BY <1>1, <1>2, TimersStir
  <1> HIDE DEF z
  <1> QED BY <1>2, <1>4, <1>5 DEF Ticking, x, y

LEMMA MtuIs ==
    ASSUME TcpInv, NEW e \in Ends, NEW mtu \in Mtus, NotifyMTU(e, mtu)
    PROVE  Ticking(e) /\ left' = left
  <1> DEFINE x == tcp[e]
             y == tcp[Other(e)]
             z == Advised(x, mtu)
  <1>1. Pair(x, y, net[e], net[Other(e)]) BY PairIs
  <1>2. ~x.deleted /\ left' = left BY DEF NotifyMTU
  <1>3. After(e, z) BY DEF NotifyMTU, Advised
  <1> HIDE DEF x, y
  <1>4. Stirs(x, y, z) /\ SameApp(x, z) /\ z.shutdown = x.shutdown
    BY <1>1, <1>2, MtuStirs
  <1> HIDE DEF z
  <1> QED BY <1>2, <1>3, <1>4 DEF Ticking, x, y

LEMMA CloseIs ==
    ASSUME TcpInv, NEW e \in Ends, Close(e)
    PROVE  Closing(e) /\ left' = left
  <1> DEFINE x == tcp[e]
             y == tcp[Other(e)]
  <1>1. Pair(x, y, net[e], net[Other(e)]) BY PairIs
  <1>2. ~x.deleted /\ left' = left BY DEF Close
  <1>3. PICK how \in Closes[e] :
          /\ how = "FORCEFUL" \/ x.shutdown = "NONE"
          /\ After(e, [x EXCEPT !.shutdown = how, !.writing = FALSE, !.reading = FALSE])
    BY DEF Close
  <1>4. how \in {"GRACEFUL", "FORCEFUL"} BY Choices
  <1> DEFINE z == [x EXCEPT !.shutdown = how, !.writing = FALSE, !.reading = FALSE]
  <1>5. After(e, z) BY <1>3
  <1> HIDE DEF x, y
  <1>6. Stirs(x, y, z) /\ SameApp(x, z) /\ z.shutdown = how /\ z.state = x.state
    BY <1>1, <1>2, <1>4, CloseStirs
  <1> HIDE DEF z
  <1> QED BY <1>2, <1>3, <1>4, <1>5, <1>6 DEF Closing, x, y

LEMMA StepIs ==
    ASSUME TcpInv, Next
    PROVE  /\ Dialling \/ \E e \in Ends : Steps(e)
           /\ left' \in [{"loss", "dup"} -> Nat]
  <1>0. left \in [{"loss", "dup"} -> Nat] BY DEF TcpInv
  <1>1. CASE Connect BY <1>0, <1>1, ConnectIs
  <1>2. ASSUME NEW e \in Ends, NEW n \in Sizes, Send(e, n) PROVE Steps(e) /\ left' = left
    BY <1>2, SendIs DEF Steps
  <1>3. ASSUME NEW e \in Ends, NEW n \in Sizes, Recv(e, n) PROVE Steps(e) /\ left' = left
    BY <1>3, RecvIs DEF Steps
  <1>4. ASSUME NEW e \in Ends, Deliver(e) PROVE Steps(e) /\ left' = left
    BY <1>4, DeliverIs DEF Steps, Deliver
  <1>5. ASSUME NEW e \in Ends, DeliverCopy(e)
        PROVE  Steps(e) /\ left' \in [{"loss", "dup"} -> Nat]
    <2>1. Steps(e) BY <1>5, DeliverIs DEF Steps
    <2>2. left' = [left EXCEPT !["dup"] = left["dup"] - 1] /\ left["dup"] > 0
      BY <1>5 DEF DeliverCopy
    <2> QED BY <2>1, <2>2, <1>0
  <1>6. ASSUME NEW e \in Ends, Lose(e)
        PROVE  Steps(e) /\ left' \in [{"loss", "dup"} -> Nat]
    <2>1. Losing(e) BY <1>6 DEF Lose, Losing
    <2>2. left' = [left EXCEPT !["loss"] = left["loss"] - 1] /\ left["loss"] > 0
      BY <1>6 DEF Lose
    <2> QED BY <2>1, <2>2, <1>0 DEF Steps
  <1>7. ASSUME NEW e \in Ends, NEW mtu \in Mtus, NotifyMTU(e, mtu)
        PROVE  Steps(e) /\ left' = left
    BY <1>7, MtuIs DEF Steps
  <1>8. ASSUME NEW e \in Ends, NEW due \in SUBSET Timers, NotifyClock(e, due)
        PROVE  Steps(e) /\ left' = left
    BY <1>8, ClockIs DEF Steps
  <1>9. ASSUME NEW e \in Ends, Close(e) PROVE Steps(e) /\ left' = left
    BY <1>9, CloseIs DEF Steps
  <1> QED BY <1>0, <1>1, <1>2, <1>3, <1>4, <1>5, <1>6, <1>7, <1>8, <1>9 DEF Next

LEMMA LoseKept ==
    ASSUME TcpInv, NEW e \in Ends, Losing(e), left' \in [{"loss", "dup"} -> Nat]
    PROVE  TcpInv' /\ tcp' = tcp /\ \A f \in Ends : net'[f] \subseteq net[f]
  <1>1. PICK seg : tcp' = tcp /\ net' = [net EXCEPT ![e] = @ \ {seg}] BY DEF Losing
  <1>2. tcp \in [Ends -> Endpoint] /\ net \in [Ends -> SUBSET Packet] BY DEF TcpInv
  <1>3. net' \in [Ends -> SUBSET Packet] /\ \A f \in Ends : net'[f] \subseteq net[f]
    BY <1>1, <1>2
  <1>4. ASSUME NEW f \in Ends PROVE Half(tcp'[f], tcp'[Other(f)], net'[f])
    <2>1. Half(tcp[f], tcp[Other(f)], net[f]) BY DEF TcpInv
    <2>2. Half(tcp[f], tcp[Other(f)], net'[f]) BY <2>1, <1>3 DEF Half, Carried
    <2> QED BY <2>2, <1>1
  <1> QED BY <1>1, <1>2, <1>3, <1>4 DEF TcpInv

\* Every call is a move of its end.
CallOf(e, z) == \E gone : Took(e, gone, z) /\ Moves(tcp[e], tcp[Other(e)], z)
LEMMA StepMoves ==
    ASSUME TcpInv, NEW e \in Ends, Steps(e)
    PROVE  Losing(e) \/ \E z : CallOf(e, z)
  <1>1. CASE Sending(e)
    <2>1. PICK z : \E n : After(e, z) /\ SendStirs(tcp[e], tcp[Other(e)], n, z)
      BY <1>1 DEF Sending
    <2> QED BY <2>1 DEF After, CallOf, SendStirs, Stirs
  <1>2. CASE Reading(e)
    <2>1. PICK z : After(e, z) /\ RecvStirs(tcp[e], tcp[Other(e)], z) BY <1>2 DEF Reading
    <2> QED BY <2>1 DEF After, CallOf, RecvStirs, Stirs
  <1>3. CASE Getting(e)
    <2>1. PICK z : \E gone : Took(e, gone, z) /\ Moves(tcp[e], tcp[Other(e)], z)
      BY <1>3 DEF Getting
    <2> QED BY <2>1 DEF CallOf
  <1>4. CASE Ticking(e)
    <2>1. PICK z : After(e, z) /\ Stirs(tcp[e], tcp[Other(e)], z) BY <1>4 DEF Ticking
    <2> QED BY <2>1 DEF After, CallOf, Stirs
  <1>5. CASE Closing(e)
    <2>1. PICK z : After(e, z) /\ Stirs(tcp[e], tcp[Other(e)], z) BY <1>5 DEF Closing
    <2> QED BY <2>1 DEF After, CallOf, Stirs
  <1> QED BY <1>1, <1>2, <1>3, <1>4, <1>5 DEF Steps

LEMMA NewTcpOK ==
    /\ NewTcp \in Endpoint /\ Half(NewTcp, NewTcp, {})
  <1> DEFINE x == NewTcp
             a == [i \in 1 .. RcvBuf |-> Stale]
  <1>1. a \in Seq(Byte) /\ Len(a) = RcvBuf
    <2>1. RcvBuf \in Nat BY SizesAre
    <2>2. Stale \in Byte BY DEF Byte
    <2> QED BY <2>1, <2>2
  <1>2. /\ CtlLen \in Nat /\ CtlLen > 0 /\ Mss \in Nat /\ CtlLen <= Mss /\ RcvBuf \in Nat
        /\ RcvBuf > 0 /\ SndBuf \in Nat /\ 2 * CtlLen \in Nat /\ Scale \in Nat
    BY SizeAssumption
  <1>3. x.ahead = a BY DEF NewTcp
  <1>4. x \in Endpoint
    <2> DEFINE t == "LISTEN"
               h == "NONE"
               n == <<>>
               o == {}
               c == 2 * MinMss
               m == MinMss
    <2>1. /\ t \in TcpState /\ h \in {"NONE", "GRACEFUL", "FORCEFUL"} /\ n \in Seq(SSegment)
          /\ n \in Seq(Byte) /\ n \in Seq(RSegment) /\ o \in SUBSET Packet /\ c \in Nat /\ m \in Nat
      BY <1>2 DEF TcpState, MinMss
    <2>2. x = [state |-> t, shutdown |-> h, deleted |-> FALSE,
               snd_una |-> 0, snd_nxt |-> 0, snd_wnd |-> 1, swnd_scale |-> 1,
               slist |-> n, sbuf |-> n, rto_set |-> FALSE,
               cwnd |-> c, ssthresh |-> RcvBuf, mss |-> m,
               mtu_advise |-> Mss, dup_acks |-> 0, recover |-> 0,
               rcv_nxt |-> 0, rcv_wnd |-> RcvBuf, rlist |-> n, readable |-> n,
               ahead |-> a, ack_set |-> FALSE,
               bReadEnable |-> TRUE, bWriteEnable |-> FALSE, wrote |-> 0, got |-> 0,
               writing |-> FALSE, reading |-> FALSE, out |-> o]
      BY DEF NewTcp
    <2>3. 0 \in Nat /\ 1 \in Nat OBVIOUS
    <2> HIDE DEF t, h, n, o, c, m, a, x
    <2> QED BY <2>1, <2>2, <2>3, <1>1, <1>2, Zenon DEF Endpoint
  <1>5. /\ x.state = "LISTEN" /\ x.shutdown = "NONE" /\ x.deleted = FALSE /\ x.snd_una = 0
        /\ x.snd_nxt = 0 /\ x.snd_wnd = 1 /\ x.swnd_scale = 1 /\ x.slist = <<>> /\ x.sbuf = <<>>
        /\ x.rto_set = FALSE /\ x.cwnd = 2 * CtlLen /\ x.ssthresh = RcvBuf /\ x.mss = CtlLen
        /\ x.mtu_advise = Mss /\ x.recover = 0 /\ x.rcv_nxt = 0 /\ x.rcv_wnd = RcvBuf
        /\ x.rlist = <<>> /\ x.readable = <<>> /\ x.out = {} /\ x.wrote = 0 /\ x.got = 0
    BY DEF NewTcp, MinMss
  <1> HIDE DEF x, a
  <1>6. Edge(x) = RcvBuf /\ Total(x) = 0
    BY <1>2, <1>5 DEF Edge, Total
  <1>7. 0 \in XCuts(x) /\ \A c \in XCuts(x) : c \in Nat /\ c <= 0
    BY <1>5 DEF XCuts, Cuts
  <1>8. Tiled(x)
    <2>1. Tiling(<<>>, 0, 0, 0, 0) BY DEF Tiling, Tiles, Kinds, Bound
    <2>2. Right(<<>>, 0) BY DEF Right
    <2>3. Len(<<>>) <= SndBuf /\ 0 <= 0 BY <1>2
    <2>4. \E m : Tiling(x.slist, x.snd_una, x.snd_nxt, Total(x), m) BY <2>1, <1>5, <1>6
    <2> QED BY <2>2, <2>3, <2>4, <1>5 DEF Tiled
  <1>9. Timed(x) /\ Counted(x) BY <1>5, <1>6 DEF Timed, Counted
  <1>10. Limited(x, Edge(x)) BY <1>2, <1>5, <1>6 DEF Limited
  <1>11. Received(x, XCuts(x))
    <2>1. Len(x.readable) + Len(x.ahead) = RcvBuf /\ x.rcv_wnd <= Len(x.ahead) /\ RcvBuf <= Edge(x)
      <3>1. Len(x.readable) = 0 BY <1>5
      <3>2. Len(x.ahead) = RcvBuf /\ x.rcv_wnd = RcvBuf BY <1>1, <1>3, <1>5
      <3> QED BY <3>1, <3>2, <1>2, <1>6
    <2>2. \A c \in XCuts(x) : c <= Edge(x) BY <1>2, <1>6, <1>7
    <2>3. x.rcv_nxt \in XCuts(x) BY <1>5, <1>7
    <2>4. \A i \in 1 .. Len(x.rlist) : x.rlist[i].seq + x.rlist[i].len \in XCuts(x) BY <1>5
    <2> QED BY <2>1, <2>2, <2>3, <2>4 DEF Received
  <1>12. Tuned(x) BY <1>2, <1>5 DEF Tuned
  <1>13. Written(x, XCuts(x)) BY <1>5 DEF Written
  <1>14. OK(x, Edge(x), XCuts(x)) BY <1>4, <1>8, <1>9, <1>10, <1>11, <1>12, <1>13 DEF OK
  <1>15. Carried(x, x, {}) BY DEF Carried
  <1>16. Ended(x) BY <1>5 DEF Ended, Finished
  <1>17. Half(x, x, {}) BY <1>5, <1>14, <1>15, <1>16 DEF Half
  <1> QED BY <1>4, <1>17 DEF x

LEMMA TcpInvInit ==
    ASSUME Init
    PROVE  TcpInv
  <1>1. tcp = [e \in Ends |-> NewTcp] /\ net = [e \in Ends |-> {}] BY DEF Init
  <1>2. left = [loss |-> MaxLoss, dup |-> MaxDup] BY DEF Init
  <1>3. left \in [{"loss", "dup"} -> Nat] BY <1>2, SizeAssumption
  <1>4. tcp \in [Ends -> Endpoint] /\ net \in [Ends -> SUBSET Packet]
    <2> DEFINE n == NewTcp
    <2>1. n \in Endpoint BY NewTcpOK
    <2> HIDE DEF n
    <2>2. tcp = [e \in Ends |-> n] BY <1>1 DEF n
    <2> QED BY <2>1, <2>2, <1>1
  <1>5. ASSUME NEW e \in Ends PROVE Half(tcp[e], tcp[Other(e)], net[e])
    <2>1. Other(e) \in Ends BY EndsAre
    <2>2. tcp[e] = NewTcp /\ tcp[Other(e)] = NewTcp /\ net[e] = {} BY <2>1, <1>1
    <2> QED BY <2>2, NewTcpOK
  <1> QED BY <1>3, <1>4, <1>5 DEF TcpInv

LEMMA TcpInvNext ==
    ASSUME TcpInv, [Next]_vars
    PROVE  TcpInv'
  <1>1. CASE UNCHANGED vars BY <1>1 DEF vars, TcpInv
  <1>2. CASE Next
    <2>1. /\ Dialling \/ \E e \in Ends : Steps(e)
          /\ left' \in [{"loss", "dup"} -> Nat]
      BY <1>2, StepIs
    <2>2. CASE Dialling
      <3>1. Client \in Ends /\ Other(Client) = Server BY DEF Ends, Other, Client, Server
      <3>2. PICK z : After(Client, z) /\ Dials(tcp[Client], tcp[Server], z)
        BY <2>2 DEF Dialling
      <3>3. Moves(tcp[Client], tcp[Other(Client)], z) BY <3>1, <3>2 DEF Dials
      <3>4. Took(Client, {}, z) BY <3>2 DEF After
      <3> QED BY <2>1, <3>1, <3>3, <3>4, TookKept
    <2>3. ASSUME NEW e \in Ends, Steps(e) PROVE TcpInv'
      <3>1. CASE Losing(e) BY <2>1, <3>1, LoseKept
      <3>2. CASE \E z : CallOf(e, z)
        <4>1. PICK z, gone : Took(e, gone, z) /\ Moves(tcp[e], tcp[Other(e)], z)
          BY <3>2 DEF CallOf
        <4> QED BY <4>1, <2>1, TookKept
      <3> QED BY <3>1, <3>2, <2>3, StepMoves
    <2> QED BY <2>1, <2>2, <2>3
  <1> QED BY <1>1, <1>2

-----------------------------------------------------------------------------
(* What holds for any two ends                                             *)

LEMMA TcpInvHolds == Spec => []TcpInv
  <1>1. Init => TcpInv BY TcpInvInit
  <1>2. TcpInv /\ [Next]_vars => TcpInv' BY TcpInvNext
  <1> QED BY <1>1, <1>2, PTL DEF Spec

\* The endpoints and the packets always have their types; no counter of the
\* code (m_snd_nxt, m_rcv_wnd, ...), which are unsigned there, falls below zero.
THEOREM TypeCorrect == Spec => []TypeOK
  <1>1. TcpInv => TypeOK BY DEF TcpInv, TypeOK
  <1> QED BY <1>1, TcpInvHolds, PTL

LEMMA CountTo ==
    ASSUME NEW m \in Nat
    PROVE  Cardinality(1 .. m) = m
  <1>1. Cardinality(1 .. m) = IF 1 > m THEN 0 ELSE (m - 1) + 1 BY FS_Interval
  <1>2. (IF 1 > m THEN 0 ELSE (m - 1) + 1) = m OBVIOUS
  <1> QED BY <1>1, <1>2

LEMMA SentIs ==
    ASSUME NEW s, NEW una, NEW nxt, NEW end, NEW m, Tiling(s, una, nxt, end, m), Len(s) \in Nat,
           NEW S, S = {i \in 1 .. Len(s) : s[i].xmit > 0}
    PROVE  S = 1 .. Cardinality(S) /\ Cardinality(S) = m
  <1>1. m \in 0 .. Len(s) /\ \A i \in 1 .. Len(s) : s[i].xmit > 0 <=> i <= m BY DEF Tiling
  <1>2. S = 1 .. m BY <1>1
  <1>3. m \in Nat BY <1>1
  <1>4. Cardinality(1 .. m) = m BY <1>3, CountTo
  <1>5. Cardinality(S) = m BY <1>2, <1>4, Zenon
  <1> QED BY <1>2, <1>5

\* The segment list m_slist covers exactly the bytes of m_sbuf, in order, those
\* that have been sent before the others: process and transmit, which index the
\* buffer through it, never reach outside.
THEOREM SegmentsSound == Spec => []SegmentsTile
  <1>1. TcpInv => SegmentsTile
    <2> SUFFICES ASSUME TcpInv, NEW e \in Ends
                 PROVE LET x == tcp[e]
                           n == Len(x.slist)
                           End(i) == x.slist[i].seq + x.slist[i].len
                       IN /\ n > 0 => x.slist[1].seq = x.snd_una
                          /\ \A i \in 1 .. n : x.slist[i].len > 0
                          /\ \A i \in 1 .. n - 1 : x.slist[i + 1].seq = End(i)
                          /\ x.snd_una + Len(x.sbuf) = IF n = 0 THEN x.snd_una ELSE End(n)
                          /\ Sent(x) = 1 .. Cardinality(Sent(x))
                          /\ x.snd_nxt = IF Sent(x) = {} THEN x.snd_una
                                         ELSE End(Cardinality(Sent(x)))
      BY Zenon DEF SegmentsTile
    <2> DEFINE x == tcp[e]
               s == x.slist
               n == Len(s)
               u == x.snd_una
               S == Sent(x)
               c == Cardinality(S)
    <2>1. OK(x, Edge(tcp[Other(e)]), XCuts(tcp[Other(e)])) BY DEF TcpInv, Half
    <2>2. PICK m : Tiling(s, u, x.snd_nxt, Total(x), m) BY <2>1 DEF OK, Tiled
    <2>3. n \in Nat BY <2>1, Fields DEF OK
    <2>4. S = {i \in 1 .. Len(s) : s[i].xmit > 0} BY DEF Sent
    <2> DEFINE t == Total(x)
               q == x.snd_nxt
    <2>5. Tiling(s, u, q, t, m) BY <2>2
    <2>6. t = u + Len(x.sbuf) BY DEF Total
    <2> SUFFICES /\ n > 0 => s[1].seq = u
                 /\ \A i \in 1 .. n : s[i].len > 0
                 /\ \A i \in 1 .. n - 1 : s[i + 1].seq = s[i].seq + s[i].len
                 /\ t = IF n = 0 THEN u ELSE s[n].seq + s[n].len
                 /\ S = 1 .. c
                 /\ q = IF S = {} THEN u ELSE s[c].seq + s[c].len
      BY <2>6
    <2> HIDE DEF x, s, u, S, t, q
    <2>7. S = 1 .. c /\ c = m BY <2>3, <2>4, <2>5, SentIs
    <2> HIDE DEF c
    <2>8. /\ \A i \in 1 .. Len(s) : s[i].len > 0 /\ s[i].seq = Bound(s, u, i - 1)
          /\ t = Bound(s, u, Len(s)) /\ m \in 0 .. Len(s) /\ q = Bound(s, u, m)
      BY <2>5 DEF Tiling, Tiles
    <2>9. n > 0 => s[1].seq = u BY <2>3, <2>8 DEF Bound
    <2>10. \A i \in 1 .. n - 1 : s[i + 1].seq = s[i].seq + s[i].len
      <3> TAKE i \in 1 .. n - 1
      <3>1. i + 1 \in 1 .. Len(s) /\ (i + 1) - 1 = i /\ i # 0 BY <2>3
      <3>2. s[i + 1].seq = Bound(s, u, (i + 1) - 1) BY <3>1, <2>8
      <3> QED BY <3>1, <3>2 DEF Bound
    <2>11. t = IF n = 0 THEN u ELSE s[n].seq + s[n].len BY <2>8 DEF Bound
    <2>12. S = {} <=> c = 0 BY <2>3, <2>7, <2>8
    <2>13. q = IF S = {} THEN u ELSE s[c].seq + s[c].len BY <2>7, <2>8, <2>12 DEF Bound
    <2> QED BY <2>7, <2>8, <2>9, <2>10, <2>11, <2>13
  <1> QED BY <1>1, TcpInvHolds, PTL

\* The assertion of NotifyClock on an empty m_slist never fires: the
\* retransmission timer m_rto_base is set exactly while something sent has not
\* been acknowledged.
THEOREM TimerSound == Spec => []TimerRuns
  <1>1. TcpInv => TimerRuns BY DEF TcpInv, Half, OK, Timed, TimerRuns
  <1> QED BY <1>1, TcpInvHolds, PTL

\* A data packet on its way ends inside the window its receiver has announced,
\* however late or reordered the announcement was: process cuts nothing off and
\* m_rcv_wnd never wraps.
THEOREM WindowSound == Spec => []WindowKept
  <1>1. TcpInv => WindowKept
    <2> SUFFICES ASSUME TcpInv, NEW e \in Ends
                 PROVE  /\ tcp[e].rcv_wnd <= Len(tcp[e].ahead)
                        /\ \A seg \in net[e] : ~seg.ctl /\ seg.data # <<>> =>
                              seg.seq + Len(seg.data) <= tcp[e].rcv_nxt + tcp[e].rcv_wnd
      BY DEF WindowKept
    <2>1. Half(tcp[e], tcp[Other(e)], net[e]) BY DEF TcpInv
    <2>2. Received(tcp[e], XCuts(tcp[Other(e)])) BY <2>1 DEF Half, OK
    <2>3. ASSUME NEW seg \in net[e], seg.data # <<>>
          PROVE  seg.seq + Len(seg.data) <= tcp[e].rcv_nxt + tcp[e].rcv_wnd
      <3>1. Carries(tcp[Other(e)], seg) BY <2>1, <2>3 DEF Half, Carried, PacketOK
      <3>2. seg.seq + Len(seg.data) \in XCuts(tcp[Other(e)]) BY <3>1 DEF Carries
      <3> QED BY <3>2, <2>2 DEF Received, Edge
    <2> QED BY <2>2, <2>3 DEF Received
  <1> QED BY <1>1, TcpInvHolds, PTL

-----------------------------------------------------------------------------
(* What arrives                                                            *)

\* c calls Connect, s accepts; the packets P are on their way to c, Q to s.
\* The first bytes of a stream are the connect message, which is not stored.
Opens(c, s) ==
    /\ Total(s) # 0 => CtlLen <= s.rcv_nxt
    /\ c.state = "ESTABLISHED" \/ c.wrote # 0 => CtlLen <= s.rcv_nxt
    /\ c.state # "SYN_RECEIVED" /\ s.state # "SYN_SENT"
Whole(c, Q) == (c.snd_nxt # 0 => Unsplit(c)) /\ \A p \in Q : WholePacket(p)
\* Before the first packet nothing can happen but Connect.
Asleep(c, s, P, Q) ==
    /\ P = {} /\ Q = {} /\ s.state = "LISTEN" /\ ~c.ack_set /\ ~s.ack_set
    /\ c.snd_wnd # 0 /\ s.snd_wnd # 0 /\ c.state \in {"LISTEN", "SYN_SENT"}
    /\ c.state = "LISTEN" => c.dup_acks = 0 /\ c.cwnd >= CtlLen
Streams(c, s, P, Q) ==
    /\ Clean(s) /\ Level(c)
    /\ Opens(c, s) /\ Whole(c, Q)
    /\ c.snd_nxt = 0 => Asleep(c, s, P, Q)

LEMMA CleanAdjusted ==
    ASSUME NEW z, NEW w, Adjusts(z, w)
    PROVE  Fares(z, w)
  BY CleanSame DEF Adjusts

LEMMA TotalZero ==
    ASSUME NEW L, NEW C, NEW x, OK(x, L, C), Total(x) = 0
    PROVE  x.snd_nxt = 0 /\ x.snd_una = 0
  <1>1. x.snd_nxt \in Nat /\ x.snd_nxt <= Total(x) BY Numbers
  <1>2. x.snd_una \in Nat /\ x.snd_una \in XCuts(x) /\ \A c \in XCuts(x) : c \in Nat /\ c <= x.snd_nxt
    BY Numbers
  <1> DEFINE a == x.snd_nxt
             b == x.snd_una
  <1>3. a \in Nat /\ a <= 0 /\ b \in Nat /\ b <= a BY <1>1, <1>2
  <1> SUFFICES a = 0 /\ b = 0 OBVIOUS
  <1> HIDE DEF a, b
  <1> QED BY <1>3

LEMMA ListenIdle ==
    ASSUME NEW L, NEW C, NEW x, OK(x, L, C), x.state = "LISTEN"
    PROVE  x.snd_nxt = 0 /\ x.snd_una = 0
  <1>1. Total(x) = 0 BY DEF OK, Counted
  <1> QED BY <1>1, TotalZero

LEMMA AsleepDormant ==
    ASSUME NEW c, NEW s, NEW P, NEW Q, Pair(c, s, P, Q), Asleep(c, s, P, Q), c.snd_nxt = 0
    PROVE  Dormant(c) /\ Dormant(s)
  <1>1. OK(c, Edge(s), XCuts(s)) BY PairFacts
  <1>2. OK(s, Edge(c), XCuts(c)) BY DEF Pair, Half
  <1>3. s.snd_nxt = 0 /\ s.snd_una = 0 BY <1>2, ListenIdle DEF Asleep
  <1>4. c.snd_una = 0
    <2>1. c.snd_una \in Nat /\ c.snd_una \in XCuts(c) /\ \A k \in XCuts(c) : k \in Nat /\ k <= c.snd_nxt
      BY <1>1, Numbers
    <2>2. c.snd_una <= 0 BY <2>1
    <2> DEFINE a == c.snd_una
    <2>3. a \in Nat /\ a <= 0 BY <2>1, <2>2
    <2> SUFFICES a = 0 OBVIOUS
    <2> HIDE DEF a
    <2> QED BY <2>3
  <1>5. Dormant(c) BY <1>4 DEF Asleep, Dormant
  <1>6. Dormant(s) BY <1>3 DEF Asleep, Dormant
  <1> QED BY <1>5, <1>6

LEMMA PairSwap ==
    ASSUME NEW x, NEW y, NEW P, NEW Q, Pair(x, y, P, Q)
    PROVE  Pair(y, x, Q, P)
  BY DEF Pair

LEMMA StillZero ==
    ASSUME NEW a \in Nat, NEW b \in Nat, a <= b
    PROVE  b = 0 => a = 0
  OBVIOUS

LEMMA UnsplitAdjusted ==
    ASSUME NEW z, NEW w, Adjusts(z, w), Unsplit(z)
    PROVE  Unsplit(w)
  BY DEF Adjusts, Unsplit

LEMMA ClientStirs ==
    ASSUME NEW c, NEW s, NEW P, NEW Q, Pair(c, s, P, Q), Streams(c, s, P, Q),
           NEW z, Stirs(c, s, z), z.wrote # c.wrote => c.state = "ESTABLISHED",
           NEW w, Adjusts(z, w), NEW G, G \subseteq P, NEW H, H \subseteq Q \cup z.out
    PROVE  Streams(w, s, G, H)
  <1>1. Clean(s) /\ Level(c) /\ Opens(c, s) /\ Whole(c, Q)
    BY DEF Streams
  <1>2. w.state = z.state /\ w.wrote = z.wrote /\ w.snd_nxt = z.snd_nxt BY DEF Adjusts
  <1>3. Level(w) BY <1>1, CleanAdjusted DEF Stirs, Fares
  <1>4. Opens(w, s)
    <2>1. w.state = c.state \/ w.state = "CLOSED" BY <1>2 DEF Stirs
    <2> QED BY <2>1, <1>1, <1>2 DEF Opens
  <1>5. c.snd_nxt \in Nat /\ z.snd_nxt \in Nat
    <2>1. c \in Endpoint /\ z \in Endpoint BY PairFacts DEF Stirs, Moves, OK
    <2> QED BY <2>1, Fields
  <1>6. CASE c.snd_nxt # 0
    <2>1. z.snd_nxt # 0 BY <1>5, <1>6, StillZero DEF Stirs
    <2>2. Unsplit(z) BY <1>1, <1>6 DEF Stirs, Whole
    <2>3. Unsplit(w) BY <2>2, UnsplitAdjusted
    <2>4. \A p \in H : WholePacket(p) BY <2>2, <1>1 DEF Unsplit, Whole
    <2> QED BY <2>1, <2>3, <2>4, <1>1, <1>2, <1>3, <1>4 DEF Streams, Whole
  <1>7. CASE c.snd_nxt = 0
    <2>1. Asleep(c, s, P, Q) BY <1>7 DEF Streams
    <2>2. Rests(c, z) BY <2>1, <1>7, AsleepDormant DEF Stirs
    <2>3. c.out = {} BY PairFacts
    <2>4. G = {} /\ H = {} BY <2>1, <2>2, <2>3 DEF Asleep, Rests
    <2>5. w.snd_nxt = 0 BY <2>2, <1>2, <1>7 DEF Rests
    <2>6. /\ w.ack_set = c.ack_set /\ w.snd_wnd = c.snd_wnd /\ w.state = c.state
          /\ w.dup_acks = c.dup_acks /\ w.cwnd = c.cwnd
      BY <2>2 DEF Rests, Adjusts
    <2>7. Asleep(w, s, G, H) BY <2>1, <2>4, <2>6 DEF Asleep
    <2>8. Whole(w, H) BY <2>4, <2>5 DEF Whole
    <2> QED BY <2>7, <2>8, <1>1, <1>3, <1>4 DEF Streams
  <1> QED BY <1>6, <1>7

LEMMA GrowsPast ==
    ASSUME NEW k \in Nat, NEW x \in Endpoint, NEW z \in Endpoint, Grows(x, z), k <= x.rcv_nxt
    PROVE  k <= z.rcv_nxt
  <1> DEFINE a == x.rcv_nxt
             b == z.rcv_nxt
  <1>1. a \in Nat /\ b \in Nat /\ a <= b /\ k <= a BY Fields DEF Grows
  <1> SUFFICES k <= b OBVIOUS
  <1> HIDE DEF a, b
  <1> QED BY <1>1

LEMMA ServerStirs ==
    ASSUME NEW c, NEW s, NEW P, NEW Q, Pair(c, s, P, Q), Streams(c, s, P, Q),
           NEW z, Stirs(s, c, z),
           NEW w, Adjusts(z, w), NEW G, G \subseteq P \cup z.out, NEW H, H \subseteq Q
    PROVE  Streams(c, w, G, H)
  <1>1. Clean(s) /\ Level(c) /\ Opens(c, s) /\ Whole(c, Q)
    BY DEF Streams
  <1>2. /\ w.state = z.state /\ w.wrote = z.wrote /\ w.rcv_nxt = z.rcv_nxt
        /\ w.snd_una = z.snd_una /\ w.sbuf = z.sbuf
    BY DEF Adjusts, SameInbox
  <1>3. Clean(w) BY <1>1, CleanAdjusted DEF Stirs, Fares
  <1>4. Pair(s, c, Q, P) BY PairSwap
  <1>5. s \in Endpoint /\ OK(s, Edge(c), XCuts(c)) /\ s.out = {} BY <1>4, PairFacts
  <1>6. z \in Endpoint /\ Grows(s, z) BY DEF Stirs, Moves, OK
  <1>7. CtlLen <= s.rcv_nxt => CtlLen <= w.rcv_nxt
    <2>1. CtlLen \in Nat BY SizesAre
    <2> QED BY <2>1, <1>2, <1>5, <1>6, GrowsPast
  <1>8. Total(w) # 0 => Total(s) # 0
    <2>1. Total(w) = Total(z) BY <1>2 DEF Total
    <2>2. CASE s.state = "ESTABLISHED"
      <3>1. Total(s) = CtlLen + s.wrote BY <2>2, <1>5 DEF OK, Counted
      <3>2. s.wrote \in Nat BY <1>5, Fields
      <3> DEFINE a == s.wrote
      <3>3. a \in Nat BY <3>2
      <3> HIDE DEF a
      <3>4. CtlLen + a # 0 BY <3>3, SizesAre
      <3> QED BY <3>1, <3>4 DEF a
    <2>3. CASE s.state # "ESTABLISHED" BY <2>1, <2>3 DEF Stirs
    <2> QED BY <2>2, <2>3
  <1>9. Opens(c, w)
    <2>1. w.state = s.state \/ w.state = "CLOSED" BY <1>2 DEF Stirs
    <2> QED BY <2>1, <1>1, <1>7, <1>8 DEF Opens
  <1>10. Whole(c, H) BY <1>1 DEF Whole
  <1>12. ASSUME c.snd_nxt = 0 PROVE Asleep(c, w, G, H)
    <2>1. Asleep(c, s, P, Q) BY <1>12 DEF Streams
    <2>2. Rests(s, z) BY <2>1, <1>12, AsleepDormant DEF Stirs
    <2>3. G = {} /\ H = {} BY <2>1, <2>2, <1>5 DEF Asleep, Rests
    <2>4. w.ack_set = s.ack_set /\ w.snd_wnd = s.snd_wnd /\ w.state = s.state
      BY <2>2 DEF Rests, Adjusts
    <2> QED BY <2>1, <2>3, <2>4 DEF Asleep
  <1> QED BY <1>1, <1>3, <1>9, <1>10, <1>12 DEF Streams

\* A data packet shows how much its sender has to send.
LEMMA CarriesSome ==
    ASSUME NEW L, NEW C, NEW x, OK(x, L, C), NEW p \in Packet, Carries(x, p), p.data # <<>>
    PROVE  /\ Total(x) # 0
           /\ ~p.ctl => x.wrote # 0
  <1> DEFINE t == Total(x)
             n == Len(p.data)
             q == p.seq
             e == x.snd_nxt
             w == x.wrote
  <1>1. t \in Nat /\ e \in Nat /\ e <= t /\ \A c \in XCuts(x) : c \in Nat /\ c <= e BY Numbers
  <1>2. n \in Nat /\ n > 0 BY PacketFields
  <1>3. q \in Nat /\ q + n \in XCuts(x) /\ (~p.ctl => ~(q < CtlLen)) BY DEF Carries
  <1>4. q + n <= e BY <1>1, <1>3
  <1>5. t = CtlLen + w \/ t = 0 BY DEF OK, Counted
  <1>6. w \in Nat BY Fields DEF OK
  <1>7. t > 0
    <2> HIDE DEF t, n, q, e, w
    <2> QED BY <1>1, <1>2, <1>3, <1>4
  <1>8. ASSUME ~p.ctl PROVE w # 0
    <2>1. ~(q < CtlLen) BY <1>3, <1>8
    <2> HIDE DEF t, n, q, e, w
    <2> QED BY <2>1, <1>1, <1>2, <1>3, <1>4, <1>5, <1>6, <1>7, SizesAre
  <1> QED BY <1>1, <1>7, <1>8

LEMMA PacketHolds ==
    ASSUME NEW x, NEW y, NEW P, NEW Q, Pair(x, y, P, Q), NEW seg \in P
    PROVE  /\ seg.ctl => Total(y) # 0
           /\ seg.data # <<>> /\ ~seg.ctl => y.wrote # 0
  <1>1. PacketOK(y, seg, XCuts(x)) BY DEF Pair, Half, Carried
  <1>2. OK(y, Edge(x), XCuts(x)) BY DEF Pair, Half
  <1>3. seg \in Packet /\ (seg.data # <<>> => Carries(y, seg)) /\ (seg.data = <<>> => ~seg.ctl)
    BY <1>1 DEF PacketOK
  <1>4. CASE seg.data = <<>> BY <1>3, <1>4
  <1>5. CASE seg.data # <<>>
    <2>1. Total(y) # 0 /\ (~seg.ctl => y.wrote # 0) BY <1>2, <1>3, <1>5, CarriesSome
    <2> QED BY <2>1
  <1> QED BY <1>4, <1>5

LEMMA ClientGets ==
    ASSUME NEW c, NEW s, NEW P, NEW Q, Pair(c, s, P, Q), Streams(c, s, P, Q), NEW seg \in P,
           NEW z, Handles(c, Edge(s), XCuts(s), seg, z),
           NEW w, Adjusts(z, w), NEW G, G \subseteq P, NEW H, H \subseteq Q \cup z.out
    PROVE  Streams(w, s, G, H)
  <1>1. Clean(s) /\ Level(c) /\ Opens(c, s) /\ Whole(c, Q)
    BY DEF Streams
  <1>2. w.state = z.state /\ w.wrote = z.wrote /\ w.snd_nxt = z.snd_nxt BY DEF Adjusts
  <1>3. c.snd_nxt # 0 BY DEF Streams, Asleep
  <1>4. OK(c, Edge(s), XCuts(s)) /\ c \in Endpoint BY PairFacts
  <1>5. c.state # "LISTEN" BY <1>3, <1>4, ListenIdle
  <1>6. seg.ctl => Total(s) # 0 BY PacketHolds
  <1>8. Level(w)
    <2>1. Level(z) BY <1>1 DEF Handles
    <2> QED BY <2>1, CleanAdjusted DEF Fares
  <1>9. Opens(w, s)
    <2>1. Reaches(c, seg, z) /\ z.wrote = c.wrote BY DEF Handles
    <2>2. \/ z.state = c.state \/ z.state = "CLOSED"
          \/ z.state = "ESTABLISHED" /\ CtlLen <= s.rcv_nxt
      BY <2>1, <1>1, <1>5, <1>6 DEF Reaches, Opens
    <2> QED BY <2>1, <2>2, <1>1, <1>2 DEF Opens
  <1>10. Unsplit(z)
    <2>1. Unsplit(c) BY <1>1, <1>3 DEF Whole
    <2> QED BY <2>1, <1>5 DEF Handles
  <1>11. Whole(w, H)
    <2>1. Unsplit(w) BY <1>10, UnsplitAdjusted
    <2> QED BY <2>1, <1>10, <1>1 DEF Whole, Unsplit
  <1>12. w.snd_nxt # 0
    <2>1. c.snd_nxt <= z.snd_nxt /\ z \in Endpoint BY DEF Handles, OK
    <2>2. c.snd_nxt \in Nat /\ z.snd_nxt \in Nat BY <2>1, <1>4, Fields
    <2> QED BY <2>1, <2>2, <1>2, <1>3, StillZero
  <1> QED BY <1>1, <1>8, <1>9, <1>11, <1>12 DEF Streams

LEMMA ServerGets ==
    ASSUME NEW c, NEW s, NEW P, NEW Q, Pair(c, s, P, Q), Streams(c, s, P, Q), NEW seg \in Q,
           NEW z, Handles(s, Edge(c), XCuts(c), seg, z),
           NEW w, Adjusts(z, w), NEW G, NEW H, H \subseteq Q
    PROVE  Streams(c, w, G, H)
  <1>1. Clean(s) /\ Level(c) /\ Opens(c, s) /\ Whole(c, Q)
    BY DEF Streams
  <1>2. /\ w.state = z.state /\ w.wrote = z.wrote /\ w.rcv_nxt = z.rcv_nxt
        /\ w.snd_una = z.snd_una /\ w.sbuf = z.sbuf
    BY DEF Adjusts, SameInbox
  <1>3. c.snd_nxt # 0 BY DEF Streams, Asleep
  <1>4. Pair(s, c, Q, P) BY PairSwap
  <1>5. s \in Endpoint /\ OK(s, Edge(c), XCuts(c)) BY <1>4, PairFacts
  <1>6. z \in Endpoint /\ Grows(s, z) BY DEF Handles, OK
  <1>7. CtlLen <= s.rcv_nxt => CtlLen <= z.rcv_nxt
    <2>1. CtlLen \in Nat BY SizesAre
    <2> QED BY <2>1, <1>5, <1>6, GrowsPast
  <1>8. Clean(w)
    <2>1. seg.data # <<>> /\ ~seg.ctl => c.wrote # 0 BY <1>4, PacketHolds
    <2>2. Ready(s, seg) BY <2>1, <1>1 DEF Ready, Opens
    <2>3. Clean(z) BY <2>2, <1>1 DEF Handles
    <2> QED BY <2>3, CleanAdjusted DEF Fares
  <1>9. Opens(c, w)
    <2>1. w.state # "SYN_SENT" BY <1>1, <1>2 DEF Handles, Reaches, Opens
    <2>2. Total(w) = Total(z) BY <1>2 DEF Total
    <2>3. WholePacket(seg) BY <1>1 DEF Whole
    <2>4. Total(z) # 0 => CtlLen <= z.rcv_nxt
      <3>1. CASE s.state = "LISTEN" /\ seg.ctl BY <2>3, <3>1 DEF Handles
      <3>2. CASE s.state # "LISTEN" \/ ~seg.ctl
        <4>1. Total(z) = Total(s) BY <3>2 DEF Handles
        <4> QED BY <4>1, <1>1, <1>7 DEF Opens
      <3> QED BY <3>1, <3>2
    <2> QED BY <2>1, <2>2, <2>4, <1>1, <1>2, <1>7 DEF Opens
  <1>11. Whole(c, H) BY <1>1 DEF Whole
  <1> QED BY <1>1, <1>3, <1>8, <1>9, <1>11 DEF Streams

LEMMA ClientDials ==
    ASSUME NEW c, NEW s, NEW P, NEW Q, Pair(c, s, P, Q), Streams(c, s, P, Q),
           c.state = "LISTEN", NEW z, Dials(c, s, z),
           NEW w, Adjusts(z, w), NEW G, G \subseteq P, NEW H, H \subseteq Q \cup z.out
    PROVE  Streams(w, s, G, H)
  <1>1. Clean(s) /\ Level(c) /\ Opens(c, s) BY DEF Streams
  <1>2. /\ w.state = z.state /\ w.wrote = z.wrote /\ w.snd_nxt = z.snd_nxt
        /\ w.ack_set = z.ack_set /\ w.snd_wnd = z.snd_wnd
    BY DEF Adjusts
  <1>3. OK(c, Edge(s), XCuts(s)) BY PairFacts
  <1>4. c.snd_nxt = 0 BY <1>3, ListenIdle
  <1>5. Asleep(c, s, P, Q) BY <1>4 DEF Streams
  <1>6. /\ z.snd_nxt # 0 => Unsplit(z)
        /\ z.snd_nxt = 0 => z.out = {} /\ (z.ack_set => c.ack_set) /\ z.snd_wnd # 0
    BY <1>5 DEF Asleep, Dials
  <1>7. Level(w) BY <1>1, CleanAdjusted DEF Dials, Fares
  <1>8. Opens(w, s) BY <1>1, <1>2 DEF Dials, SameApp, Opens
  <1>9. P = {} /\ Q = {} BY <1>5 DEF Asleep
  <1>10. CASE z.snd_nxt # 0
    <2>1. Unsplit(w) BY <1>6, <1>10, UnsplitAdjusted
    <2>2. \A p \in H : WholePacket(p) BY <1>6, <1>9, <1>10 DEF Unsplit
    <2> QED BY <2>1, <2>2, <1>1, <1>2, <1>7, <1>8, <1>10 DEF Streams, Whole
  <1>11. CASE z.snd_nxt = 0
    <2>1. G = {} /\ H = {} BY <1>6, <1>9, <1>11
    <2>2. w.state = "SYN_SENT" BY <1>2 DEF Dials
    <2>3. Asleep(w, s, G, H) BY <2>1, <2>2, <1>2, <1>5, <1>6, <1>11 DEF Asleep
    <2>4. Whole(w, H) BY <2>1, <1>2, <1>11 DEF Whole
    <2> QED BY <2>3, <2>4, <1>1, <1>7, <1>8 DEF Streams
  <1> QED BY <1>10, <1>11

LEMMA StirsSame ==
    ASSUME NEW x, NEW y, NEW P, NEW Q, Pair(x, y, P, Q), Moves(x, y, x)
    PROVE  Stirs(x, y, x)
  <1>1. x.snd_nxt \in Nat BY PairFacts, Fields
  <1>2. x.snd_nxt <= x.snd_nxt BY <1>1
  <1> QED BY <1>2 DEF Stirs, Rests, Fares

\* Every call but Connect, as the streams see it.
Acts(e) ==
    \E z : \E gone :
        /\ Took(e, gone, z) /\ z \in Endpoint
        /\ \/ /\ Stirs(tcp[e], tcp[Other(e)], z)
              /\ z.wrote # tcp[e].wrote => tcp[e].state = "ESTABLISHED"
           \/ \E seg \in net[e] :
                Handles(tcp[e], Edge(tcp[Other(e)]), XCuts(tcp[Other(e)]), seg, z)

LEMMA StepActs ==
    ASSUME TcpInv, NEW e \in Ends, Steps(e)
    PROVE  Losing(e) \/ Acts(e)
  <1> DEFINE x == tcp[e]
             y == tcp[Other(e)]
  <1>0. Pair(x, y, net[e], net[Other(e)]) BY PairIs
  <1>1. \A z : Stirs(x, y, z) => z \in Endpoint BY DEF Stirs, Moves, OK
  <1>2. CASE Sending(e)
    <2>1. PICK z, n : After(e, z) /\ SendStirs(x, y, n, z) BY <1>2 DEF Sending
    <2>3. Took(e, {}, z) /\ Stirs(x, y, z) /\ x.state = "ESTABLISHED"
      BY <2>1, <1>2 DEF After, SendStirs, Sending
    <2> QED BY <2>3, <1>1 DEF Acts
  <1>3. CASE Reading(e)
    <2>1. PICK z : After(e, z) /\ RecvStirs(x, y, z) BY <1>3 DEF Reading
    <2>2. Took(e, {}, z) /\ Stirs(x, y, z) /\ z.wrote = x.wrote BY <2>1 DEF After, RecvStirs
    <2> QED BY <2>2, <1>1 DEF Acts
  <1>4. CASE Getting(e)
    <2>0. PICK seg \in net[e] : \E z, gone :
            /\ Took(e, gone, z) /\ Moves(x, y, z)
            /\ ~x.deleted => Handles(x, Edge(y), XCuts(y), seg, z)
            /\ x.deleted => z = x
      BY <1>4 DEF Getting
    <2>1. PICK z, gone :
            /\ Took(e, gone, z) /\ Moves(x, y, z)
            /\ ~x.deleted => Handles(x, Edge(y), XCuts(y), seg, z)
            /\ x.deleted => z = x
      BY <2>0
    <2>2. z \in Endpoint BY <2>1 DEF Moves, OK
    <2>3. CASE ~x.deleted BY <2>1, <2>2, <2>3 DEF Acts
    <2>4. CASE x.deleted
      <3>1. z = x /\ Moves(x, y, x) BY <2>1, <2>4
      <3>2. Stirs(x, y, x) BY <3>1, <1>0, StirsSame
      <3>3. Stirs(x, y, z) /\ z.wrote = x.wrote BY <3>1, <3>2
      <3> QED BY <2>1, <2>2, <3>3 DEF Acts
    <2> QED BY <2>3, <2>4
  <1>5. CASE Ticking(e)
    <2>1. PICK z : After(e, z) /\ Stirs(x, y, z) /\ SameApp(x, z) BY <1>5 DEF Ticking
    <2>2. Took(e, {}, z) /\ z.wrote = x.wrote BY <2>1 DEF After, SameApp
    <2> QED BY <2>1, <2>2, <1>1 DEF Acts
  <1>6. CASE Closing(e)
    <2>1. PICK z : After(e, z) /\ Stirs(x, y, z) /\ SameApp(x, z) BY <1>6 DEF Closing
    <2>2. Took(e, {}, z) /\ z.wrote = x.wrote BY <2>1 DEF After, SameApp
    <2> QED BY <2>1, <2>2, <1>1 DEF Acts
  <1> QED BY <1>2, <1>3, <1>4, <1>5, <1>6 DEF Steps

StreamInv == TcpInv /\ Streams(tcp[Client], tcp[Server], net[Client], net[Server])

LEMMA TheEnds ==
    /\ Client \in Ends /\ Server \in Ends /\ Other(Client) = Server /\ Other(Server) = Client
    /\ Client # Server /\ \A e \in Ends : e = Client \/ e = Server
  BY DEF Ends, Other, Client, Server

LEMMA ActsKept ==
    ASSUME StreamInv, NEW e \in Ends, Acts(e)
    PROVE  Streams(tcp'[Client], tcp'[Server], net'[Client], net'[Server])
  <1> DEFINE c == tcp[Client]
             s == tcp[Server]
             P == net[Client]
             Q == net[Server]
  <1>0. TcpInv /\ Streams(c, s, P, Q) BY DEF StreamInv
  <1>1. Pair(c, s, P, Q) BY <1>0, TheEnds, PairIs
  <1>2. CASE e = Client
    <2>1. PICK z, gone :
            /\ Took(Client, gone, z) /\ z \in Endpoint
            /\ \/ /\ Stirs(c, s, z)
                  /\ z.wrote # c.wrote => c.state = "ESTABLISHED"
               \/ \E seg \in P : Handles(c, Edge(s), XCuts(s), seg, z)
      BY <1>2, TheEnds DEF Acts
    <2> DEFINE w == AdjustClock(z)
    <2>2. /\ tcp'[Client] = w /\ tcp'[Server] = s
          /\ net'[Client] = P \ gone /\ net'[Server] = Q \cup z.out
      BY <2>1, <1>0, TheEnds, TookIs
    <2>3. Adjusts(z, w) BY <2>1, AdjustClockIs
    <2> DEFINE G == P \ gone
               H == Q \cup z.out
    <2>4. G \subseteq P /\ H \subseteq Q \cup z.out OBVIOUS
    <2>5. Streams(w, s, G, H)
      <3> HIDE DEF w, G, H, c, s, P, Q
      <3>1. CASE Stirs(c, s, z) /\ (z.wrote # c.wrote => c.state = "ESTABLISHED")
        BY <3>1, <1>0, <1>1, <2>3, <2>4, ClientStirs
      <3>2. CASE \E seg \in P : Handles(c, Edge(s), XCuts(s), seg, z)
        <4>1. PICK seg \in P : Handles(c, Edge(s), XCuts(s), seg, z) BY <3>2
        <4> QED BY <4>1, <1>0, <1>1, <2>3, <2>4, ClientGets
      <3> QED BY <2>1, <3>1, <3>2
    <2> QED BY <2>2, <2>5
  <1>3. CASE e = Server
    <2>1. PICK z, gone :
            /\ Took(Server, gone, z) /\ z \in Endpoint
            /\ \/ Stirs(s, c, z)
               \/ \E seg \in Q : Handles(s, Edge(c), XCuts(c), seg, z)
      BY <1>3, TheEnds DEF Acts
    <2> DEFINE w == AdjustClock(z)
    <2>2. /\ tcp'[Server] = w /\ tcp'[Client] = c
          /\ net'[Server] = Q \ gone /\ net'[Client] = P \cup z.out
      BY <2>1, <1>0, TheEnds, TookIs
    <2>3. Adjusts(z, w) BY <2>1, AdjustClockIs
    <2> DEFINE H == Q \ gone
               G == P \cup z.out
    <2>4. H \subseteq Q /\ G \subseteq P \cup z.out OBVIOUS
    <2>5. Streams(c, w, G, H)
      <3> HIDE DEF w, G, H, c, s, P, Q
      <3>1. CASE Stirs(s, c, z)
        BY <3>1, <1>0, <1>1, <2>3, <2>4, ServerStirs
      <3>2. CASE \E seg \in Q : Handles(s, Edge(c), XCuts(c), seg, z)
        <4>1. PICK seg \in Q : Handles(s, Edge(c), XCuts(c), seg, z) BY <3>2
        <4> QED BY <4>1, <1>0, <1>1, <2>3, <2>4, ServerGets
      <3> QED BY <2>1, <3>1, <3>2
    <2> QED BY <2>2, <2>5
  <1> QED BY <1>2, <1>3, TheEnds

LEMMA ConnectKept ==
    ASSUME StreamInv, Dialling
    PROVE  Streams(tcp'[Client], tcp'[Server], net'[Client], net'[Server])
  <1> DEFINE c == tcp[Client]
             s == tcp[Server]
             P == net[Client]
             Q == net[Server]
  <1>0. TcpInv /\ Streams(c, s, P, Q) BY DEF StreamInv
  <1>1. Pair(c, s, P, Q) BY <1>0, TheEnds, PairIs
  <1>2. PICK z : Took(Client, {}, z) /\ Dials(c, s, z) BY DEF Dialling, After
  <1>3. z \in Endpoint BY <1>2 DEF Dials, Moves, OK
  <1> DEFINE w == AdjustClock(z)
             G == P \ {}
             H == Q \cup z.out
  <1>4. /\ tcp'[Client] = w /\ tcp'[Server] = s /\ net'[Client] = G /\ net'[Server] = H
    BY <1>0, <1>2, <1>3, TheEnds, TookIs
  <1>5. Adjusts(z, w) BY <1>3, AdjustClockIs
  <1>6. G \subseteq P /\ H \subseteq Q \cup z.out OBVIOUS
  <1>7. c.state = "LISTEN" BY DEF Dialling
  <1>8. Streams(w, s, G, H)
    <2> HIDE DEF w, G, H, c, s, P, Q
    <2> QED BY <1>0, <1>1, <1>2, <1>5, <1>6, <1>7, ClientDials
  <1> QED BY <1>4, <1>8

LEMMA StreamInvInit ==
    ASSUME Init
    PROVE  StreamInv
  <1>1. TcpInv BY TcpInvInit
  <1> DEFINE x == NewTcp
  <1>2. /\ tcp[Client] = x /\ tcp[Server] = x /\ net[Client] = {} /\ net[Server] = {}
    BY TheEnds DEF Init
  <1>3. /\ x.state = "LISTEN" /\ x.shutdown = "NONE" /\ x.snd_una = 0 /\ x.snd_nxt = 0
        /\ x.snd_wnd = 1 /\ x.sbuf = <<>> /\ x.cwnd = 2 * CtlLen /\ x.rcv_nxt = 0
        /\ x.rlist = <<>> /\ x.readable = <<>> /\ x.got = 0 /\ x.wrote = 0
        /\ ~x.ack_set /\ x.dup_acks = 0
    BY DEF NewTcp, MinMss
  <1> HIDE DEF x
  <1>4. CtlLen \in Nat /\ CtlLen > 0 BY SizesAre
  <1>5. Total(x) = 0 BY <1>3 DEF Total
  <1>6. Arrived(x) = 0 BY <1>3 DEF Arrived
  <1>7. Clean(x)
    <2>1. InStep(x) BY <1>3, <1>4, <1>6 DEF InStep
    <2>2. InPlace(x) BY <1>3 DEF InPlace
    <2>3. \A i \in 1 .. Len(x.readable) : x.readable[i] = x.got + i BY <1>3
    <2> QED BY <2>1, <2>2, <2>3, <1>6 DEF Clean
  <1>8. Opens(x, x) BY <1>3, <1>5 DEF Opens
  <1>9. Whole(x, {}) BY <1>3 DEF Whole
  <1>10. 2 * CtlLen >= CtlLen BY <1>4
  <1>11. Asleep(x, x, {}, {}) BY <1>3, <1>10 DEF Asleep
  <1>12. Level(x) BY <1>7, CleanLevel
  <1> QED BY <1>1, <1>2, <1>7, <1>8, <1>9, <1>11, <1>12 DEF StreamInv, Streams

LEMMA StreamInvNext ==
    ASSUME StreamInv, [Next]_vars
    PROVE  StreamInv'
  <1>0. TcpInv /\ Streams(tcp[Client], tcp[Server], net[Client], net[Server]) BY DEF StreamInv
  <1>1. TcpInv' BY <1>0, TcpInvNext
  <1>2. CASE UNCHANGED vars BY <1>0, <1>1, <1>2 DEF vars, StreamInv
  <1>3. CASE Next
    <2>1. /\ Dialling \/ \E e \in Ends : Steps(e)
          /\ left' \in [{"loss", "dup"} -> Nat]
      BY <1>0, <1>3, StepIs
    <2>2. CASE Dialling BY <1>1, <2>2, ConnectKept DEF StreamInv
    <2>3. ASSUME NEW e \in Ends, Steps(e) PROVE StreamInv'
      <3>1. CASE Losing(e)
        <4>1. tcp' = tcp /\ \A f \in Ends : net'[f] \subseteq net[f] BY <1>0, <2>1, <3>1, LoseKept
        <4>2. net'[Client] \subseteq net[Client] /\ net'[Server] \subseteq net[Server]
          BY <4>1, TheEnds
        <4>3. Streams(tcp[Client], tcp[Server], net'[Client], net'[Server])
          BY <4>2, <1>0 DEF Streams, Whole, Asleep
        <4> QED BY <4>1, <4>3, <1>1 DEF StreamInv
      <3>2. CASE Acts(e) BY <1>1, <3>2, ActsKept DEF StreamInv
      <3> QED BY <3>1, <3>2, <2>3, <1>0, StepActs
    <2> QED BY <2>1, <2>2, <2>3
  <1> QED BY <1>2, <1>3

LEMMA StreamInvHolds == Spec => []StreamInv
  <1>1. Init => StreamInv BY StreamInvInit
  <1>2. StreamInv /\ [Next]_vars => StreamInv' BY StreamInvNext
  <1> QED BY <1>1, <1>2, PTL DEF Spec

\* x has been sent no more than y wrote, and lacks nothing that y has forgotten.
LEMMA ArrivedBounds ==
    ASSUME NEW x, NEW y, NEW P, NEW Q, Pair(x, y, P, Q), Level(x)
    PROVE  /\ Arrived(x) \in Nat /\ Arrived(x) <= y.wrote
           /\ x.shutdown = "NONE" /\ Total(y) = CtlLen + y.wrote =>
                y.wrote - Arrived(x) <= Len(y.sbuf)
  <1> DEFINE a == Arrived(x)
             r == x.rcv_nxt
             n == y.snd_nxt
             t == Total(y)
             w == y.wrote
             u == y.snd_una
             b == Len(y.sbuf)
  <1>0. OK(x, Edge(y), XCuts(y)) /\ OK(y, Edge(x), XCuts(x)) BY DEF Pair, Half
  <1>1. x \in Endpoint /\ y \in Endpoint BY <1>0 DEF OK
  <1>2. a \in Nat
    <2>1. x.got \in Nat /\ Len(x.readable) \in Nat BY <1>1, Fields
    <2> QED BY <2>1 DEF Arrived
  <1>3. r \in Nat /\ w \in Nat /\ u \in Nat /\ b \in Nat BY <1>1, Fields
  <1>4. n \in Nat /\ t \in Nat /\ n <= t /\ \A c \in XCuts(y) : c \in Nat /\ c <= n
    BY <1>0, Numbers
  <1>5. r <= n BY <1>0, <1>4 DEF OK, Received
  <1>6. t = CtlLen + w \/ (t = 0 /\ w = 0) BY <1>0 DEF OK, Counted
  <1>7. a = 0 \/ CtlLen + a <= r BY DEF Level
  <1>8. u <= r BY DEF Pair, Half
  <1>9. t = u + b BY DEF Total
  <1>10. x.shutdown = "NONE" => r = CtlLen + a \/ (r < CtlLen /\ a = 0) BY DEF Level
  <1>11. CtlLen \in Nat /\ CtlLen > 0 BY SizesAre
  <1>12. a <= w
    <2> HIDE DEF a, r, n, t, w, u, b
    <2> QED BY <1>2, <1>3, <1>4, <1>5, <1>6, <1>7, <1>11
  <1>13. ASSUME x.shutdown = "NONE", t = CtlLen + w PROVE w - a <= b
    <2>1. r = CtlLen + a \/ (r < CtlLen /\ a = 0) BY <1>10, <1>13
    <2>2. t = CtlLen + w BY <1>13
    <2> HIDE DEF a, r, n, t, w, u, b
    <2> QED BY <2>1, <2>2, <1>2, <1>3, <1>4, <1>8, <1>9, <1>11
  <1> QED BY <1>2, <1>12, <1>13

\* What end e can read is what the other one wrote.
ReadsRight(e) ==
    /\ \A i \in 1 .. Len(tcp[e].readable) : tcp[e].readable[i] = tcp[e].got + i
    /\ tcp[e].got + Len(tcp[e].readable) <= tcp[Other(e)].wrote
LEMMA CleanReads ==
    ASSUME TcpInv, NEW e \in Ends, Clean(tcp[e])
    PROVE  ReadsRight(e)
  <1>1. Pair(tcp[e], tcp[Other(e)], net[e], net[Other(e)]) BY PairIs
  <1>2. Level(tcp[e]) BY CleanLevel
  <1>3. Arrived(tcp[e]) <= tcp[Other(e)].wrote BY <1>1, <1>2, ArrivedBounds
  <1> QED BY <1>3 DEF ReadsRight, Clean, Arrived

\* Whatever both ends write and however packets are lost, repeated, reordered or
\* split, the end that accepts the connection reads what the end that calls
\* Connect wrote, in order, with nothing left out or repeated.
THEOREM AcceptorInOrder == Spec => []ReadsRight(Server)
  <1>1. StreamInv => ReadsRight(Server) BY CleanReads, TheEnds DEF StreamInv, Streams
  <1> QED BY <1>1, StreamInvHolds, PTL

LEMMA UnharmedCall ==
    ASSUME TcpInv, Clean(tcp[Client]), ~Overtaken, Steps(Client), ~Losing(Client)
    PROVE  \E z \in Endpoint : \E gone : Took(Client, gone, z) /\ Clean(z)
  <1> DEFINE x == tcp[Client]
             y == tcp[Other(Client)]
  <1>1. \A z : Stirs(x, y, z) => z \in Endpoint /\ Clean(z) BY DEF Stirs, Moves, OK, Fares
  <1>2. CASE Sending(Client)
    <2>1. PICK z, n : After(Client, z) /\ SendStirs(x, y, n, z) BY <1>2 DEF Sending
    <2> QED BY <2>1, <1>1 DEF After, SendStirs
  <1>3. CASE Reading(Client)
    <2>1. PICK z : After(Client, z) /\ RecvStirs(x, y, z) BY <1>3 DEF Reading
    <2> QED BY <2>1, <1>1 DEF After, RecvStirs
  <1>4. CASE Getting(Client)
    <2>1. PICK seg \in net[Client] : \E z, gone :
            /\ Ready(x, seg) /\ Took(Client, gone, z) /\ Moves(x, y, z)
            /\ ~x.deleted => Handles(x, Edge(y), XCuts(y), seg, z)
            /\ x.deleted => z = x
      BY <1>4 DEF Getting
    <2>2. PICK z, gone :
            /\ Ready(x, seg) /\ Took(Client, gone, z) /\ Moves(x, y, z)
            /\ ~x.deleted => Handles(x, Edge(y), XCuts(y), seg, z)
            /\ x.deleted => z = x
      BY <2>1
    <2>3. z \in Endpoint BY <2>2 DEF Moves, OK
    <2>4. Clean(z)
      <3>1. CASE x.deleted BY <2>2, <3>1
      <3>2. CASE ~x.deleted BY <2>2, <3>2 DEF Handles
      <3> QED BY <3>1, <3>2
    <2> QED BY <2>2, <2>3, <2>4
  <1>5. CASE Ticking(Client)
    <2>1. PICK z : After(Client, z) /\ Stirs(x, y, z) BY <1>5 DEF Ticking
    <2> QED BY <2>1, <1>1 DEF After
  <1>6. CASE Closing(Client)
    <2>1. PICK z : After(Client, z) /\ Stirs(x, y, z) BY <1>6 DEF Closing
    <2> QED BY <2>1, <1>1 DEF After
  <1> QED BY <1>2, <1>3, <1>4, <1>5, <1>6 DEF Steps

\* What the client has received is in its place.
Unharmed == StreamInv /\ Clean(tcp[Client])

LEMMA UnharmedNext ==
    ASSUME Unharmed, [Next]_vars, [~Overtaken]_vars
    PROVE  Unharmed'
  <1>0. StreamInv /\ TcpInv /\ Clean(tcp[Client]) BY DEF Unharmed, StreamInv
  <1>1. StreamInv' BY <1>0, StreamInvNext
  <1>2. CASE UNCHANGED vars BY <1>0, <1>1, <1>2 DEF vars, Unharmed
  <1>3. CASE Next /\ ~Overtaken
    <2>0. /\ Dialling \/ \E e \in Ends : Steps(e)
          /\ left' \in [{"loss", "dup"} -> Nat]
      BY <1>0, <1>3, StepIs
    <2>1. CASE Dialling
      <3>1. PICK z : Took(Client, {}, z) /\ Dials(tcp[Client], tcp[Server], z)
        BY <2>1 DEF Dialling, After
      <3>2. z \in Endpoint /\ Clean(z) BY <3>1, <1>0 DEF Dials, Moves, OK, Fares
      <3>3. tcp'[Client] = AdjustClock(z) BY <3>1, <3>2, <1>0, TheEnds, TookIs
      <3>4. Clean(AdjustClock(z)) BY <3>2, AdjustClockIs, CleanAdjusted DEF Fares
      <3> QED BY <3>3, <3>4, <1>1 DEF Unharmed
    <2>2. ASSUME NEW e \in Ends, Steps(e) PROVE Unharmed'
      <3>1. CASE Losing(e)
        <4>1. tcp' = tcp BY <3>1, <1>0, <2>0, LoseKept
        <4> QED BY <4>1, <1>0, <1>1 DEF Unharmed
      <3>2. CASE e = Client /\ ~Losing(e)
        <4>1. PICK z \in Endpoint : \E gone : Took(Client, gone, z) /\ Clean(z)
          BY <3>2, <2>2, <1>0, <1>3, UnharmedCall
        <4>2. tcp'[Client] = AdjustClock(z) BY <4>1, <1>0, TheEnds, TookIs
        <4>3. Clean(AdjustClock(z)) BY <4>1, AdjustClockIs, CleanAdjusted DEF Fares
        <4> QED BY <4>2, <4>3, <1>1 DEF Unharmed
      <3>3. CASE e = Server /\ ~Losing(e)
        <4>1. PICK z, gone : Took(e, gone, z) /\ Moves(tcp[e], tcp[Other(e)], z)
          BY <3>3, <2>2, <1>0, StepMoves DEF CallOf
        <4>2. z \in Endpoint BY <4>1 DEF Moves, OK
        <4>3. tcp'[Client] = tcp[Client] BY <3>3, <4>1, <4>2, <1>0, TheEnds, TookIs
        <4> QED BY <4>3, <1>0, <1>1 DEF Unharmed
      <3> QED BY <3>1, <3>2, <3>3, TheEnds
    <2> QED BY <2>0, <2>1, <2>2
  <1> QED BY <1>2, <1>3

LEMMA UnharmedHolds == Spec /\ [][~Overtaken]_vars => []Unharmed
  <1>1. Init => Unharmed
    <2> SUFFICES ASSUME Init PROVE Unharmed OBVIOUS
    <2>1. StreamInv /\ Clean(tcp[Server]) BY StreamInvInit DEF StreamInv, Streams
    <2>2. tcp[Client] = tcp[Server] BY TheEnds DEF Init
    <2> QED BY <2>1, <2>2 DEF Unharmed
  <1>2. Unharmed /\ [Next]_vars /\ [~Overtaken]_vars => Unharmed' BY UnharmedNext
  <1> QED BY <1>1, <1>2, PTL DEF Spec

\* Whoever writes, neither end reads a byte that the other did not write there,
\* as long as no packet with data reaches the client before the connect message
\* of the server: m_rcv_nxt, m_rlist and the receive buffer stay in step through
\* every other reordering and every loss, repetition, split and close.
THEOREM DeliveredInOrder == Spec /\ [][~Overtaken]_vars => []InOrder
  <1>1. Unharmed => InOrder
    <2> SUFFICES ASSUME Unharmed PROVE InOrder OBVIOUS
    <2>1. ReadsRight(Server) /\ ReadsRight(Client)
      BY CleanReads, TheEnds DEF Unharmed, StreamInv, Streams
    <2>2. \A e \in Ends : ReadsRight(e) BY <2>1, TheEnds
    <2> QED BY <2>2 DEF InOrder, ReadsRight
  <1> QED BY <1>1, UnharmedHolds, PTL

LEMMA GracefulEnd ==
    ASSUME TcpInv, NEW e \in Ends, Level(tcp[Other(e)]), tcp[e].deleted,
           tcp[e].shutdown = "GRACEFUL", tcp[e].state = "ESTABLISHED",
           tcp[Other(e)].shutdown = "NONE"
    PROVE  tcp[Other(e)].got + Len(tcp[Other(e)].readable) = tcp[e].wrote
  <1> DEFINE y == tcp[e]
             x == tcp[Other(e)]
  <1>1. Pair(y, x, net[e], net[Other(e)]) BY PairIs
  <1>2. Pair(x, y, net[Other(e)], net[e]) BY <1>1, PairSwap
  <1>3. OK(y, Edge(x), XCuts(x)) /\ y \in Endpoint /\ Ended(y) BY <1>1, PairFacts
  <1>4. y.sbuf = <<>> BY <1>3 DEF Ended, Finished
  <1>5. Total(y) = CtlLen + y.wrote BY <1>3 DEF OK, Counted
  <1>6. /\ Arrived(x) \in Nat /\ Arrived(x) <= y.wrote
        /\ y.wrote - Arrived(x) <= Len(y.sbuf)
    BY <1>2, <1>5, ArrivedBounds
  <1>7. Len(y.sbuf) = 0 BY <1>4
  <1>8. y.wrote \in Nat BY <1>3, Fields
  <1> DEFINE a == Arrived(x)
             w == y.wrote
  <1>9. a \in Nat /\ w \in Nat /\ a <= w /\ w - a <= 0 BY <1>6, <1>7, <1>8
  <1>10. a = w
    <2> HIDE DEF a, w
    <2> QED BY <1>9
  <1> QED BY <1>10 DEF Arrived

\* pseudotcp.h: GetNextClock "Returns false if the socket is ready to be
\* destroyed".  An endpoint that was closed gracefully is not ready before
\* everything it wrote has arrived, whichever ends write: the count of bytes that
\* arrive is right (Level) even where their order may not be.
THEOREM GracefulSound == Spec => []GracefulDelivers
  <1>1. StreamInv => GracefulDelivers
    <2> SUFFICES ASSUME StreamInv PROVE GracefulDelivers OBVIOUS
    <2>1. TcpInv /\ Clean(tcp[Server]) /\ Level(tcp[Client]) BY DEF StreamInv, Streams
    <2>2. Level(tcp[Server]) BY <2>1, CleanLevel
    <2>3. \A e \in Ends : Other(e) \in Ends /\ Level(tcp[Other(e)]) BY <2>1, <2>2, TheEnds
    <2> QED BY <2>1, <2>3, GracefulEnd DEF GracefulDelivers
  <1> QED BY <1>1, StreamInvHolds, PTL

-----------------------------------------------------------------------------
(* PseudoTcp implements ByteStream                                         *)

\* The variables of ByteStream, as PseudoTcp gives them their values.
APhase == [e \in Ends |-> Phase(tcp[e])]
AWritten == [e \in Ends |-> tcp[e].wrote]
APipe == [e \in Ends |->
            [i \in 1 .. tcp[e].wrote - Arrived(tcp[Other(e)]) |-> Arrived(tcp[Other(e)]) + i]]
AInbox == [e \in Ends |-> tcp[e].readable]

LEMMA PhaseIs ==
    ASSUME NEW x \in Endpoint
    PROVE  /\ x.state = "CLOSED" \/ x.shutdown = "FORCEFUL" => Phase(x) = "shut"
           /\ x.state = "ESTABLISHED" /\ x.shutdown = "NONE" => Phase(x) = "open"
           /\ x.state = "ESTABLISHED" /\ x.shutdown = "GRACEFUL" =>
                Phase(x) = IF x.deleted THEN "gone" ELSE "closing"
           /\ x.state \notin {"CLOSED", "ESTABLISHED"} /\ x.shutdown = "NONE" => Phase(x) = "new"
           /\ x.state # "ESTABLISHED" /\ x.shutdown # "NONE" => Phase(x) = "shut"
           /\ x.state \in TcpState /\ x.shutdown \in {"NONE", "GRACEFUL", "FORCEFUL"}
           /\ x.deleted \in BOOLEAN
  <1>1. /\ x.state \in TcpState /\ x.shutdown \in {"NONE", "GRACEFUL", "FORCEFUL"}
        /\ x.deleted \in BOOLEAN
    BY DEF Endpoint
  <1> QED BY <1>1 DEF Phase

\* How a phase may change; t: all that was written has been acknowledged.
Turns(p, q, t) ==
    \/ q = p
    \/ p = "new" /\ q = "open"
    \/ p = "open" /\ q = "closing"
    \/ p \in {"open", "closing"} /\ q = "gone" /\ t
    \/ p \in {"new", "open", "closing"} /\ q = "shut"

LEMMA PhaseTurns ==
    ASSUME NEW x \in Endpoint, NEW z \in Endpoint, NEW w, Ended(x), Adjusts(z, w),
           z.deleted = x.deleted, x.deleted => z = x,
           x.state = "CLOSED" => z.state = "CLOSED",
           x.state = "ESTABLISHED" => z.state \in {"ESTABLISHED", "CLOSED"},
           \/ z.shutdown = x.shutdown
           \/ z.state = x.state /\ (z.shutdown = "FORCEFUL" \/ x.shutdown = "NONE")
    PROVE  Turns(Phase(x), Phase(w), w.sbuf = <<>>)
  <1>1. /\ w \in Endpoint /\ w.state = z.state /\ w.shutdown = z.shutdown /\ w.sbuf = z.sbuf
        /\ w.deleted = (z.deleted \/ Finished(z))
    BY DEF Adjusts
  <1>2. CASE x.deleted
    <2>1. z = x /\ w.deleted = x.deleted BY <1>1, <1>2
    <2>2. Phase(w) = Phase(x) BY <2>1, <1>1 DEF Phase
    <2> QED BY <2>2 DEF Turns
  <1>3. CASE ~x.deleted
    <2>1. ~Finished(x) /\ w.deleted = Finished(z) BY <1>1, <1>3, PhaseIs DEF Ended, Finished
    <2>2. x.shutdown # "FORCEFUL" /\ (x.shutdown = "GRACEFUL" => x.state = "ESTABLISHED")
      BY <2>1 DEF Finished
    <2>3. w.deleted /\ w.shutdown = "GRACEFUL" /\ w.state = "ESTABLISHED" => w.sbuf = <<>>
      BY <2>1, <1>1 DEF Finished
    <2>4. CASE x.shutdown = "NONE" /\ x.state = "CLOSED"
      <3>1. Phase(x) = "shut" /\ Phase(w) = "shut" BY <2>4, <1>1, PhaseIs
      <3> QED BY <3>1 DEF Turns
    <2>5. CASE x.shutdown = "NONE" /\ x.state = "ESTABLISHED"
      <3>1. Phase(x) = "open" BY <2>5, PhaseIs
      <3>2. w.state \in {"ESTABLISHED", "CLOSED"} BY <2>5, <1>1
      <3>3. w.shutdown \in {"NONE", "GRACEFUL", "FORCEFUL"} BY <1>1, PhaseIs
      <3>4. \/ Phase(w) \in {"shut", "open", "closing"}
            \/ Phase(w) = "gone" /\ w.sbuf = <<>>
        BY <3>2, <3>3, <1>1, <2>3, PhaseIs
      <3> QED BY <3>1, <3>4 DEF Turns
    <2>6. CASE x.shutdown = "NONE" /\ x.state \notin {"CLOSED", "ESTABLISHED"}
      <3>1. Phase(x) = "new" BY <2>6, PhaseIs
      <3>2. CASE z.shutdown = "NONE"
        <4>1. Phase(w) \in {"new", "open", "shut"} BY <3>2, <1>1, PhaseIs
        <4> QED BY <4>1, <3>1 DEF Turns
      <3>3. CASE z.shutdown # "NONE"
        <4>1. z.state = x.state BY <3>3, <2>6
        <4>2. Phase(w) = "shut" BY <4>1, <3>3, <2>6, <1>1, PhaseIs
        <4> QED BY <4>2, <3>1 DEF Turns
      <3> QED BY <3>2, <3>3
    <2>7. CASE x.shutdown = "GRACEFUL"
      <3>1. Phase(x) = "closing" BY <2>2, <2>7, <1>3, PhaseIs
      <3>2. w.state \in {"ESTABLISHED", "CLOSED"} BY <2>2, <2>7, <1>1
      <3>3. w.shutdown \in {"GRACEFUL", "FORCEFUL"} BY <2>7, <1>1
      <3>4. CASE w.state = "CLOSED" \/ w.shutdown = "FORCEFUL"
        <4>1. Phase(w) = "shut" BY <3>4, <1>1, PhaseIs
        <4> QED BY <4>1, <3>1 DEF Turns
      <3>5. CASE w.state = "ESTABLISHED" /\ w.shutdown = "GRACEFUL"
        <4>1. Phase(w) = IF w.deleted THEN "gone" ELSE "closing" BY <3>5, <1>1, PhaseIs
        <4>2. w.deleted => w.sbuf = <<>> BY <3>5, <2>3
        <4> QED BY <4>1, <4>2, <3>1 DEF Turns
      <3> QED BY <3>2, <3>3, <3>4, <3>5
    <2> QED BY <2>2, <2>4, <2>5, <2>6, <2>7, PhaseIs
  <1> QED BY <1>2, <1>3
\* What was written up to w and has arrived up to a: the bytes in between.
Gap(w, a) == [i \in 1 .. w - a |-> a + i]

\* The n bytes that follow byte a.
Run(s, n, a) == s \in Seq(Byte) /\ Len(s) = n /\ \A i \in 1 .. n : s[i] = a + i

LEMMA OneRun ==
    ASSUME NEW n \in Nat, NEW a, NEW s, Run(s, n, a), NEW t, Run(t, n, a)
    PROVE  s = t
  <1>1. s = [i \in 1 .. n |-> s[i]] BY DEF Run
  <1>2. t = [i \in 1 .. n |-> t[i]] BY DEF Run
  <1>3. \A i \in 1 .. n : s[i] = t[i] BY DEF Run
  <1> QED BY <1>1, <1>2, <1>3

LEMMA BytesRun ==
    ASSUME NEW n \in Nat, NEW a \in Nat
    PROVE  Run([i \in 1 .. n |-> a + i], n, a)
  <1>1. \A i \in 1 .. n : a + i \in Byte BY DEF Byte
  <1>2. [i \in 1 .. n |-> a + i] \in Seq(Byte) BY <1>1
  <1> QED BY <1>2 DEF Run

LEMMA GapRun ==
    ASSUME NEW w \in Nat, NEW a \in Nat, NEW n \in Nat, n = w - a
    PROVE  Run(Gap(w, a), n, a)
  BY BytesRun DEF Gap

LEMMA ConcatAt ==
    ASSUME NEW S, NEW s \in Seq(S), NEW t \in Seq(S), NEW n, n = Len(s), NEW m, m = Len(t)
    PROVE  /\ s \o t \in Seq(S) /\ Len(s \o t) = n + m
           /\ \A i \in 1 .. n + m : (s \o t)[i] = IF i <= n THEN s[i] ELSE t[i - n]
  OBVIOUS

LEMMA JoinRuns ==
    ASSUME NEW a \in Nat, NEW n \in Nat, NEW m \in Nat, NEW s, Run(s, n, a),
           NEW t, Run(t, m, a + n)
    PROVE  Run(s \o t, n + m, a)
  <1>1. s \in Seq(Byte) /\ n = Len(s) /\ t \in Seq(Byte) /\ m = Len(t) BY DEF Run
  <1>2. \A i \in 1 .. n : s[i] = a + i BY DEF Run
  <1>3. \A i \in 1 .. m : t[i] = (a + n) + i BY DEF Run
  <1>4. /\ s \o t \in Seq(Byte) /\ Len(s \o t) = n + m
        /\ \A i \in 1 .. n + m : (s \o t)[i] = IF i <= n THEN s[i] ELSE t[i - n]
    BY <1>1, ConcatAt
  <1> DEFINE j == s \o t
  <1> HIDE DEF j
  <1>5. /\ j \in Seq(Byte) /\ Len(j) = n + m
        /\ \A i \in 1 .. n + m : j[i] = IF i <= n THEN s[i] ELSE t[i - n]
    BY <1>4 DEF j
  <1>6. ASSUME NEW i \in 1 .. n + m PROVE j[i] = a + i
    <2>1. CASE i <= n
      <3>1. i \in 1 .. n /\ j[i] = s[i] BY <2>1, <1>5
      <3> QED BY <3>1, <1>2
    <2>2. CASE ~(i <= n)
      <3> DEFINE k == i - n
      <3>1. k \in 1 .. m /\ (a + n) + k = a + i BY <2>2
      <3>2. j[i] = t[k] BY <2>2, <1>5
      <3> HIDE DEF k
      <3>3. t[k] = (a + n) + k BY <3>1, <1>3
      <3> QED BY <3>1, <3>2, <3>3
    <2> QED BY <2>1, <2>2
  <1>7. Run(j, n + m, a) BY <1>5, <1>6 DEF Run
  <1> QED BY <1>7 DEF j

LEMMA PartsOfRun ==
    ASSUME NEW a \in Nat, NEW n \in Nat, NEW k \in 0 .. n, NEW s, Run(s, n, a)
    PROVE  Run(SubSeq(s, 1, k), k, a) /\ Run(SubSeq(s, k + 1, Len(s)), n - k, a + k)
  <1>1. s \in Seq(Byte) /\ Len(s) = n /\ \A i \in 1 .. n : s[i] = a + i BY DEF Run
  <1>2. k \in 0 .. Len(s) BY <1>1
  <1>3. Run(Take(s, k), k, a)
    <2>1. /\ Take(s, k) \in Seq(Byte) /\ Len(Take(s, k)) = k
          /\ \A i \in 1 .. k : Take(s, k)[i] = s[i]
      BY <1>1, <1>2, TakeIs
    <2> QED BY <2>1, <1>1 DEF Run
  <1>4. Run(Drop(s, k), n - k, a + k)
    <2>1. /\ Drop(s, k) \in Seq(Byte) /\ Len(Drop(s, k)) = n - k
          /\ \A i \in 1 .. n - k : Drop(s, k)[i] = s[k + i]
      BY <1>1, <1>2, DropIs
    <2> QED BY <2>1, <1>1 DEF Run
  <1> QED BY <1>3, <1>4 DEF Take, Drop

\* What a step does to the bytes on their way and to the inbox.
LEMMA GapGrows ==
    ASSUME NEW w \in Nat, NEW a \in Nat, a <= w, NEW n \in Nat
    PROVE  Gap(w + n, a) = Gap(w, a) \o Bytes(w, n)
  <1> DEFINE m == w - a
             k == m + n
  <1>1. m \in Nat /\ k \in Nat /\ k = (w + n) - a /\ a + m = w /\ w + n \in Nat OBVIOUS
  <1>2. Run(Gap(w, a), m, a) BY <1>1, GapRun
  <1>3. Run(Gap(w + n, a), k, a)
    <2> DEFINE v == w + n
    <2>1. v \in Nat /\ k = v - a BY <1>1
    <2> HIDE DEF v, k
    <2> QED BY <2>1, <1>1, GapRun DEF v
  <1>4. Run(Bytes(w, n), n, a + m) BY <1>1, BytesRun DEF Bytes
  <1>5. Run(Gap(w, a) \o Bytes(w, n), k, a)
    <2> HIDE DEF m
    <2> QED BY <1>1, <1>2, <1>4, JoinRuns
  <1> HIDE DEF k
  <1> QED BY <1>1, <1>3, <1>5, OneRun

LEMMA GapDrains ==
    ASSUME NEW w \in Nat, NEW a \in Nat, NEW n \in Nat, a + n <= w
    PROVE  Gap(w, a + n) = SubSeq(Gap(w, a), n + 1, Len(Gap(w, a)))
  <1> DEFINE m == w - a
             k == m - n
             b == a + n
  <1>1. m \in Nat /\ k \in Nat /\ b \in Nat /\ k = w - b /\ n \in 0 .. m OBVIOUS
  <1>2. m = w - a /\ k = m - n /\ b = a + n OBVIOUS
  <1> HIDE DEF m, k, b
  <1>3. Run(Gap(w, a), m, a) BY <1>1, <1>2, GapRun
  <1>4. Run(Gap(w, b), k, b) BY <1>1, GapRun
  <1>5. Run(SubSeq(Gap(w, a), n + 1, Len(Gap(w, a))), k, b) BY <1>1, <1>2, <1>3, PartsOfRun
  <1>6. Gap(w, b) = SubSeq(Gap(w, a), n + 1, Len(Gap(w, a))) BY <1>1, <1>4, <1>5, OneRun
  <1> QED BY <1>2, <1>6

LEMMA InboxGrows ==
    ASSUME NEW w \in Nat, NEW g \in Nat, NEW l \in Nat, NEW n \in Nat, NEW r, Run(r, l, g),
           NEW t, Run(t, l + n, g), NEW a \in Nat, a = g + l, a + n <= w
    PROVE  t = r \o SubSeq(Gap(w, a), 1, n)
  <1> DEFINE m == w - a
  <1>1. m \in Nat /\ m = w - a /\ n \in 0 .. m /\ l + n \in Nat OBVIOUS
  <1> HIDE DEF m
  <1> DEFINE s == SubSeq(Gap(w, a), 1, n)
             k == l + n
  <1>2. Run(Gap(w, a), m, a) BY <1>1, GapRun
  <1>3. Run(s, n, g + l) BY <1>1, <1>2, PartsOfRun
  <1> HIDE DEF s
  <1>4. Run(r \o s, k, g) BY <1>3, JoinRuns
  <1>5. k \in Nat /\ Run(t, k, g) BY <1>1
  <1> HIDE DEF k
  <1>6. t = r \o s BY <1>4, <1>5, OneRun
  <1> QED BY <1>6 DEF s

\* A step of end e changes the variables of ByteStream at e, and the bytes on
\* their way in both directions.
LEMMA ViewChanges ==
    ASSUME NEW e \in Ends, tcp'[Other(e)] = tcp[Other(e)]
    PROVE  /\ APhase' = [APhase EXCEPT ![e] = Phase(tcp'[e])]
           /\ AWritten' = [AWritten EXCEPT ![e] = tcp'[e].wrote]
           /\ AInbox' = [AInbox EXCEPT ![e] = tcp'[e].readable]
           /\ APipe' = [APipe EXCEPT
                          ![e] = Gap(tcp'[e].wrote, Arrived(tcp[Other(e)])),
                          ![Other(e)] = Gap(tcp[Other(e)].wrote, Arrived(tcp'[e]))]
  <1> DEFINE f == Other(e)
  <1>1. f \in Ends /\ f # e /\ Other(f) = e /\ \A g \in Ends : g = e \/ g = f BY EndsAre
  <1>2. APhase' = [APhase EXCEPT ![e] = Phase(tcp'[e])] BY <1>1 DEF APhase
  <1>3. AWritten' = [AWritten EXCEPT ![e] = tcp'[e].wrote] BY <1>1 DEF AWritten
  <1>4. AInbox' = [AInbox EXCEPT ![e] = tcp'[e].readable] BY <1>1 DEF AInbox
  <1>5. APipe = [g \in Ends |-> Gap(tcp[g].wrote, Arrived(tcp[Other(g)]))] BY DEF APipe, Gap
  <1>6. APipe' = [g \in Ends |-> Gap(tcp'[g].wrote, Arrived(tcp'[Other(g)]))] BY DEF APipe, Gap, Arrived
  <1>7. APipe' = [APipe EXCEPT ![e] = Gap(tcp'[e].wrote, Arrived(tcp[f])),
                               ![f] = Gap(tcp[f].wrote, Arrived(tcp'[e]))]
    BY <1>1, <1>5, <1>6
  <1> QED BY <1>2, <1>3, <1>4, <1>7

LEMMA ViewIs ==
    ASSUME NEW e \in Ends
    PROVE  /\ APhase[e] = Phase(tcp[e]) /\ AWritten[e] = tcp[e].wrote
           /\ AInbox[e] = tcp[e].readable
           /\ APipe[e] = Gap(tcp[e].wrote, Arrived(tcp[Other(e)]))
           /\ DOMAIN APhase = Ends /\ DOMAIN AWritten = Ends /\ DOMAIN AInbox = Ends
           /\ DOMAIN APipe = Ends
           /\ APhase = [f \in Ends |-> APhase[f]] /\ AWritten = [f \in Ends |-> AWritten[f]]
           /\ AInbox = [f \in Ends |-> AInbox[f]] /\ APipe = [f \in Ends |-> APipe[f]]
  BY DEF APhase, AWritten, AInbox, APipe, Gap

\* The other end takes nothing any more, or has all that e wrote.
AllArrived(e) ==
    \/ Gap(tcp[e].wrote, Arrived(tcp[Other(e)])) = <<>>
    \/ Phase(tcp[Other(e)]) \notin {"new", "open"}

LEMMA BecomesIs ==
    ASSUME NEW e \in Ends, NEW p, APhase' = [APhase EXCEPT ![e] = p],
           AWritten' = AWritten, APipe' = APipe, AInbox' = AInbox
    PROVE  Stream!Becomes(e, p)
  BY DEF Stream!Becomes, APhase, AWritten, APipe, AInbox

LEMMA QuietStep ==
    ASSUME NEW e \in Ends, tcp'[Other(e)] = tcp[Other(e)], SameApp(tcp[e], tcp'[e]),
           NEW t, Turns(Phase(tcp[e]), Phase(tcp'[e]), t), t => AllArrived(e)
    PROVE  Stream!Next \/ UNCHANGED Stream!vars
  <1> DEFINE f == Other(e)
             p == Phase(tcp[e])
             q == Phase(tcp'[e])
  <1>0. f \in Ends /\ Other(f) = e /\ f # e BY EndsAre
  <1>1. /\ APhase[e] = p /\ AWritten[e] = tcp[e].wrote /\ AInbox[e] = tcp[e].readable
        /\ APipe[e] = Gap(tcp[e].wrote, Arrived(tcp[f])) /\ APhase[f] = Phase(tcp[f])
        /\ APipe[f] = Gap(tcp[f].wrote, Arrived(tcp[e]))
    BY <1>0, ViewIs
  <1>2. Arrived(tcp'[e]) = Arrived(tcp[e]) BY DEF SameApp, Arrived
  <1>3. AWritten' = AWritten
    <2>1. AWritten' = [AWritten EXCEPT ![e] = AWritten[e]] BY <1>1, ViewChanges DEF SameApp
    <2> QED BY <2>1 DEF AWritten
  <1>4. AInbox' = AInbox
    <2>1. AInbox' = [AInbox EXCEPT ![e] = AInbox[e]] BY <1>1, ViewChanges DEF SameApp
    <2> QED BY <2>1 DEF AInbox
  <1>5. APipe' = APipe
    <2>1. APipe' = [APipe EXCEPT ![e] = APipe[e], ![f] = APipe[f]]
      BY <1>1, <1>2, ViewChanges DEF SameApp
    <2>2. APipe = [g \in Ends |-> APipe[g]] BY ViewIs
    <2> QED BY <2>1, <2>2
  <1>6. APhase' = [APhase EXCEPT ![e] = q] BY ViewChanges
  <1>7. Stream!Becomes(e, q) BY <1>3, <1>4, <1>5, <1>6, BecomesIs
  <1>8. CASE q = p
    <2>1. APhase' = APhase
      <3>1. APhase' = [APhase EXCEPT ![e] = APhase[e]] BY <1>1, <1>6, <1>8
      <3> QED BY <3>1 DEF APhase
    <2> QED BY <2>1, <1>3, <1>4, <1>5 DEF Stream!vars, APhase, AWritten, AInbox, APipe
  <1>9. CASE p = "new" /\ q = "open"
    <2>1. Stream!Open(e) BY <1>1, <1>7, <1>9 DEF Stream!Open, APhase
    <2> QED BY <2>1 DEF Stream!Next
  <1>10. CASE p = "open" /\ q = "closing"
    <2>1. Stream!Close(e) BY <1>1, <1>7, <1>10 DEF Stream!Close, APhase
    <2> QED BY <2>1 DEF Stream!Next
  <1>11. CASE p \in {"open", "closing"} /\ q = "gone" /\ t
    <2>1. APipe[e] = <<>> \/ APhase[f] \notin {"new", "open"} BY <1>1, <1>11 DEF AllArrived
    <2>2. [g \in Ends |-> Other(g)][e] = f OBVIOUS
    <2>3. APipe[e] = <<>> \/ ~Stream!Listens(f) BY <2>1 DEF Stream!Listens, APhase
    <2>4. APhase[e] \in {"open", "closing"} BY <1>1, <1>11
    <2>5. Stream!Leave(e) BY <1>7, <1>11, <2>2, <2>3, <2>4 DEF Stream!Leave, APhase, APipe
    <2> QED BY <2>5 DEF Stream!Next
  <1>12. CASE p \in {"new", "open", "closing"} /\ q = "shut"
    <2>1. Stream!Break(e) BY <1>1, <1>7, <1>12 DEF Stream!Break, APhase
    <2> QED BY <2>1 DEF Stream!Next
  <1> QED BY <1>8, <1>9, <1>10, <1>11, <1>12 DEF Turns

LEMMA WriteStep ==
    ASSUME NEW e \in Ends, tcp'[Other(e)] = tcp[Other(e)],
           Phase(tcp[e]) = "open", Phase(tcp'[e]) = "open",
           tcp[e].wrote \in Nat, Arrived(tcp[Other(e)]) \in Nat, Arrived(tcp[Other(e)]) <= tcp[e].wrote,
           NEW n \in 1 .. SndBuf, tcp'[e].wrote = tcp[e].wrote + n,
           Phase(tcp[Other(e)]) \in {"new", "open"} =>
             (tcp[e].wrote - Arrived(tcp[Other(e)])) + n <= SndBuf,
           tcp'[e].got = tcp[e].got, tcp'[e].readable = tcp[e].readable
    PROVE  Stream!Next
  <1> DEFINE f == Other(e)
             w == tcp[e].wrote
             a == Arrived(tcp[f])
  <1>0. f \in Ends /\ Other(f) = e /\ f # e /\ SndBuf \in Nat BY EndsAre, SizeAssumption
  <1>1. /\ APhase[e] = Phase(tcp[e]) /\ AWritten[e] = w /\ AInbox[e] = tcp[e].readable
        /\ APipe[e] = Gap(w, a) /\ APhase[f] = Phase(tcp[f])
        /\ APipe[f] = Gap(tcp[f].wrote, Arrived(tcp[e]))
    BY <1>0, ViewIs
  <1>2. Arrived(tcp'[e]) = Arrived(tcp[e]) BY DEF Arrived
  <1>3. AWritten' = [AWritten EXCEPT ![e] = w + n] BY ViewChanges
  <1>4. AInbox' = AInbox
    <2>1. AInbox' = [AInbox EXCEPT ![e] = AInbox[e]] BY <1>1, ViewChanges
    <2> QED BY <2>1 DEF AInbox
  <1>5. APhase' = APhase
    <2>1. APhase' = [APhase EXCEPT ![e] = APhase[e]] BY <1>1, ViewChanges
    <2> QED BY <2>1 DEF APhase
  <1> DEFINE b == APipe[e] \o Bytes(AWritten[e], n)
  <1>6. Gap(w + n, a) = b
    <2>1. n \in Nat /\ w \in Nat /\ a \in Nat /\ a <= w BY <1>0
    <2>2. Gap(w + n, a) = Gap(w, a) \o Bytes(w, n)
      <3> HIDE DEF w, a
      <3> QED BY <2>1, GapGrows
    <2> QED BY <2>2, <1>1
  <1>7. APipe' = [APipe EXCEPT ![e] = b]
    <2> DEFINE c == Gap(w + n, a)
    <2>1. APipe' = [APipe EXCEPT ![e] = c, ![f] = APipe[f]] BY <1>1, <1>2, ViewChanges
    <2>2. APipe = [g \in Ends |-> APipe[g]] BY ViewIs
    <2>3. c = b BY <1>6
    <2> HIDE DEF b, c, f
    <2> QED BY <2>1, <2>2, <2>3, <1>0
  <1>8. Stream!Listens(f) => Len(APipe[e]) + n <= SndBuf
    <2> DEFINE k == w - a
    <2>1. w \in Nat /\ a \in Nat /\ a <= w OBVIOUS
    <2>2. k \in Nat /\ k = w - a
      <3> HIDE DEF w, a
      <3> QED BY <2>1
    <2>3. Run(Gap(w, a), k, a)
      <3> HIDE DEF w, a, k
      <3> QED BY <2>1, <2>2, GapRun
    <2>4. Len(APipe[e]) = k BY <2>3, <1>1 DEF Run
    <2>5. Stream!Listens(f) => Phase(tcp[f]) \in {"new", "open"} BY <1>1 DEF Stream!Listens, APhase
    <2> QED BY <2>4, <2>5
  <1>9. [g \in Ends |-> Other(g)][e] = f OBVIOUS
  <1>10. APhase[e] = "open" BY <1>1
  <1>11. Stream!Write(e, n)
    <2> HIDE DEF w, a, f
    <2>1. [AWritten EXCEPT ![e] = w + n] = [AWritten EXCEPT ![e] = AWritten[e] + n] BY <1>1
    <2> QED BY <1>3, <1>4, <1>5, <1>7, <1>8, <1>9, <1>10, <2>1
        DEF Stream!Write, APhase, AWritten, AInbox, APipe, Bytes
  <1> QED BY <1>11 DEF Stream!Next

LEMMA ReadStep ==
    ASSUME NEW e \in Ends, tcp'[Other(e)] = tcp[Other(e)], tcp[e].readable \in Seq(Byte),
           Phase(tcp[e]) = "open", Phase(tcp'[e]) = "open", tcp[e].got \in Nat,
           NEW k \in 1 .. Len(tcp[e].readable), tcp'[e].wrote = tcp[e].wrote,
           tcp'[e].got = tcp[e].got + k, tcp'[e].readable = Drop(tcp[e].readable, k)
    PROVE  Stream!Next
  <1> DEFINE f == Other(e)
             r == tcp[e].readable
             d == Drop(r, k)
  <1>0. f \in Ends /\ Other(f) = e /\ f # e BY EndsAre
  <1>1. /\ APhase[e] = Phase(tcp[e]) /\ AWritten[e] = tcp[e].wrote /\ AInbox[e] = r
        /\ APipe[e] = Gap(tcp[e].wrote, Arrived(tcp[f])) /\ APhase[f] = Phase(tcp[f])
        /\ APipe[f] = Gap(tcp[f].wrote, Arrived(tcp[e]))
    BY <1>0, ViewIs
  <1>2. Arrived(tcp'[e]) = Arrived(tcp[e])
    <2> DEFINE g == tcp[e].got
               l == Len(r)
    <2>1. r \in Seq(Byte) /\ k \in 0 .. Len(r) /\ l \in Nat OBVIOUS
    <2>2. Len(d) = l - k
      <3> HIDE DEF r
      <3> QED BY <2>1, DropIs
    <2>3. Arrived(tcp[e]) = g + l /\ Arrived(tcp'[e]) = (g + k) + Len(d) BY DEF Arrived
    <2>4. g \in Nat /\ l \in Nat /\ k \in 1 .. l OBVIOUS
    <2>5. (g + k) + (l - k) = g + l
      <3> HIDE DEF g, l
      <3> QED BY <2>4
    <2> QED BY <2>2, <2>3, <2>5
  <1>3. AWritten' = AWritten
    <2>1. AWritten' = [AWritten EXCEPT ![e] = AWritten[e]] BY <1>1, ViewChanges
    <2> QED BY <2>1 DEF AWritten
  <1>4. AInbox' = [AInbox EXCEPT ![e] = d] BY ViewChanges
  <1>5. APhase' = APhase
    <2>1. APhase' = [APhase EXCEPT ![e] = APhase[e]] BY <1>1, ViewChanges
    <2> QED BY <2>1 DEF APhase
  <1>6. APipe' = APipe
    <2>1. APipe' = [APipe EXCEPT ![e] = APipe[e], ![f] = APipe[f]]
      BY <1>1, <1>2, ViewChanges
    <2>2. APipe = [g \in Ends |-> APipe[g]] BY ViewIs
    <2> QED BY <2>1, <2>2
  <1>7. APhase[e] = "open" BY <1>1
  <1>8. d = SubSeq(AInbox[e], k + 1, Len(AInbox[e])) BY <1>1 DEF Drop
  <1>9. Stream!Read(e, k)
    <2> HIDE DEF r, d
    <2> QED BY <1>3, <1>4, <1>5, <1>6, <1>7, <1>8
        DEF Stream!Read, APhase, AWritten, AInbox, APipe
  <1>10. k \in 1 .. Len(AInbox[e]) BY <1>1
  <1> HIDE DEF r, d
  <1> QED BY <1>9, <1>10 DEF Stream!Next, AInbox

LEMMA CarryStep ==
    ASSUME NEW e \in Ends, tcp'[Other(e)] = tcp[Other(e)], tcp[e].got \in Nat,
           Phase(tcp[e]) \in {"new", "open"},
           Phase(tcp'[e]) = Phase(tcp[e]) \/ Phase(tcp'[e]) = "open",
           tcp'[e].wrote = tcp[e].wrote, tcp'[e].got = tcp[e].got,
           NEW l \in Nat, Run(tcp[e].readable, l, tcp[e].got),
           NEW n \in Nat, n > 0, Run(tcp'[e].readable, l + n, tcp[e].got), l + n <= RcvBuf,
           tcp[Other(e)].wrote \in Nat, (tcp[e].got + l) + n <= tcp[Other(e)].wrote
    PROVE  Stream!Next
  <1> DEFINE f == Other(e)
             r == tcp[e].readable
             t == tcp'[e].readable
             g == tcp[e].got
             w == tcp[f].wrote
             a == g + l
             s == SubSeq(APipe[f], 1, n)
             d == SubSeq(APipe[f], n + 1, Len(APipe[f]))
  <1>0. f \in Ends /\ Other(f) = e /\ f # e BY EndsAre
  <1>1. Len(r) = l /\ Len(t) = l + n BY DEF Run
  <1>2. Arrived(tcp[e]) = a /\ Arrived(tcp'[e]) = g + (l + n) BY <1>1 DEF Arrived
  <1>3. /\ APhase[e] = Phase(tcp[e]) /\ AWritten[e] = tcp[e].wrote /\ AInbox[e] = r
        /\ APipe[e] = Gap(tcp[e].wrote, Arrived(tcp[f])) /\ APhase[f] = Phase(tcp[f])
        /\ APipe[f] = Gap(w, a)
    BY <1>0, <1>2, ViewIs
  <1>4. AWritten' = AWritten
    <2>1. AWritten' = [AWritten EXCEPT ![e] = AWritten[e]] BY <1>3, ViewChanges
    <2> QED BY <2>1 DEF AWritten
  <1>5. /\ a \in Nat /\ w \in Nat /\ a + n <= w /\ g + (l + n) = a + n
    <2>1. g \in Nat /\ w \in Nat /\ (g + l) + n <= w OBVIOUS
    <2> HIDE DEF g, w
    <2> QED BY <2>1
  <1>6. t = r \o s
    <2>1. g \in Nat /\ Run(r, l, g) /\ Run(t, l + n, g) /\ a = g + l OBVIOUS
    <2>2. t = r \o SubSeq(Gap(w, a), 1, n)
      <3> HIDE DEF g, w, r, t, a
      <3> QED BY <2>1, <1>5, InboxGrows
    <2> QED BY <2>2, <1>3
  <1>7. Gap(w, a + n) = d
    <2>1. Gap(w, a + n) = SubSeq(Gap(w, a), n + 1, Len(Gap(w, a)))
      <3> HIDE DEF w, a
      <3> QED BY <1>5, GapDrains
    <2> QED BY <2>1, <1>3
  <1>8. AInbox' = [AInbox EXCEPT ![e] = AInbox[e] \o s]
    <2>1. AInbox' = [AInbox EXCEPT ![e] = t] BY ViewChanges
    <2>2. t = AInbox[e] \o s BY <1>3, <1>6
    <2> HIDE DEF t, s
    <2> QED BY <2>1, <2>2
  <1>9. APipe' = [APipe EXCEPT ![f] = d]
    <2> DEFINE c == Gap(w, a + n)
    <2>1. Gap(tcp[f].wrote, Arrived(tcp'[e])) = c BY <1>2, <1>5
    <2>2. APipe' = [APipe EXCEPT ![e] = APipe[e], ![f] = Gap(tcp[f].wrote, Arrived(tcp'[e]))]
      BY <1>3, ViewChanges
    <2>3. APipe' = [APipe EXCEPT ![e] = APipe[e], ![f] = c] BY <2>1, <2>2
    <2>4. c = d BY <1>7
    <2>5. APipe = [h \in Ends |-> APipe[h]] BY ViewIs
    <2> HIDE DEF c, d, f
    <2> QED BY <2>3, <2>4, <2>5, <1>0
  <1>10. APhase' \in {APhase, [APhase EXCEPT ![e] = "open"]}
    <2>1. APhase' = [APhase EXCEPT ![e] = Phase(tcp'[e])] BY ViewChanges
    <2>2. APhase = [APhase EXCEPT ![e] = APhase[e]] BY DEF APhase
    <2> QED BY <2>1, <2>2, <1>3
  <1>11. Len(AInbox[e]) + n <= RcvBuf BY <1>1, <1>3
  <1>12. Stream!Listens(e) BY <1>3 DEF Stream!Listens, APhase
  <1>13. n \in 1 .. Len(APipe[f])
    <2> DEFINE m == w - a
    <2>1. m \in Nat /\ m = w - a /\ n \in 1 .. m
      <3> HIDE DEF w, a
      <3> QED BY <1>5
    <2>2. Run(Gap(w, a), m, a)
      <3> HIDE DEF w, a, m
      <3> QED BY <1>5, <2>1, GapRun
    <2>3. Len(APipe[f]) = m BY <2>2, <1>3 DEF Run
    <2> QED BY <2>1, <2>3
  <1>14. [h \in Ends |-> Other(h)][e] = f OBVIOUS
  <1>15. Stream!Carry(e, n)
    <2> HIDE DEF r, t, g, w, a, f
    <2> QED BY <1>4, <1>8, <1>9, <1>10, <1>11, <1>12, <1>14
        DEF Stream!Carry, APhase, AWritten, AInbox, APipe
  <1> HIDE DEF r, t, g, w, a, s, d, f
  <1> QED BY <1>13, <1>14, <1>15 DEF Stream!Next, APipe

LEMMA ListensIs ==
    ASSUME NEW x \in Endpoint, Phase(x) \in {"new", "open"}
    PROVE  x.shutdown = "NONE" /\ x.state # "CLOSED"
  <1>1. x.shutdown \in {"NONE", "GRACEFUL", "FORCEFUL"} /\ x.deleted \in BOOLEAN BY PhaseIs
  <1>2. x.state # "CLOSED" /\ x.shutdown # "FORCEFUL" BY PhaseIs
  <1>3. CASE x.shutdown = "GRACEFUL" /\ x.state = "ESTABLISHED" BY <1>3, PhaseIs
  <1>4. CASE x.shutdown = "GRACEFUL" /\ x.state # "ESTABLISHED" BY <1>4, PhaseIs
  <1> QED BY <1>1, <1>2, <1>3, <1>4

\* An end that is gone has nothing left that the other end would still take.
LEMMA GoneLast ==
    ASSUME NEW w, NEW y, NEW P, NEW Q, Pair(w, y, P, Q), Clean(y), w.sbuf = <<>>,
           Phase(w) = "gone", Phase(y) \in {"new", "open"}
    PROVE  Gap(w.wrote, Arrived(y)) = <<>>
  <1>1. Pair(y, w, Q, P) BY PairSwap
  <1>2. w \in Endpoint /\ y \in Endpoint /\ OK(w, Edge(y), XCuts(y)) BY <1>1, PairFacts
  <1>3. y.shutdown = "NONE" BY <1>2, ListensIs
  <1>4. w.state = "ESTABLISHED" BY <1>2 DEF Phase
  <1>5. Total(w) = CtlLen + w.wrote BY <1>2, <1>4 DEF OK, Counted
  <1>6. Arrived(y) \in Nat /\ Arrived(y) <= w.wrote /\ w.wrote - Arrived(y) <= Len(w.sbuf)
    <2>1. Level(y) BY CleanLevel
    <2> QED BY <2>1, <1>1, <1>3, <1>5, ArrivedBounds
  <1>7. Len(w.sbuf) = 0 /\ w.wrote \in Nat BY <1>2, Fields
  <1> DEFINE a == Arrived(y)
             v == w.wrote
             n == 0
  <1>8. a \in Nat /\ v \in Nat /\ a <= v /\ v - a <= 0 BY <1>6, <1>7
  <1> SUFFICES Gap(v, a) = <<>> OBVIOUS
  <1> HIDE DEF a, v
  <1>9. n \in Nat /\ n = v - a BY <1>8
  <1>10. Run(Gap(v, a), n, a) BY <1>8, <1>9, GapRun
  <1>11. Run(<<>>, n, a) BY DEF Run
  <1> HIDE DEF n
  <1> QED BY <1>9, <1>10, <1>11, OneRun

\* What a call that moves no byte of the application is to ByteStream.
LEMMA QuietCall ==
    ASSUME TcpInv, TcpInv', NEW e \in Ends, Clean(tcp[Other(e)]), NEW z \in Endpoint,
           NEW gone, Took(e, gone, z), SameApp(tcp[e], z), z.deleted = tcp[e].deleted,
           tcp[e].deleted => z = tcp[e], tcp[e].state = "CLOSED" => z.state = "CLOSED",
           tcp[e].state = "ESTABLISHED" => z.state \in {"ESTABLISHED", "CLOSED"},
           \/ z.shutdown = tcp[e].shutdown
           \/ z.state = tcp[e].state /\ (z.shutdown = "FORCEFUL" \/ tcp[e].shutdown = "NONE")
    PROVE  Stream!Next \/ UNCHANGED Stream!vars
  <1> DEFINE f == Other(e)
             x == tcp[e]
             y == tcp[f]
             w == AdjustClock(z)
             t == w.sbuf = <<>> /\ Phase(w) = "gone"
  <1>0. f \in Ends /\ Other(f) = e BY EndsAre
  <1>1. tcp'[e] = w /\ tcp'[f] = y BY TookIs
  <1>2. Adjusts(z, w) BY AdjustClockIs
  <1>3. x \in Endpoint /\ Ended(x)
    <2>1. Pair(x, y, net[e], net[f]) BY PairIs
    <2> QED BY <2>1, PairFacts
  <1>4. Turns(Phase(x), Phase(w), w.sbuf = <<>>)
    <2> HIDE DEF w, x
    <2> QED BY <1>2, <1>3, PhaseTurns DEF x
  <1>5. Turns(Phase(x), Phase(w), t) BY <1>4 DEF Turns
  <1>6. SameApp(x, w) BY <1>2 DEF SameApp, Adjusts, SameInbox
  <1>7. Pair(w, y, net'[e], net'[f])
    <2>1. Half(tcp'[e], tcp'[f], net'[e]) /\ Half(tcp'[f], tcp'[e], net'[f])
      BY <1>0 DEF TcpInv
    <2> QED BY <2>1, <1>1 DEF Pair
  <1>8. t => AllArrived(e)
    <2> SUFFICES ASSUME w.sbuf = <<>>, Phase(w) = "gone", Phase(y) \in {"new", "open"}
                 PROVE  Gap(x.wrote, Arrived(y)) = <<>>
      BY DEF AllArrived
    <2> HIDE DEF w
    <2>1. Gap(w.wrote, Arrived(y)) = <<>> BY <1>7, GoneLast
    <2> QED BY <2>1, <1>6 DEF SameApp
  <1>9. tcp'[Other(e)] = tcp[Other(e)] /\ SameApp(tcp[e], tcp'[e]) BY <1>1, <1>6
  <1>10. Turns(Phase(tcp[e]), Phase(tcp'[e]), t) BY <1>1, <1>5
  <1> HIDE DEF t
  <1> QED BY <1>8, <1>9, <1>10, QuietStep

\* The ends before and after a call of e, and what is known of them.
LEMMA CallFacts ==
    ASSUME TcpInv, TcpInv', NEW e \in Ends, NEW z \in Endpoint, NEW gone, Took(e, gone, z)
    PROVE  /\ tcp'[e] = AdjustClock(z) /\ tcp'[Other(e)] = tcp[Other(e)]
           /\ Adjusts(z, AdjustClock(z)) /\ AdjustClock(z) \in Endpoint
           /\ Pair(tcp[e], tcp[Other(e)], net[e], net[Other(e)])
           /\ Pair(tcp[Other(e)], tcp[e], net[Other(e)], net[e])
           /\ Pair(AdjustClock(z), tcp[Other(e)], net'[e], net'[Other(e)])
           /\ tcp[e] \in Endpoint /\ tcp[Other(e)] \in Endpoint
  <1> DEFINE f == Other(e)
             w == AdjustClock(z)
  <1>0. f \in Ends /\ Other(f) = e BY EndsAre
  <1>1. tcp'[e] = w /\ tcp'[f] = tcp[f] BY TookIs
  <1>2. Adjusts(z, w) /\ w \in Endpoint BY AdjustClockIs DEF Adjusts
  <1>3. Pair(tcp[e], tcp[f], net[e], net[f]) BY PairIs
  <1>4. Pair(tcp[f], tcp[e], net[f], net[e]) BY <1>3, PairSwap
  <1>5. Pair(w, tcp[f], net'[e], net'[f])
    <2>1. Half(tcp'[e], tcp'[f], net'[e]) /\ Half(tcp'[f], tcp'[e], net'[f])
      BY <1>0 DEF TcpInv
    <2> QED BY <2>1, <1>1 DEF Pair
  <1>6. tcp[e] \in Endpoint /\ tcp[f] \in Endpoint BY <1>3, <1>4, PairFacts
  <1> QED BY <1>1, <1>2, <1>3, <1>4, <1>5, <1>6

LEMMA SendRefines ==
    ASSUME TcpInv, TcpInv', NEW e \in Ends, Clean(tcp[Other(e)]), Sending(e)
    PROVE  Stream!Next \/ UNCHANGED Stream!vars
  <1> DEFINE x == tcp[e]
             y == tcp[Other(e)]
  <1>1. PICK z, n : Took(e, {}, z) /\ SendStirs(x, y, n, z) BY DEF Sending, After
  <1>2. /\ z \in Endpoint /\ z.deleted = x.deleted /\ (x.deleted => z = x)
        /\ z.state = x.state /\ z.shutdown = x.shutdown
        /\ z.got = x.got /\ z.readable = x.readable
    BY <1>1 DEF SendStirs, Stirs, Moves, OK
  <1>3. x.state = "ESTABLISHED" /\ x.shutdown = "NONE" BY DEF Sending
  <1>4. CASE z.wrote = x.wrote BY <1>1, <1>2, <1>3, <1>4, QuietCall DEF SameApp
  <1>5. CASE \E m \in 1 .. n : z.wrote = x.wrote + m /\ Len(x.sbuf) + m <= SndBuf
    <2>1. PICK m \in 1 .. n : z.wrote = x.wrote + m /\ Len(x.sbuf) + m <= SndBuf BY <1>5
    <2> DEFINE w == AdjustClock(z)
               a == Arrived(y)
               v == x.wrote
               b == Len(x.sbuf)
    <2>2. /\ tcp'[e] = w /\ tcp'[Other(e)] = y /\ Adjusts(z, w) /\ w \in Endpoint
          /\ x \in Endpoint /\ y \in Endpoint /\ Pair(y, x, net[Other(e)], net[e])
          /\ Pair(x, y, net[e], net[Other(e)])
      BY <1>1, <1>2, CallFacts
    <2>3. /\ w.wrote = z.wrote /\ w.got = x.got /\ w.readable = x.readable
          /\ w.state = "ESTABLISHED" /\ w.shutdown = "NONE"
      BY <1>2, <1>3, <2>2 DEF Adjusts, SameInbox
    <2>4. Phase(x) = "open" /\ Phase(w) = "open" BY <1>3, <2>2, <2>3, PhaseIs
    <2>5. Total(x) = CtlLen + x.wrote
      <3>1. OK(x, Edge(y), XCuts(y)) BY <2>2, PairFacts
      <3> QED BY <3>1, <1>3 DEF OK, Counted
    <2>6. a \in Nat /\ a <= v /\ (y.shutdown = "NONE" => v - a <= b)
      <3>1. Level(y) BY CleanLevel
      <3> QED BY <3>1, <2>2, <2>5, ArrivedBounds
    <2>7. v \in Nat /\ b \in Nat /\ SndBuf \in Nat /\ b + m <= SndBuf
      BY <2>1, <2>2, Fields, SizeAssumption
    <2>8. m \in 1 .. SndBuf
      <3> HIDE DEF b
      <3> QED BY <2>7
    <2>9. ASSUME Phase(y) \in {"new", "open"} PROVE (v - a) + m <= SndBuf
      <3>1. v - a <= b BY <2>2, <2>6, <2>9, ListensIs
      <3> HIDE DEF v, a, b
      <3> QED BY <3>1, <2>6, <2>7
    <2> HIDE DEF w
    <2>10. /\ tcp'[Other(e)] = tcp[Other(e)] /\ Phase(tcp[e]) = "open" /\ Phase(tcp'[e]) = "open"
           /\ tcp[e].wrote \in Nat /\ Arrived(tcp[Other(e)]) \in Nat
           /\ Arrived(tcp[Other(e)]) <= tcp[e].wrote /\ tcp'[e].wrote = tcp[e].wrote + m
           /\ tcp'[e].got = tcp[e].got /\ tcp'[e].readable = tcp[e].readable
      BY <2>1, <2>2, <2>3, <2>4, <2>6, <2>7
    <2>11. Phase(tcp[Other(e)]) \in {"new", "open"} =>
             (tcp[e].wrote - Arrived(tcp[Other(e)])) + m <= SndBuf
      BY <2>9
    <2>12. Stream!Next BY <2>8, <2>10, <2>11, WriteStep
    <2> QED BY <2>12
  <1> QED BY <1>1, <1>4, <1>5 DEF SendStirs

LEMMA RecvRefines ==
    ASSUME TcpInv, TcpInv', NEW e \in Ends, Clean(tcp[Other(e)]), Reading(e)
    PROVE  Stream!Next \/ UNCHANGED Stream!vars
  <1> DEFINE x == tcp[e]
             y == tcp[Other(e)]
  <1>1. PICK z : Took(e, {}, z) /\ RecvStirs(x, y, z) BY DEF Reading, After
  <1>2. /\ z \in Endpoint /\ z.deleted = x.deleted /\ (x.deleted => z = x)
        /\ z.state = x.state /\ z.shutdown = x.shutdown /\ z.wrote = x.wrote
    BY <1>1 DEF RecvStirs, Stirs, Moves, OK
  <1>3. x.state = "ESTABLISHED" /\ x.shutdown = "NONE" BY DEF Reading
  <1>4. CASE z.got = x.got /\ z.readable = x.readable
    BY <1>1, <1>2, <1>3, <1>4, QuietCall DEF SameApp
  <1>5. CASE \E k \in 1 .. Len(x.readable) : z.got = x.got + k /\ z.readable = Drop(x.readable, k)
    <2>1. PICK k \in 1 .. Len(x.readable) : z.got = x.got + k /\ z.readable = Drop(x.readable, k)
      BY <1>5
    <2> DEFINE w == AdjustClock(z)
    <2>2. /\ tcp'[e] = w /\ tcp'[Other(e)] = y /\ Adjusts(z, w) /\ w \in Endpoint
          /\ x \in Endpoint
      BY <1>1, <1>2, CallFacts
    <2>3. /\ w.wrote = x.wrote /\ w.got = x.got + k /\ w.readable = Drop(x.readable, k)
          /\ w.state = "ESTABLISHED" /\ w.shutdown = "NONE"
      BY <1>2, <1>3, <2>1, <2>2 DEF Adjusts, SameInbox
    <2>4. Phase(x) = "open" /\ Phase(w) = "open" BY <1>3, <2>2, <2>3, PhaseIs
    <2>5. x.readable \in Seq(Byte) /\ x.got \in Nat BY <2>2, Fields
    <2> HIDE DEF w
    <2>6. /\ tcp'[Other(e)] = tcp[Other(e)] /\ Phase(tcp[e]) = "open" /\ Phase(tcp'[e]) = "open"
          /\ tcp[e].readable \in Seq(Byte) /\ tcp[e].got \in Nat
          /\ k \in 1 .. Len(tcp[e].readable) /\ tcp'[e].wrote = tcp[e].wrote
          /\ tcp'[e].got = tcp[e].got + k /\ tcp'[e].readable = Drop(tcp[e].readable, k)
      BY <2>2, <2>3, <2>4, <2>5
    <2>7. Stream!Next BY <2>6, ReadStep
    <2> QED BY <2>7
  <1> QED BY <1>1, <1>4, <1>5 DEF RecvStirs

LEMMA RunReadable ==
    ASSUME NEW x \in Endpoint, Clean(x)
    PROVE  Run(x.readable, Len(x.readable), x.got)
  <1>1. x.readable \in Seq(Byte) BY Fields
  <1> QED BY <1>1 DEF Clean, Run

LEMMA GetRefines ==
    ASSUME TcpInv, TcpInv', NEW e \in Ends, Clean(tcp[e]), Clean(tcp[Other(e)]),
           Clean(tcp'[e]), Getting(e)
    PROVE  Stream!Next \/ UNCHANGED Stream!vars
  <1> DEFINE x == tcp[e]
             y == tcp[Other(e)]
  <1>1. PICK seg \in net[e] : \E z, gone :
          /\ Took(e, gone, z) /\ Moves(x, y, z)
          /\ ~x.deleted => Handles(x, Edge(y), XCuts(y), seg, z)
          /\ x.deleted => z = x
    BY DEF Getting
  <1>2. PICK z, gone :
          /\ Took(e, gone, z) /\ Moves(x, y, z)
          /\ ~x.deleted => Handles(x, Edge(y), XCuts(y), seg, z)
          /\ x.deleted => z = x
    BY <1>1
  <1>3. z \in Endpoint /\ z.deleted = x.deleted BY <1>2 DEF Moves, OK
  <1> DEFINE w == AdjustClock(z)
  <1>4. /\ tcp'[e] = w /\ tcp'[Other(e)] = y /\ Adjusts(z, w) /\ w \in Endpoint
        /\ x \in Endpoint /\ y \in Endpoint /\ Pair(w, y, net'[e], net'[Other(e)])
    BY <1>2, <1>3, CallFacts
  <1>5. CASE x.deleted
    <2>1. z = x BY <1>2, <1>5
    <2>2. /\ SameApp(x, z) /\ (x.state = "CLOSED" => z.state = "CLOSED")
          /\ (x.state = "ESTABLISHED" => z.state \in {"ESTABLISHED", "CLOSED"})
          /\ z.shutdown = x.shutdown
      BY <2>1 DEF SameApp
    <2> QED BY <2>1, <2>2, <1>2, <1>3, QuietCall
  <1>6. CASE ~x.deleted
    <2>1. /\ z.shutdown = x.shutdown /\ z.wrote = x.wrote /\ z.got = x.got
          /\ Len(x.readable) <= Len(z.readable)
          /\ x.shutdown # "NONE" => z.readable = x.readable
          /\ z.state = "CLOSED" => z.readable = x.readable
          /\ x.state = "CLOSED" => z = x
          /\ Reaches(x, seg, z)
      BY <1>2, <1>6 DEF Handles
    <2>2. /\ x.state = "CLOSED" => z.state = "CLOSED"
          /\ x.state = "ESTABLISHED" => z.state \in {"ESTABLISHED", "CLOSED"}
      BY <2>1 DEF Reaches
    <2>3. CASE z.readable = x.readable
      <3>1. SameApp(x, z) BY <2>1, <2>3 DEF SameApp
      <3> QED BY <3>1, <2>1, <2>2, <1>2, <1>3, QuietCall
    <2>4. CASE z.readable # x.readable
      <3> DEFINE g == x.got
                 l == Len(x.readable)
                 m == Len(z.readable)
                 n == m - l
                 v == y.wrote
      <3>1. /\ w.state = z.state /\ w.shutdown = z.shutdown /\ w.wrote = x.wrote /\ w.got = g
            /\ w.readable = z.readable
        BY <2>1, <1>4 DEF Adjusts, SameInbox
      <3>2. g \in Nat /\ l \in Nat /\ m \in Nat /\ v \in Nat /\ l <= m
        BY <1>3, <1>4, <2>1, Fields
      <3>3. Run(x.readable, l, g) BY <1>4, RunReadable
      <3>4. Run(w.readable, m, g)
        <4>1. Clean(w) BY <1>4
        <4> HIDE DEF w
        <4>2. Run(w.readable, Len(w.readable), w.got) BY <4>1, <1>4, RunReadable
        <4> QED BY <4>2, <3>1
      <3>5. n \in Nat /\ n > 0 /\ l + n = m
        <4>1. m # l
          <5>1. m = l => w.readable = x.readable
            <6> HIDE DEF w, g, l, m
            <6> QED BY <3>2, <3>3, <3>4, OneRun
          <5> QED BY <5>1, <3>1, <2>4
        <4> HIDE DEF l, m
        <4> QED BY <4>1, <3>2
      <3>6. (g + l) + n <= v
        <4>1. Clean(w) BY <1>4
        <4> HIDE DEF w
        <4>2. Arrived(w) <= v
          <5>1. Level(w) BY <4>1, CleanLevel
          <5> QED BY <5>1, <1>4, ArrivedBounds
        <4>3. Arrived(w) = g + m BY <3>1 DEF Arrived
        <4>4. g + m <= v BY <4>2, <4>3
        <4> HIDE DEF g, l, m, n, v
        <4> QED BY <4>4, <3>2, <3>5
      <3>7. m <= RcvBuf
        <4> HIDE DEF w
        <4>1. OK(w, Edge(y), XCuts(y)) BY <1>4, PairFacts
        <4>2. Len(w.readable) + Len(w.ahead) = RcvBuf BY <4>1 DEF OK, Received
        <4>3. Len(w.ahead) \in Nat BY <1>4, Fields
        <4>4. Len(w.readable) = m BY <3>1
        <4> HIDE DEF m
        <4> QED BY <4>2, <4>3, <4>4, <3>2
      <3>8. Phase(x) \in {"new", "open"} /\ (Phase(w) = Phase(x) \/ Phase(w) = "open")
        <4>1. x.shutdown = "NONE" /\ w.shutdown = "NONE" BY <2>1, <2>4, <3>1
        <4>2. x.state # "CLOSED" /\ w.state # "CLOSED" BY <2>1, <2>4, <3>1
        <4>3. \/ w.state = "ESTABLISHED"
              \/ w.state # "ESTABLISHED" /\ x.state # "ESTABLISHED"
          BY <2>2, <3>1, <4>2
        <4> HIDE DEF w, x
        <4>4. CASE w.state = "ESTABLISHED"
          <5>1. Phase(w) = "open" BY <4>4, <4>1, <1>4, PhaseIs
          <5>2. Phase(x) \in {"new", "open"} BY <4>1, <4>2, <1>4, PhaseIs
          <5> QED BY <5>1, <5>2
        <4>5. CASE w.state # "ESTABLISHED" /\ x.state # "ESTABLISHED"
          <5>1. Phase(w) = "new" /\ Phase(x) = "new" BY <4>5, <4>1, <4>2, <1>4, PhaseIs
          <5> QED BY <5>1
        <4> QED BY <4>3, <4>4, <4>5
      <3> HIDE DEF w, n
      <3>9. /\ tcp'[Other(e)] = tcp[Other(e)] /\ tcp[e].got \in Nat
            /\ Phase(tcp[e]) \in {"new", "open"}
            /\ Phase(tcp'[e]) = Phase(tcp[e]) \/ Phase(tcp'[e]) = "open"
            /\ tcp'[e].wrote = tcp[e].wrote /\ tcp'[e].got = tcp[e].got
        BY <1>4, <3>1, <3>2, <3>8
      <3>10. /\ Run(tcp[e].readable, l, tcp[e].got) /\ Run(tcp'[e].readable, l + n, tcp[e].got)
             /\ l + n <= RcvBuf /\ tcp[Other(e)].wrote \in Nat
             /\ (tcp[e].got + l) + n <= tcp[Other(e)].wrote
        BY <1>4, <3>2, <3>3, <3>4, <3>5, <3>6, <3>7
      <3>11. Stream!Next
        <4> HIDE DEF l
        <4> QED BY <3>2, <3>5, <3>9, <3>10, CarryStep
      <3> QED BY <3>11
    <2> QED BY <2>3, <2>4
  <1> QED BY <1>5, <1>6

LEMMA StepRefines ==
    ASSUME TcpInv, TcpInv', \A e \in Ends : Clean(tcp[e]), \A e \in Ends : Clean(tcp'[e]), Next
    PROVE  Stream!Next \/ UNCHANGED Stream!vars
  <1>1. Dialling \/ \E e \in Ends : Steps(e) BY StepIs
  <1>2. CASE Dialling
    <2> DEFINE x == tcp[Client]
    <2>1. PICK z : Took(Client, {}, z) /\ Dials(x, tcp[Server], z) BY <1>2 DEF Dialling, After
    <2>2. /\ z \in Endpoint /\ z.deleted = x.deleted /\ (x.deleted => z = x) /\ SameApp(x, z)
          /\ z.state = "SYN_SENT" /\ z.shutdown = x.shutdown
      BY <2>1 DEF Dials, Moves, OK
    <2>3. x.state = "LISTEN" BY <1>2 DEF Dialling
    <2>4. Client \in Ends /\ Clean(tcp[Other(Client)]) BY TheEnds
    <2> QED BY <2>1, <2>2, <2>3, <2>4, QuietCall
  <1>3. ASSUME NEW e \in Ends, Steps(e) PROVE Stream!Next \/ UNCHANGED Stream!vars
    <2> DEFINE x == tcp[e]
               y == tcp[Other(e)]
    <2>0. Clean(tcp[e]) /\ Clean(tcp[Other(e)]) /\ Clean(tcp'[e]) BY EndsAre
    <2>1. CASE Sending(e) BY <2>0, <2>1, SendRefines
    <2>2. CASE Reading(e) BY <2>0, <2>2, RecvRefines
    <2>3. CASE Getting(e) BY <2>0, <2>3, GetRefines
    <2>4. CASE Losing(e)
      <3>1. tcp' = tcp BY <2>4 DEF Losing
      <3> QED BY <3>1 DEF Stream!vars
    <2>5. CASE Ticking(e)
      <3>1. PICK z : Took(e, {}, z) /\ Stirs(x, y, z) /\ SameApp(x, z) /\ z.shutdown = x.shutdown
        BY <2>5 DEF Ticking, After
      <3>2. /\ z \in Endpoint /\ z.deleted = x.deleted /\ (x.deleted => z = x)
            /\ z.state = x.state \/ z.state = "CLOSED"
        BY <3>1 DEF Stirs, Moves, OK
      <3> QED BY <2>0, <3>1, <3>2, QuietCall
    <2>6. CASE Closing(e)
      <3>1. PICK z : /\ Took(e, {}, z) /\ Stirs(x, y, z) /\ SameApp(x, z) /\ z.state = x.state
                     /\ z.shutdown = "FORCEFUL" \/ x.shutdown = "NONE"
        BY <2>6 DEF Closing, After
      <3>2. z \in Endpoint /\ z.deleted = x.deleted /\ (x.deleted => z = x)
        BY <3>1 DEF Stirs, Moves, OK
      <3> QED BY <2>0, <3>1, <3>2, QuietCall
    <2> QED BY <1>3, <2>1, <2>2, <2>3, <2>4, <2>5, <2>6 DEF Steps
  <1> QED BY <1>1, <1>2, <1>3

LEMMA InitRefines ==
    ASSUME Init
    PROVE  Stream!Init
  <1> DEFINE x == NewTcp
  <1>1. tcp = [e \in Ends |-> x] BY DEF Init
  <1>2. x.state = "LISTEN" /\ x.shutdown = "NONE" /\ x.wrote = 0 /\ x.got = 0 /\ x.readable = <<>>
    BY DEF NewTcp
  <1>3. Phase(x) = "new"
    <2>1. x \in Endpoint BY NewTcpOK
    <2> HIDE DEF x
    <2> QED BY <2>1, <1>2, PhaseIs
  <1>4. Arrived(x) = 0 BY <1>2 DEF Arrived
  <1> HIDE DEF x
  <1>5. Gap(0, 0) = <<>>
    <2> DEFINE n == 0
    <2>1. n \in Nat /\ n = 0 - 0 OBVIOUS
    <2>2. Run(Gap(0, 0), n, 0) BY <2>1, GapRun
    <2>3. Run(<<>>, n, 0) BY DEF Run
    <2> HIDE DEF n
    <2> QED BY <2>1, <2>2, <2>3, OneRun
  <1>6. ASSUME NEW e \in Ends
        PROVE  /\ Phase(tcp[e]) = "new" /\ tcp[e].wrote = 0 /\ tcp[e].readable = <<>>
               /\ Gap(tcp[e].wrote, Arrived(tcp[Other(e)])) = <<>>
    <2>1. Other(e) \in Ends BY EndsAre
    <2> QED BY <2>1, <1>1, <1>2, <1>3, <1>4, <1>5
  <1>7. /\ APhase = [e \in Ends |-> "new"] /\ AWritten = [e \in Ends |-> 0]
        /\ AInbox = [e \in Ends |-> <<>>]
    BY <1>6 DEF APhase, AWritten, AInbox
  <1>8. APipe = [e \in Ends |-> <<>>]
    <2>1. APipe = [e \in Ends |-> Gap(tcp[e].wrote, Arrived(tcp[Other(e)]))] BY DEF APipe, Gap
    <2> QED BY <2>1, <1>6
  <1> QED BY <1>7, <1>8 DEF Stream!Init, APhase, AWritten, AInbox, APipe

\* As long as no packet with data reaches the client before the connect message
\* of the server, PseudoTcp implements ByteStream in both directions: each call of
\* either end, with all the acknowledgements, saved segments and retransmissions
\* it handles, is one step of the two byte streams or none.
THEOREM ImplementsByteStream == Spec /\ [][~Overtaken]_vars => IsByteStream
  <1> DEFINE I == Unharmed
  <1>1. Spec /\ [][~Overtaken]_vars => []I BY UnharmedHolds
  <1>2. Init => Stream!Init BY InitRefines
  <1>3. I => TcpInv /\ \A e \in Ends : Clean(tcp[e])
    <2> SUFFICES ASSUME I PROVE TcpInv /\ \A e \in Ends : Clean(tcp[e]) OBVIOUS
    <2>1. TcpInv /\ Clean(tcp[Server]) /\ Clean(tcp[Client]) BY DEF Unharmed, StreamInv, Streams
    <2> QED BY <2>1, TheEnds
  <1>4. I' => TcpInv' /\ \A e \in Ends : Clean(tcp'[e])
    <2> SUFFICES ASSUME I' PROVE TcpInv' /\ \A e \in Ends : Clean(tcp'[e]) OBVIOUS
    <2>1. TcpInv' /\ Clean(tcp'[Server]) /\ Clean(tcp'[Client]) BY DEF Unharmed, StreamInv, Streams
    <2> QED BY <2>1, TheEnds
  <1>5. I /\ I' /\ [Next]_vars => [Stream!Next]_(Stream!vars)
    <2> SUFFICES ASSUME I, I', [Next]_vars PROVE Stream!Next \/ UNCHANGED Stream!vars OBVIOUS
    <2>1. /\ TcpInv /\ TcpInv' /\ \A e \in Ends : Clean(tcp[e])
          /\ \A e \in Ends : Clean(tcp'[e])
      BY <1>3, <1>4
    <2>2. CASE Next BY <2>1, <2>2, StepRefines
    <2>3. CASE UNCHANGED vars
      <3>1. tcp' = tcp BY <2>3 DEF vars
      <3> QED BY <3>1 DEF Stream!vars
    <2> QED BY <2>2, <2>3
  <1> QED BY <1>1, <1>2, <1>5, PTL DEF Spec, IsByteStream, Stream!Spec
=============================================================================
