---------------------------- MODULE TunnelProofs ----------------------------
(***************************************************************************)
(* Theorems about TunnelChannel, for any roles, threads and bounds.  That  *)
(* its messages find what they are about (MessagesValid), that the stream  *)
(* is told once that it is closed (CloseToldOnce) and that no event is     *)
(* lost (NoLostEvent) holds for all instances; that the channel is deleted *)
(* last (DeletedLast) for those in which the client keeps to the two rules *)
(* of Careful.                                                             *)
(*                                                                         *)
(* The inductive invariant counts messages: how many of an id are in a     *)
(* queue or being handled follows from which of session, transport         *)
(* channel, worker and stream are left.                                    *)
(***************************************************************************)
EXTENDS TunnelChannel, ListLemmas, SequenceTheorems, TLAPS

-----------------------------------------------------------------------------
(* Types                                                                   *)

Two == {"main", "stream"}
Ids == {"STATE", "WK_CLOCK", "WK_PURGE", "SI_DESTROYCHANNEL", "SI_DESTROY", "ST_EVENT"}

Message == {m \in [id : Ids, events : SUBSET StreamEvents] :
               m.id # "ST_EVENT" => m.events = {}}
Events == {m \in Message : m.id = "ST_EVENT"}

LiveTcp ==
    [state : {"LISTEN", "SYN_SENT", "SYN_RECEIVED", "ESTABLISHED", "CLOSED"},
     shutdown : {"NONE", "GRACEFUL", "FORCEFUL"}, unsent : BOOLEAN, ackDue : BOOLEAN,
     xmit : Nat, rbuf : Nat, readEnable : BOOLEAN, writeEnable : BOOLEAN]
ChannelRec ==
    [alive : BOOLEAN, session : BOOLEAN, channel : BOOLEAN, worker : BOOLEAN,
     stream : BOOLEAN, ready : BOOLEAN, pending : BOOLEAN, tcp : {NoTcp} \cup LiveTcp,
     stream_thread : Two, misused : BOOLEAN]
SysRec ==
    [role : {"INITIATOR", "RESPONDER"}, clocks : Nat, queue : [Two -> Seq(Message)],
     ch : ChannelRec]
AppRec == [closed : BOOLEAN, closes : Nat, readTurn : BOOLEAN, writeWait : BOOLEAN]

\* Everything has its type; only events are posted to a thread of the stream's own.
Typed(s, b, st, ow, ap) ==
    /\ s \in SysRec /\ s.queue["stream"] \in Seq(Events)
    /\ b \in [Two -> Message \cup {NoMsg, Msg("POST_STATE")}]
    /\ b["stream"] \in Events \cup {NoMsg}
    /\ st \in {"INIT", "DEINIT"} \cup Live \cup Ended
    /\ ow \in BOOLEAN /\ ap \in AppRec

-----------------------------------------------------------------------------
(* Counting messages                                                       *)

One(x) == IF x THEN 1 ELSE 0
Tally(q, P) == Cardinality({i \in 1 .. Len(q) : q[i] \in P})

Count(q, id) == Cardinality({i \in 1 .. Len(q) : q[i].id = id})
Tells(q, e) == Cardinality({i \in 1 .. Len(q) : e \in q[i].events})

\* In the queue of a thread, or being handled by it.
Due(s, b, id) == Count(s.queue["main"], id) + One(b["main"].id = id)
Heard(s, b, e) ==
    Tells(s.queue[s.ch.stream_thread], e) + One(e \in b[s.ch.stream_thread].events)

\* A MSG_STATE is queued, before any MSG_SI_DESTROY.
Ahead(q) ==
    \E i \in 1 .. Len(q) : /\ q[i].id = "STATE"
                           /\ \A j \in 1 .. Len(q) : q[j].id = "SI_DESTROY" => i < j

-----------------------------------------------------------------------------
(* The inductive invariant                                                 *)

\* Which messages there are follows from what is left of the tunnel.
Wired(s, b) ==
    /\ s.ch.tcp # NoTcp => s.ch.channel
    /\ s.ch.channel <=> s.ch.session /\ s.ch.worker
    /\ s.ch.stream /\ s.ch.tcp # NoTcp => s.ch.tcp.shutdown = "NONE"
    /\ s.clocks + Due(s, b, "WK_CLOCK") > 0 => s.ch.channel
    /\ s.clocks + Due(s, b, "WK_CLOCK") <= IF s.ch.stream THEN 1 ELSE 2
    /\ Due(s, b, "SI_DESTROYCHANNEL") > 0 => s.ch.channel
    /\ Due(s, b, "WK_PURGE") = One(~s.ch.session /\ s.ch.worker)

\* Events are for the stream's thread, while there is a stream.
Eventful(s, b) ==
    \A t \in Two : ~s.ch.stream \/ t # s.ch.stream_thread =>
        Count(s.queue[t], "ST_EVENT") = 0 /\ b[t].id # "ST_EVENT"

\* How far the session and its channel are.
Staged(s, b, st, ow, ap) ==
    /\ ow <=> st \notin {"INIT", "DEINIT"}
    /\ st = "INIT" =>
          /\ \A t \in Two : s.queue[t] = <<>> /\ b[t] = NoMsg
          /\ s.clocks = 0 /\ ap.closes = 0 /\ s.ch.alive /\ ~s.ch.misused
          /\ ~s.ch.session /\ ~s.ch.channel /\ ~s.ch.worker /\ ~s.ch.stream
    /\ st \in Live => s.ch.session
    /\ st \in {"SENTINITIATE", "RECEIVEDINITIATE"} => ~s.ch.worker
    /\ st = "RECEIVEDINITIATE" => ~s.ch.stream /\ ap.closes = 0 /\ ~s.ch.pending
    /\ s.ch.channel => st \notin {"INIT", "DEINIT"}

Closing(s, b, ap) ==
    s.ch.stream => Heard(s, b, "CLOSE") + ap.closes =
                      One(~s.ch.session \/ s.ch.tcp.state = "CLOSED")

Hearing(s, b, ap) ==
    s.ch.stream =>
      /\ s.ch.pending => Heard(s, b, "READ") > 0
      /\ s.ch.tcp.state = "ESTABLISHED" =>
           /\ \/ ap.readTurn \/ Heard(s, b, "READ") > 0
              \/ s.ch.tcp.readEnable /\ s.ch.tcp.rbuf = 0
           /\ ap.writeWait => s.ch.tcp.writeEnable \/ Heard(s, b, "WRITE") > 0

\* The client's rules.
Careful == ~Early /\ Overlaps \subseteq {"main"}

\* The channel is there for whatever is left of the tunnel.
Lasting(s, b) ==
    /\ ~s.ch.misused
    /\ s.ch.session \/ s.ch.worker \/ s.ch.stream =>
          s.ch.alive /\ Due(s, b, "SI_DESTROY") = 0
    /\ Due(s, b, "SI_DESTROY") <= One(s.ch.alive)

\* Before it is deleted an ended session has been, too: MSG_STATE comes first.
Ordered(s, b, st) ==
    s.ch.stream_thread = "main" /\ st \in Ended =>
        /\ s.ch.alive /\ b["main"].id # "SI_DESTROY"
        /\ \/ b["main"].id = "STATE"
           \/ b["main"].id = "POST_STATE" /\ Due(s, b, "SI_DESTROY") = 0
           \/ Ahead(s.queue["main"])

Frame(s, b, st, ow, ap) ==
    /\ Typed(s, b, st, ow, ap)
    /\ Wired(s, b) /\ Eventful(s, b) /\ Staged(s, b, st, ow, ap)
    /\ Careful => Lasting(s, b) /\ Ordered(s, b, st)

Inv(s, b, st, ow, ap) ==
    Frame(s, b, st, ow, ap) /\ Closing(s, b, ap) /\ Hearing(s, b, ap)

IInv == Inv(sys, busy, ses, owner, app)
-----------------------------------------------------------------------------
(* Counting                                                                *)

LEMMA OneType == \A x : One(x) \in {0, 1}
  BY DEF One

\* The places of a queue.
LEMMA Places ==
    ASSUME NEW q, Len(q) \in Nat, NEW T, T \subseteq 1 .. Len(q)
    PROVE  IsFiniteSet(T) /\ Cardinality(T) \in Nat
  <1>1. IsFiniteSet(1 .. Len(q)) BY FS_Interval
  <1>2. IsFiniteSet(T) BY <1>1, FS_Subset
  <1> QED BY <1>2, FS_CardinalityType

LEMMA TallyType ==
    ASSUME NEW S, NEW q \in Seq(S), NEW P
    PROVE  Tally(q, P) \in Nat
  <1> DEFINE T == {i \in 1 .. Len(q) : q[i] \in P}
  <1>1. Len(q) \in Nat /\ T \subseteq 1 .. Len(q) OBVIOUS
  <1> HIDE DEF T
  <1>2. Cardinality(T) \in Nat BY <1>1, Places
  <1> QED BY <1>2 DEF T, Tally

LEMMA TallyEmpty == \A P : Tally(<<>>, P) = 0
  <1> TAKE P
  <1>1. {i \in 1 .. Len(<<>>) : <<>>[i] \in P} = {} OBVIOUS
  <1> QED BY <1>1, FS_EmptySet DEF Tally

\* A message that is posted.
LEMMA TallyAppend ==
    ASSUME NEW S, NEW q \in Seq(S), NEW m \in S, NEW P
    PROVE  Tally(Append(q, m), P) = Tally(q, P) + One(m \in P)
  <1> DEFINE n == Len(q)
             r == Append(q, m)
             T == {i \in 1 .. n : q[i] \in P}
             U == {i \in 1 .. Len(r) : r[i] \in P}
  <1>1. n \in Nat /\ Len(r) = n + 1 /\ r[n + 1] = m OBVIOUS
  <1>2. \A i \in 1 .. n : r[i] = q[i] OBVIOUS
  <1>3. T \subseteq 1 .. n OBVIOUS
  <1> HIDE DEF n, r
  <1>4. U = IF m \in P THEN T \cup {n + 1} ELSE T BY <1>1, <1>2
  <1>5. n + 1 \notin T BY <1>1, <1>3
  <1> HIDE DEF T, U
  <1>6. IsFiniteSet(T) /\ Cardinality(T) \in Nat BY <1>1, <1>3, Places DEF n
  <1>7. Cardinality(T \cup {n + 1}) = Cardinality(T) + 1 BY <1>5, <1>6, FS_AddElement
  <1>8. Cardinality(U) = Cardinality(T) + One(m \in P)
    BY <1>4, <1>6, <1>7 DEF One
  <1> QED BY <1>8 DEF T, U, n, r, Tally

\* As many, one by one.
LEMMA OneByOne ==
    ASSUME NEW U, IsFiniteSet(U), NEW T, NEW f \in [U -> T],
           \A k, l \in U : f[k] = f[l] => k = l,
           \A i \in T : \E k \in U : f[k] = i
    PROVE  Cardinality(U) = Cardinality(T)
  <1>1. f \in Injection(U, T) BY DEF Injection, IsInjective
  <1>2. f \in Surjection(U, T) BY DEF Surjection
  <1>3. ExistsBijection(U, T) BY <1>1, <1>2, Zenon DEF ExistsBijection, Bijection
  <1> QED BY <1>3, FS_Bijection

\* A queue with the same messages at other places, one by one.
LEMMA TallyMoved ==
    ASSUME NEW S, NEW q \in Seq(S), NEW r \in Seq(S), NEW P, NEW p,
           p \in [1 .. Len(r) -> 1 .. Len(q)],
           \A k \in 1 .. Len(r) : r[k] = q[p[k]],
           \A k, l \in 1 .. Len(r) : p[k] = p[l] => k = l,
           \A i \in 1 .. Len(q) : q[i] \in P => \E k \in 1 .. Len(r) : p[k] = i
    PROVE  Tally(r, P) = Tally(q, P)
  <1> DEFINE T == {i \in 1 .. Len(q) : q[i] \in P}
             U == {k \in 1 .. Len(r) : r[k] \in P}
             f == [k \in U |-> p[k]]
  <1>1. f \in [U -> T] OBVIOUS
  <1>2. \A k, l \in U : f[k] = f[l] => k = l OBVIOUS
  <1>3. \A i \in T : \E k \in U : f[k] = i
    <2> TAKE i \in T
    <2>1. PICK k \in 1 .. Len(r) : p[k] = i OBVIOUS
    <2>2. k \in U BY <2>1
    <2> QED BY <2>1, <2>2
  <1>4. Len(r) \in Nat /\ U \subseteq 1 .. Len(r) OBVIOUS
  <1> HIDE DEF T, U, f
  <1>5. IsFiniteSet(U) BY <1>4, Places
  <1>6. Cardinality(U) = Cardinality(T) BY <1>1, <1>2, <1>3, <1>5, OneByOne
  <1> QED BY <1>6 DEF T, U, Tally

\* A message that is taken.
LEMMA TallyTail ==
    ASSUME NEW S, NEW q \in Seq(S), q # <<>>, NEW P
    PROVE  Tally(q, P) = Tally(Tail(q), P) + One(Head(q) \in P)
  <1> DEFINE n == Len(q)
             r == Tail(q)
             T == {i \in 1 .. n : q[i] \in P}
             V == {i \in 2 .. n : q[i] \in P}
             U == {k \in 1 .. Len(r) : r[k] \in P}
             f == [k \in U |-> k + 1]
  <1>1. n \in Nat /\ n > 0 /\ Len(r) = n - 1 /\ Head(q) = q[1] OBVIOUS
  <1>2. \A k \in 1 .. n - 1 : r[k] = q[k + 1] OBVIOUS
  <1>3. V \subseteq 1 .. n /\ U \subseteq 1 .. n
    <2> HIDE DEF n, r
    <2> QED BY <1>1
  <1> HIDE DEF n, r
  <1>4. T = IF Head(q) \in P THEN V \cup {1} ELSE V BY <1>1
  <1>5. 1 \notin V BY <1>1
  <1>6. f \in [U -> V] BY <1>1, <1>2
  <1>7. \A k, l \in U : f[k] = f[l] => k = l BY <1>1
  <1>8. \A i \in V : \E k \in U : f[k] = i
    <2> TAKE i \in V
    <2>1. i - 1 \in U /\ f[i - 1] = i BY <1>1, <1>2
    <2> QED BY <2>1
  <1> HIDE DEF T, U, V, f
  <1>9. IsFiniteSet(U) /\ IsFiniteSet(V) /\ Cardinality(V) \in Nat
    BY <1>1, <1>3, Places DEF n
  <1>11. Cardinality(U) = Cardinality(V)
    BY <1>6, <1>7, <1>8, <1>9, OneByOne, Zenon
  <1>12. Cardinality(V \cup {1}) = Cardinality(V) + 1 BY <1>5, <1>9, FS_AddElement
  <1>13. Cardinality(T) = Cardinality(U) + One(Head(q) \in P)
    BY <1>4, <1>9, <1>11, <1>12 DEF One
  <1> QED BY <1>13 DEF T, U, n, r, Tally

\* Messages that are cleared.
LEMMA TallyWithout ==
    ASSUME NEW S, NEW q \in Seq(S), NEW P, NEW Drop
    PROVE  /\ Without(q, Drop) \in Seq(S)
           /\ P \cap Drop = {} => Tally(Without(q, Drop), P) = Tally(q, P)
           /\ P \subseteq Drop => Tally(Without(q, Drop), P) = 0
  <1> DEFINE r == Without(q, Drop)
  <1>1. r \in Seq(S) /\ Left(r, q, Drop) BY WithoutPlaces
  <1> HIDE DEF r
  <1>2. PICK p \in [1 .. Len(r) -> 1 .. Len(q)] :
        /\ \A k \in 1 .. Len(r) : r[k] = q[p[k]] /\ q[p[k]] \notin Drop
        /\ \A k, l \in 1 .. Len(r) : p[k] = p[l] => k = l
        /\ \A k, l \in 1 .. Len(r) : p[k] < p[l] => k < l
        /\ \A i \in 1 .. Len(q) : q[i] \notin Drop => \E k \in 1 .. Len(r) : p[k] = i
    BY <1>1 DEF Left
  <1>3. ASSUME P \cap Drop = {} PROVE Tally(r, P) = Tally(q, P)
    <2>1. \A i \in 1 .. Len(q) : q[i] \in P => \E k \in 1 .. Len(r) : p[k] = i
      BY <1>2, <1>3
    <2>2. \A k \in 1 .. Len(r) : r[k] = q[p[k]] BY <1>2
    <2> QED BY <1>1, <1>2, <2>1, <2>2, TallyMoved, SMTT(30)
  <1>4. ASSUME P \subseteq Drop PROVE Tally(r, P) = 0
    <2>1. {i \in 1 .. Len(r) : r[i] \in P} = {} BY <1>2, <1>4
    <2> QED BY <2>1, FS_EmptySet DEF Tally
  <1> QED BY <1>1, <1>3, <1>4 DEF r

OfId(id) == {m \in Message : m.id = id}
OfEvent(e) == {m \in Message : e \in m.events}

\* r is q with the message m at its end.
Grown(q, r, m) ==
    /\ r \in Seq(Message)
    /\ \A id : Count(r, id) = Count(q, id) + One(m.id = id)
    /\ \A e : Tells(r, e) = Tells(q, e) + One(e \in m.events)
    /\ Ahead(q) => Ahead(r)
    /\ m.id = "STATE" /\ Count(q, "SI_DESTROY") = 0 => Ahead(r)
    /\ q \in Seq(Events) /\ m \in Events => r \in Seq(Events)

\* r is q without its first message, m.
Shrunk(q, r, m) ==
    /\ r \in Seq(Message) /\ m \in Message
    /\ \A id : Count(q, id) = Count(r, id) + One(m.id = id)
    /\ \A e : Tells(q, e) = Tells(r, e) + One(e \in m.events)
    /\ Ahead(q) => m.id = "STATE" \/ (m.id # "SI_DESTROY" /\ Ahead(r))
    /\ q \in Seq(Events) => r \in Seq(Events) /\ m \in Events

\* r is q without the messages of an id.
Cleared(q, r, id) ==
    /\ r \in Seq(Message)
    /\ \A j : Count(r, j) = IF j = id THEN 0 ELSE Count(q, j)
    /\ \A e : Tells(r, e) = IF id = "ST_EVENT" THEN 0 ELSE Tells(q, e)
    /\ id # "STATE" /\ Ahead(q) => Ahead(r)
    /\ q \in Seq(Events) => r \in Seq(Events)

LEMMA CountTally ==
    ASSUME NEW q \in Seq(Message)
    PROVE  /\ \A id : Count(q, id) = Tally(q, OfId(id))
           /\ \A e : Tells(q, e) = Tally(q, OfEvent(e))
  <1>1. \A i \in 1 .. Len(q) : q[i] \in Message OBVIOUS
  <1>2. \A id : {i \in 1 .. Len(q) : q[i].id = id} = {i \in 1 .. Len(q) : q[i] \in OfId(id)}
    BY <1>1 DEF OfId
  <1>3. \A e : {i \in 1 .. Len(q) : e \in q[i].events}
               = {i \in 1 .. Len(q) : q[i] \in OfEvent(e)}
    BY <1>1 DEF OfEvent
  <1> QED BY <1>2, <1>3 DEF Count, Tells, Tally

LEMMA CountType ==
    ASSUME NEW q \in Seq(Message)
    PROVE  /\ \A id : Count(q, id) \in Nat
           /\ \A e : Tells(q, e) \in Nat
           /\ \A id : Count(q, id) = 0 => \A i \in 1 .. Len(q) : q[i].id # id
           /\ Count(q, "ST_EVENT") = 0 => \A e : Tells(q, e) = 0
  <1>1. \A P : Tally(q, P) \in Nat BY TallyType
  <1>2. \A id : Count(q, id) \in Nat BY <1>1, CountTally
  <1>3. \A e : Tells(q, e) \in Nat BY <1>1, CountTally
  <1>4. ASSUME NEW id, Count(q, id) = 0 PROVE \A i \in 1 .. Len(q) : q[i].id # id
    <2> DEFINE T == {i \in 1 .. Len(q) : q[i].id = id}
    <2>1. Len(q) \in Nat /\ T \subseteq 1 .. Len(q) OBVIOUS
    <2>2. Cardinality(T) = 0 BY <1>4 DEF Count
    <2> HIDE DEF T
    <2>3. T = {} BY <2>1, <2>2, Places, FS_EmptySet
    <2> QED BY <2>3 DEF T
  <1>5. ASSUME Count(q, "ST_EVENT") = 0, NEW e PROVE Tells(q, e) = 0
    <2>1. \A i \in 1 .. Len(q) : q[i] \in Message OBVIOUS
    <2>2. \A i \in 1 .. Len(q) : q[i].id # "ST_EVENT" BY <1>4, <1>5
    <2>3. {i \in 1 .. Len(q) : e \in q[i].events} = {} BY <2>1, <2>2 DEF Message
    <2> QED BY <2>3, FS_EmptySet DEF Tells
  <1> QED BY <1>2, <1>3, <1>4, <1>5

LEMMA CountEmpty ==
    /\ \A id : Count(<<>>, id) = 0
    /\ \A e : Tells(<<>>, e) = 0
  <1>1. <<>> \in Seq(Message) OBVIOUS
  <1> QED BY <1>1, CountTally, TallyEmpty

LEMMA AppendGrows ==
    ASSUME NEW q \in Seq(Message), NEW m \in Message
    PROVE  Grown(q, Append(q, m), m)
  <1> DEFINE r == Append(q, m)
             n == Len(q)
  <1>1. r \in Seq(Message) /\ n \in Nat /\ Len(r) = n + 1 /\ r[n + 1] = m
        /\ \A i \in 1 .. n : r[i] = q[i]
    OBVIOUS
  <1>2. \A P : Tally(r, P) = Tally(q, P) + One(m \in P) BY TallyAppend
  <1>3. (\A id : m \in OfId(id) <=> m.id = id) /\ (\A e : m \in OfEvent(e) <=> e \in m.events)
    BY DEF OfId, OfEvent
  <1>4. q \in Seq(Events) /\ m \in Events => r \in Seq(Events) OBVIOUS
  <1> HIDE DEF r, n
  <1>5. \A id : Count(r, id) = Count(q, id) + One(m.id = id)
    <2> TAKE id
    <2>1. Count(r, id) = Tally(r, OfId(id)) /\ Count(q, id) = Tally(q, OfId(id))
      BY <1>1, CountTally
    <2> QED BY <2>1, <1>2, <1>3 DEF One
  <1>6. \A e : Tells(r, e) = Tells(q, e) + One(e \in m.events)
    <2> TAKE e
    <2>1. Tells(r, e) = Tally(r, OfEvent(e)) /\ Tells(q, e) = Tally(q, OfEvent(e))
      BY <1>1, CountTally
    <2> QED BY <2>1, <1>2, <1>3 DEF One
  <1>7. ASSUME Ahead(q) PROVE Ahead(r)
    <2>1. PICK i \in 1 .. n : q[i].id = "STATE"
              /\ \A j \in 1 .. n : q[j].id = "SI_DESTROY" => i < j
      BY <1>7 DEF Ahead, n
    <2>2. i \in 1 .. Len(r) /\ r[i].id = "STATE" BY <1>1, <2>1
    <2>3. \A j \in 1 .. Len(r) : r[j].id = "SI_DESTROY" => i < j BY <1>1, <2>1
    <2> QED BY <2>2, <2>3 DEF Ahead
  <1>8. ASSUME m.id = "STATE", Count(q, "SI_DESTROY") = 0 PROVE Ahead(r)
    <2>1. \A j \in 1 .. n : q[j].id # "SI_DESTROY" BY <1>8, CountType DEF n
    <2>2. n + 1 \in 1 .. Len(r) /\ r[n + 1].id = "STATE" BY <1>1, <1>8
    <2>3. \A j \in 1 .. Len(r) : r[j].id = "SI_DESTROY" => n + 1 < j
      BY <1>1, <1>8, <2>1
    <2> QED BY <2>2, <2>3 DEF Ahead
  <1> QED BY <1>1, <1>4, <1>5, <1>6, <1>7, <1>8 DEF Grown, r

LEMMA TailShrinks ==
    ASSUME NEW q \in Seq(Message), q # <<>>
    PROVE  Shrunk(q, Tail(q), Head(q))
  <1> DEFINE r == Tail(q)
             m == Head(q)
             n == Len(q)
  <1>1. /\ r \in Seq(Message) /\ m \in Message /\ m = q[1]
        /\ n \in Nat /\ n > 0 /\ Len(r) = n - 1
    OBVIOUS
  <1>2. \A i \in 1 .. n - 1 : r[i] = q[i + 1] OBVIOUS
  <1>3. \A P : Tally(q, P) = Tally(r, P) + One(m \in P) BY TallyTail
  <1>4. q \in Seq(Events) => r \in Seq(Events) /\ m \in Events OBVIOUS
  <1> HIDE DEF r, m, n
  <1>5. (\A id : m \in OfId(id) <=> m.id = id) /\ (\A e : m \in OfEvent(e) <=> e \in m.events)
    BY <1>1 DEF OfId, OfEvent
  <1>6. \A id : Count(q, id) = Count(r, id) + One(m.id = id)
    <2> TAKE id
    <2>1. Count(r, id) = Tally(r, OfId(id)) /\ Count(q, id) = Tally(q, OfId(id))
      BY <1>1, CountTally
    <2> QED BY <2>1, <1>3, <1>5 DEF One
  <1>7. \A e : Tells(q, e) = Tells(r, e) + One(e \in m.events)
    <2> TAKE e
    <2>1. Tells(r, e) = Tally(r, OfEvent(e)) /\ Tells(q, e) = Tally(q, OfEvent(e))
      BY <1>1, CountTally
    <2> QED BY <2>1, <1>3, <1>5 DEF One
  <1>8. ASSUME Ahead(q), m.id # "STATE" PROVE m.id # "SI_DESTROY" /\ Ahead(r)
    <2>1. PICK i \in 1 .. n : q[i].id = "STATE"
              /\ \A j \in 1 .. n : q[j].id = "SI_DESTROY" => i < j
      BY <1>8 DEF Ahead, n
    <2>2. i # 1 /\ m.id # "SI_DESTROY" BY <1>1, <1>8, <2>1
    <2>3. i - 1 \in 1 .. Len(r) /\ r[i - 1].id = "STATE" BY <1>1, <1>2, <2>1, <2>2
    <2>4. \A j \in 1 .. Len(r) : r[j].id = "SI_DESTROY" => i - 1 < j
      <3> TAKE j \in 1 .. Len(r)
      <3> HAVE r[j].id = "SI_DESTROY"
      <3>1. j \in 1 .. n - 1 /\ j + 1 \in 1 .. n BY <1>1
      <3>2. i < j + 1 BY <1>2, <2>1, <3>1
      <3> QED BY <3>1, <3>2, <1>1
    <2> QED BY <2>2, <2>3, <2>4 DEF Ahead
  <1> QED BY <1>1, <1>4, <1>6, <1>7, <1>8 DEF Shrunk, r, m

LEMMA ClearsId ==
    ASSUME NEW q \in Seq(Message),
           NEW id \in {"STATE", "WK_CLOCK", "SI_DESTROYCHANNEL", "ST_EVENT"}
    PROVE  Cleared(q, Without(q, Messages[id]), id)
  <1> DEFINE D == Messages[id]
             r == Without(q, D)
  <1>1. \A m \in Message : m \in D <=> m.id = id BY DEF Message, Messages
  <1> HIDE DEF D
  <1>2. r \in Seq(Message) /\ Left(r, q, D) BY WithoutPlaces
  <1>3. q \in Seq(Events) => r \in Seq(Events) BY WithoutPlaces
  <1>4. \A P : /\ P \cap D = {} => Tally(r, P) = Tally(q, P)
               /\ P \subseteq D => Tally(r, P) = 0
    BY TallyWithout
  <1> HIDE DEF r
  <1>5. \A j : Count(r, j) = IF j = id THEN 0 ELSE Count(q, j)
    <2> TAKE j
    <2>1. Count(r, j) = Tally(r, OfId(j)) /\ Count(q, j) = Tally(q, OfId(j))
      BY <1>2, CountTally
    <2>2. IF j = id THEN OfId(j) \subseteq D ELSE OfId(j) \cap D = {} BY <1>1 DEF OfId
    <2> QED BY <2>1, <2>2, <1>4
  <1>6. \A e : Tells(r, e) = IF id = "ST_EVENT" THEN 0 ELSE Tells(q, e)
    <2> TAKE e
    <2>1. Tells(r, e) = Tally(r, OfEvent(e)) /\ Tells(q, e) = Tally(q, OfEvent(e))
      BY <1>2, CountTally
    <2>2. IF id = "ST_EVENT" THEN OfEvent(e) \subseteq D ELSE OfEvent(e) \cap D = {}
      BY <1>1 DEF OfEvent, Message
    <2> QED BY <2>1, <2>2, <1>4
  <1>7. ASSUME id # "STATE", Ahead(q) PROVE Ahead(r)
    <2>0. PICK p \in [1 .. Len(r) -> 1 .. Len(q)] :
          /\ \A k \in 1 .. Len(r) : r[k] = q[p[k]] /\ q[p[k]] \notin D
          /\ \A k, l \in 1 .. Len(r) : p[k] = p[l] => k = l
          /\ \A k, l \in 1 .. Len(r) : p[k] < p[l] => k < l
          /\ \A i \in 1 .. Len(q) : q[i] \notin D => \E k \in 1 .. Len(r) : p[k] = i
      BY <1>2 DEF Left
    <2>1. PICK i \in 1 .. Len(q) : q[i].id = "STATE"
              /\ \A j \in 1 .. Len(q) : q[j].id = "SI_DESTROY" => i < j
      BY <1>7 DEF Ahead
    <2>2. q[i] \in Message OBVIOUS
    <2>3. q[i] \notin D BY <1>1, <1>7, <2>1, <2>2
    <2>4. PICK k \in 1 .. Len(r) : p[k] = i BY <2>0, <2>3
    <2>5. r[k].id = "STATE" BY <2>0, <2>1, <2>4
    <2>6. \A l \in 1 .. Len(r) : r[l].id = "SI_DESTROY" => k < l
      BY <2>0, <2>1, <2>4, SMTT(30)
    <2> QED BY <2>5, <2>6 DEF Ahead
  <1> QED BY <1>2, <1>3, <1>5, <1>6, <1>7 DEF Cleared, r, D

-----------------------------------------------------------------------------
(* What the primitives do to the channel, its queues and its timers        *)

Busy == [Two -> Message \cup {NoMsg, Msg("POST_STATE")}]

Posted(s, r, t, m) ==
    /\ r \in SysRec /\ r.role = s.role /\ r.clocks = s.clocks /\ r.ch = s.ch
    /\ Grown(s.queue[t], r.queue[t], m)
    /\ \A u \in Two : u # t => r.queue[u] = s.queue[u]

Wiped(s, r, t, id) ==
    /\ r \in SysRec /\ r.role = s.role /\ r.clocks = s.clocks /\ r.ch = s.ch
    /\ Cleared(s.queue[t], r.queue[t], id)
    /\ \A u \in Two : u # t => r.queue[u] = s.queue[u]

LEMMA PostEffect ==
    ASSUME NEW s \in SysRec, NEW t \in Two, NEW m \in Message
    PROVE  Posted(s, Post(s, t, m), t, m)
  <1> DEFINE q == s.queue[t]
             r == Post(s, t, m)
  <1>1. q \in Seq(Message) BY DEF SysRec
  <1>2. Grown(q, Append(q, m), m) BY <1>1, AppendGrows
  <1>3. Append(q, m) \in Seq(Message) BY <1>2 DEF Grown
  <1>4. /\ r.role = s.role /\ r.clocks = s.clocks /\ r.ch = s.ch
        /\ r.queue[t] = Append(q, m) /\ \A u \in Two : u # t => r.queue[u] = s.queue[u]
    BY DEF Post, SysRec
  <1>5. r \in SysRec BY <1>3 DEF Post, SysRec
  <1> QED BY <1>2, <1>4, <1>5 DEF Posted

LEMMA ClearEffect ==
    ASSUME NEW s \in SysRec, NEW t \in Two,
           NEW id \in {"STATE", "WK_CLOCK", "SI_DESTROYCHANNEL", "ST_EVENT"}
    PROVE  Wiped(s, Clear(s, t, id), t, id)
  <1> DEFINE q == s.queue[t]
             w == Without(q, Messages[id])
             r == Clear(s, t, id)
  <1>1. q \in Seq(Message) BY DEF SysRec
  <1>2. Cleared(q, w, id) BY <1>1, ClearsId
  <1>3. w \in Seq(Message) BY <1>2 DEF Cleared
  <1>4. /\ r.role = s.role /\ r.clocks = s.clocks /\ r.ch = s.ch
        /\ r.queue[t] = w /\ \A u \in Two : u # t => r.queue[u] = s.queue[u]
    BY DEF Clear, SysRec
  <1>5. r \in SysRec BY <1>3 DEF Clear, SysRec
  <1> QED BY <1>2, <1>4, <1>5 DEF Wiped

\* The parts of a channel that the invariant is about, apart from the connection.
SameParts(c, d) ==
    /\ d.alive = c.alive /\ d.session = c.session /\ d.channel = c.channel
    /\ d.worker = c.worker /\ d.stream = c.stream /\ d.misused = c.misused
    /\ d.stream_thread = c.stream_thread

\* From s to r, the connection moves on and the stream may be told of it.
Quietly(s, r) ==
    /\ r \in SysRec /\ r.role = s.role /\ r.clocks = s.clocks
    /\ s.queue["stream"] \in Seq(Events) => r.queue["stream"] \in Seq(Events)
    /\ SameParts(s.ch, r.ch)
    /\ (r.ch.tcp = NoTcp) <=> (s.ch.tcp = NoTcp)
    /\ r.ch.tcp.shutdown = s.ch.tcp.shutdown
    /\ ~s.ch.stream => r.queue = s.queue /\ r.ch.pending = s.ch.pending
    /\ \A u \in Two, id \in Ids : id # "ST_EVENT" \/ u # s.ch.stream_thread =>
          Count(r.queue[u], id) = Count(s.queue[u], id)
    /\ Ahead(s.queue["main"]) => Ahead(r.queue["main"])

LEMMA QuietFrame ==
    ASSUME NEW s, NEW r, NEW b, NEW st, NEW ow, NEW ap, NEW aq,
           Frame(s, b, st, ow, ap), Quietly(s, r),
           aq \in AppRec, aq.closes = ap.closes
    PROVE  Frame(r, b, st, ow, aq)
  <1>0. s \in SysRec /\ r \in SysRec BY DEF Frame, Typed, Quietly
  <1>1. Typed(r, b, st, ow, aq) BY DEF Frame, Typed, Quietly
  <1>2. \A id \in Ids : id # "ST_EVENT" => Due(r, b, id) = Due(s, b, id)
    BY DEF Quietly, Due, Two
  <1>3. Wired(r, b)
    BY <1>2 DEF Frame, Wired, Quietly, SameParts, Ids
  <1>4. Eventful(r, b)
    BY DEF Frame, Eventful, Quietly, SameParts, Ids
  <1>5. Staged(r, b, st, ow, aq)
    BY DEF Frame, Staged, Quietly, SameParts
  <1>6. Careful => Lasting(r, b) /\ Ordered(r, b, st)
    BY <1>2 DEF Frame, Lasting, Ordered, Quietly, SameParts, Ids
  <1> QED BY <1>1, <1>3, <1>4, <1>5, <1>6 DEF Frame

\* r is s with the connection x.
Retcp(s, r, x) ==
    /\ r \in SysRec /\ r.role = s.role /\ r.clocks = s.clocks /\ r.queue = s.queue
    /\ SameParts(s.ch, r.ch) /\ r.ch.pending = s.ch.pending
    /\ r.ch.tcp = x

\* The connection moves on, and what the stream was told and hears stays right.
Talk(s, r) ==
    /\ Quietly(s, r)
    /\ \A b \in Busy, ap \in AppRec :
          /\ Closing(s, b, ap) => Closing(r, b, ap)
          /\ Hearing(s, b, ap) => Hearing(r, b, ap)

LEMMA TalkTransitive ==
    ASSUME NEW s, NEW r, NEW u, Talk(s, r), Talk(r, u)
    PROVE  Talk(s, u)
  <1>1. Quietly(s, u)
    BY DEF Talk, Quietly, SameParts
  <1> QED BY <1>1 DEF Talk

LEMMA TalkSelf == ASSUME NEW s \in SysRec PROVE Talk(s, s)
  BY DEF Talk, Quietly, SameParts

\* The connection changes in what neither the stream nor the clock depends on.
LEMMA RetcpTalks ==
    ASSUME NEW s \in SysRec, NEW r, NEW x \in LiveTcp, s.ch.tcp \in LiveTcp,
           Retcp(s, r, x), x.shutdown = s.ch.tcp.shutdown,
           (x.state = "CLOSED") <=> (s.ch.tcp.state = "CLOSED"),
           x.state = "ESTABLISHED" => s.ch.tcp.state = "ESTABLISHED",
           x.readEnable = s.ch.tcp.readEnable, x.writeEnable = s.ch.tcp.writeEnable,
           x.rbuf = s.ch.tcp.rbuf
    PROVE  Talk(s, r)
  <1>1. Quietly(s, r) BY DEF Retcp, Quietly, SameParts, NoTcp, LiveTcp
  <1>2. \A b, e : Heard(r, b, e) = Heard(s, b, e) BY DEF Retcp, SameParts, Heard
  <1>3. \A b, ap : Closing(s, b, ap) => Closing(r, b, ap)
    BY <1>2 DEF Closing, Retcp, SameParts
  <1>4. \A b, ap : Hearing(s, b, ap) => Hearing(r, b, ap)
    BY <1>2 DEF Hearing, Retcp, SameParts
  <1> QED BY <1>1, <1>3, <1>4 DEF Talk

LEMMA EventMessage ==
    ASSUME NEW ev \in SUBSET StreamEvents
    PROVE  /\ Event(ev) \in Message /\ Event(ev) \in Events
           /\ Event(ev).id = "ST_EVENT" /\ Event(ev).events = ev
  BY DEF Event, Message, Events, Ids

LEMMA IdMessage ==
    ASSUME NEW id \in Ids, id # "ST_EVENT"
    PROVE  Msg(id) \in Message /\ Msg(id).id = id /\ Msg(id).events = {}
  BY DEF Msg, Message

LEMMA HeardType ==
    ASSUME NEW s \in SysRec, NEW b, NEW e PROVE Heard(s, b, e) \in Nat
  <1>1. s.queue[s.ch.stream_thread] \in Seq(Message) BY DEF SysRec, ChannelRec
  <1> QED BY <1>1, CountType DEF Heard, One

\* The stream is told.
LEMMA EventEffect ==
    ASSUME NEW s \in SysRec, s.ch.stream, NEW ev \in SUBSET StreamEvents
    PROVE  /\ Quietly(s, PostEvent(s, ev))
           /\ PostEvent(s, ev).ch = s.ch
           /\ \A b, e : Heard(PostEvent(s, ev), b, e) = Heard(s, b, e) + One(e \in ev)
  <1> DEFINE t == s.ch.stream_thread
             m == Event(ev)
             r == PostEvent(s, ev)
  <1>1. t \in Two /\ s.queue[t] \in Seq(Message) BY DEF SysRec, ChannelRec
  <1>2. m \in Message /\ m \in Events /\ m.id = "ST_EVENT" /\ m.events = ev BY EventMessage
  <1> HIDE DEF m
  <1>3. Posted(s, r, t, m) BY <1>1, <1>2, PostEffect DEF PostEvent, m
  <1> HIDE DEF r
  <1>4. r.ch = s.ch BY <1>3 DEF Posted
  <1>5. \A u \in Two, id \in Ids : id # "ST_EVENT" \/ u # t =>
           Count(r.queue[u], id) = Count(s.queue[u], id)
    <2> TAKE u \in Two, id \in Ids
    <2>1. CASE u # t BY <2>1, <1>3 DEF Posted
    <2>2. CASE u = t /\ id # "ST_EVENT"
      <3>1. Count(r.queue[t], id) = Count(s.queue[t], id) + One(m.id = id)
        BY <1>3 DEF Posted, Grown
      <3>2. One(m.id = id) = 0 BY <2>2, <1>2 DEF One
      <3>3. Count(s.queue[t], id) \in Nat BY <1>1, CountType
      <3> QED BY <2>2, <3>1, <3>2, <3>3
    <2> QED BY <2>1, <2>2
  <1>6. Ahead(s.queue["main"]) => Ahead(r.queue["main"])
    BY <1>3 DEF Posted, Grown, Two
  <1>7. s.queue["stream"] \in Seq(Events) => r.queue["stream"] \in Seq(Events)
    BY <1>2, <1>3 DEF Posted, Grown, Two
  <1>8. Quietly(s, r)
    BY <1>3, <1>4, <1>5, <1>6, <1>7 DEF Quietly, Posted, SameParts
  <1>9. ASSUME NEW b, NEW e PROVE Heard(r, b, e) = Heard(s, b, e) + One(e \in ev)
    <2>1. Tells(r.queue[t], e) = Tells(s.queue[t], e) + One(e \in ev)
      BY <1>2, <1>3 DEF Posted, Grown
    <2>2. Tells(s.queue[t], e) \in Nat BY <1>1, CountType
    <2> QED BY <1>4, <2>1, <2>2 DEF Heard, One
  <1> QED BY <1>4, <1>8, <1>9 DEF r

\* SetPending: r is s, with SE_READ known to be on its way.
Pends(s) == [s EXCEPT !.ch.pending = TRUE]

LEMMA PendsEffect ==
    ASSUME NEW s \in SysRec, s.ch.stream
    PROVE  /\ Quietly(s, Pends(s)) /\ Pends(s).ch.pending
           /\ Pends(s).queue = s.queue /\ Pends(s).ch.tcp = s.ch.tcp
           /\ \A b, e : Heard(Pends(s), b, e) = Heard(s, b, e)
  <1> DEFINE r == Pends(s)
  <1>1. /\ r.queue = s.queue /\ r.clocks = s.clocks /\ r.role = s.role
        /\ SameParts(s.ch, r.ch) /\ r.ch.pending /\ r.ch.tcp = s.ch.tcp
    BY DEF Pends, SysRec, ChannelRec, SameParts
  <1>2. r \in SysRec BY DEF Pends, SysRec, ChannelRec
  <1> HIDE DEF r
  <1>3. Quietly(s, r) BY <1>1, <1>2 DEF Quietly, SameParts
  <1>4. \A b, e : Heard(r, b, e) = Heard(s, b, e) BY <1>1 DEF Heard, SameParts
  <1> QED BY <1>1, <1>3, <1>4 DEF r

\* The callbacks of PseudoTcp: r is s, and the stream was told.
Said(s, r, ev) ==
    /\ Quietly(s, r) /\ r.ch.tcp = s.ch.tcp
    /\ r.ch.pending => s.ch.pending \/ "READ" \in ev
    /\ ~s.ch.stream => \A b, e : Heard(r, b, e) = Heard(s, b, e)
    /\ s.ch.stream => \A b, e : Heard(r, b, e) = Heard(s, b, e) + One(e \in ev)

LEMMA OpenSays ==
    ASSUME NEW s \in SysRec
    PROVE  Said(s, OnTcpOpen(s), {"OPEN", "READ", "WRITE"})
  <1> DEFINE ev == {"OPEN", "READ", "WRITE"}
  <1>1. CASE s.ch.stream
    <2> DEFINE p == Pends(s)
               r == PostEvent(p, ev)
    <2>1. OnTcpOpen(s) = r BY <1>1 DEF OnTcpOpen, Pends
    <2>2. Quietly(s, p) /\ p.ch.tcp = s.ch.tcp /\ p.ch.pending
          /\ \A b, e : Heard(p, b, e) = Heard(s, b, e)
      BY <1>1, PendsEffect
    <2> HIDE DEF p
    <2>3. p \in SysRec /\ p.ch.stream BY <1>1, <2>2 DEF Quietly, SameParts
    <2>4. ev \in SUBSET StreamEvents BY DEF StreamEvents
    <2> HIDE DEF ev
    <2>5. Quietly(p, r) /\ r.ch = p.ch
          /\ \A b, e : Heard(r, b, e) = Heard(p, b, e) + One(e \in ev)
      BY <2>3, <2>4, EventEffect
    <2> HIDE DEF r
    <2>6. Quietly(s, r) BY <2>2, <2>5 DEF Quietly, SameParts
    <2>7. "READ" \in ev BY DEF ev
    <2>8. Said(s, r, ev) BY <1>1, <2>2, <2>5, <2>6, <2>7 DEF Said
    <2> QED BY <2>1, <2>8 DEF ev
  <1>2. CASE ~s.ch.stream
    <2>1. OnTcpOpen(s) = s BY <1>2 DEF OnTcpOpen
    <2>2. Said(s, s, ev) BY <1>2, TalkSelf DEF Said, Talk
    <2> QED BY <2>1, <2>2
  <1> QED BY <1>1, <1>2

LEMMA WriteableSays ==
    ASSUME NEW s \in SysRec PROVE Said(s, OnTcpWriteable(s), {"WRITE"})
  <1>1. CASE s.ch.stream
    <2> DEFINE r == PostEvent(s, {"WRITE"})
    <2>1. OnTcpWriteable(s) = r BY <1>1 DEF OnTcpWriteable
    <2>2. {"WRITE"} \in SUBSET StreamEvents BY DEF StreamEvents
    <2>3. Quietly(s, r) /\ r.ch = s.ch
          /\ \A b, e : Heard(r, b, e) = Heard(s, b, e) + One(e \in {"WRITE"})
      BY <1>1, <2>2, EventEffect
    <2> HIDE DEF r
    <2> QED BY <1>1, <2>1, <2>3 DEF Said
  <1>2. CASE ~s.ch.stream
    <2>1. OnTcpWriteable(s) = s BY <1>2 DEF OnTcpWriteable
    <2> QED BY <1>2, <2>1, TalkSelf DEF Said, Talk
  <1> QED BY <1>1, <1>2

LEMMA ClosedSays ==
    ASSUME NEW s \in SysRec PROVE Said(s, OnTcpClosed(s), {"CLOSE"})
  <1>1. CASE s.ch.stream
    <2> DEFINE r == PostEvent(s, {"CLOSE"})
    <2>1. OnTcpClosed(s) = r BY <1>1 DEF OnTcpClosed
    <2>2. {"CLOSE"} \in SUBSET StreamEvents BY DEF StreamEvents
    <2>3. Quietly(s, r) /\ r.ch = s.ch
          /\ \A b, e : Heard(r, b, e) = Heard(s, b, e) + One(e \in {"CLOSE"})
      BY <1>1, <2>2, EventEffect
    <2> HIDE DEF r
    <2> QED BY <1>1, <2>1, <2>3 DEF Said
  <1>2. CASE ~s.ch.stream
    <2>1. OnTcpClosed(s) = s BY <1>2 DEF OnTcpClosed
    <2> QED BY <1>2, <2>1, TalkSelf DEF Said, Talk
  <1> QED BY <1>1, <1>2

\* SE_READ is told unless it is already on its way.
LEMMA ReadableSays ==
    ASSUME NEW s \in SysRec
    PROVE  \/ s.ch.stream /\ s.ch.pending /\ OnTcpReadable(s) = s
           \/ Said(s, OnTcpReadable(s), {"READ"})
  <1>1. CASE s.ch.stream /\ ~s.ch.pending
    <2> DEFINE p == Pends(s)
               r == PostEvent(p, {"READ"})
    <2>1. OnTcpReadable(s) = r BY <1>1 DEF OnTcpReadable, Pends
    <2>2. Quietly(s, p) /\ p.ch.tcp = s.ch.tcp /\ p.ch.pending
          /\ \A b, e : Heard(p, b, e) = Heard(s, b, e)
      BY <1>1, PendsEffect
    <2> HIDE DEF p
    <2>3. p \in SysRec /\ p.ch.stream BY <1>1, <2>2 DEF Quietly, SameParts
    <2>4. {"READ"} \in SUBSET StreamEvents BY DEF StreamEvents
    <2>5. Quietly(p, r) /\ r.ch = p.ch
          /\ \A b, e : Heard(r, b, e) = Heard(p, b, e) + One(e \in {"READ"})
      BY <2>3, <2>4, EventEffect
    <2> HIDE DEF r
    <2>6. Quietly(s, r) BY <2>2, <2>5 DEF Quietly, SameParts
    <2>7. Said(s, r, {"READ"}) BY <1>1, <2>2, <2>5, <2>6 DEF Said
    <2> QED BY <2>1, <2>7
  <1>2. CASE ~s.ch.stream
    <2>1. OnTcpReadable(s) = s BY <1>2 DEF OnTcpReadable
    <2> QED BY <1>2, <2>1, TalkSelf DEF Said, Talk
  <1>3. CASE s.ch.stream /\ s.ch.pending BY <1>3 DEF OnTcpReadable
  <1> QED BY <1>1, <1>2, <1>3

-----------------------------------------------------------------------------
(* PseudoTcp moves on                                                      *)

LiveTalk(s, r) == Talk(s, r) /\ r.ch.tcp \in LiveTcp

LEMMA OpensTalks ==
    ASSUME NEW s \in SysRec, s.ch.tcp \in LiveTcp,
           s.ch.tcp.state \in {"SYN_SENT", "SYN_RECEIVED"}
    PROVE  LiveTalk(s, Opens(s))
           /\ Opens(s).ch.tcp = [s.ch.tcp EXCEPT !.state = "ESTABLISHED"]
  <1> DEFINE x == [s.ch.tcp EXCEPT !.state = "ESTABLISHED"]
             p == [s EXCEPT !.ch.tcp.state = "ESTABLISHED"]
             r == OnTcpOpen(p)
  <1>1. x \in LiveTcp /\ x.shutdown = s.ch.tcp.shutdown /\ x.state = "ESTABLISHED"
    BY DEF LiveTcp
  <1>2. Retcp(s, p, x) BY DEF Retcp, SysRec, ChannelRec, SameParts, LiveTcp
  <1>3. r = Opens(s) BY DEF Opens
  <1> HIDE DEF p, x
  <1>4. p \in SysRec BY <1>2 DEF Retcp
  <1>5. Said(p, r, {"OPEN", "READ", "WRITE"}) BY <1>4, OpenSays
  <1> HIDE DEF r
  <1>6. Quietly(s, p) BY <1>1, <1>2 DEF Retcp, Quietly, SameParts, NoTcp, LiveTcp
  <1>7. Quietly(s, r) BY <1>5, <1>6 DEF Said, Quietly, SameParts
  <1>8. r.ch.tcp = x BY <1>2, <1>5 DEF Said, Retcp
  <1>9. ASSUME NEW b, NEW e PROVE Heard(p, b, e) = Heard(s, b, e) /\ Heard(s, b, e) \in Nat
    BY <1>2, HeardType DEF Heard, Retcp, SameParts
  <1>10. ASSUME s.ch.stream, NEW b
         PROVE  /\ Heard(r, b, "CLOSE") = Heard(s, b, "CLOSE")
                /\ Heard(r, b, "READ") > 0 /\ Heard(r, b, "WRITE") > 0
    <2>1. p.ch.stream BY <1>2, <1>10 DEF Retcp, SameParts
    <2>2. \A e : Heard(r, b, e) = Heard(s, b, e) + One(e \in {"OPEN", "READ", "WRITE"})
      BY <1>5, <1>9, <2>1 DEF Said
    <2> QED BY <1>9, <2>2 DEF One
  <1>11. \A b, ap : Closing(s, b, ap) => Closing(r, b, ap)
    BY <1>1, <1>7, <1>8, <1>10 DEF Closing, Quietly, SameParts
  <1>12. \A b, ap : Hearing(s, b, ap) => Hearing(r, b, ap)
    BY <1>7, <1>10 DEF Hearing, Quietly, SameParts
  <1> QED BY <1>1, <1>3, <1>7, <1>8, <1>11, <1>12 DEF LiveTalk, Talk, x

LEMMA EstablishedTalks ==
    ASSUME NEW s \in SysRec, s.ch.tcp \in LiveTcp
    PROVE  LiveTalk(s, Established(s))
           /\ Established(s).ch.tcp =
                [s.ch.tcp EXCEPT !.state = IF @ = "SYN_RECEIVED" THEN "ESTABLISHED" ELSE @]
  <1>1. CASE s.ch.tcp.state = "SYN_RECEIVED"
    BY <1>1, OpensTalks DEF Established
  <1>2. CASE s.ch.tcp.state # "SYN_RECEIVED"
    <2>1. [s.ch.tcp EXCEPT !.state = IF @ = "SYN_RECEIVED" THEN "ESTABLISHED" ELSE @]
          = s.ch.tcp
      BY <1>2 DEF LiveTcp
    <2> QED BY <1>2, <2>1, TalkSelf DEF Established, LiveTalk
  <1> QED BY <1>1, <1>2

LEMMA ConnectTalks ==
    ASSUME NEW s \in SysRec, s.ch.tcp \in LiveTcp, NEW delayed \in BOOLEAN
    PROVE  LiveTalk(s, OnConnectPacket(s, delayed))
  <1> DEFINE r == OnConnectPacket(s, delayed)
  <1>1. CASE s.ch.tcp.state = "LISTEN"
    <2> DEFINE x == [s.ch.tcp EXCEPT !.state = "SYN_RECEIVED", !.unsent = TRUE]
               p == [s EXCEPT !.ch.tcp.state = "SYN_RECEIVED", !.ch.tcp.unsent = TRUE]
    <2>1. r = p BY <1>1 DEF OnConnectPacket
    <2>2. Retcp(s, p, x) BY DEF Retcp, SysRec, ChannelRec, SameParts, LiveTcp
    <2>3. /\ x \in LiveTcp /\ x.shutdown = s.ch.tcp.shutdown /\ x.state = "SYN_RECEIVED"
          /\ x.readEnable = s.ch.tcp.readEnable /\ x.writeEnable = s.ch.tcp.writeEnable
          /\ x.rbuf = s.ch.tcp.rbuf
      BY DEF LiveTcp
    <2> HIDE DEF p, x
    <2>4. Talk(s, p) BY <1>1, <2>2, <2>3, RetcpTalks
    <2> QED BY <2>1, <2>2, <2>3, <2>4 DEF LiveTalk, Retcp
  <1>2. CASE s.ch.tcp.state = "SYN_SENT"
    <2> DEFINE x == [s.ch.tcp EXCEPT !.ackDue = delayed]
               p == [s EXCEPT !.ch.tcp.ackDue = delayed]
    <2>1. r = Opens(p) BY <1>2 DEF OnConnectPacket
    <2>2. Retcp(s, p, x) BY DEF Retcp, SysRec, ChannelRec, SameParts, LiveTcp
    <2>3. /\ x \in LiveTcp /\ x.shutdown = s.ch.tcp.shutdown /\ x.state = s.ch.tcp.state
          /\ x.readEnable = s.ch.tcp.readEnable /\ x.writeEnable = s.ch.tcp.writeEnable
          /\ x.rbuf = s.ch.tcp.rbuf
      BY DEF LiveTcp
    <2> HIDE DEF p, x
    <2>4. Talk(s, p) BY <1>2, <2>2, <2>3, RetcpTalks
    <2>5. p \in SysRec /\ p.ch.tcp \in LiveTcp /\ p.ch.tcp.state = "SYN_SENT"
      BY <1>2, <2>2, <2>3 DEF Retcp
    <2>6. LiveTalk(p, Opens(p)) BY <2>5, OpensTalks
    <2> QED BY <2>1, <2>4, <2>6, TalkTransitive DEF LiveTalk
  <1>3. CASE s.ch.tcp.state \notin {"LISTEN", "SYN_SENT"}
    BY <1>3, TalkSelf DEF OnConnectPacket, LiveTalk
  <1> QED BY <1>1, <1>2, <1>3

LEMMA AckTalks ==
    ASSUME NEW s \in SysRec, s.ch.tcp \in LiveTcp, NEW more \in BOOLEAN
    PROVE  LiveTalk(s, OnAckPacket(s, more))
  <1> DEFINE x == [s.ch.tcp EXCEPT !.unsent = @ /\ more, !.xmit = 0]
             p == [s EXCEPT !.ch.tcp.unsent = @ /\ more, !.ch.tcp.xmit = 0]
             e == Established(p)
             y == [e.ch.tcp EXCEPT !.writeEnable = FALSE]
             w == [e EXCEPT !.ch.tcp.writeEnable = FALSE]
             r == OnTcpWriteable(w)
  <1>1. Retcp(s, p, x) BY DEF Retcp, SysRec, ChannelRec, SameParts, LiveTcp
  <1>2. /\ x \in LiveTcp /\ x.shutdown = s.ch.tcp.shutdown /\ x.state = s.ch.tcp.state
        /\ x.readEnable = s.ch.tcp.readEnable /\ x.writeEnable = s.ch.tcp.writeEnable
        /\ x.rbuf = s.ch.tcp.rbuf
    BY DEF LiveTcp
  <1>3. OnAckPacket(s, more) = IF e.ch.tcp.writeEnable THEN r ELSE e BY DEF OnAckPacket
  <1> HIDE DEF p, x
  <1>4. Talk(s, p) BY <1>1, <1>2, RetcpTalks
  <1>5. p \in SysRec /\ p.ch.tcp \in LiveTcp BY <1>1, <1>2 DEF Retcp
  <1>6. LiveTalk(p, e) BY <1>5, EstablishedTalks
  <1> HIDE DEF e
  <1>7. LiveTalk(s, e) BY <1>4, <1>6, TalkTransitive DEF LiveTalk
  <1>8. e \in SysRec /\ e.ch.tcp \in LiveTcp BY <1>7 DEF LiveTalk, Talk, Quietly
  <1>9. Retcp(e, w, y) BY <1>8 DEF Retcp, SysRec, ChannelRec, SameParts, LiveTcp
  <1>10. /\ y \in LiveTcp /\ y.shutdown = e.ch.tcp.shutdown /\ y.state = e.ch.tcp.state
         /\ y.readEnable = e.ch.tcp.readEnable /\ y.rbuf = e.ch.tcp.rbuf
    BY <1>8 DEF LiveTcp
  <1> HIDE DEF w, y
  <1>11. w \in SysRec BY <1>9 DEF Retcp
  <1>12. Said(w, r, {"WRITE"}) BY <1>11, WriteableSays
  <1> HIDE DEF r
  <1>13. Quietly(e, w)
    BY <1>8, <1>9, <1>10 DEF Retcp, Quietly, SameParts, NoTcp, LiveTcp
  <1>14. Quietly(e, r) BY <1>12, <1>13 DEF Said, Quietly, SameParts
  <1>15. r.ch.tcp = y /\ (r.ch.pending => e.ch.pending) BY <1>9, <1>12 DEF Said, Retcp
  <1>16. ASSUME e.ch.stream, NEW b
         PROVE  /\ Heard(r, b, "CLOSE") = Heard(e, b, "CLOSE")
                /\ Heard(r, b, "READ") = Heard(e, b, "READ")
                /\ Heard(r, b, "WRITE") > 0
    <2>1. w.ch.stream BY <1>9, <1>16 DEF Retcp, SameParts
    <2>2. \A v : Heard(w, b, v) = Heard(e, b, v) /\ Heard(e, b, v) \in Nat
      BY <1>8, <1>9, HeardType DEF Heard, Retcp, SameParts
    <2>3. \A v : Heard(r, b, v) = Heard(e, b, v) + One(v \in {"WRITE"})
      BY <1>12, <2>1, <2>2 DEF Said
    <2> QED BY <2>2, <2>3 DEF One
  <1>17. \A b, ap : Closing(e, b, ap) => Closing(r, b, ap)
    BY <1>10, <1>14, <1>15, <1>16 DEF Closing, Quietly, SameParts
  <1>18. \A b, ap : Hearing(e, b, ap) => Hearing(r, b, ap)
    BY <1>10, <1>14, <1>15, <1>16 DEF Hearing, Quietly, SameParts
  <1>19. LiveTalk(e, r) BY <1>10, <1>14, <1>15, <1>17, <1>18 DEF LiveTalk, Talk
  <1>20. LiveTalk(s, r) BY <1>7, <1>19, TalkTransitive DEF LiveTalk
  <1> QED BY <1>3, <1>7, <1>20

LEMMA ClosedownTalks ==
    ASSUME NEW s \in SysRec, s.ch.tcp \in LiveTcp, s.ch.session,
           s.ch.tcp.state # "CLOSED"
    PROVE  LiveTalk(s, Closedown(s))
  <1> DEFINE x == [s.ch.tcp EXCEPT !.state = "CLOSED"]
             p == [s EXCEPT !.ch.tcp.state = "CLOSED"]
             r == OnTcpClosed(p)
  <1>1. x \in LiveTcp /\ x.shutdown = s.ch.tcp.shutdown /\ x.state = "CLOSED"
    BY DEF LiveTcp
  <1>2. Retcp(s, p, x) BY DEF Retcp, SysRec, ChannelRec, SameParts, LiveTcp
  <1>3. r = Closedown(s) BY DEF Closedown
  <1> HIDE DEF p, x
  <1>4. p \in SysRec BY <1>2 DEF Retcp
  <1>5. Said(p, r, {"CLOSE"}) BY <1>4, ClosedSays
  <1> HIDE DEF r
  <1>6. Quietly(s, p) BY <1>1, <1>2 DEF Retcp, Quietly, SameParts, NoTcp, LiveTcp
  <1>7. Quietly(s, r) BY <1>5, <1>6 DEF Said, Quietly, SameParts
  <1>8. r.ch.tcp = x /\ (r.ch.pending => s.ch.pending) BY <1>2, <1>5 DEF Said, Retcp
  <1>9. ASSUME s.ch.stream, NEW b
        PROVE  /\ Heard(s, b, "CLOSE") \in Nat
               /\ Heard(r, b, "CLOSE") = Heard(s, b, "CLOSE") + 1
               /\ Heard(r, b, "READ") = Heard(s, b, "READ")
    <2>1. p.ch.stream BY <1>2, <1>9 DEF Retcp, SameParts
    <2>2. \A e : Heard(p, b, e) = Heard(s, b, e) /\ Heard(s, b, e) \in Nat
      BY <1>2, HeardType DEF Heard, Retcp, SameParts
    <2>3. \A e : Heard(r, b, e) = Heard(s, b, e) + One(e \in {"CLOSE"})
      BY <1>5, <2>1, <2>2 DEF Said
    <2> QED BY <2>2, <2>3 DEF One
  <1>10. ASSUME NEW b, NEW ap \in AppRec, Closing(s, b, ap) PROVE Closing(r, b, ap)
    <2>1. ap.closes \in Nat BY DEF AppRec
    <2> QED BY <1>1, <1>7, <1>8, <1>9, <1>10, <2>1 DEF Closing, Quietly, SameParts, One
  <1>11. \A b, ap : Hearing(s, b, ap) => Hearing(r, b, ap)
    BY <1>1, <1>7, <1>8, <1>9 DEF Hearing, Quietly, SameParts
  <1> QED BY <1>1, <1>3, <1>7, <1>8, <1>10, <1>11 DEF LiveTalk, Talk

LEMMA DataTalks ==
    ASSUME NEW s \in SysRec, s.ch.tcp \in LiveTcp, NEW delayed \in BOOLEAN
    PROVE  LiveTalk(s, OnDataPacket(s, delayed))
  <1> DEFINE f == Established(s)
             x == [f.ch.tcp EXCEPT !.ackDue = delayed]
             e == [f EXCEPT !.ch.tcp.ackDue = delayed]
             n == e.ch.tcp.rbuf + 1
             y == [e.ch.tcp EXCEPT !.rbuf = n, !.readEnable = FALSE]
             d == [e EXCEPT !.ch.tcp.rbuf = n, !.ch.tcp.readEnable = FALSE]
             r == OnTcpReadable(d)
  <1>1. OnDataPacket(s, delayed) =
           IF e.ch.tcp.shutdown # "NONE" \/ e.ch.tcp.rbuf = MaxRead THEN e
           ELSE IF e.ch.tcp.readEnable THEN r ELSE d
    BY DEF OnDataPacket
  <1>2. LiveTalk(s, f) BY EstablishedTalks
  <1> HIDE DEF f
  <1>3. f \in SysRec /\ f.ch.tcp \in LiveTcp BY <1>2 DEF LiveTalk, Talk, Quietly
  <1>4. Retcp(f, e, x) BY <1>3 DEF Retcp, SysRec, ChannelRec, SameParts, LiveTcp
  <1>5. /\ x \in LiveTcp /\ x.shutdown = f.ch.tcp.shutdown /\ x.state = f.ch.tcp.state
        /\ x.readEnable = f.ch.tcp.readEnable /\ x.writeEnable = f.ch.tcp.writeEnable
        /\ x.rbuf = f.ch.tcp.rbuf
    BY <1>3 DEF LiveTcp
  <1> HIDE DEF e, x
  <1>6. Talk(f, e) BY <1>3, <1>4, <1>5, RetcpTalks
  <1>7. e \in SysRec /\ e.ch.tcp \in LiveTcp BY <1>4, <1>5 DEF Retcp
  <1>8. LiveTalk(s, e) BY <1>2, <1>6, <1>7, TalkTransitive DEF LiveTalk
  <1>20. n \in Nat BY <1>7 DEF LiveTcp
  <1> HIDE DEF n
  <1>9. Retcp(e, d, y) BY <1>7, <1>20 DEF Retcp, SysRec, ChannelRec, SameParts, LiveTcp
  <1>10. /\ y \in LiveTcp /\ y.shutdown = e.ch.tcp.shutdown /\ y.state = e.ch.tcp.state
         /\ y.writeEnable = e.ch.tcp.writeEnable
    BY <1>7, <1>20 DEF LiveTcp
  <1> HIDE DEF d, y
  <1>11. d \in SysRec /\ Quietly(e, d)
    BY <1>7, <1>9, <1>10 DEF Retcp, Quietly, SameParts, NoTcp, LiveTcp
  <1>12. \A b, v : Heard(d, b, v) = Heard(e, b, v) /\ Heard(e, b, v) \in Nat
    BY <1>7, <1>9, HeardType DEF Heard, Retcp, SameParts
  <1>13. \A b, ap : Closing(e, b, ap) => Closing(d, b, ap)
    BY <1>9, <1>10, <1>12 DEF Closing, Retcp, SameParts
  <1>14. ASSUME ~e.ch.tcp.readEnable \/ (e.ch.stream /\ e.ch.pending) PROVE LiveTalk(s, d)
    <2>1. \A b, ap : Hearing(e, b, ap) => Hearing(d, b, ap)
      BY <1>9, <1>10, <1>12, <1>14 DEF Hearing, Retcp, SameParts
    <2>2. LiveTalk(e, d) BY <1>9, <1>10, <1>11, <1>13, <2>1 DEF LiveTalk, Talk, Retcp
    <2> QED BY <1>8, <2>2, TalkTransitive DEF LiveTalk
  <1>15. ASSUME Said(d, r, {"READ"}) PROVE LiveTalk(s, r)
    <2> HIDE DEF r
    <2>1. Quietly(e, r) BY <1>11, <1>15 DEF Said, Quietly, SameParts
    <2>2. r.ch.tcp = y BY <1>9, <1>15 DEF Said, Retcp
    <2>3. ASSUME e.ch.stream, NEW b
          PROVE  /\ Heard(r, b, "CLOSE") = Heard(e, b, "CLOSE")
                 /\ Heard(r, b, "WRITE") = Heard(e, b, "WRITE")
                 /\ Heard(r, b, "READ") > 0
      <3>1. d.ch.stream BY <1>9, <2>3 DEF Retcp, SameParts
      <3>2. \A v : Heard(r, b, v) = Heard(e, b, v) + One(v \in {"READ"})
        BY <1>12, <1>15, <3>1 DEF Said
      <3> QED BY <1>12, <3>2 DEF One
    <2>4. \A b, ap : Closing(e, b, ap) => Closing(r, b, ap)
      BY <1>10, <2>1, <2>2, <2>3 DEF Closing, Quietly, SameParts
    <2>5. \A b, ap : Hearing(e, b, ap) => Hearing(r, b, ap)
      BY <1>10, <2>1, <2>2, <2>3 DEF Hearing, Quietly, SameParts
    <2>6. LiveTalk(e, r) BY <1>10, <2>1, <2>2, <2>4, <2>5 DEF LiveTalk, Talk
    <2> QED BY <1>8, <2>6, TalkTransitive DEF LiveTalk
  <1>16. (d.ch.stream /\ d.ch.pending /\ r = d) \/ Said(d, r, {"READ"})
    BY <1>11, ReadableSays
  <1>17. (d.ch.stream <=> e.ch.stream) /\ (d.ch.pending <=> e.ch.pending)
    BY <1>9 DEF Retcp, SameParts
  <1> HIDE DEF r
  <1>18. LiveTalk(s, r) BY <1>14, <1>15, <1>16, <1>17
  <1>19. e.ch.tcp.readEnable \in BOOLEAN BY <1>7 DEF LiveTcp
  <1> QED BY <1>1, <1>8, <1>14, <1>18, <1>19

LEMMA PacketTalks ==
    ASSUME NEW s \in SysRec, s.ch.tcp \in LiveTcp, s.ch.session,
           NEW kind \in {"connect", "ack", "data", "reset"},
           NEW more \in BOOLEAN, NEW delayed \in BOOLEAN
    PROVE  LiveTalk(s, NotifyPacket(s, kind, more, delayed))
  <1>1. LiveTalk(s, s) BY TalkSelf DEF LiveTalk
  <1>2. LiveTalk(s, OnConnectPacket(s, delayed)) BY ConnectTalks
  <1>3. LiveTalk(s, OnAckPacket(s, more)) BY AckTalks
  <1>4. LiveTalk(s, OnDataPacket(s, delayed)) BY DataTalks
  <1>5. s.ch.tcp.state # "CLOSED" => LiveTalk(s, Closedown(s)) BY ClosedownTalks
  <1>6. CASE s.ch.tcp.state = "CLOSED" BY <1>1, <1>6 DEF NotifyPacket
  <1>7. CASE s.ch.tcp.state # "CLOSED" /\ kind = "reset"
    BY <1>5, <1>7 DEF NotifyPacket
  <1>8. CASE s.ch.tcp.state # "CLOSED" /\ kind = "connect"
    BY <1>2, <1>8 DEF NotifyPacket
  <1>9. CASE s.ch.tcp.state # "CLOSED" /\ kind = "ack"
    BY <1>1, <1>3, <1>9 DEF NotifyPacket
  <1>10. CASE s.ch.tcp.state # "CLOSED" /\ kind = "data"
    BY <1>1, <1>4, <1>10 DEF NotifyPacket
  <1> QED BY <1>6, <1>7, <1>8, <1>9, <1>10

LEMMA ClockTalks ==
    ASSUME NEW s \in SysRec, s.ch.tcp \in LiveTcp, s.ch.session, NEW acks \in BOOLEAN
    PROVE  LiveTalk(s, NotifyClock(s, acks))
  <1> DEFINE again == s.ch.tcp.unsent /\ ~(acks /\ s.ch.tcp.ackDue)
             n == s.ch.tcp.xmit + 1
             x == [s.ch.tcp EXCEPT !.xmit = n, !.ackDue = FALSE]
             p == [s EXCEPT !.ch.tcp.xmit = n, !.ch.tcp.ackDue = FALSE]
             y == [s.ch.tcp EXCEPT !.ackDue = FALSE]
             r == [s EXCEPT !.ch.tcp.ackDue = FALSE]
  <1>1. NotifyClock(s, acks) =
           IF s.ch.tcp.state = "CLOSED" THEN s
           ELSE IF ~again THEN r
           ELSE IF s.ch.tcp.xmit >= MaxXmit THEN Closedown(s) ELSE p
    BY DEF NotifyClock
  <1>10. n \in Nat BY DEF LiveTcp
  <1> HIDE DEF n
  <1>2. Retcp(s, p, x) BY <1>10 DEF Retcp, SysRec, ChannelRec, SameParts, LiveTcp
  <1>3. /\ x \in LiveTcp /\ x.shutdown = s.ch.tcp.shutdown /\ x.state = s.ch.tcp.state
        /\ x.readEnable = s.ch.tcp.readEnable /\ x.writeEnable = s.ch.tcp.writeEnable
        /\ x.rbuf = s.ch.tcp.rbuf
    BY <1>10 DEF LiveTcp
  <1>4. Retcp(s, r, y) BY DEF Retcp, SysRec, ChannelRec, SameParts, LiveTcp
  <1>5. /\ y \in LiveTcp /\ y.shutdown = s.ch.tcp.shutdown /\ y.state = s.ch.tcp.state
        /\ y.readEnable = s.ch.tcp.readEnable /\ y.writeEnable = s.ch.tcp.writeEnable
        /\ y.rbuf = s.ch.tcp.rbuf
    BY DEF LiveTcp
  <1> HIDE DEF p, x, r, y, again
  <1>6. Talk(s, p) /\ Talk(s, r) BY <1>2, <1>3, <1>4, <1>5, RetcpTalks
  <1>7. LiveTalk(s, p) /\ LiveTalk(s, r)
    BY <1>2, <1>3, <1>4, <1>5, <1>6 DEF LiveTalk, Retcp
  <1>8. LiveTalk(s, s) BY TalkSelf DEF LiveTalk
  <1>9. s.ch.tcp.state # "CLOSED" => LiveTalk(s, Closedown(s)) BY ClosedownTalks
  <1> QED BY <1>1, <1>7, <1>8, <1>9

-----------------------------------------------------------------------------
(* The clock                                                               *)

\* No clock is queued or set any more.
Unclocked(s, r) ==
    /\ r \in SysRec /\ r.role = s.role /\ r.clocks = 0 /\ r.ch = s.ch
    /\ Cleared(s.queue["main"], r.queue["main"], "WK_CLOCK")
    /\ r.queue["stream"] = s.queue["stream"]

LEMMA ClearClockEffect ==
    ASSUME NEW s \in SysRec PROVE Unclocked(s, ClearClock(s))
  <1> DEFINE c == Clear(s, "main", "WK_CLOCK")
             r == ClearClock(s)
  <1>1. Wiped(s, c, "main", "WK_CLOCK") BY ClearEffect DEF Two
  <1>2. r = [c EXCEPT !.clocks = 0] BY DEF ClearClock
  <1> HIDE DEF c, r
  <1>3. c \in SysRec BY <1>1 DEF Wiped
  <1>4. r \in SysRec /\ r.role = c.role /\ r.clocks = 0 /\ r.ch = c.ch /\ r.queue = c.queue
    BY <1>2, <1>3 DEF SysRec
  <1> QED BY <1>1, <1>4 DEF Wiped, Unclocked, r, Two

LEMMA DueType ==
    ASSUME NEW s \in SysRec, NEW b, NEW id PROVE Due(s, b, id) \in Nat
  <1>1. s.queue["main"] \in Seq(Message) BY DEF SysRec, Two
  <1> QED BY <1>1, CountType DEF Due, One

\* What the invariant says of a queue or a message only through its counts.
\* r has the channel of s and, but for the clocks, its messages.
Reclocked(s, r) ==
    /\ r \in SysRec /\ r.ch = s.ch
    /\ s.queue["stream"] \in Seq(Events) => r.queue["stream"] \in Seq(Events)
    /\ \A u \in Two, id \in Ids : id # "WK_CLOCK" => Count(r.queue[u], id) = Count(s.queue[u], id)
    /\ \A u \in Two, e \in StreamEvents : Tells(r.queue[u], e) = Tells(s.queue[u], e)
    /\ Ahead(s.queue["main"]) => Ahead(r.queue["main"])

LEMMA ReclockedKeeps ==
    ASSUME NEW s, NEW r, NEW b, NEW st, NEW ow, NEW ap,
           Inv(s, b, st, ow, ap), Reclocked(s, r), s.ch.channel,
           r.clocks + Due(r, b, "WK_CLOCK") <= IF s.ch.stream THEN 1 ELSE 2
    PROVE  Inv(r, b, st, ow, ap)
  <1>0. Frame(s, b, st, ow, ap) /\ Closing(s, b, ap) /\ Hearing(s, b, ap) BY DEF Inv
  <1>1. Typed(r, b, st, ow, ap) BY <1>0 DEF Frame, Typed, Reclocked
  <1>2. \A id \in Ids : id # "WK_CLOCK" => Due(r, b, id) = Due(s, b, id)
    BY DEF Reclocked, Due, Two
  <1>3. Wired(r, b) BY <1>0, <1>2 DEF Frame, Wired, Reclocked, Ids
  <1>4. Eventful(r, b) BY <1>0 DEF Frame, Eventful, Reclocked, Ids
  <1>5. Staged(r, b, st, ow, ap) BY <1>0 DEF Frame, Staged, Reclocked
  <1>6. Careful => Lasting(r, b) /\ Ordered(r, b, st) BY <1>0, <1>2 DEF Frame, Lasting, Ordered, Reclocked, Ids
  <1>7. s.ch.stream_thread \in Two BY <1>0 DEF Frame, Typed, SysRec, ChannelRec
  <1>8. \A e \in StreamEvents : Heard(r, b, e) = Heard(s, b, e)
    BY <1>7 DEF Heard, Reclocked
  <1>9. Closing(r, b, ap) BY <1>0, <1>8 DEF Closing, Reclocked, StreamEvents
  <1>10. Hearing(r, b, ap) BY <1>0, <1>8 DEF Hearing, Reclocked, StreamEvents
  <1> QED BY <1>1, <1>3, <1>4, <1>5, <1>6, <1>9, <1>10 DEF Inv, Frame

\* AdjustClock sets the next clock, or gives the connection up.
LEMMA AdjustKeeps ==
    ASSUME NEW s, NEW b, NEW st, NEW ow, NEW ap, NEW clear \in BOOLEAN,
           Inv(s, b, st, ow, ap), s.ch.tcp \in LiveTcp,
           clear /\ s.ch.stream => b["main"].id # "WK_CLOCK",
           ~clear => s.clocks + Due(s, b, "WK_CLOCK") <= IF s.ch.stream THEN 0 ELSE 1
    PROVE  Inv(AdjustClock(s, clear), b, st, ow, ap)
  <1> DEFINE r == AdjustClock(s, clear)
  <1>0. Frame(s, b, st, ow, ap) /\ Closing(s, b, ap) /\ Hearing(s, b, ap) BY DEF Inv
  <1>1. s \in SysRec /\ b \in Busy BY <1>0 DEF Frame, Typed, Busy
  <1>2. s.ch.tcp # NoTcp /\ s.ch.channel BY <1>0 DEF Frame, Wired, LiveTcp, NoTcp
  <1>3. s.clocks \in Nat BY <1>1 DEF SysRec
  <1>4. CASE NextClock(s.ch.tcp) /\ clear
    <2> DEFINE c == ClearClock(s)
               w == [c EXCEPT !.clocks = @ + 1]
    <2>1. r = w BY <1>4 DEF AdjustClock
    <2>2. Unclocked(s, c) BY <1>1, ClearClockEffect
    <2> HIDE DEF c
    <2>3. c \in SysRec /\ c.clocks = 0 BY <2>2 DEF Unclocked
    <2>4. w \in SysRec /\ w.clocks = 1 /\ w.ch = c.ch /\ w.queue = c.queue
      BY <2>3 DEF SysRec
    <2> HIDE DEF w
    <2>5. Reclocked(s, w)
      BY <2>2, <2>4 DEF Reclocked, Unclocked, Cleared, Two, Ids
    <2>6. Due(w, b, "WK_CLOCK") = One(b["main"].id = "WK_CLOCK")
      BY <2>2, <2>4 DEF Due, Unclocked, Cleared, One
    <2>7. w.clocks + Due(w, b, "WK_CLOCK") <= IF s.ch.stream THEN 1 ELSE 2
      BY <1>4, <2>4, <2>6 DEF One
    <2>8. Inv(w, b, st, ow, ap) BY <1>2, <2>5, <2>7, ReclockedKeeps
    <2> QED BY <2>1, <2>8
  <1>5. CASE NextClock(s.ch.tcp) /\ ~clear
    <2> DEFINE n == s.clocks + 1
               w == [s EXCEPT !.clocks = n]
    <2>1. r = w BY <1>5 DEF AdjustClock
    <2>0. n \in Nat BY <1>3
    <2> HIDE DEF n
    <2>2. w \in SysRec /\ w.clocks = n /\ w.ch = s.ch /\ w.queue = s.queue
      BY <1>1, <2>0 DEF SysRec
    <2> HIDE DEF w
    <2>3. Reclocked(s, w) BY <2>2 DEF Reclocked
    <2>4. Due(w, b, "WK_CLOCK") = Due(s, b, "WK_CLOCK") BY <2>2 DEF Due
    <2>5. Due(s, b, "WK_CLOCK") \in Nat BY <1>1, DueType
    <2>6. w.clocks + Due(w, b, "WK_CLOCK") <= IF s.ch.stream THEN 1 ELSE 2
      BY <1>3, <1>5, <2>2, <2>4, <2>5 DEF n
    <2>7. Inv(w, b, st, ow, ap) BY <1>2, <2>3, <2>6, ReclockedKeeps
    <2> QED BY <2>1, <2>7
  <1>6. CASE ~NextClock(s.ch.tcp)
    <2> DEFINE g == [s EXCEPT !.ch.tcp = NoTcp, !.ch.ready = FALSE]
               m == Msg("SI_DESTROYCHANNEL")
               w == Post(g, "main", m)
    <2>1. r = w BY <1>2, <1>6 DEF AdjustClock
    <2>2. ~s.ch.stream BY <1>0, <1>2, <1>6 DEF Frame, Wired, NextClock
    <2>3. /\ g \in SysRec /\ g.clocks = s.clocks /\ g.role = s.role /\ g.queue = s.queue
          /\ SameParts(s.ch, g.ch) /\ g.ch.tcp = NoTcp /\ g.ch.pending = s.ch.pending
      BY <1>1 DEF SysRec, ChannelRec, SameParts
    <2>4. m \in Message /\ m.id = "SI_DESTROYCHANNEL" BY IdMessage DEF Ids
    <2> HIDE DEF g, m
    <2>5. Posted(g, w, "main", m) BY <2>3, <2>4, PostEffect DEF Two
    <2> HIDE DEF w
    <2>6. /\ w \in SysRec /\ w.clocks = s.clocks
          /\ SameParts(s.ch, w.ch) /\ w.ch.tcp = NoTcp /\ w.ch.pending = s.ch.pending
          /\ w.queue["stream"] = s.queue["stream"]
          /\ Grown(s.queue["main"], w.queue["main"], m)
      BY <2>3, <2>5 DEF Posted, SameParts, Two
    <2>7. \A id : Due(w, b, id) = Due(s, b, id) + One(m.id = id)
      <3> TAKE id
      <3>1. Count(w.queue["main"], id) = Count(s.queue["main"], id) + One(m.id = id)
        BY <2>6 DEF Grown
      <3>2. Count(s.queue["main"], id) \in Nat BY <1>1, CountType DEF SysRec, Two
      <3> QED BY <3>1, <3>2 DEF Due, One
    <2>8. \A id : id # "SI_DESTROYCHANNEL" => Due(w, b, id) = Due(s, b, id)
      <3> TAKE id
      <3> HAVE id # "SI_DESTROYCHANNEL"
      <3>1. Due(s, b, id) \in Nat BY <1>1, DueType
      <3> QED BY <3>1, <2>4, <2>7 DEF One
    <2>9. Typed(w, b, st, ow, ap) BY <1>0, <2>6 DEF Frame, Typed
    <2>10. Wired(w, b) BY <1>0, <1>2, <2>2, <2>6, <2>8 DEF Frame, Wired, SameParts
    <2>11. Eventful(w, b)
      <3>1. Count(w.queue["main"], "ST_EVENT") = Count(s.queue["main"], "ST_EVENT")
        <4>1. Count(s.queue["main"], "ST_EVENT") \in Nat BY <1>1, CountType DEF SysRec, Two
        <4> QED BY <2>4, <2>6, <4>1 DEF Grown, One
      <3> QED BY <1>0, <2>6, <3>1 DEF Frame, Eventful, SameParts, Two
    <2>12. Staged(w, b, st, ow, ap) BY <1>0, <1>2, <2>6 DEF Frame, Staged, SameParts
    <2>13. Careful => Lasting(w, b) /\ Ordered(w, b, st)
      BY <1>0, <2>6, <2>8 DEF Frame, Lasting, Ordered, SameParts, Grown
    <2>14. Closing(w, b, ap) /\ Hearing(w, b, ap)
      BY <2>2, <2>6 DEF Closing, Hearing, SameParts
    <2>15. Inv(w, b, st, ow, ap)
      BY <2>9, <2>10, <2>11, <2>12, <2>13, <2>14 DEF Inv, Frame
    <2> QED BY <2>1, <2>15
  <1> QED BY <1>4, <1>5, <1>6

-----------------------------------------------------------------------------
(* Turns of the thread, and the end of a session                           *)

\* The invariant, but for what it says of the session's state.
Bare(s, b, ap) ==
    /\ s \in SysRec /\ s.queue["stream"] \in Seq(Events)
    /\ b \in Busy /\ b["stream"] \in Events \cup {NoMsg} /\ ap \in AppRec
    /\ Wired(s, b) /\ Eventful(s, b)
    /\ Closing(s, b, ap) /\ Hearing(s, b, ap)
    /\ Careful => Lasting(s, b)

LEMMA InvBare ==
    ASSUME NEW s, NEW b, NEW st, NEW ow, NEW ap, Inv(s, b, st, ow, ap)
    PROVE  /\ Bare(s, b, ap) /\ Staged(s, b, st, ow, ap)
           /\ Careful => Ordered(s, b, st)
           /\ st \in {"INIT", "DEINIT"} \cup Live \cup Ended /\ ow \in BOOLEAN
  BY DEF Inv, Frame, Typed, Bare, Busy

LEMMA BareInv ==
    ASSUME NEW s, NEW b, NEW st, NEW ow, NEW ap,
           Bare(s, b, ap), Staged(s, b, st, ow, ap), Careful => Ordered(s, b, st),
           st \in {"INIT", "DEINIT"} \cup Live \cup Ended, ow \in BOOLEAN
    PROVE  Inv(s, b, st, ow, ap)
  BY DEF Inv, Frame, Typed, Bare, Busy

\* c is b, with the message m for main.
Turned(b, c, m) ==
    c \in Busy /\ c["main"] = m /\ c["stream"] = b["stream"]

LEMMA TurnType ==
    ASSUME NEW b \in Busy, NEW m \in {NoMsg, Msg("POST_STATE")}
    PROVE  Turned(b, [b EXCEPT !["main"] = m], m)
  BY DEF Turned, Busy, Two

\* main is done with a message, be it that the state is still to be posted.
LEMMA TurnBare ==
    ASSUME NEW s, NEW b, NEW c, NEW ap, NEW m \in {NoMsg, Msg("POST_STATE")},
           Bare(s, b, ap), Turned(b, c, m),
           b["main"].id \notin {"WK_PURGE", "ST_EVENT", "SI_DESTROY"}
    PROVE  /\ Bare(s, c, ap)
           /\ \A id \in Ids : Due(s, b, id) = Due(s, c, id) + One(b["main"].id = id)
           /\ \A id \in Ids : Due(s, c, id) \in Nat /\ Due(s, b, id) \in Nat
  <1>0. s \in SysRec /\ b \in Busy /\ ap \in AppRec BY DEF Bare
  <1>1. m.id \notin Ids /\ m.events = {} BY DEF Ids, NoMsg, Msg
  <1>2. \A id \in Ids : Due(s, c, id) \in Nat /\ Due(s, b, id) \in Nat
    BY <1>0, DueType
  <1>3. \A id \in Ids : Due(s, c, id) = Count(s.queue["main"], id)
    <2> TAKE id \in Ids
    <2>1. Count(s.queue["main"], id) \in Nat BY <1>0, CountType DEF SysRec, Two
    <2>2. c["main"].id # id BY <1>1 DEF Turned
    <2> QED BY <2>1, <2>2 DEF Due, One
  <1>4. \A id \in Ids : Due(s, b, id) = Due(s, c, id) + One(b["main"].id = id)
    BY <1>3 DEF Due
  <1>5. \A id \in {"WK_PURGE", "SI_DESTROY"} : Due(s, b, id) = Due(s, c, id)
    <2> TAKE id \in {"WK_PURGE", "SI_DESTROY"}
    <2>1. One(b["main"].id = id) = 0 BY DEF One
    <2> QED BY <1>2, <1>4, <2>1 DEF Ids
  <1>6. \A id \in {"WK_CLOCK", "SI_DESTROYCHANNEL"} : Due(s, c, id) <= Due(s, b, id)
    BY <1>2, <1>4 DEF Ids, One
  <1>7. Wired(s, c)
    <2>1. s.clocks \in Nat BY <1>0 DEF SysRec
    <2>2. /\ Due(s, c, "WK_CLOCK") \in Nat /\ Due(s, b, "WK_CLOCK") \in Nat
          /\ Due(s, c, "SI_DESTROYCHANNEL") \in Nat /\ Due(s, b, "SI_DESTROYCHANNEL") \in Nat
      BY <1>2 DEF Ids
    <2>3. Wired(s, b) BY DEF Bare
    <2> QED BY <1>5, <1>6, <2>1, <2>2, <2>3 DEF Wired
  <1>8. Eventful(s, c)
    <2>1. c["main"].id # "ST_EVENT" BY <1>1 DEF Turned, Ids
    <2> QED BY <2>1 DEF Bare, Eventful, Turned, Two
  <1>9. \A e : Heard(s, c, e) = Heard(s, b, e)
    <2> TAKE e
    <2>1. e \notin b["main"].events /\ e \notin c["main"].events
      BY <1>0, <1>1 DEF Busy, Two, Message, NoMsg, Msg, Turned
    <2>2. s.ch.stream_thread \in Two BY <1>0 DEF SysRec, ChannelRec
    <2> QED BY <2>1, <2>2 DEF Heard, One, Two, Turned
  <1>10. Closing(s, c, ap) /\ Hearing(s, c, ap) BY <1>9 DEF Bare, Closing, Hearing
  <1>11. Careful => Lasting(s, c) BY <1>5 DEF Bare, Lasting
  <1>12. Bare(s, c, ap) BY <1>7, <1>8, <1>10, <1>11 DEF Bare, Turned
  <1> QED BY <1>2, <1>4, <1>12

\* A change of what nothing else depends on.
LEMMA MisusedBare ==
    ASSUME NEW s, NEW b, NEW ap, Bare(s, b, ap), ~Careful
    PROVE  LET r == [s EXCEPT !.ch.misused = TRUE]
           IN /\ Bare(r, b, ap) /\ r.queue = s.queue /\ r.clocks = s.clocks
              /\ r.ch.channel = s.ch.channel /\ r.ch.session = s.ch.session
              /\ r.ch.worker = s.ch.worker /\ r.ch.stream = s.ch.stream
              /\ r.ch.pending = s.ch.pending /\ r.ch.tcp = s.ch.tcp
              /\ r.ch.stream_thread = s.ch.stream_thread /\ r.ch.alive = s.ch.alive
  <1> DEFINE r == [s EXCEPT !.ch.misused = TRUE]
  <1>0. s \in SysRec BY DEF Bare
  <1>1. /\ r \in SysRec /\ r.queue = s.queue /\ r.clocks = s.clocks
        /\ r.ch.channel = s.ch.channel /\ r.ch.session = s.ch.session
        /\ r.ch.worker = s.ch.worker /\ r.ch.stream = s.ch.stream
        /\ r.ch.pending = s.ch.pending /\ r.ch.tcp = s.ch.tcp
        /\ r.ch.stream_thread = s.ch.stream_thread /\ r.ch.alive = s.ch.alive
    BY <1>0 DEF SysRec, ChannelRec
  <1> HIDE DEF r
  <1>2. (\A id : Due(r, b, id) = Due(s, b, id)) /\ (\A e : Heard(r, b, e) = Heard(s, b, e))
    BY <1>1 DEF Due, Heard
  <1>3. Wired(r, b) /\ Eventful(r, b) BY <1>1, <1>2 DEF Bare, Wired, Eventful
  <1>4. Closing(r, b, ap) /\ Hearing(r, b, ap) BY <1>1, <1>2 DEF Bare, Closing, Hearing
  <1>5. Bare(r, b, ap) BY <1>1, <1>3, <1>4 DEF Bare
  <1> QED BY <1>1, <1>5 DEF r

\* ReleaseSession: its MSG_STATE is cleared.
LEMMA StateClearedBare ==
    ASSUME NEW s, NEW b, NEW ap, Bare(s, b, ap)
    PROVE  Bare(Clear(s, "main", "STATE"), b, ap) /\ Clear(s, "main", "STATE").ch = s.ch
  <1> DEFINE r == Clear(s, "main", "STATE")
  <1>0. s \in SysRec BY DEF Bare
  <1>1. Wiped(s, r, "main", "STATE") BY <1>0, ClearEffect DEF Two
  <1> HIDE DEF r
  <1>2. /\ r \in SysRec /\ r.clocks = s.clocks /\ r.ch = s.ch
        /\ r.queue["stream"] = s.queue["stream"]
    BY <1>1 DEF Wiped, Two
  <1>3. \A id : id # "STATE" => Count(r.queue["main"], id) = Count(s.queue["main"], id)
    BY <1>1 DEF Wiped, Cleared
  <1>4. \A e : Tells(r.queue["main"], e) = Tells(s.queue["main"], e)
    BY <1>1 DEF Wiped, Cleared
  <1>5. \A id : id # "STATE" => Due(r, b, id) = Due(s, b, id) BY <1>3 DEF Due
  <1>6. s.ch.stream_thread \in Two BY <1>0 DEF SysRec, ChannelRec
  <1>7. \A e : Heard(r, b, e) = Heard(s, b, e) BY <1>2, <1>4, <1>6 DEF Heard, Two
  <1>8. Wired(r, b) BY <1>2, <1>5 DEF Bare, Wired
  <1>9. Eventful(r, b) BY <1>2, <1>3 DEF Bare, Eventful, Two
  <1>10. Closing(r, b, ap) /\ Hearing(r, b, ap) BY <1>2, <1>7 DEF Bare, Closing, Hearing
  <1>11. Careful => Lasting(r, b) BY <1>2, <1>5 DEF Bare, Lasting
  <1> QED BY <1>2, <1>8, <1>9, <1>10, <1>11 DEF Bare, r

\* The stream is told SE_CLOSE, or there is none to be told.
Tell(s) == IF s.ch.stream THEN PostEvent(s, {"CLOSE"}) ELSE s

LEMMA TellEffect ==
    ASSUME NEW s \in SysRec
    PROVE  /\ Quietly(s, Tell(s)) /\ Tell(s).ch = s.ch
           /\ s.ch.stream =>
                /\ \A b : Heard(Tell(s), b, "CLOSE") = Heard(s, b, "CLOSE") + 1
                /\ \A b : Heard(Tell(s), b, "READ") = Heard(s, b, "READ")
                /\ \A b : Heard(Tell(s), b, "WRITE") = Heard(s, b, "WRITE")
  <1>1. CASE s.ch.stream
    <2> DEFINE r == PostEvent(s, {"CLOSE"})
    <2>1. Tell(s) = r BY <1>1 DEF Tell
    <2>2. {"CLOSE"} \in SUBSET StreamEvents BY DEF StreamEvents
    <2>3. Quietly(s, r) /\ r.ch = s.ch
          /\ \A b, e : Heard(r, b, e) = Heard(s, b, e) + One(e \in {"CLOSE"})
      BY <1>1, <2>2, EventEffect
    <2> HIDE DEF r
    <2>4. \A b, e : Heard(s, b, e) \in Nat BY HeardType
    <2> QED BY <2>1, <2>3, <2>4 DEF One
  <1>2. CASE ~s.ch.stream
    <2>1. Tell(s) = s BY <1>2 DEF Tell
    <2> QED BY <1>2, <2>1, TalkSelf DEF Talk
  <1> QED BY <1>1, <1>2

\* What OnSessionTerminate leaves as it is.
Kept(s, r) ==
    /\ r.ch.alive = s.ch.alive /\ r.ch.stream_thread = s.ch.stream_thread
    /\ r.ch.channel = s.ch.channel /\ r.ch.worker = s.ch.worker /\ r.ch.stream = s.ch.stream
    /\ \A b : Due(r, b, "SI_DESTROY") = Due(s, b, "SI_DESTROY")
    /\ Ahead(s.queue["main"]) => Ahead(r.queue["main"])

LEMMA SessionTerminateBare ==
    ASSUME NEW s, NEW b, NEW ap, Bare(s, b, ap), Careful => s.ch.alive
    PROVE  Bare(OnSessionTerminate(s), b, ap) /\ Kept(s, OnSessionTerminate(s))
  <1> DEFINE r == OnSessionTerminate(s)
             off == [s EXCEPT !.ch.session = FALSE]
  <1>0. s \in SysRec /\ b \in Busy /\ ap \in AppRec BY DEF Bare
  <1>1. CASE ~s.ch.alive
    <2>1. ~Careful BY <1>1
    <2>2. r = [s EXCEPT !.ch.misused = TRUE] BY <1>1 DEF OnSessionTerminate, Call
    <2> HIDE DEF r
    <2>3. Bare(r, b, ap) BY <2>1, <2>2, MisusedBare
    <2>4. /\ r.queue = s.queue /\ r.ch.channel = s.ch.channel /\ r.ch.alive = s.ch.alive
          /\ r.ch.worker = s.ch.worker /\ r.ch.stream = s.ch.stream
          /\ r.ch.stream_thread = s.ch.stream_thread
      BY <2>2, <1>0 DEF SysRec, ChannelRec
    <2>5. Kept(s, r) BY <2>4 DEF Kept, Due
    <2> QED BY <2>3, <2>5 DEF r
  <1>2. CASE s.ch.alive /\ (~s.ch.session \/ s.ch.channel)
    <2>1. r = s BY <1>2 DEF OnSessionTerminate, Call
    <2> QED BY <2>1 DEF Kept
  <1>3. CASE s.ch.alive /\ s.ch.session /\ ~s.ch.channel
    <2>1. r = Tell(off)
      <3>1. off.ch.stream = s.ch.stream BY <1>0 DEF SysRec, ChannelRec
      <3> QED BY <1>3, <3>1 DEF OnSessionTerminate, Call, Tell
    <2>2. /\ off \in SysRec /\ off.queue = s.queue /\ off.clocks = s.clocks
          /\ ~off.ch.session /\ off.ch.channel = s.ch.channel /\ off.ch.worker = s.ch.worker
          /\ off.ch.stream = s.ch.stream /\ off.ch.alive = s.ch.alive
          /\ off.ch.stream_thread = s.ch.stream_thread /\ off.ch.tcp = s.ch.tcp
          /\ off.ch.pending = s.ch.pending /\ off.ch.misused = s.ch.misused
      BY <1>0 DEF SysRec, ChannelRec
    <2> HIDE DEF off
    <2>3. /\ Quietly(off, r) /\ r.ch = off.ch
          /\ off.ch.stream =>
               /\ Heard(r, b, "CLOSE") = Heard(off, b, "CLOSE") + 1
               /\ Heard(r, b, "READ") = Heard(off, b, "READ")
               /\ Heard(r, b, "WRITE") = Heard(off, b, "WRITE")
      BY <2>1, <2>2, TellEffect
    <2> HIDE DEF r
    <2>4. \A e : Heard(off, b, e) = Heard(s, b, e) BY <2>2 DEF Heard
    <2>5. \A c, id : id \in Ids /\ id # "ST_EVENT" => Due(r, c, id) = Due(s, c, id)
      BY <2>2, <2>3 DEF Quietly, Due, Two
    <2>6. r \in SysRec /\ r.clocks = s.clocks /\ r.queue["stream"] \in Seq(Events)
      BY <2>2, <2>3 DEF Quietly, Bare
    <2>7. ~s.ch.worker /\ s.ch.tcp = NoTcp BY <1>3 DEF Bare, Wired
    <2>8. Wired(r, b) BY <1>3, <2>2, <2>3, <2>5, <2>6, <2>7 DEF Bare, Wired, Ids, One
    <2>9. Eventful(r, b)
      BY <2>2, <2>3 DEF Bare, Eventful, Quietly, Ids
    <2>10. Closing(r, b, ap)
      <3>1. Heard(s, b, "CLOSE") \in Nat /\ ap.closes \in Nat
        BY <1>0, HeardType DEF AppRec
      <3>2. s.ch.tcp.state # "CLOSED" BY <2>7 DEF NoTcp
      <3> QED BY <1>3, <2>2, <2>3, <2>4, <3>1, <3>2 DEF Bare, Closing, One
    <2>11. Hearing(r, b, ap) BY <2>2, <2>3, <2>4 DEF Bare, Hearing
    <2>12. Careful => Lasting(r, b) BY <2>2, <2>3, <2>5 DEF Bare, Lasting, Ids
    <2>13. Kept(s, r) BY <2>2, <2>3, <2>5 DEF Kept, Quietly, Ids
    <2> QED BY <2>6, <2>8, <2>9, <2>10, <2>11, <2>12, <2>13 DEF Bare, r
  <1>4. s.ch.alive \in BOOLEAN /\ s.ch.session \in BOOLEAN /\ s.ch.channel \in BOOLEAN
    BY <1>0 DEF SysRec, ChannelRec
  <1> QED BY <1>1, <1>2, <1>3, <1>4

\* OnChannelDestroyed up to where it tells the stream.
Purged(s, p) ==
    /\ p \in SysRec /\ p.clocks = 0 /\ p.queue["stream"] = s.queue["stream"]
    /\ ~p.ch.session /\ ~p.ch.channel
    /\ p.ch.alive = s.ch.alive /\ p.ch.worker = s.ch.worker /\ p.ch.stream = s.ch.stream
    /\ p.ch.stream_thread = s.ch.stream_thread /\ p.ch.tcp = s.ch.tcp
    /\ p.ch.pending = s.ch.pending /\ p.ch.misused = s.ch.misused
    /\ Count(p.queue["main"], "WK_CLOCK") = 0
    /\ Count(p.queue["main"], "SI_DESTROYCHANNEL") = 0
    /\ Count(p.queue["main"], "WK_PURGE") = Count(s.queue["main"], "WK_PURGE") + 1
    /\ Count(p.queue["main"], "SI_DESTROY") = Count(s.queue["main"], "SI_DESTROY")
    /\ Count(p.queue["main"], "ST_EVENT") = Count(s.queue["main"], "ST_EVENT")
    /\ \A e : Tells(p.queue["main"], e) = Tells(s.queue["main"], e)
    /\ Ahead(s.queue["main"]) => Ahead(p.queue["main"])

LEMMA PurgeEffect ==
    ASSUME NEW s \in SysRec
    PROVE  Purged(s, [Post(ClearClock(Clear(s, "main", "SI_DESTROYCHANNEL")), "main",
                           Msg("WK_PURGE"))
                          EXCEPT !.ch.session = FALSE, !.ch.channel = FALSE])
  <1> DEFINE c == Clear(s, "main", "SI_DESTROYCHANNEL")
             d == ClearClock(c)
             m == Msg("WK_PURGE")
             q == Post(d, "main", m)
             p == [q EXCEPT !.ch.session = FALSE, !.ch.channel = FALSE]
  <1>1. Wiped(s, c, "main", "SI_DESTROYCHANNEL") BY ClearEffect DEF Two
  <1> HIDE DEF c
  <1>2. Unclocked(c, d) BY <1>1, ClearClockEffect DEF Wiped
  <1> HIDE DEF d
  <1>3. m \in Message /\ m.id = "WK_PURGE" /\ m.events = {} BY IdMessage DEF Ids
  <1> HIDE DEF m
  <1>4. Posted(d, q, "main", m) BY <1>2, <1>3, PostEffect DEF Unclocked, Two
  <1> HIDE DEF q
  <1>5. /\ q \in SysRec /\ q.ch = s.ch /\ q.clocks = 0
        /\ q.queue["stream"] = s.queue["stream"]
    BY <1>1, <1>2, <1>4 DEF Wiped, Unclocked, Posted, Two
  <1>6. /\ p \in SysRec /\ p.queue = q.queue /\ p.clocks = 0
        /\ ~p.ch.session /\ ~p.ch.channel
        /\ p.ch.alive = s.ch.alive /\ p.ch.worker = s.ch.worker /\ p.ch.stream = s.ch.stream
        /\ p.ch.stream_thread = s.ch.stream_thread /\ p.ch.tcp = s.ch.tcp
        /\ p.ch.pending = s.ch.pending /\ p.ch.misused = s.ch.misused
    BY <1>5 DEF SysRec, ChannelRec
  <1> HIDE DEF p
  <1>7. \A id : Count(c.queue["main"], id) =
                   IF id = "SI_DESTROYCHANNEL" THEN 0 ELSE Count(s.queue["main"], id)
    BY <1>1 DEF Wiped, Cleared
  <1>8. \A id : Count(d.queue["main"], id) =
                   IF id = "WK_CLOCK" THEN 0 ELSE Count(c.queue["main"], id)
    BY <1>2 DEF Unclocked, Cleared
  <1>9. \A id : Count(q.queue["main"], id) = Count(d.queue["main"], id) + One(m.id = id)
    BY <1>4 DEF Posted, Grown
  <1>10. \A id : Count(s.queue["main"], id) \in Nat BY CountType DEF SysRec, Two
  <1>11. /\ Count(q.queue["main"], "WK_CLOCK") = 0
         /\ Count(q.queue["main"], "SI_DESTROYCHANNEL") = 0
         /\ Count(q.queue["main"], "WK_PURGE") = Count(s.queue["main"], "WK_PURGE") + 1
         /\ Count(q.queue["main"], "SI_DESTROY") = Count(s.queue["main"], "SI_DESTROY")
         /\ Count(q.queue["main"], "ST_EVENT") = Count(s.queue["main"], "ST_EVENT")
    BY <1>3, <1>7, <1>8, <1>9, <1>10 DEF One
  <1>12. \A e : Tells(q.queue["main"], e) = Tells(s.queue["main"], e)
    <2> TAKE e
    <2>1. Tells(s.queue["main"], e) \in Nat BY CountType DEF SysRec, Two
    <2>2. Tells(c.queue["main"], e) = Tells(s.queue["main"], e) BY <1>1 DEF Wiped, Cleared
    <2>3. Tells(d.queue["main"], e) = Tells(c.queue["main"], e) BY <1>2 DEF Unclocked, Cleared
    <2>4. Tells(q.queue["main"], e) = Tells(d.queue["main"], e) + One(e \in m.events)
      BY <1>4 DEF Posted, Grown
    <2> QED BY <1>3, <2>1, <2>2, <2>3, <2>4 DEF One
  <1>13. Ahead(s.queue["main"]) => Ahead(q.queue["main"])
    BY <1>1, <1>2, <1>4 DEF Wiped, Unclocked, Posted, Cleared, Grown
  <1>14. Purged(s, p) BY <1>5, <1>6, <1>11, <1>12, <1>13 DEF Purged
  <1> QED BY <1>14 DEF p, q, m, d, c

\* OnChannelDestroyed: a purge is posted, the stream told, the connection gone.
LEMMA ChannelDestroyedBare ==
    ASSUME NEW s, NEW b, NEW ap, Bare(s, b, ap), s.ch.channel,
           b["main"].id \notin {"WK_CLOCK", "SI_DESTROYCHANNEL"}
    PROVE  /\ Bare(OnChannelDestroyed(s), b, ap)
           /\ ~OnChannelDestroyed(s).ch.session /\ ~OnChannelDestroyed(s).ch.channel
           /\ OnChannelDestroyed(s).ch.alive = s.ch.alive
           /\ OnChannelDestroyed(s).ch.stream_thread = s.ch.stream_thread
           /\ Due(OnChannelDestroyed(s), b, "SI_DESTROY") = Due(s, b, "SI_DESTROY")
           /\ Ahead(s.queue["main"]) => Ahead(OnChannelDestroyed(s).queue["main"])
  <1> DEFINE r == OnChannelDestroyed(s)
             p == [Post(ClearClock(Clear(s, "main", "SI_DESTROYCHANNEL")), "main",
                        Msg("WK_PURGE"))
                       EXCEPT !.ch.session = FALSE, !.ch.channel = FALSE]
             told == IF s.ch.stream /\ s.ch.tcp.state # "CLOSED"
                     THEN PostEvent(p, {"CLOSE"}) ELSE p
             f == [told EXCEPT !.ch.tcp.shutdown = "FORCEFUL"]
  <1>0. s \in SysRec /\ b \in Busy /\ ap \in AppRec BY DEF Bare
  <1>1. s.ch.session /\ s.ch.worker BY DEF Bare, Wired
  <1>2. r = IF s.ch.tcp = NoTcp THEN told ELSE AdjustClock(f, TRUE)
    BY DEF OnChannelDestroyed
  <1>3. Purged(s, p) BY <1>0, PurgeEffect
  <1> HIDE DEF p
  <1>4. p \in SysRec /\ p.ch.stream = s.ch.stream BY <1>3 DEF Purged
  <1>5. told = IF s.ch.tcp.state # "CLOSED" THEN Tell(p) ELSE p
    BY <1>4 DEF Tell
  <1>6. Quietly(p, told) /\ told.ch = p.ch BY <1>4, <1>5, TellEffect, TalkSelf DEF Talk
  <1>7. s.ch.stream =>
          /\ Heard(told, b, "CLOSE") = Heard(p, b, "CLOSE") + One(s.ch.tcp.state # "CLOSED")
          /\ Heard(told, b, "READ") = Heard(p, b, "READ")
    <2>1. Heard(p, b, "CLOSE") \in Nat BY <1>4, HeardType
    <2>2. s.ch.stream => /\ Heard(Tell(p), b, "CLOSE") = Heard(p, b, "CLOSE") + 1
                         /\ Heard(Tell(p), b, "READ") = Heard(p, b, "READ")
      BY <1>4, TellEffect
    <2> HIDE DEF told
    <2>3. CASE s.ch.tcp.state = "CLOSED" BY <1>5, <2>1, <2>3 DEF One
    <2>4. CASE s.ch.tcp.state # "CLOSED" BY <1>5, <2>2, <2>4 DEF One
    <2> QED BY <2>3, <2>4
  <1> HIDE DEF told
  <1>8. /\ r \in SysRec /\ r.clocks = told.clocks /\ r.queue = told.queue
        /\ SameParts(told.ch, r.ch) /\ r.ch.pending = told.ch.pending /\ r.ch.tcp = NoTcp
    <2>1. told \in SysRec /\ ~told.ch.channel /\ told.ch.tcp = s.ch.tcp
      BY <1>3, <1>6 DEF Quietly, Purged
    <2>2. CASE s.ch.tcp = NoTcp BY <1>2, <2>1, <2>2 DEF SameParts
    <2>3. CASE s.ch.tcp # NoTcp
      <3>1. told.ch.tcp \in LiveTcp BY <2>1, <2>3 DEF SysRec, ChannelRec
      <3>2. /\ f \in SysRec /\ f.clocks = told.clocks /\ f.queue = told.queue
            /\ SameParts(told.ch, f.ch) /\ f.ch.pending = told.ch.pending
            /\ f.ch.tcp.shutdown = "FORCEFUL"
        BY <2>1, <3>1 DEF SysRec, ChannelRec, LiveTcp, SameParts
      <3> HIDE DEF f
      <3>3. ~NextClock(f.ch.tcp) /\ ~f.ch.channel BY <2>1, <3>2 DEF NextClock, SameParts
      <3>4. r = [f EXCEPT !.ch.tcp = NoTcp, !.ch.ready = FALSE]
        BY <1>2, <2>3, <3>3 DEF AdjustClock
      <3> HIDE DEF r
      <3> QED BY <3>2, <3>4 DEF SysRec, ChannelRec, SameParts
    <2> QED BY <2>2, <2>3
  <1> HIDE DEF r, f
  <1>9. /\ ~r.ch.session /\ ~r.ch.channel /\ r.ch.worker /\ r.ch.stream = s.ch.stream
        /\ r.ch.alive = s.ch.alive /\ r.ch.stream_thread = s.ch.stream_thread
        /\ r.ch.misused = s.ch.misused /\ r.clocks = 0
    BY <1>1, <1>3, <1>6, <1>8 DEF Purged, SameParts, Quietly
  <1>10. r.queue["stream"] \in Seq(Events)
    BY <1>3, <1>6, <1>8 DEF Bare, Purged, Quietly
  <1>11. \A u \in Two, id \in Ids : id # "ST_EVENT" \/ u # s.ch.stream_thread =>
            Count(r.queue[u], id) = Count(p.queue[u], id)
    BY <1>3, <1>6, <1>8 DEF Quietly, Purged
  <1>12. /\ Due(r, b, "WK_CLOCK") = 0 /\ Due(r, b, "SI_DESTROYCHANNEL") = 0
         /\ Due(r, b, "WK_PURGE") = Due(s, b, "WK_PURGE") + 1
         /\ Due(r, b, "SI_DESTROY") = Due(s, b, "SI_DESTROY")
    <2>1. /\ Count(r.queue["main"], "WK_CLOCK") = 0
          /\ Count(r.queue["main"], "SI_DESTROYCHANNEL") = 0
          /\ Count(r.queue["main"], "WK_PURGE") = Count(s.queue["main"], "WK_PURGE") + 1
          /\ Count(r.queue["main"], "SI_DESTROY") = Count(s.queue["main"], "SI_DESTROY")
      BY <1>3, <1>11 DEF Purged, Two, Ids
    <2>2. Count(s.queue["main"], "WK_PURGE") \in Nat BY <1>0, CountType DEF SysRec, Two
    <2> QED BY <2>1, <2>2 DEF Due, One
  <1>13. Wired(r, b)
    <2>1. Due(s, b, "WK_PURGE") = 0 BY <1>1 DEF Bare, Wired, One
    <2> QED BY <1>8, <1>9, <1>12, <2>1 DEF Wired, One
  <1>14. Eventful(r, b)
    <2>1. \A u \in Two : Count(p.queue[u], "ST_EVENT") = Count(s.queue[u], "ST_EVENT")
      BY <1>3 DEF Purged, Two
    <2>2. ~s.ch.stream => r.queue = p.queue BY <1>4, <1>6, <1>8 DEF Quietly
    <2> QED BY <1>9, <1>11, <2>1, <2>2 DEF Bare, Eventful, Ids
  <1>15. \A e : Heard(p, b, e) = Heard(s, b, e)
    <2>1. s.ch.stream_thread \in Two BY <1>0 DEF SysRec, ChannelRec
    <2> QED BY <1>3, <2>1 DEF Heard, Purged, Two
  <1>16. \A e : Heard(r, b, e) = Heard(told, b, e) BY <1>8 DEF Heard, SameParts
  <1>17. Closing(r, b, ap)
    <2>1. Heard(s, b, "CLOSE") \in Nat /\ ap.closes \in Nat BY <1>0, HeardType DEF AppRec
    <2> QED BY <1>1, <1>7, <1>9, <1>15, <1>16, <2>1 DEF Bare, Closing, One
  <1>18. Hearing(r, b, ap)
    <2>1. r.ch.pending = s.ch.pending BY <1>3, <1>6, <1>8 DEF Purged
    <2>2. r.ch.tcp.state # "ESTABLISHED" BY <1>8 DEF NoTcp
    <2> QED BY <1>7, <1>9, <1>15, <1>16, <2>1, <2>2 DEF Bare, Hearing
  <1>19. Careful => Lasting(r, b) BY <1>1, <1>9, <1>12 DEF Bare, Lasting
  <1>20. Ahead(s.queue["main"]) => Ahead(r.queue["main"])
    BY <1>3, <1>6, <1>8 DEF Purged, Quietly
  <1>21. Bare(r, b, ap)
    BY <1>0, <1>8, <1>10, <1>13, <1>14, <1>17, <1>18, <1>19 DEF Bare
  <1> QED BY <1>9, <1>12, <1>20, <1>21 DEF r

\* Connect: the transport channel and the connection are created.
LEMMA ConnectBare ==
    ASSUME NEW s, NEW b, NEW ap, Bare(s, b, ap), s.ch.session, ~s.ch.worker
    PROVE  /\ Bare(Connect(s), b, ap) /\ Connect(s).ch.session
           /\ Connect(s).clocks + Due(Connect(s), b, "WK_CLOCK") <= 1
           /\ Connect(s).ch.stream = s.ch.stream /\ Connect(s).ch.pending = s.ch.pending
           /\ Connect(s).ch.tcp.state \notin {"CLOSED", "ESTABLISHED"}
           /\ Connect(s).ch.tcp.shutdown = "NONE"
  <1> DEFINE r == Connect(s)
  <1>0. s \in SysRec BY DEF Bare
  <1>1. ~s.ch.channel /\ s.ch.tcp = NoTcp BY DEF Bare, Wired
  <1>2. s.clocks + Due(s, b, "WK_CLOCK") = 0
    <2>1. s.clocks \in Nat /\ Due(s, b, "WK_CLOCK") \in Nat BY <1>0, DueType DEF SysRec
    <2> QED BY <1>1, <2>1 DEF Bare, Wired
  <1>3. CASE ~s.ch.alive
    <2>1. ~Careful BY <1>3 DEF Bare, Lasting
    <2>2. r = [s EXCEPT !.ch.misused = TRUE] BY <1>3 DEF Connect, Call
    <2> HIDE DEF r
    <2>3. Bare(r, b, ap) /\ r.queue = s.queue /\ r.clocks = s.clocks
          /\ r.ch.session = s.ch.session /\ r.ch.stream = s.ch.stream
          /\ r.ch.pending = s.ch.pending /\ r.ch.tcp = s.ch.tcp
      BY <2>1, <2>2, MisusedBare
    <2>4. Due(r, b, "WK_CLOCK") = Due(s, b, "WK_CLOCK") BY <2>3 DEF Due
    <2> QED BY <1>1, <1>2, <2>3, <2>4 DEF r, NoTcp
  <1>4. CASE s.ch.alive
    <2> DEFINE rd == s.role = "INITIATOR"
    <2>1. r = [s EXCEPT !.ch.worker = TRUE, !.ch.channel = TRUE, !.ch.tcp = NewTcp,
                        !.ch.ready = rd]
      BY <1>4 DEF Connect, Call
    <2>2. rd \in BOOLEAN /\ NewTcp \in LiveTcp /\ NewTcp.state = "LISTEN"
          /\ NewTcp.shutdown = "NONE"
      BY DEF NewTcp, NoTcp, LiveTcp
    <2> HIDE DEF r, rd
    <2>3. /\ r \in SysRec /\ r.queue = s.queue /\ r.clocks = s.clocks
          /\ r.ch.session /\ r.ch.channel /\ r.ch.worker /\ r.ch.tcp = NewTcp
          /\ r.ch.stream = s.ch.stream /\ r.ch.alive = s.ch.alive
          /\ r.ch.stream_thread = s.ch.stream_thread
          /\ r.ch.pending = s.ch.pending /\ r.ch.misused = s.ch.misused
      BY <1>0, <2>1, <2>2 DEF SysRec, ChannelRec
    <2>4. (\A id : Due(r, b, id) = Due(s, b, id)) /\ (\A e : Heard(r, b, e) = Heard(s, b, e))
      BY <2>3 DEF Due, Heard
    <2>5. Wired(r, b) BY <1>1, <1>2, <2>2, <2>3, <2>4 DEF Bare, Wired, One
    <2>6. Eventful(r, b) BY <2>3 DEF Bare, Eventful
    <2>7. Closing(r, b, ap) BY <1>1, <2>2, <2>3, <2>4 DEF Bare, Closing, NoTcp, One
    <2>8. Hearing(r, b, ap) BY <2>2, <2>3, <2>4 DEF Bare, Hearing
    <2>9. Careful => Lasting(r, b) BY <2>3, <2>4 DEF Bare, Lasting
    <2>10. Bare(r, b, ap) BY <2>3, <2>5, <2>6, <2>7, <2>8, <2>9 DEF Bare
    <2> QED BY <1>2, <2>2, <2>3, <2>4, <2>10 DEF r
  <1>5. s.ch.alive \in BOOLEAN BY <1>0 DEF SysRec, ChannelRec
  <1> QED BY <1>3, <1>4, <1>5

\* GetStream: nothing has been told yet.
LEMMA StreamBare ==
    ASSUME NEW s, NEW b, NEW ap, Bare(s, b, ap), s.ch.session,
           ~s.ch.stream, ~s.ch.pending, ap.closes = 0,
           s.clocks + Due(s, b, "WK_CLOCK") <= 1,
           s.ch.tcp.state \notin {"CLOSED", "ESTABLISHED"}, s.ch.tcp.shutdown = "NONE"
    PROVE  /\ Bare(GetStream(s), b, ap) /\ GetStream(s).ch.session
           /\ GetStream(s).queue = s.queue
           /\ GetStream(s).ch.channel = s.ch.channel /\ GetStream(s).ch.worker = s.ch.worker
  <1> DEFINE r == GetStream(s)
  <1>0. s \in SysRec /\ b \in Busy BY DEF Bare
  <1>1. /\ r \in SysRec /\ r.queue = s.queue /\ r.clocks = s.clocks
        /\ r.ch.session /\ r.ch.channel = s.ch.channel /\ r.ch.worker = s.ch.worker
        /\ r.ch.stream /\ r.ch.alive = s.ch.alive /\ r.ch.tcp = s.ch.tcp
        /\ r.ch.stream_thread = s.ch.stream_thread
        /\ r.ch.pending = s.ch.pending /\ r.ch.misused = s.ch.misused
    BY <1>0 DEF GetStream, SysRec, ChannelRec
  <1> HIDE DEF r
  <1>2. (\A id : Due(r, b, id) = Due(s, b, id)) /\ (\A e : Heard(r, b, e) = Heard(s, b, e))
    BY <1>1 DEF Due, Heard
  <1>3. Heard(s, b, "CLOSE") = 0
    <2> DEFINE t == s.ch.stream_thread
    <2>1. t \in Two /\ s.queue[t] \in Seq(Message) BY <1>0 DEF SysRec, ChannelRec
    <2>2. Count(s.queue[t], "ST_EVENT") = 0 /\ b[t].id # "ST_EVENT"
      BY <2>1 DEF Bare, Eventful
    <2>3. Tells(s.queue[t], "CLOSE") = 0 BY <2>1, <2>2, CountType
    <2>4. b[t].events = {} BY <1>0, <2>1, <2>2 DEF Busy, Message, NoMsg, Msg
    <2> QED BY <2>3, <2>4 DEF Heard, One
  <1>4. Wired(r, b) BY <1>1, <1>2 DEF Bare, Wired
  <1>5. Eventful(r, b) BY <1>1 DEF Bare, Eventful
  <1>6. Closing(r, b, ap) BY <1>1, <1>2, <1>3 DEF Closing, One
  <1>7. Hearing(r, b, ap) BY <1>1 DEF Hearing
  <1>8. Careful => Lasting(r, b) BY <1>1, <1>2 DEF Bare, Lasting
  <1>9. Bare(r, b, ap) BY <1>1, <1>4, <1>5, <1>6, <1>7, <1>8 DEF Bare
  <1> QED BY <1>1, <1>9 DEF r

-----------------------------------------------------------------------------
(* The client and the other end                                            *)

\* The state is posted.
LEMMA StatePostedBare ==
    ASSUME NEW s, NEW b, NEW ap, Bare(s, b, ap)
    PROVE  /\ Bare(Post(s, "main", Msg("STATE")), b, ap)
           /\ Posted(s, Post(s, "main", Msg("STATE")), "main", Msg("STATE"))
           /\ \A id \in Ids : id # "STATE" =>
                 Due(Post(s, "main", Msg("STATE")), b, id) = Due(s, b, id)
  <1> DEFINE m == Msg("STATE")
             r == Post(s, "main", m)
  <1>0. s \in SysRec /\ s.queue["main"] \in Seq(Message) BY DEF Bare, SysRec, Two
  <1>1. m \in Message /\ m.id = "STATE" /\ m.events = {} BY IdMessage DEF Ids
  <1> HIDE DEF m
  <1>2. Posted(s, r, "main", m) BY <1>0, <1>1, PostEffect DEF Two
  <1> HIDE DEF r
  <1>3. /\ r \in SysRec /\ r.clocks = s.clocks /\ r.ch = s.ch
        /\ r.queue["stream"] = s.queue["stream"]
    BY <1>2 DEF Posted, Two
  <1>4. \A id : id # "STATE" => Count(r.queue["main"], id) = Count(s.queue["main"], id)
    <2> TAKE id
    <2> HAVE id # "STATE"
    <2>1. Count(s.queue["main"], id) \in Nat BY <1>0, CountType
    <2> QED BY <1>1, <1>2, <2>1 DEF Posted, Grown, One
  <1>5. \A e : Tells(r.queue["main"], e) = Tells(s.queue["main"], e)
    <2> TAKE e
    <2>1. Tells(s.queue["main"], e) \in Nat BY <1>0, CountType
    <2> QED BY <1>1, <1>2, <2>1 DEF Posted, Grown, One
  <1>6. \A id : id # "STATE" => Due(r, b, id) = Due(s, b, id) BY <1>4 DEF Due
  <1>7. \A e : Heard(r, b, e) = Heard(s, b, e)
    <2>1. s.ch.stream_thread \in Two BY <1>0 DEF SysRec, ChannelRec
    <2> QED BY <1>3, <1>5, <2>1 DEF Heard, Two
  <1>8. Wired(r, b) BY <1>3, <1>6 DEF Bare, Wired
  <1>9. Eventful(r, b) BY <1>3, <1>4 DEF Bare, Eventful, Two
  <1>10. Closing(r, b, ap) /\ Hearing(r, b, ap) BY <1>3, <1>7 DEF Bare, Closing, Hearing
  <1>11. Careful => Lasting(r, b) BY <1>3, <1>6 DEF Bare, Lasting
  <1> QED BY <1>2, <1>3, <1>6, <1>8, <1>9, <1>10, <1>11 DEF Bare, r, m

\* A new PseudoTcpChannel.
LEMMA NewBare ==
    ASSUME IInv, ses = "INIT", NEW thread \in Two
    PROVE  LET s == [sys EXCEPT !.ch = NewChannel(thread)]
           IN /\ Bare(s, busy, app) /\ s.ch = NewChannel(thread) /\ s.queue = sys.queue
              /\ s.clocks + Due(s, busy, "WK_CLOCK") <= 1
              /\ app.closes = 0 /\ Idle("main")
  <1> DEFINE s == [sys EXCEPT !.ch = NewChannel(thread)]
  <1>0. Bare(sys, busy, app) /\ Staged(sys, busy, ses, owner, app) BY InvBare DEF IInv
  <1>1. sys \in SysRec BY <1>0 DEF Bare
  <1>2. NewChannel(thread) \in ChannelRec BY DEF NewChannel, ChannelRec
  <1>3. /\ s \in SysRec /\ s.queue = sys.queue /\ s.clocks = sys.clocks
        /\ s.ch = NewChannel(thread)
    BY <1>1, <1>2 DEF SysRec
  <1> HIDE DEF s
  <1>4. /\ \A t \in Two : sys.queue[t] = <<>> /\ busy[t] = NoMsg
        /\ sys.clocks = 0 /\ app.closes = 0
    BY <1>0 DEF Staged
  <1>5. \A t \in Two : s.queue[t] = <<>> /\ busy[t] = NoMsg BY <1>3, <1>4
  <1>6. \A id \in Ids : Due(s, busy, id) = 0
    BY <1>5, CountEmpty DEF Due, One, Two, Ids, NoMsg
  <1>7. /\ s.ch.session /\ ~s.ch.channel /\ ~s.ch.worker /\ ~s.ch.stream /\ s.ch.tcp = NoTcp
        /\ s.ch.alive /\ ~s.ch.misused
    BY <1>3 DEF NewChannel
  <1>8. Wired(s, busy) BY <1>3, <1>4, <1>6, <1>7 DEF Wired, Ids, One
  <1>9. Eventful(s, busy) BY <1>5, CountEmpty DEF Eventful, NoMsg
  <1>10. Closing(s, busy, app) /\ Hearing(s, busy, app) BY <1>7 DEF Closing, Hearing
  <1>11. Lasting(s, busy) BY <1>6, <1>7 DEF Lasting, Ids, One
  <1>12. s.clocks + Due(s, busy, "WK_CLOCK") <= 1 BY <1>3, <1>4, <1>6 DEF Ids
  <1>13. Bare(s, busy, app) BY <1>0, <1>3, <1>8, <1>9, <1>10, <1>11 DEF Bare
  <1> QED BY <1>3, <1>4, <1>12, <1>13 DEF s, Idle, Two

LEMMA CreateTunnelKeeps ==
    ASSUME IInv, NEW thread \in Two, CreateTunnel(thread) PROVE IInv'
  <1> DEFINE s == [sys EXCEPT !.ch = NewChannel(thread)]
             p == Post(s, "main", Msg("STATE"))
             r == GetStream(p)
  <1>0. ses = "INIT" /\ ses' = "SENTINITIATE" /\ owner' = TRUE /\ sys' = r
        /\ busy' = busy /\ app' = app
    BY DEF CreateTunnel
  <1>1. /\ Bare(s, busy, app) /\ s.ch = NewChannel(thread)
        /\ s.clocks + Due(s, busy, "WK_CLOCK") <= 1 /\ app.closes = 0 /\ Idle("main")
    BY <1>0, NewBare
  <1> HIDE DEF s
  <1>2. /\ Bare(p, busy, app) /\ p.ch = s.ch /\ p.clocks = s.clocks
        /\ Due(p, busy, "WK_CLOCK") = Due(s, busy, "WK_CLOCK")
    BY <1>1, StatePostedBare DEF Ids, Posted
  <1> HIDE DEF p
  <1>3. /\ p.ch.session /\ ~p.ch.stream /\ ~p.ch.pending /\ ~p.ch.worker /\ ~p.ch.channel
        /\ p.ch.tcp.state \notin {"CLOSED", "ESTABLISHED"} /\ p.ch.tcp.shutdown = "NONE"
    BY <1>1, <1>2 DEF NewChannel, NoTcp
  <1>4. p.clocks + Due(p, busy, "WK_CLOCK") <= 1 BY <1>1, <1>2
  <1>5. Bare(r, busy, app) /\ r.ch.session
        /\ r.ch.channel = p.ch.channel /\ r.ch.worker = p.ch.worker
    BY <1>1, <1>2, <1>3, <1>4, StreamBare
  <1> HIDE DEF r
  <1>6. Staged(r, busy, "SENTINITIATE", TRUE, app)
    BY <1>3, <1>5 DEF Staged, Live
  <1>7. Ordered(r, busy, "SENTINITIATE") BY DEF Ordered, Ended
  <1>8. Inv(r, busy, "SENTINITIATE", TRUE, app)
    BY <1>5, <1>6, <1>7, BareInv DEF Live
  <1> QED BY <1>0, <1>8 DEF IInv

LEMMA IncomingTunnelKeeps == ASSUME IInv, IncomingTunnel PROVE IInv'
  <1> DEFINE s == [sys EXCEPT !.ch = NewChannel("main")]
             m == Msg("POST_STATE")
             c == [busy EXCEPT !["main"] = m]
             st == "RECEIVEDINITIATE"
  <1>0. ses = "INIT" /\ ses' = st /\ owner' = TRUE /\ sys' = s /\ busy' = c /\ app' = app
    BY DEF IncomingTunnel, SetState, OnSessionState, Turn, Ended
  <1>1. /\ Bare(s, busy, app) /\ s.ch = NewChannel("main")
        /\ app.closes = 0 /\ Idle("main")
    BY <1>0, NewBare DEF Two
  <1> HIDE DEF s
  <1>2. Turned(busy, c, m) BY <1>1, TurnType DEF Bare
  <1> HIDE DEF c
  <1>3. busy["main"].id = "NONE" BY <1>1 DEF Idle, NoMsg
  <1>4. Bare(s, c, app) BY <1>1, <1>2, <1>3, TurnBare
  <1>5. Staged(s, c, st, TRUE, app) BY <1>1 DEF Staged, Live, NewChannel
  <1>6. Ordered(s, c, st) BY DEF Ordered, Ended
  <1>7. Inv(s, c, st, TRUE, app) BY <1>4, <1>5, <1>6, BareInv DEF Live
  <1> QED BY <1>0, <1>7 DEF IInv

\* A new state of the session is signalled and still to be posted.
Signalled == [busy EXCEPT !["main"] = Msg("POST_STATE")]

LEMMA SignalledBare ==
    ASSUME IInv, busy["main"].id \notin {"WK_PURGE", "ST_EVENT", "SI_DESTROY"}
    PROVE  /\ Bare(sys, Signalled, app) /\ Signalled["main"] = Msg("POST_STATE")
           /\ \A id \in Ids : /\ Due(sys, busy, id) \in Nat /\ Due(sys, Signalled, id) \in Nat
                              /\ Due(sys, Signalled, id) <= Due(sys, busy, id)
  <1> DEFINE c == Signalled
             m == Msg("POST_STATE")
  <1>1. Bare(sys, busy, app) BY InvBare DEF IInv
  <1>2. Turned(busy, c, m) BY <1>1, TurnType DEF Bare, Signalled
  <1> HIDE DEF c
  <1>3. /\ Bare(sys, c, app)
        /\ \A id \in Ids : Due(sys, busy, id) = Due(sys, c, id) + One(busy["main"].id = id)
        /\ \A id \in Ids : Due(sys, c, id) \in Nat /\ Due(sys, busy, id) \in Nat
    BY <1>1, <1>2, TurnBare
  <1>4. \A id \in Ids : Due(sys, c, id) <= Due(sys, busy, id) BY <1>3 DEF One
  <1> QED BY <1>2, <1>3, <1>4 DEF c, Turned

\* The session goes on to a state of which the tunnel is not told.
LEMMA PlainStateKeeps ==
    ASSUME IInv, busy["main"].id \notin {"WK_PURGE", "ST_EVENT", "SI_DESTROY"},
           ses \in Live, NEW st \in {"SENTREJECT", "RECEIVEDREJECT", "INPROGRESS"},
           SetState(sys, st), owner' = owner, app' = app
    PROVE  IInv'
  <1>1. ses' = st /\ sys' = sys /\ busy' = Signalled
    BY DEF SetState, OnSessionState, Turn, Signalled, Ended
  <1>2. Staged(sys, busy, ses, owner, app) /\ owner \in BOOLEAN BY InvBare DEF IInv
  <1>3. Bare(sys, Signalled, app) BY SignalledBare
  <1>4. owner = TRUE /\ sys.ch.session BY <1>2 DEF Staged, Live
  <1>5. Staged(sys, Signalled, st, owner, app) BY <1>4 DEF Staged
  <1>6. Ordered(sys, Signalled, st) BY DEF Ordered, Ended
  <1>7. Inv(sys, Signalled, st, owner, app) BY <1>2, <1>3, <1>5, <1>6, BareInv DEF Live
  <1> QED BY <1>1, <1>7 DEF IInv

\* The session ends.
LEMMA EndKeeps ==
    ASSUME NEW s, NEW c, NEW ap, NEW st \in Ended, Bare(s, c, ap),
           c["main"] = Msg("POST_STATE"),
           Careful => s.ch.alive,
           Careful /\ s.ch.stream_thread = "main" =>
               Due(s, c, "SI_DESTROY") = 0 \/ Ahead(s.queue["main"])
    PROVE  Inv(OnSessionTerminate(s), c, st, TRUE, ap)
  <1> DEFINE r == OnSessionTerminate(s)
  <1>1. Bare(r, c, ap) /\ Kept(s, r) BY SessionTerminateBare
  <1> HIDE DEF r
  <1>2. c["main"].id = "POST_STATE" BY DEF Msg
  <1>3. Staged(r, c, st, TRUE, ap) BY DEF Staged, Ended, Live
  <1>4. Careful => Ordered(r, c, st) BY <1>1, <1>2 DEF Kept, Ordered
  <1>5. Inv(r, c, st, TRUE, ap) BY <1>1, <1>3, <1>4, BareInv
  <1> QED BY <1>5 DEF r

\* What the invariant says of a session that may be ended.
LEMMA Endable ==
    ASSUME IInv,
           \/ ses \in Live
           \/ ses \in Ended /\ Idle("main") /\ sys.ch.stream_thread \in Overlaps
    PROVE  /\ owner = TRUE
           /\ Careful => sys.ch.alive
           /\ Careful => Due(sys, busy, "SI_DESTROY") = 0 \/ Ahead(sys.queue["main"])
  <1>1. /\ Staged(sys, busy, ses, owner, app) /\ owner \in BOOLEAN
        /\ Careful => Ordered(sys, busy, ses) /\ Lasting(sys, busy)
    BY InvBare DEF IInv, Bare
  <1>2. owner = TRUE BY <1>1 DEF Staged, Live, Ended
  <1>3. CASE ses \in Live BY <1>1, <1>2, <1>3 DEF Staged, Lasting
  <1>4. CASE ses \in Ended /\ Idle("main") /\ sys.ch.stream_thread \in Overlaps
    <2>1. Careful => sys.ch.stream_thread = "main" BY <1>4 DEF Careful
    <2> QED BY <1>1, <1>2, <1>4, <2>1 DEF Ordered, Idle, NoMsg
  <1> QED BY <1>3, <1>4

LEMMA EndedStateKeeps ==
    ASSUME IInv, busy["main"].id \notin {"WK_PURGE", "ST_EVENT", "SI_DESTROY"},
           \/ ses \in Live
           \/ ses \in Ended /\ Idle("main") /\ sys.ch.stream_thread \in Overlaps,
           NEW st \in Ended, SetState(sys, st), owner' = owner, app' = app
    PROVE  IInv'
  <1>1. owner = TRUE /\ (Careful => sys.ch.alive)
        /\ (Careful => Due(sys, busy, "SI_DESTROY") = 0 \/ Ahead(sys.queue["main"]))
    BY Endable
  <1>2. ses' = st /\ sys' = OnSessionTerminate(sys) /\ busy' = Signalled
    BY <1>1 DEF SetState, OnSessionState, Turn, Signalled, Ended
  <1>3. Bare(sys, Signalled, app) /\ Signalled["main"] = Msg("POST_STATE") BY SignalledBare
  <1>4. Due(sys, busy, "SI_DESTROY") = 0 => Due(sys, Signalled, "SI_DESTROY") = 0
    BY SignalledBare DEF Ids
  <1>5. Inv(OnSessionTerminate(sys), Signalled, st, TRUE, app)
    BY <1>1, <1>3, <1>4, EndKeeps
  <1> QED BY <1>1, <1>2, <1>5 DEF IInv

LEMMA AcceptKeeps ==
    ASSUME IInv, Idle("main"), ses = "SENTINITIATE", NEW st \in {"RECEIVEDACCEPT"},
           SetState(sys, st), owner' = owner, app' = app
    PROVE  IInv'
  <1> DEFINE r == Connect(sys)
  <1>1. Staged(sys, busy, ses, owner, app) /\ owner \in BOOLEAN BY InvBare DEF IInv
  <1>2. owner = TRUE /\ sys.ch.session /\ ~sys.ch.worker BY <1>1 DEF Staged, Live
  <1>3. ses' = st /\ sys' = r /\ busy' = Signalled
    BY <1>2 DEF SetState, OnSessionState, Turn, Signalled, Ended
  <1>4. Bare(sys, Signalled, app) BY SignalledBare DEF Idle, NoMsg
  <1>5. Bare(r, Signalled, app) /\ r.ch.session BY <1>2, <1>4, ConnectBare
  <1> HIDE DEF r
  <1>6. Staged(r, Signalled, st, owner, app) BY <1>2, <1>5 DEF Staged
  <1>7. Ordered(r, Signalled, st) BY DEF Ordered, Ended
  <1>8. Inv(r, Signalled, st, owner, app) BY <1>1, <1>5, <1>6, <1>7, BareInv DEF Live
  <1> QED BY <1>3, <1>8 DEF IInv

LEMMA AcceptTunnelKeeps == ASSUME IInv, AcceptTunnel PROVE IInv'
  <1> DEFINE s == Connect(sys)
             r == GetStream(s)
             st == "SENTACCEPT"
  <1>0. Idle("main") /\ ses = "RECEIVEDINITIATE" BY DEF AcceptTunnel
  <1>1. Staged(sys, busy, ses, owner, app) /\ owner \in BOOLEAN BY InvBare DEF IInv
  <1>2. /\ owner = TRUE /\ sys.ch.session /\ ~sys.ch.worker
        /\ ~sys.ch.stream /\ ~sys.ch.pending /\ app.closes = 0
    BY <1>0, <1>1 DEF Staged, Live
  <1>3. ses' = st /\ sys' = r /\ busy' = Signalled /\ owner' = owner /\ app' = app
    BY <1>2 DEF AcceptTunnel, OnSessionState, Turn, Signalled, Ended
  <1>4. Bare(sys, Signalled, app) BY <1>0, SignalledBare DEF Idle, NoMsg
  <1>5. /\ Bare(s, Signalled, app) /\ s.ch.session
        /\ s.clocks + Due(s, Signalled, "WK_CLOCK") <= 1
        /\ s.ch.stream = sys.ch.stream /\ s.ch.pending = sys.ch.pending
        /\ s.ch.tcp.state \notin {"CLOSED", "ESTABLISHED"} /\ s.ch.tcp.shutdown = "NONE"
    BY <1>2, <1>4, ConnectBare
  <1> HIDE DEF s
  <1>6. Bare(r, Signalled, app) /\ r.ch.session BY <1>2, <1>5, StreamBare
  <1> HIDE DEF r
  <1>7. Staged(r, Signalled, st, owner, app) BY <1>2, <1>6 DEF Staged
  <1>8. Ordered(r, Signalled, st) BY DEF Ordered, Ended
  <1>9. Inv(r, Signalled, st, owner, app) BY <1>1, <1>6, <1>7, <1>8, BareInv DEF Live
  <1> QED BY <1>3, <1>9 DEF IInv

LEMMA DeclineTunnelKeeps == ASSUME IInv, DeclineTunnel PROVE IInv'
  BY PlainStateKeeps DEF DeclineTunnel, Idle, NoMsg, Live

LEMMA OnAcceptMessageKeeps == ASSUME IInv, OnAcceptMessage PROVE IInv'
  BY AcceptKeeps DEF OnAcceptMessage

LEMMA OnRejectMessageKeeps == ASSUME IInv, OnRejectMessage PROVE IInv'
  BY PlainStateKeeps DEF OnRejectMessage, Idle, NoMsg, Live

LEMMA TerminateKeeps == ASSUME IInv, Terminate PROVE IInv'
  BY EndedStateKeeps DEF Terminate, Idle, NoMsg, Ended

LEMMA OnTerminateMessageKeeps == ASSUME IInv, OnTerminateMessage PROVE IInv'
  BY EndedStateKeeps DEF OnTerminateMessage, Idle, NoMsg, Ended

\* DestroySession.
LEMMA DestroyKeeps ==
    ASSUME NEW s, NEW c, NEW ap, Bare(s, c, ap),
           c["main"].id \notin {"WK_CLOCK", "SI_DESTROYCHANNEL"}
    PROVE  Inv(IF s.ch.channel THEN OnChannelDestroyed(Clear(s, "main", "STATE"))
               ELSE Clear(s, "main", "STATE"), c, "DEINIT", FALSE, ap)
  <1> DEFINE off == Clear(s, "main", "STATE")
             r == IF s.ch.channel THEN OnChannelDestroyed(off) ELSE off
  <1>1. Bare(off, c, ap) /\ off.ch = s.ch BY StateClearedBare
  <1> HIDE DEF off
  <1>2. Bare(r, c, ap) /\ ~r.ch.channel
    <2>1. CASE s.ch.channel BY <1>1, <2>1, ChannelDestroyedBare
    <2>2. CASE ~s.ch.channel BY <1>1, <2>2
    <2> QED BY <2>1, <2>2
  <1> HIDE DEF r
  <1>3. Staged(r, c, "DEINIT", FALSE, ap) BY <1>2 DEF Staged, Live
  <1>4. Ordered(r, c, "DEINIT") BY DEF Ordered, Ended
  <1>5. Inv(r, c, "DEINIT", FALSE, ap) BY <1>2, <1>3, <1>4, BareInv
  <1> QED BY <1>5 DEF r, off

LEMMA DeleteClientKeeps == ASSUME IInv, DeleteClient PROVE IInv'
  <1> DEFINE s == Call(sys, sys)
  <1>1. /\ Idle("main") /\ busy' = busy /\ app' = app
        /\ ses' = "DEINIT" /\ owner' = FALSE
        /\ sys' = IF s.ch.channel THEN OnChannelDestroyed(Clear(s, "main", "STATE"))
                  ELSE Clear(s, "main", "STATE")
    BY DEF DeleteClient, DestroySession
  <1>2. Careful => sys.ch.alive BY Endable DEF DeleteClient
  <1>3. Bare(sys, busy, app) BY InvBare DEF IInv
  <1>4. Bare(s, busy, app)
    <2>1. CASE sys.ch.alive BY <1>3, <2>1 DEF Call
    <2>2. CASE ~sys.ch.alive
      <3>1. s = [sys EXCEPT !.ch.misused = TRUE] BY <2>2 DEF Call
      <3>2. ~Careful BY <1>2, <2>2
      <3> HIDE DEF s
      <3> QED BY <1>3, <3>1, <3>2, MisusedBare
    <2> QED BY <2>1, <2>2
  <1> HIDE DEF s
  <1>5. busy["main"].id \notin {"WK_CLOCK", "SI_DESTROYCHANNEL"} BY <1>1 DEF Idle, NoMsg
  <1>6. Inv(sys', busy, "DEINIT", FALSE, app) BY <1>1, <1>4, <1>5, DestroyKeeps
  <1> QED BY <1>1, <1>6 DEF IInv

-----------------------------------------------------------------------------
(* Messages                                                                *)

\* main is done with a message.
Handled == [busy EXCEPT !["main"] = NoMsg]

LEMMA HandledBare ==
    ASSUME IInv, busy["main"].id \notin {"WK_PURGE", "ST_EVENT", "SI_DESTROY"}
    PROVE  /\ Bare(sys, Handled, app) /\ Handled["main"] = NoMsg
           /\ Handled["stream"] = busy["stream"]
           /\ \A id \in Ids :
                 /\ Due(sys, busy, id) \in Nat /\ Due(sys, Handled, id) \in Nat
                 /\ Due(sys, busy, id) = Due(sys, Handled, id) + One(busy["main"].id = id)
  <1> DEFINE c == Handled
  <1>1. Bare(sys, busy, app) BY InvBare DEF IInv
  <1>2. Turned(busy, c, NoMsg) BY <1>1, TurnType DEF Bare, Handled
  <1> HIDE DEF c
  <1>3. /\ Bare(sys, c, app)
        /\ \A id \in Ids : Due(sys, busy, id) = Due(sys, c, id) + One(busy["main"].id = id)
        /\ \A id \in Ids : Due(sys, c, id) \in Nat /\ Due(sys, busy, id) \in Nat
    BY <1>1, <1>2, TurnBare
  <1> QED BY <1>2, <1>3 DEF c, Turned

\* A message that changes nothing of the session, and is not its MSG_STATE.
LEMMA HandledKeeps ==
    ASSUME IInv, busy["main"].id \in {"WK_CLOCK", "SI_DESTROYCHANNEL", "STATE"},
           busy["main"].id = "STATE" => ses \notin Ended
    PROVE  Inv(sys, Handled, ses, owner, app)
  <1>1. Bare(sys, Handled, app) /\ Handled["main"] = NoMsg BY HandledBare
  <1>2. /\ Staged(sys, busy, ses, owner, app) /\ (Careful => Ordered(sys, busy, ses))
        /\ ses \in {"INIT", "DEINIT"} \cup Live \cup Ended /\ owner \in BOOLEAN
    BY InvBare DEF IInv
  <1>3. ses # "INIT"
    <2>1. busy["main"] # NoMsg BY DEF NoMsg
    <2> QED BY <1>2, <2>1 DEF Staged, Two
  <1>4. Staged(sys, Handled, ses, owner, app) BY <1>2, <1>3 DEF Staged
  <1>5. Careful => Ordered(sys, Handled, ses)
    BY <1>1, <1>2 DEF Ordered, NoMsg
  <1> QED BY <1>1, <1>2, <1>4, <1>5, BareInv

LEMMA OnStateKeeps == ASSUME IInv, OnState PROVE IInv'
  <1>0. busy["main"].id = "STATE" /\ app' = app BY DEF OnState, Handle
  <1>1. CASE ses \in {"SENTACCEPT", "RECEIVEDACCEPT"}
             /\ SetState(sys, "INPROGRESS") /\ UNCHANGED owner
    BY <1>0, <1>1, PlainStateKeeps DEF Live
  <1>2. CASE ses \in {"SENTREJECT", "RECEIVEDREJECT"}
             /\ SetState(sys, "SENTTERMINATE") /\ UNCHANGED owner
    BY <1>0, <1>2, EndedStateKeeps DEF Live, Ended
  <1>3. CASE ses \in Ended /\ DestroySession(sys) /\ busy' = Turn(NoMsg)
    <2>1. Bare(sys, Handled, app) /\ Handled["main"] = NoMsg BY <1>0, HandledBare
    <2>2. /\ busy' = Handled /\ ses' = "DEINIT" /\ owner' = FALSE
          /\ sys' = IF sys.ch.channel THEN OnChannelDestroyed(Clear(sys, "main", "STATE"))
                    ELSE Clear(sys, "main", "STATE")
      BY <1>3 DEF DestroySession, Turn, Handled
    <2>3. Handled["main"].id \notin {"WK_CLOCK", "SI_DESTROYCHANNEL"} BY <2>1 DEF NoMsg
    <2>4. Inv(sys', Handled, "DEINIT", FALSE, app) BY <2>1, <2>2, <2>3, DestroyKeeps
    <2> QED BY <1>0, <2>2, <2>4 DEF IInv
  <1>4. CASE ses \in {"SENTINITIATE", "RECEIVEDINITIATE", "INPROGRESS"}
             /\ busy' = Turn(NoMsg) /\ UNCHANGED <<sys, ses, owner>>
    <2>1. Inv(sys, Handled, ses, owner, app) BY <1>0, <1>4, HandledKeeps DEF Ended
    <2> QED BY <1>0, <1>4, <2>1 DEF IInv, Turn, Handled
  <1> QED BY <1>1, <1>2, <1>3, <1>4 DEF OnState

LEMMA OnDestroyChannelKeeps == ASSUME IInv, OnDestroyChannel PROVE IInv'
  <1> DEFINE r == OnChannelDestroyed(sys)
  <1>0. busy["main"].id = "SI_DESTROYCHANNEL" /\ app' = app /\ owner' = owner
    BY DEF OnDestroyChannel, Handle
  <1>1. /\ Bare(sys, busy, app) /\ Staged(sys, busy, ses, owner, app)
        /\ Careful => Ordered(sys, busy, ses)
        /\ ses \in {"INIT", "DEINIT"} \cup Live \cup Ended /\ owner \in BOOLEAN
    BY InvBare DEF IInv
  <1>2. sys.ch.channel /\ sys.ch.session
    <2>1. Count(sys.queue["main"], "SI_DESTROYCHANNEL") \in Nat
      BY <1>1, CountType DEF Bare, SysRec, Two
    <2>2. Due(sys, busy, "SI_DESTROYCHANNEL") > 0 BY <1>0, <2>1 DEF Due, One
    <2> QED BY <1>1, <2>2 DEF Bare, Wired
  <1>3. owner = TRUE /\ ses \in Live \cup Ended BY <1>1, <1>2 DEF Staged
  <1>4. CASE ses \notin Ended
    <2> DEFINE c == Signalled
    <2>1. /\ ses' = "SENTTERMINATE" /\ sys' = OnSessionTerminate(r) /\ busy' = c
      BY <1>3, <1>4 DEF OnDestroyChannel, SetState, OnSessionState, Turn, Signalled, Ended
    <2>2. Bare(sys, c, app) /\ c["main"] = Msg("POST_STATE")
          /\ Due(sys, c, "SI_DESTROY") \in Nat /\ Due(sys, busy, "SI_DESTROY") \in Nat
          /\ Due(sys, c, "SI_DESTROY") <= Due(sys, busy, "SI_DESTROY")
      BY <1>0, SignalledBare DEF Ids
    <2> HIDE DEF c
    <2>3. c["main"].id \notin {"WK_CLOCK", "SI_DESTROYCHANNEL"} BY <2>2 DEF Msg
    <2>4. /\ Bare(r, c, app) /\ r.ch.alive = sys.ch.alive
          /\ Due(r, c, "SI_DESTROY") = Due(sys, c, "SI_DESTROY")
      BY <1>2, <2>2, <2>3, ChannelDestroyedBare
    <2> HIDE DEF r
    <2>5. Careful => sys.ch.alive /\ Due(sys, busy, "SI_DESTROY") = 0
      BY <1>1, <1>2 DEF Bare, Lasting
    <2>6. Careful => r.ch.alive /\ Due(r, c, "SI_DESTROY") = 0 BY <2>2, <2>4, <2>5
    <2>7. Inv(OnSessionTerminate(r), c, "SENTTERMINATE", TRUE, app)
      BY <2>2, <2>4, <2>6, EndKeeps DEF Ended
    <2> QED BY <1>0, <1>3, <2>1, <2>7 DEF IInv
  <1>5. CASE ses \in Ended
    <2> DEFINE c == Handled
    <2>1. ses' = ses /\ sys' = r /\ busy' = c
      BY <1>5 DEF OnDestroyChannel, Turn, Handled
    <2>2. Bare(sys, c, app) /\ c["main"] = NoMsg BY <1>0, HandledBare
    <2> HIDE DEF c
    <2>3. c["main"].id = "NONE" BY <2>2 DEF NoMsg
    <2>4. /\ Bare(r, c, app) /\ r.ch.alive = sys.ch.alive /\ ~r.ch.channel
          /\ r.ch.stream_thread = sys.ch.stream_thread
          /\ Ahead(sys.queue["main"]) => Ahead(r.queue["main"])
      BY <1>2, <2>2, <2>3, ChannelDestroyedBare
    <2> HIDE DEF r
    <2>5. Staged(r, c, ses, owner, app) BY <1>1, <1>3, <1>5, <2>4 DEF Staged, Ended, Live
    <2>6. Careful => Ordered(r, c, ses) BY <1>0, <1>1, <2>3, <2>4 DEF Ordered
    <2>7. Inv(r, c, ses, owner, app) BY <1>1, <2>4, <2>5, <2>6, BareInv
    <2> QED BY <1>0, <2>1, <2>7 DEF IInv
  <1> QED BY <1>4, <1>5

\* The connection moves on.
LEMMA TalkKeeps ==
    ASSUME NEW s, NEW r, NEW b, NEW st, NEW ow, NEW ap,
           Inv(s, b, st, ow, ap), Talk(s, r)
    PROVE  Inv(r, b, st, ow, ap)
  <1>1. Frame(s, b, st, ow, ap) /\ b \in Busy /\ ap \in AppRec
    BY DEF Inv, Frame, Typed, Busy
  <1>2. Frame(r, b, st, ow, ap) BY <1>1, QuietFrame DEF Talk
  <1>3. Closing(r, b, ap) /\ Hearing(r, b, ap) BY <1>1 DEF Inv, Talk
  <1> QED BY <1>2, <1>3 DEF Inv

LEMMA OnClockKeeps == ASSUME IInv, OnClock PROVE IInv'
  <1>0. /\ busy["main"].id = "WK_CLOCK" /\ app' = app /\ owner' = owner /\ ses' = ses
        /\ busy' = Handled
    BY DEF OnClock, Handle, Turn, Handled
  <1>1. Inv(sys, Handled, ses, owner, app) BY <1>0, HandledKeeps
  <1>2. Bare(sys, busy, app) BY InvBare DEF IInv
  <1>3. CASE sys.ch.tcp = NoTcp
    <2>1. sys' = sys BY <1>3 DEF OnClock
    <2> QED BY <1>0, <1>1, <2>1 DEF IInv
  <1>4. CASE sys.ch.tcp # NoTcp
    <2>1. PICK acks \in BOOLEAN : sys' = AdjustClock(NotifyClock(sys, acks), FALSE)
      BY <1>4 DEF OnClock
    <2> DEFINE r == NotifyClock(sys, acks)
    <2>2. sys \in SysRec /\ sys.ch.tcp \in LiveTcp /\ sys.ch.session
      BY <1>2, <1>4 DEF Bare, Wired, SysRec, ChannelRec
    <2>3. LiveTalk(sys, r) BY <2>2, ClockTalks
    <2> HIDE DEF r
    <2>4. Inv(r, Handled, ses, owner, app) /\ r.ch.tcp \in LiveTcp
      BY <1>1, <2>3, TalkKeeps DEF LiveTalk
    <2>5. /\ r.clocks = sys.clocks /\ r.ch.stream = sys.ch.stream
          /\ Due(r, Handled, "WK_CLOCK") = Due(sys, Handled, "WK_CLOCK")
      BY <2>3 DEF LiveTalk, Talk, Quietly, SameParts, Due, Two, Ids
    <2>6. /\ Due(sys, busy, "WK_CLOCK") = Due(sys, Handled, "WK_CLOCK") + 1
          /\ Due(sys, Handled, "WK_CLOCK") \in Nat
      BY <1>0, HandledBare DEF Ids, One
    <2>7. sys.clocks + Due(sys, busy, "WK_CLOCK") <= IF sys.ch.stream THEN 1 ELSE 2
      BY <1>2 DEF Bare, Wired
    <2>8. sys.clocks \in Nat BY <2>2 DEF SysRec
    <2>9. r.clocks + Due(r, Handled, "WK_CLOCK") <= IF r.ch.stream THEN 0 ELSE 1
      <3>1. CASE sys.ch.stream BY <2>5, <2>6, <2>7, <2>8, <3>1
      <3>2. CASE ~sys.ch.stream BY <2>5, <2>6, <2>7, <2>8, <3>2
      <3> QED BY <3>1, <3>2
    <2>10. Inv(AdjustClock(r, FALSE), Handled, ses, owner, app)
      BY <2>4, <2>9, AdjustKeeps
    <2> QED BY <1>0, <2>1, <2>10 DEF IInv, r
  <1> QED BY <1>3, <1>4

LEMMA ClockDueKeeps == ASSUME IInv, ClockDue PROVE IInv'
  <1> DEFINE n == sys.clocks - 1
             g == [sys EXCEPT !.clocks = n]
             m == Msg("WK_CLOCK")
             r == Post(g, "main", m)
  <1>0. sys.clocks > 0 /\ sys' = r /\ ses' = ses /\ owner' = owner /\ busy' = busy /\ app' = app
    BY DEF ClockDue
  <1>1. Bare(sys, busy, app) BY InvBare DEF IInv
  <1>2. sys \in SysRec /\ sys.clocks \in Nat /\ sys.queue["main"] \in Seq(Message)
    BY <1>1 DEF Bare, SysRec, Two
  <1>3. n \in Nat /\ n + 1 = sys.clocks BY <1>0, <1>2
  <1> HIDE DEF n
  <1>4. g \in SysRec /\ g.clocks = n /\ g.queue = sys.queue /\ g.ch = sys.ch
    BY <1>2, <1>3 DEF SysRec
  <1> HIDE DEF g
  <1>5. m \in Message /\ m.id = "WK_CLOCK" /\ m.events = {} BY IdMessage DEF Ids
  <1> HIDE DEF m
  <1>6. Posted(g, r, "main", m) BY <1>4, <1>5, PostEffect DEF Two
  <1> HIDE DEF r
  <1>7. /\ r \in SysRec /\ r.clocks = n /\ r.ch = sys.ch
        /\ r.queue["stream"] = sys.queue["stream"]
        /\ Grown(sys.queue["main"], r.queue["main"], m)
    BY <1>4, <1>6 DEF Posted, Two
  <1>8. \A id : Count(sys.queue["main"], id) \in Nat BY <1>2, CountType
  <1>9. \A e : Tells(sys.queue["main"], e) \in Nat BY <1>2, CountType
  <1>10. \A id : id # "WK_CLOCK" =>
            Count(r.queue["main"], id) = Count(sys.queue["main"], id)
    BY <1>5, <1>7, <1>8 DEF Grown, One
  <1>11. \A e : Tells(r.queue["main"], e) = Tells(sys.queue["main"], e)
    BY <1>5, <1>7, <1>9 DEF Grown, One
  <1>12. Reclocked(sys, r)
    BY <1>7, <1>10, <1>11 DEF Reclocked, Two, Grown
  <1>13. Due(r, busy, "WK_CLOCK") = Due(sys, busy, "WK_CLOCK") + 1
    <2>1. Count(r.queue["main"], "WK_CLOCK") = Count(sys.queue["main"], "WK_CLOCK") + 1
      BY <1>5, <1>7, <1>8 DEF Grown, One
    <2> QED BY <1>8, <2>1 DEF Due, One
  <1>14. Due(sys, busy, "WK_CLOCK") \in Nat BY <1>2, DueType
  <1>15. /\ sys.clocks + Due(sys, busy, "WK_CLOCK") <= IF sys.ch.stream THEN 1 ELSE 2
         /\ sys.ch.channel
    BY <1>0, <1>1, <1>2, <1>14 DEF Bare, Wired
  <1>16. r.clocks + Due(r, busy, "WK_CLOCK") <= IF sys.ch.stream THEN 1 ELSE 2
    <2>1. r.clocks + Due(r, busy, "WK_CLOCK") = sys.clocks + Due(sys, busy, "WK_CLOCK")
      BY <1>2, <1>3, <1>7, <1>13, <1>14
    <2> QED BY <1>15, <2>1
  <1>17. Inv(r, busy, ses, owner, app) BY <1>12, <1>15, <1>16, ReclockedKeeps DEF IInv
  <1> QED BY <1>0, <1>17 DEF IInv

LEMMA PostStateKeeps == ASSUME IInv, PostState PROVE IInv'
  <1> DEFINE m == Msg("STATE")
             r == Post(sys, "main", m)
  <1>0. /\ busy["main"].id = "POST_STATE" /\ sys' = r /\ busy' = Handled
        /\ ses' = ses /\ owner' = owner /\ app' = app
    BY DEF PostState, Handle, Turn, Handled
  <1>1. /\ Bare(sys, busy, app) /\ Staged(sys, busy, ses, owner, app)
        /\ Careful => Ordered(sys, busy, ses)
        /\ ses \in {"INIT", "DEINIT"} \cup Live \cup Ended /\ owner \in BOOLEAN
    BY InvBare DEF IInv
  <1>2. Bare(sys, Handled, app) /\ Handled["main"] = NoMsg BY <1>0, HandledBare
  <1>3. Bare(r, Handled, app) /\ Posted(sys, r, "main", m) BY <1>2, StatePostedBare
  <1>4. m.id = "STATE" BY DEF Msg
  <1> HIDE DEF r, m
  <1>5. r.ch = sys.ch /\ Grown(sys.queue["main"], r.queue["main"], m) BY <1>3 DEF Posted
  <1>6. ses # "INIT"
    <2>1. busy["main"] # NoMsg BY <1>0 DEF NoMsg
    <2> QED BY <1>1, <2>1 DEF Staged, Two
  <1>7. Staged(r, Handled, ses, owner, app) BY <1>1, <1>5, <1>6 DEF Staged
  <1>8. Careful => Ordered(r, Handled, ses)
    <2> SUFFICES ASSUME Careful, sys.ch.stream_thread = "main", ses \in Ended
                 PROVE  sys.ch.alive /\ Ahead(r.queue["main"])
      BY <1>2, <1>5 DEF Ordered, NoMsg
    <2>1. sys.ch.alive /\ (Due(sys, busy, "SI_DESTROY") = 0 \/ Ahead(sys.queue["main"]))
      BY <1>0, <1>1 DEF Ordered
    <2>2. Count(sys.queue["main"], "SI_DESTROY") \in Nat
      BY <1>1, CountType DEF Bare, SysRec, Two
    <2>3. Due(sys, busy, "SI_DESTROY") = 0 => Count(sys.queue["main"], "SI_DESTROY") = 0
      BY <2>2 DEF Due, One
    <2> QED BY <1>4, <1>5, <2>1, <2>3 DEF Grown
  <1>9. Inv(r, Handled, ses, owner, app) BY <1>1, <1>3, <1>7, <1>8, BareInv
  <1> QED BY <1>0, <1>9 DEF IInv

\* CheckDestroy: MSG_SI_DESTROY is posted when neither worker nor stream is left.
LEMMA CheckKeeps ==
    ASSUME NEW s, NEW b, NEW st, NEW ow, NEW ap, Inv(s, b, st, ow, ap), st # "INIT",
           Careful /\ ~s.ch.worker /\ ~s.ch.stream =>
               /\ ~s.ch.session /\ s.ch.alive /\ Due(s, b, "SI_DESTROY") = 0
               /\ s.ch.stream_thread = "main" /\ st \in Ended =>
                     b["main"].id = "STATE" \/ Ahead(s.queue["main"])
    PROVE  Inv(CheckDestroy(s), b, st, ow, ap)
  <1>1. CASE s.ch.worker \/ s.ch.stream BY <1>1 DEF CheckDestroy
  <1>2. CASE ~s.ch.worker /\ ~s.ch.stream
    <2> DEFINE m == Msg("SI_DESTROY")
               r == Post(s, "main", m)
    <2>1. CheckDestroy(s) = r BY <1>2 DEF CheckDestroy
    <2>2. /\ Bare(s, b, ap) /\ Staged(s, b, st, ow, ap) /\ (Careful => Ordered(s, b, st))
          /\ st \in {"INIT", "DEINIT"} \cup Live \cup Ended /\ ow \in BOOLEAN
      BY InvBare
    <2>3. s \in SysRec /\ s.queue["main"] \in Seq(Message) BY <2>2 DEF Bare, SysRec, Two
    <2>4. m \in Message /\ m.id = "SI_DESTROY" /\ m.events = {} BY IdMessage DEF Ids
    <2> HIDE DEF m
    <2>5. Posted(s, r, "main", m) BY <2>3, <2>4, PostEffect DEF Two
    <2> HIDE DEF r
    <2>6. /\ r \in SysRec /\ r.clocks = s.clocks /\ r.ch = s.ch
          /\ r.queue["stream"] = s.queue["stream"]
          /\ Grown(s.queue["main"], r.queue["main"], m)
      BY <2>5 DEF Posted, Two
    <2>7. \A id : Count(s.queue["main"], id) \in Nat BY <2>3, CountType
    <2>8. \A id : id # "SI_DESTROY" => Count(r.queue["main"], id) = Count(s.queue["main"], id)
      BY <2>4, <2>6, <2>7 DEF Grown, One
    <2>9. \A id : id # "SI_DESTROY" => Due(r, b, id) = Due(s, b, id) BY <2>8 DEF Due
    <2>10. Due(r, b, "SI_DESTROY") = Due(s, b, "SI_DESTROY") + 1
      <3>1. Count(r.queue["main"], "SI_DESTROY") = Count(s.queue["main"], "SI_DESTROY") + 1
        BY <2>4, <2>6, <2>7 DEF Grown, One
      <3> QED BY <2>7, <3>1 DEF Due, One
    <2>11. Wired(r, b) BY <2>2, <2>6, <2>9 DEF Bare, Wired
    <2>12. Eventful(r, b) BY <2>2, <2>6, <2>8 DEF Bare, Eventful, Two
    <2>13. Closing(r, b, ap) /\ Hearing(r, b, ap) BY <1>2, <2>6 DEF Closing, Hearing
    <2>14. Careful => Lasting(r, b)
      BY <1>2, <2>2, <2>6, <2>10 DEF Bare, Lasting, One
    <2>15. Careful => Ordered(r, b, st)
      BY <1>2, <2>2, <2>6 DEF Ordered, Grown
    <2>16. Staged(r, b, st, ow, ap) BY <2>2, <2>6 DEF Staged
    <2>17. Bare(r, b, ap) BY <2>2, <2>6, <2>11, <2>12, <2>13, <2>14 DEF Bare
    <2>18. Inv(r, b, st, ow, ap) BY <2>2, <2>15, <2>16, <2>17, BareInv
    <2> QED BY <2>1, <2>18
  <1> QED BY <1>1, <1>2

LEMMA OnPurgeKeeps == ASSUME IInv, OnPurge PROVE IInv'
  <1> DEFINE w == [sys EXCEPT !.ch.worker = FALSE]
             c == Handled
  <1>0. /\ busy["main"].id = "WK_PURGE" /\ sys' = CheckDestroy(w) /\ busy' = c
        /\ ses' = ses /\ owner' = owner /\ app' = app
    BY DEF OnPurge, Handle, Turn, Handled
  <1>1. /\ Bare(sys, busy, app) /\ Staged(sys, busy, ses, owner, app)
        /\ Careful => Ordered(sys, busy, ses)
        /\ ses \in {"INIT", "DEINIT"} \cup Live \cup Ended /\ owner \in BOOLEAN
    BY InvBare DEF IInv
  <1>2. sys \in SysRec /\ busy \in Busy /\ sys.queue["main"] \in Seq(Message)
    BY <1>1 DEF Bare, SysRec, Two
  <1>3. \A id : Count(sys.queue["main"], id) \in Nat BY <1>2, CountType
  <1>4. /\ w \in SysRec /\ w.clocks = sys.clocks /\ w.queue = sys.queue
        /\ w.ch.session = sys.ch.session /\ w.ch.channel = sys.ch.channel /\ ~w.ch.worker
        /\ w.ch.stream = sys.ch.stream /\ w.ch.alive = sys.ch.alive
        /\ w.ch.stream_thread = sys.ch.stream_thread /\ w.ch.tcp = sys.ch.tcp
        /\ w.ch.pending = sys.ch.pending /\ w.ch.misused = sys.ch.misused
    BY <1>2 DEF SysRec, ChannelRec
  <1> HIDE DEF w
  <1>5. c \in Busy /\ c["main"] = NoMsg /\ c["stream"] = busy["stream"]
    BY <1>2 DEF Handled, Busy, Two
  <1> HIDE DEF c
  <1>6. Due(sys, busy, "WK_PURGE") > 0 BY <1>0, <1>3 DEF Due, One
  <1>7. ~sys.ch.session /\ sys.ch.worker /\ ~sys.ch.channel /\ sys.ch.tcp = NoTcp
        /\ Due(sys, busy, "WK_PURGE") = 1
    BY <1>1, <1>6 DEF Bare, Wired, One
  <1>8. \A id \in Ids : id # "WK_PURGE" => Due(w, c, id) = Due(sys, busy, id)
    BY <1>0, <1>3, <1>4, <1>5 DEF Due, One, NoMsg, Ids
  <1>9. Due(w, c, "WK_PURGE") = 0
    <2>1. Count(sys.queue["main"], "WK_PURGE") = 0 BY <1>0, <1>3, <1>7 DEF Due, One
    <2> QED BY <1>4, <1>5, <2>1 DEF Due, One, NoMsg
  <1>10. Wired(w, c) BY <1>1, <1>4, <1>7, <1>8, <1>9 DEF Bare, Wired, Ids, One
  <1>11. Eventful(w, c) BY <1>1, <1>4, <1>5 DEF Bare, Eventful, Two, NoMsg
  <1>12. \A e : Heard(w, c, e) = Heard(sys, busy, e)
    <2> TAKE e
    <2>1. e \notin busy["main"].events /\ e \notin c["main"].events
      BY <1>0, <1>2, <1>5 DEF Busy, Two, Message, NoMsg, Msg
    <2>2. sys.ch.stream_thread \in Two BY <1>2 DEF SysRec, ChannelRec
    <2> QED BY <1>4, <1>5, <2>1, <2>2 DEF Heard, One, Two
  <1>13. Closing(w, c, app) /\ Hearing(w, c, app)
    BY <1>1, <1>4, <1>12 DEF Bare, Closing, Hearing
  <1>14. Careful => Lasting(w, c) BY <1>1, <1>4, <1>8 DEF Bare, Lasting, Ids
  <1>15. Bare(w, c, app)
    BY <1>1, <1>4, <1>5, <1>10, <1>11, <1>13, <1>14 DEF Bare
  <1>16. ses # "INIT"
    <2>1. busy["main"] # NoMsg BY <1>0 DEF NoMsg
    <2> QED BY <1>1, <2>1 DEF Staged, Two
  <1>17. Staged(w, c, ses, owner, app) BY <1>1, <1>4, <1>16 DEF Staged
  <1>18. Careful => /\ Ordered(w, c, ses)
                    /\ sys.ch.stream_thread = "main" /\ ses \in Ended
                         => Ahead(sys.queue["main"])
    BY <1>0, <1>1, <1>4, <1>5 DEF Ordered, NoMsg
  <1>19. Inv(w, c, ses, owner, app) BY <1>1, <1>15, <1>17, <1>18, BareInv
  <1>20. Careful => w.ch.alive /\ Due(w, c, "SI_DESTROY") = 0
    BY <1>1, <1>4, <1>7, <1>8 DEF Bare, Lasting, Ids
  <1>21. Inv(CheckDestroy(w), c, ses, owner, app)
    BY <1>4, <1>7, <1>16, <1>18, <1>19, <1>20, CheckKeeps
  <1> QED BY <1>0, <1>21 DEF IInv

LEMMA OnDestroyKeeps == ASSUME IInv, OnDestroy PROVE IInv'
  <1> DEFINE w == [sys EXCEPT !.ch.alive = FALSE]
             c == Handled
  <1>0. /\ busy["main"].id = "SI_DESTROY" /\ sys' = w /\ busy' = c
        /\ ses' = ses /\ owner' = owner /\ app' = app
    BY DEF OnDestroy, Handle, Turn, Handled
  <1>1. /\ Bare(sys, busy, app) /\ Staged(sys, busy, ses, owner, app)
        /\ Careful => Ordered(sys, busy, ses)
        /\ ses \in {"INIT", "DEINIT"} \cup Live \cup Ended /\ owner \in BOOLEAN
    BY InvBare DEF IInv
  <1>2. sys \in SysRec /\ busy \in Busy /\ sys.queue["main"] \in Seq(Message)
    BY <1>1 DEF Bare, SysRec, Two
  <1>3. \A id : Count(sys.queue["main"], id) \in Nat BY <1>2, CountType
  <1>4. /\ w \in SysRec /\ w.clocks = sys.clocks /\ w.queue = sys.queue
        /\ w.ch.session = sys.ch.session /\ w.ch.channel = sys.ch.channel
        /\ w.ch.worker = sys.ch.worker /\ w.ch.stream = sys.ch.stream /\ ~w.ch.alive
        /\ w.ch.stream_thread = sys.ch.stream_thread /\ w.ch.tcp = sys.ch.tcp
        /\ w.ch.pending = sys.ch.pending /\ w.ch.misused = sys.ch.misused
    BY <1>2 DEF SysRec, ChannelRec
  <1> HIDE DEF w
  <1>5. c \in Busy /\ c["main"] = NoMsg /\ c["stream"] = busy["stream"]
    BY <1>2 DEF Handled, Busy, Two
  <1> HIDE DEF c
  <1>6. Due(sys, busy, "SI_DESTROY") = Due(w, c, "SI_DESTROY") + 1
        /\ Due(w, c, "SI_DESTROY") \in Nat
    BY <1>0, <1>3, <1>4, <1>5 DEF Due, One, NoMsg
  <1>8. \A id \in Ids : id # "SI_DESTROY" => Due(w, c, id) = Due(sys, busy, id)
    BY <1>0, <1>3, <1>4, <1>5 DEF Due, One, NoMsg, Ids
  <1>10. Wired(w, c) BY <1>1, <1>4, <1>8 DEF Bare, Wired, Ids
  <1>11. Eventful(w, c) BY <1>1, <1>4, <1>5 DEF Bare, Eventful, Two, NoMsg
  <1>12. \A e : Heard(w, c, e) = Heard(sys, busy, e)
    <2> TAKE e
    <2>1. e \notin busy["main"].events /\ e \notin c["main"].events
      BY <1>0, <1>2, <1>5 DEF Busy, Two, Message, NoMsg, Msg
    <2>2. sys.ch.stream_thread \in Two BY <1>2 DEF SysRec, ChannelRec
    <2> QED BY <1>4, <1>5, <2>1, <2>2 DEF Heard, One, Two
  <1>13. Closing(w, c, app) /\ Hearing(w, c, app)
    BY <1>1, <1>4, <1>12 DEF Bare, Closing, Hearing
  <1>14. Careful => Lasting(w, c) BY <1>1, <1>4, <1>6 DEF Bare, Lasting, One
  <1>15. Bare(w, c, app)
    BY <1>1, <1>4, <1>5, <1>10, <1>11, <1>13, <1>14 DEF Bare
  <1>16. ses # "INIT"
    <2>1. busy["main"] # NoMsg BY <1>0 DEF NoMsg
    <2> QED BY <1>1, <2>1 DEF Staged, Two
  <1>17. Staged(w, c, ses, owner, app) BY <1>1, <1>4, <1>16 DEF Staged
  <1>18. Careful => Ordered(w, c, ses) BY <1>0, <1>1, <1>4 DEF Ordered
  <1>19. Inv(w, c, ses, owner, app) BY <1>1, <1>15, <1>17, <1>18, BareInv
  <1> QED BY <1>0, <1>19 DEF IInv

-----------------------------------------------------------------------------
(* The stream                                                              *)

LEMMA StreamThread ==
    ASSUME IInv PROVE sys.ch.stream_thread \in Two /\ sys \in SysRec /\ busy \in Busy
  BY InvBare DEF IInv, Bare, SysRec, ChannelRec

\* InternalStream::Close takes the stream away and clears its events.
LEMMA StreamOffKeeps ==
    ASSUME IInv, UseStream, NEW ap \in AppRec, ap.closes = app.closes
    PROVE  LET off == Clear([sys EXCEPT !.ch.stream = FALSE],
                            sys.ch.stream_thread, "ST_EVENT")
           IN /\ Inv(off, busy, ses, owner, ap)
              /\ ~off.ch.stream /\ off.ch.tcp = sys.ch.tcp /\ ses # "INIT"
              /\ off.ch.session = sys.ch.session /\ off.ch.channel = sys.ch.channel
              /\ Careful => /\ off.ch.alive /\ Due(off, busy, "SI_DESTROY") = 0
                            /\ off.ch.stream_thread = "main" /\ ses \in Ended =>
                                  Ahead(off.queue["main"])
  <1> DEFINE t == sys.ch.stream_thread
             p == [sys EXCEPT !.ch.stream = FALSE]
             off == Clear(p, t, "ST_EVENT")
  <1>0. sys.ch.stream /\ busy[t] = NoMsg BY DEF UseStream, Idle
  <1>1. /\ Bare(sys, busy, app) /\ Staged(sys, busy, ses, owner, app)
        /\ Careful => Ordered(sys, busy, ses)
        /\ ses \in {"INIT", "DEINIT"} \cup Live \cup Ended /\ owner \in BOOLEAN
    BY InvBare DEF IInv
  <1>2. t \in Two /\ sys \in SysRec /\ busy \in Busy BY StreamThread
  <1>3. /\ p \in SysRec /\ p.clocks = sys.clocks /\ p.queue = sys.queue
        /\ p.ch.session = sys.ch.session /\ p.ch.channel = sys.ch.channel
        /\ p.ch.worker = sys.ch.worker /\ ~p.ch.stream /\ p.ch.alive = sys.ch.alive
        /\ p.ch.stream_thread = t /\ p.ch.tcp = sys.ch.tcp
        /\ p.ch.pending = sys.ch.pending /\ p.ch.misused = sys.ch.misused
    BY <1>2 DEF SysRec, ChannelRec
  <1> HIDE DEF p
  <1>4. Wiped(p, off, t, "ST_EVENT") BY <1>2, <1>3, ClearEffect
  <1> HIDE DEF off
  <1>5. /\ off \in SysRec /\ off.clocks = sys.clocks /\ off.ch = p.ch
        /\ Cleared(sys.queue[t], off.queue[t], "ST_EVENT")
        /\ \A u \in Two : u # t => off.queue[u] = sys.queue[u]
    BY <1>3, <1>4 DEF Wiped
  <1>6. /\ \A u \in Two : \A id : id # "ST_EVENT" =>
              Count(off.queue[u], id) = Count(sys.queue[u], id)
        /\ Count(off.queue[t], "ST_EVENT") = 0
        /\ Ahead(sys.queue["main"]) => Ahead(off.queue["main"])
    <2>1. Ahead(sys.queue["main"]) => Ahead(off.queue["main"])
      BY <1>2, <1>5 DEF Cleared, Two
    <2>2. ASSUME NEW u \in Two, NEW id, id # "ST_EVENT"
          PROVE  Count(off.queue[u], id) = Count(sys.queue[u], id)
      BY <1>5, <2>2 DEF Cleared
    <2>3. Count(off.queue[t], "ST_EVENT") = 0 BY <1>5 DEF Cleared
    <2> QED BY <2>1, <2>2, <2>3
  <1>7. \A id : id # "ST_EVENT" => Due(off, busy, id) = Due(sys, busy, id)
    BY <1>6 DEF Due, Two
  <1>8. off.queue["stream"] \in Seq(Events) BY <1>1, <1>5 DEF Bare, Cleared, Two
  <1>9. Wired(off, busy)
    <2>1. sys.clocks + Due(sys, busy, "WK_CLOCK") <= 1 BY <1>0, <1>1 DEF Bare, Wired
    <2>2. sys.clocks \in Nat /\ Due(sys, busy, "WK_CLOCK") \in Nat
      BY <1>2, DueType DEF SysRec
    <2> QED BY <1>1, <1>3, <1>5, <1>7, <2>1, <2>2 DEF Bare, Wired
  <1>10. Eventful(off, busy)
    <2> SUFFICES ASSUME NEW u \in Two
                 PROVE  Count(off.queue[u], "ST_EVENT") = 0 /\ busy[u].id # "ST_EVENT"
      BY DEF Eventful
    <2>1. CASE u = t BY <1>0, <1>6, <2>1 DEF NoMsg
    <2>2. CASE u # t BY <1>1, <1>5, <2>2 DEF Bare, Eventful
    <2> QED BY <2>1, <2>2
  <1>11. Closing(off, busy, ap) /\ Hearing(off, busy, ap)
    BY <1>3, <1>5 DEF Closing, Hearing
  <1>12. Careful => Lasting(off, busy) BY <1>1, <1>3, <1>5, <1>7 DEF Bare, Lasting
  <1>13. Bare(off, busy, ap)
    BY <1>1, <1>5, <1>8, <1>9, <1>10, <1>11, <1>12 DEF Bare
  <1>14. ses # "INIT" BY <1>0, <1>1 DEF Staged
  <1>15. Staged(off, busy, ses, owner, ap) BY <1>0, <1>1, <1>3, <1>5, <1>14 DEF Staged
  <1>16. Careful => Ordered(off, busy, ses)
    BY <1>1, <1>3, <1>5, <1>6, <1>7 DEF Ordered
  <1>17. Inv(off, busy, ses, owner, ap) BY <1>1, <1>13, <1>15, <1>16, BareInv
  <1>18. Careful => /\ off.ch.alive /\ Due(off, busy, "SI_DESTROY") = 0
                    /\ off.ch.stream_thread = "main" /\ ses \in Ended =>
                          Ahead(off.queue["main"])
    <2> SUFFICES ASSUME Careful
                 PROVE  /\ off.ch.alive /\ Due(off, busy, "SI_DESTROY") = 0
                        /\ off.ch.stream_thread = "main" /\ ses \in Ended =>
                              Ahead(off.queue["main"])
      OBVIOUS
    <2>1. off.ch.alive /\ Due(off, busy, "SI_DESTROY") = 0
      BY <1>0, <1>1, <1>3, <1>5, <1>7 DEF Bare, Lasting
    <2>2. ASSUME off.ch.stream_thread = "main", ses \in Ended PROVE Ahead(off.queue["main"])
      <3>1. t = "main" /\ busy["main"].id = "NONE" BY <1>0, <1>3, <1>5, <2>2 DEF NoMsg
      <3> QED BY <1>1, <1>6, <2>2, <3>1 DEF Ordered
    <2> QED BY <2>1, <2>2
  <1> QED BY <1>3, <1>5, <1>14, <1>17, <1>18 DEF off, p

LEMMA CloseKeeps == ASSUME IInv, Close PROVE IInv'
  <1> DEFINE off == Clear([sys EXCEPT !.ch.stream = FALSE],
                          sys.ch.stream_thread, "ST_EVENT")
             g == [off EXCEPT !.ch.tcp.shutdown = "GRACEFUL"]
  <1>0. /\ UseStream /\ (Early \/ sys.ch.channel \/ ~sys.ch.session)
        /\ ses' = ses /\ owner' = owner /\ busy' = busy
        /\ app' = [app EXCEPT !.closed = TRUE]
        /\ sys' = IF sys.ch.tcp # NoTcp THEN AdjustClock(g, TRUE) ELSE CheckDestroy(off)
    BY DEF Close, UseStream, CloseStream
  <1>1. app' \in AppRec /\ app'.closes = app.closes
    <2>1. app \in AppRec BY InvBare DEF IInv, Bare
    <2> QED BY <1>0, <2>1 DEF AppRec
  <1>2. /\ Inv(off, busy, ses, owner, app')
        /\ ~off.ch.stream /\ off.ch.tcp = sys.ch.tcp /\ ses # "INIT"
        /\ off.ch.session = sys.ch.session /\ off.ch.channel = sys.ch.channel
        /\ Careful => /\ off.ch.alive /\ Due(off, busy, "SI_DESTROY") = 0
                      /\ off.ch.stream_thread = "main" /\ ses \in Ended =>
                            Ahead(off.queue["main"])
    BY <1>0, <1>1, StreamOffKeeps
  <1> HIDE DEF off
  <1>3. Bare(off, busy, app') BY <1>2, InvBare
  <1>4. CASE sys.ch.tcp # NoTcp
    <2>1. off \in SysRec /\ off.ch.tcp \in LiveTcp
      BY <1>2, <1>3, <1>4 DEF Bare, SysRec, ChannelRec
    <2>2. /\ g \in SysRec /\ g.clocks = off.clocks /\ g.queue = off.queue
          /\ SameParts(off.ch, g.ch) /\ g.ch.pending = off.ch.pending
          /\ g.ch.tcp \in LiveTcp
      BY <2>1 DEF SysRec, ChannelRec, LiveTcp, SameParts
    <2> HIDE DEF g
    <2>3. /\ Staged(off, busy, ses, owner, app') /\ (Careful => Ordered(off, busy, ses))
          /\ ses \in {"INIT", "DEINIT"} \cup Live \cup Ended /\ owner \in BOOLEAN
      BY <1>2, InvBare
    <2>4. off.ch.tcp # NoTcp /\ ~g.ch.stream BY <1>2, <1>4, <2>2 DEF SameParts
    <2>5. \A id : Due(g, busy, id) = Due(off, busy, id) BY <2>2 DEF Due
    <2>6. Wired(g, busy) BY <1>3, <2>2, <2>4, <2>5 DEF Bare, Wired, SameParts
    <2>7. Eventful(g, busy) BY <1>3, <2>2 DEF Bare, Eventful, SameParts
    <2>8. Closing(g, busy, app') /\ Hearing(g, busy, app') BY <2>4 DEF Closing, Hearing
    <2>9. Careful => Lasting(g, busy) BY <1>3, <2>2, <2>5 DEF Bare, Lasting, SameParts
    <2>10. Bare(g, busy, app') BY <1>3, <2>2, <2>6, <2>7, <2>8, <2>9 DEF Bare
    <2>11. Staged(g, busy, ses, owner, app') BY <2>2, <2>3 DEF Staged, SameParts
    <2>12. Careful => Ordered(g, busy, ses) BY <2>2, <2>3, <2>5 DEF Ordered, SameParts
    <2>13. Inv(g, busy, ses, owner, app') BY <2>3, <2>10, <2>11, <2>12, BareInv
    <2>14. Inv(AdjustClock(g, TRUE), busy, ses, owner, app')
      BY <2>2, <2>4, <2>13, AdjustKeeps
    <2> QED BY <1>0, <1>4, <2>14 DEF IInv
  <1>5. CASE sys.ch.tcp = NoTcp
    <2>1. Careful /\ ~off.ch.worker => ~off.ch.session
      BY <1>0, <1>2, <1>3 DEF Careful, Bare, Wired
    <2>2. Inv(CheckDestroy(off), busy, ses, owner, app')
      BY <1>2, <2>1, CheckKeeps
    <2> QED BY <1>0, <1>5, <2>2 DEF IInv
  <1> QED BY <1>4, <1>5

-----------------------------------------------------------------------------
(* Taking a message, and the stream's events                               *)

LEMMA GetKeeps == ASSUME IInv, NEW t \in Two, Get(t) PROVE IInv'
  <1> DEFINE q == sys.queue[t]
             m == Head(q)
             r == [sys EXCEPT !.queue[t] = Tail(@)]
             c == [busy EXCEPT ![t] = m]
  <1>0. /\ busy[t] = NoMsg /\ q # <<>> /\ sys' = r /\ busy' = c
        /\ ses' = ses /\ owner' = owner /\ app' = app
    BY DEF Get, Idle
  <1>1. /\ Bare(sys, busy, app) /\ Staged(sys, busy, ses, owner, app)
        /\ Careful => Ordered(sys, busy, ses)
        /\ ses \in {"INIT", "DEINIT"} \cup Live \cup Ended /\ owner \in BOOLEAN
    BY InvBare DEF IInv
  <1>2. sys.ch.stream_thread \in Two /\ sys \in SysRec /\ busy \in Busy BY StreamThread
  <1>3. q \in Seq(Message) BY <1>2 DEF SysRec
  <1>4. Shrunk(q, Tail(q), m) BY <1>0, <1>3, TailShrinks
  <1>5. Tail(q) \in Seq(Message) /\ m \in Message BY <1>4 DEF Shrunk
  <1>6. /\ r \in SysRec /\ r.clocks = sys.clocks /\ r.ch = sys.ch
        /\ r.queue[t] = Tail(q) /\ \A u \in Two : u # t => r.queue[u] = sys.queue[u]
    BY <1>2, <1>5 DEF SysRec
  <1>7. c \in Busy /\ c[t] = m /\ \A u \in Two : u # t => c[u] = busy[u]
    BY <1>2, <1>5 DEF Busy
  <1>8. Shrunk(q, r.queue[t], m) BY <1>4, <1>6
  <1> HIDE DEF q, m, r, c
  <1>9. \A id : Count(r.queue[t], id) \in Nat BY <1>8, CountType DEF Shrunk
  <1>10. \A id \in Ids : Due(r, c, id) = Due(sys, busy, id)
    <2> TAKE id \in Ids
    <2>1. CASE t = "main"
      <3>1. Count(sys.queue["main"], id) = Count(r.queue["main"], id) + One(m.id = id)
        BY <1>8, <2>1 DEF Shrunk, q
      <3>2. One(busy["main"].id = id) = 0 BY <1>0, <2>1 DEF One, NoMsg, Ids
      <3>3. Count(r.queue["main"], id) \in Nat BY <1>9, <2>1
      <3> QED BY <1>7, <2>1, <3>1, <3>2, <3>3 DEF Due, One
    <2>2. CASE t # "main" BY <1>6, <1>7, <2>2 DEF Due, Two
    <2> QED BY <2>1, <2>2
  <1>11. \A e : Heard(r, c, e) = Heard(sys, busy, e)
    <2> TAKE e
    <2>1. CASE t = sys.ch.stream_thread
      <3>1. Tells(sys.queue[t], e) = Tells(r.queue[t], e) + One(e \in m.events)
        BY <1>8 DEF Shrunk, q
      <3>2. One(e \in busy[t].events) = 0 BY <1>0 DEF One, NoMsg
      <3>3. Tells(r.queue[t], e) \in Nat BY <1>8, CountType DEF Shrunk
      <3>4. /\ Heard(r, c, e) = Tells(r.queue[t], e) + One(e \in m.events)
            /\ Heard(sys, busy, e) = Tells(sys.queue[t], e) + One(e \in busy[t].events)
        BY <1>6, <1>7, <2>1 DEF Heard
      <3>5. One(e \in m.events) \in Nat BY DEF One
      <3> QED BY <3>1, <3>2, <3>3, <3>4, <3>5
    <2>2. CASE t # sys.ch.stream_thread BY <1>2, <1>6, <1>7, <2>2 DEF Heard
    <2> QED BY <2>1, <2>2
  <1>12. r.queue["stream"] \in Seq(Events) /\ c["stream"] \in Events \cup {NoMsg}
    <2>1. CASE t = "stream"
      <3>1. q \in Seq(Events) BY <1>1, <2>1 DEF Bare, q
      <3> QED BY <1>7, <1>8, <2>1, <3>1 DEF Shrunk
    <2>2. CASE t # "stream" BY <1>1, <1>6, <1>7, <2>2 DEF Bare, Two
    <2> QED BY <2>1, <2>2
  <1>13. Wired(r, c) BY <1>1, <1>6, <1>10 DEF Bare, Wired, Ids
  <1>14. Eventful(r, c)
    <2> SUFFICES ASSUME NEW u \in Two, ~sys.ch.stream \/ u # sys.ch.stream_thread
                 PROVE  Count(r.queue[u], "ST_EVENT") = 0 /\ c[u].id # "ST_EVENT"
      BY <1>6 DEF Eventful
    <2>1. Count(sys.queue[u], "ST_EVENT") = 0 /\ busy[u].id # "ST_EVENT"
      BY <1>1 DEF Bare, Eventful
    <2>2. CASE u = t
      <3>1. 0 = Count(r.queue[t], "ST_EVENT") + One(m.id = "ST_EVENT")
        BY <1>8, <2>1, <2>2 DEF Shrunk, q
      <3> QED BY <1>7, <1>9, <2>2, <3>1 DEF One
    <2>3. CASE u # t BY <1>6, <1>7, <2>1, <2>3
    <2> QED BY <2>2, <2>3
  <1>15. Closing(r, c, app) /\ Hearing(r, c, app)
    BY <1>1, <1>6, <1>11 DEF Bare, Closing, Hearing
  <1>16. Careful => Lasting(r, c) BY <1>1, <1>6, <1>10 DEF Bare, Lasting, Ids
  <1>17. Bare(r, c, app)
    BY <1>1, <1>6, <1>7, <1>12, <1>13, <1>14, <1>15, <1>16 DEF Bare
  <1>18. ses # "INIT" BY <1>0, <1>1 DEF Staged, q
  <1>19. Staged(r, c, ses, owner, app) BY <1>1, <1>6, <1>18 DEF Staged
  <1>20. Careful => Ordered(r, c, ses)
    <2>1. CASE t = "main"
      <3>1. busy["main"].id = "NONE" BY <1>0, <2>1 DEF NoMsg
      <3>2. Ahead(sys.queue["main"]) =>
              c["main"].id = "STATE" \/ (c["main"].id # "SI_DESTROY" /\ Ahead(r.queue["main"]))
        BY <1>7, <1>8, <2>1 DEF Shrunk, q
      <3> QED BY <1>1, <1>6, <3>1, <3>2 DEF Ordered
    <2>2. CASE t # "main"
      <3>1. c["main"] = busy["main"] /\ r.queue["main"] = sys.queue["main"]
        BY <1>6, <1>7, <2>2 DEF Two
      <3> QED BY <1>1, <1>6, <1>10, <3>1 DEF Ordered, Ids
    <2> QED BY <2>1, <2>2
  <1>21. Inv(r, c, ses, owner, app) BY <1>1, <1>17, <1>19, <1>20, BareInv
  <1> QED BY <1>0, <1>21 DEF IInv

LEMMA OnEventKeeps == ASSUME IInv, OnEvent PROVE IInv'
  <1> DEFINE t == sys.ch.stream_thread
             ev == busy[t].events
             r == IF "READ" \in ev THEN [sys EXCEPT !.ch.pending = FALSE] ELSE sys
             c == [busy EXCEPT ![t] = NoMsg]
             n == app.closes + (IF "CLOSE" \in ev THEN 1 ELSE 0)
             a == [app EXCEPT !.readTurn = @ \/ "READ" \in ev,
                              !.writeWait = @ /\ "WRITE" \notin ev, !.closes = n]
  <1>0. /\ busy[t].id = "ST_EVENT" /\ sys' = r /\ busy' = c /\ app' = a
        /\ ses' = ses /\ owner' = owner
    BY DEF OnEvent
  <1>1. /\ Bare(sys, busy, app) /\ Staged(sys, busy, ses, owner, app)
        /\ Careful => Ordered(sys, busy, ses)
        /\ ses \in {"INIT", "DEINIT"} \cup Live \cup Ended /\ owner \in BOOLEAN
    BY InvBare DEF IInv
  <1>2. t \in Two /\ sys \in SysRec /\ busy \in Busy BY StreamThread
  <1>3. app \in AppRec /\ app.closes \in Nat BY <1>1 DEF Bare, AppRec
  <1>4. n \in Nat /\ n = app.closes + One("CLOSE" \in ev) BY <1>3 DEF One
  <1> HIDE DEF n
  <1>5. /\ a \in AppRec /\ a.closes = n /\ a.readTurn = (app.readTurn \/ "READ" \in ev)
        /\ a.writeWait = (app.writeWait /\ "WRITE" \notin ev)
    BY <1>3, <1>4 DEF AppRec
  <1> HIDE DEF a
  <1>6. /\ r \in SysRec /\ r.clocks = sys.clocks /\ r.queue = sys.queue
        /\ SameParts(sys.ch, r.ch) /\ r.ch.tcp = sys.ch.tcp
        /\ r.ch.pending => sys.ch.pending /\ "READ" \notin ev
    <2> HIDE DEF ev
    <2>1. CASE "READ" \in ev BY <1>2, <2>1 DEF SysRec, ChannelRec, SameParts
    <2>2. CASE "READ" \notin ev BY <1>2, <2>2 DEF SameParts
    <2> QED BY <2>1, <2>2
  <1> HIDE DEF r
  <1>7. c \in Busy /\ c[t] = NoMsg /\ \A u \in Two : u # t => c[u] = busy[u]
    BY <1>2 DEF Busy
  <1> HIDE DEF c
  <1>8. sys.ch.stream BY <1>0, <1>1, <1>2 DEF Bare, Eventful
  <1>9. \A id \in Ids : id # "ST_EVENT" => Due(r, c, id) = Due(sys, busy, id)
    <2> TAKE id \in Ids
    <2> HAVE id # "ST_EVENT"
    <2>1. One(c["main"].id = id) = One(busy["main"].id = id)
      BY <1>0, <1>2, <1>7 DEF One, Two, NoMsg, Ids
    <2> QED BY <1>6, <2>1 DEF Due
  <1>10. \A e : Heard(sys, busy, e) = Heard(r, c, e) + One(e \in ev) /\ Heard(r, c, e) \in Nat
    <2> TAKE e
    <2>1. Tells(sys.queue[t], e) \in Nat BY <1>2, CountType DEF SysRec
    <2>2. Heard(r, c, e) = Tells(sys.queue[t], e)
      BY <1>6, <1>7, <2>1 DEF Heard, SameParts, One, NoMsg
    <2> QED BY <2>1, <2>2 DEF Heard
  <1> HIDE DEF ev
  <1>11. Wired(r, c) BY <1>1, <1>6, <1>9 DEF Bare, Wired, SameParts, Ids
  <1>12. Eventful(r, c) BY <1>1, <1>6, <1>7 DEF Bare, Eventful, SameParts, NoMsg
  <1>13. Closing(r, c, a)
    <2>1. Heard(sys, busy, "CLOSE") + app.closes = Heard(r, c, "CLOSE") + n
      BY <1>3, <1>4, <1>10 DEF One
    <2> QED BY <1>1, <1>5, <1>6, <1>8, <2>1 DEF Bare, Closing, SameParts
  <1>14. Hearing(r, c, a)
    <2>1. \A e : e \notin ev => Heard(r, c, e) = Heard(sys, busy, e) BY <1>10 DEF One
    <2> QED BY <1>1, <1>5, <1>6, <1>8, <2>1 DEF Bare, Hearing, SameParts
  <1>15. Careful => Lasting(r, c) BY <1>1, <1>6, <1>9 DEF Bare, Lasting, SameParts, Ids
  <1>16. c["stream"] \in Events \cup {NoMsg} BY <1>1, <1>7 DEF Bare, Two
  <1>17. Bare(r, c, a)
    BY <1>1, <1>5, <1>6, <1>7, <1>11, <1>12, <1>13, <1>14, <1>15, <1>16 DEF Bare
  <1>18. ses \notin {"INIT", "RECEIVEDINITIATE"} BY <1>1, <1>8 DEF Staged
  <1>19. Staged(r, c, ses, owner, a) BY <1>1, <1>6, <1>18 DEF Staged, SameParts
  <1>20. Careful => Ordered(r, c, ses)
    <2>1. CASE t = "main"
      BY <1>0, <1>1, <1>6, <1>7, <2>1 DEF Ordered, SameParts, NoMsg
    <2>2. CASE t # "main" BY <1>6, <2>2 DEF Ordered, SameParts
    <2> QED BY <2>1, <2>2
  <1>21. Inv(r, c, ses, owner, a) BY <1>1, <1>17, <1>19, <1>20, BareInv
  <1> QED BY <1>0, <1>21 DEF IInv

\* The connection of a stream that is used.
LEMMA UseStreamTcp ==
    ASSUME IInv, UseStream, sys.ch.tcp.state = "ESTABLISHED"
    PROVE  sys \in SysRec /\ sys.ch.tcp \in LiveTcp /\ sys.ch.stream
           /\ app \in AppRec /\ Frame(sys, busy, ses, owner, app)
           /\ Closing(sys, busy, app) /\ Hearing(sys, busy, app)
  <1>1. Bare(sys, busy, app) BY InvBare DEF IInv
  <1>2. sys \in SysRec /\ app \in AppRec BY <1>1 DEF Bare
  <1>3. sys.ch.tcp \in LiveTcp BY <1>2 DEF SysRec, ChannelRec, NoTcp
  <1> QED BY <1>2, <1>3 DEF UseStream, IInv, Inv

LEMMA ReadKeeps == ASSUME IInv, Read PROVE IInv'
  <1> DEFINE a == [app EXCEPT !.readTurn = FALSE]
  <1>0. /\ UseStream /\ sys.ch.tcp.state = "ESTABLISHED" /\ app' = a
        /\ ses' = ses /\ owner' = owner /\ busy' = busy
    BY DEF Read, UseStream
  <1>1. sys \in SysRec /\ sys.ch.tcp \in LiveTcp /\ sys.ch.stream
        /\ app \in AppRec /\ Frame(sys, busy, ses, owner, app)
        /\ Closing(sys, busy, app) /\ Hearing(sys, busy, app)
    BY <1>0, UseStreamTcp
  <1>2. a \in AppRec /\ a.closes = app.closes /\ a.writeWait = app.writeWait
    BY <1>1 DEF AppRec
  <1> HIDE DEF a
  <1>3. ASSUME NEW n \in 1 .. sys.ch.tcp.rbuf, sys' = ReadSome(sys, n) PROVE IInv'
    <2> DEFINE k == sys.ch.tcp.rbuf - n
               due == sys.ch.tcp.ackDue /\ sys.ch.tcp.rbuf < MaxRead
               x == [sys.ch.tcp EXCEPT !.rbuf = k, !.ackDue = due]
               p == [sys EXCEPT !.ch.tcp.rbuf = k, !.ch.pending = TRUE,
                                !.ch.tcp.ackDue = due]
               r == IF sys.ch.pending THEN p ELSE PostEvent(p, {"READ"})
    <2>1. sys' = r BY <1>3 DEF ReadSome
    <2>2. k \in Nat /\ due \in BOOLEAN BY <1>1 DEF LiveTcp
    <2> HIDE DEF k, due
    <2>3. /\ p \in SysRec /\ p.role = sys.role /\ p.clocks = sys.clocks
          /\ p.queue = sys.queue /\ SameParts(sys.ch, p.ch) /\ p.ch.pending /\ p.ch.tcp = x
      BY <1>1, <2>2 DEF SysRec, ChannelRec, SameParts, LiveTcp
    <2>4. /\ x \in LiveTcp /\ x.state = sys.ch.tcp.state /\ x.shutdown = sys.ch.tcp.shutdown
          /\ x.writeEnable = sys.ch.tcp.writeEnable
      BY <1>1, <2>2 DEF LiveTcp
    <2> HIDE DEF p, x
    <2>5. Quietly(sys, p)
      BY <1>1, <2>3, <2>4 DEF Quietly, SameParts, NoTcp, LiveTcp
    <2>6. \A e : Heard(p, busy, e) = Heard(sys, busy, e) /\ Heard(sys, busy, e) \in Nat
      BY <1>1, <2>3, HeardType DEF Heard, SameParts
    <2>7. /\ Quietly(sys, r) /\ SameParts(sys.ch, r.ch) /\ r.ch.tcp = x
          /\ Heard(r, busy, "READ") > 0
          /\ Heard(r, busy, "CLOSE") = Heard(sys, busy, "CLOSE")
          /\ Heard(r, busy, "WRITE") = Heard(sys, busy, "WRITE")
      <3>1. CASE sys.ch.pending
        <4>1. Heard(sys, busy, "READ") > 0 BY <1>1, <3>1 DEF Hearing
        <4> QED BY <2>3, <2>5, <2>6, <3>1, <4>1
      <3>2. CASE ~sys.ch.pending
        <4>1. {"READ"} \in SUBSET StreamEvents BY DEF StreamEvents
        <4>2. p.ch.stream BY <1>1, <2>3 DEF SameParts
        <4>3. /\ Quietly(p, r) /\ r.ch = p.ch
              /\ \A b, e : Heard(r, b, e) = Heard(p, b, e) + One(e \in {"READ"})
          BY <2>3, <3>2, <4>1, <4>2, EventEffect
        <4> HIDE DEF r
        <4>4. Quietly(sys, r) BY <2>5, <4>3 DEF Quietly, SameParts
        <4> QED BY <2>3, <2>6, <4>3, <4>4 DEF One
      <3> QED BY <3>1, <3>2
    <2> HIDE DEF r
    <2>8. Frame(r, busy, ses, owner, a) BY <1>1, <1>2, <2>7, QuietFrame
    <2>9. Closing(r, busy, a) BY <1>1, <1>2, <2>4, <2>7 DEF Closing, SameParts
    <2>10. Hearing(r, busy, a) BY <1>1, <1>2, <2>4, <2>7 DEF Hearing, SameParts
    <2> QED BY <1>0, <2>1, <2>8, <2>9, <2>10 DEF IInv, Inv
  <1>4. ASSUME sys.ch.tcp.rbuf = 0, sys' = [sys EXCEPT !.ch.tcp.readEnable = TRUE]
        PROVE  IInv'
    <2> DEFINE x == [sys.ch.tcp EXCEPT !.readEnable = TRUE]
               r == [sys EXCEPT !.ch.tcp.readEnable = TRUE]
    <2>1. Retcp(sys, r, x) BY <1>1 DEF Retcp, SysRec, ChannelRec, SameParts, LiveTcp
    <2>2. /\ x \in LiveTcp /\ x.state = sys.ch.tcp.state /\ x.shutdown = sys.ch.tcp.shutdown
          /\ x.writeEnable = sys.ch.tcp.writeEnable /\ x.readEnable /\ x.rbuf = 0
      BY <1>1, <1>4 DEF LiveTcp
    <2> HIDE DEF x, r
    <2>3. Quietly(sys, r) BY <1>1, <2>1, <2>2 DEF Retcp, Quietly, SameParts, NoTcp, LiveTcp
    <2>4. \A e : Heard(r, busy, e) = Heard(sys, busy, e) BY <2>1 DEF Heard, Retcp, SameParts
    <2>5. Frame(r, busy, ses, owner, a) BY <1>1, <1>2, <2>3, QuietFrame
    <2>6. Closing(r, busy, a)
      BY <1>1, <1>2, <2>1, <2>2, <2>4 DEF Closing, Retcp, SameParts
    <2>7. Hearing(r, busy, a)
      BY <1>1, <1>2, <2>1, <2>2, <2>4 DEF Hearing, Retcp, SameParts
    <2> QED BY <1>0, <1>4, <2>5, <2>6, <2>7 DEF IInv, Inv, r
  <1> QED BY <1>3, <1>4 DEF Read

LEMMA WriteKeeps == ASSUME IInv, Write PROVE IInv'
  <1>0. /\ UseStream /\ sys.ch.tcp.state = "ESTABLISHED"
        /\ ses' = ses /\ owner' = owner /\ busy' = busy
    BY DEF Write, UseStream
  <1>1. sys \in SysRec /\ sys.ch.tcp \in LiveTcp /\ sys.ch.stream
        /\ app \in AppRec /\ Frame(sys, busy, ses, owner, app)
        /\ Closing(sys, busy, app) /\ Hearing(sys, busy, app)
    BY <1>0, UseStreamTcp
  <1>2. ASSUME NEW due \in {FALSE, sys.ch.tcp.ackDue}, app' = app,
               sys' = [sys EXCEPT !.ch.tcp.unsent = TRUE, !.ch.tcp.ackDue = due]
        PROVE  IInv'
    <2> DEFINE x == [sys.ch.tcp EXCEPT !.unsent = TRUE, !.ackDue = due]
               r == [sys EXCEPT !.ch.tcp.unsent = TRUE, !.ch.tcp.ackDue = due]
    <2>0. due \in BOOLEAN BY <1>1 DEF LiveTcp
    <2>1. Retcp(sys, r, x) BY <1>1, <2>0 DEF Retcp, SysRec, ChannelRec, SameParts, LiveTcp
    <2>2. /\ x \in LiveTcp /\ x.shutdown = sys.ch.tcp.shutdown /\ x.state = sys.ch.tcp.state
          /\ x.readEnable = sys.ch.tcp.readEnable /\ x.writeEnable = sys.ch.tcp.writeEnable
          /\ x.rbuf = sys.ch.tcp.rbuf
      BY <1>1, <2>0 DEF LiveTcp
    <2> HIDE DEF x, r
    <2>3. Talk(sys, r) BY <1>1, <2>1, <2>2, RetcpTalks
    <2>4. Inv(r, busy, ses, owner, app) BY <2>3, TalkKeeps DEF IInv
    <2> QED BY <1>0, <1>2, <2>4 DEF IInv, r
  <1>3. ASSUME sys' = [sys EXCEPT !.ch.tcp.writeEnable = TRUE],
               app' = [app EXCEPT !.writeWait = TRUE]
        PROVE  IInv'
    <2> DEFINE x == [sys.ch.tcp EXCEPT !.writeEnable = TRUE]
               r == [sys EXCEPT !.ch.tcp.writeEnable = TRUE]
               a == [app EXCEPT !.writeWait = TRUE]
    <2>0. a \in AppRec /\ a.closes = app.closes /\ a.readTurn = app.readTurn
      BY <1>1 DEF AppRec
    <2>1. Retcp(sys, r, x) BY <1>1 DEF Retcp, SysRec, ChannelRec, SameParts, LiveTcp
    <2>2. /\ x \in LiveTcp /\ x.state = sys.ch.tcp.state /\ x.shutdown = sys.ch.tcp.shutdown
          /\ x.writeEnable /\ x.readEnable = sys.ch.tcp.readEnable
          /\ x.rbuf = sys.ch.tcp.rbuf
      BY <1>1 DEF LiveTcp
    <2> HIDE DEF x, r, a
    <2>3. Quietly(sys, r) BY <1>1, <2>1, <2>2 DEF Retcp, Quietly, SameParts, NoTcp, LiveTcp
    <2>4. \A e : Heard(r, busy, e) = Heard(sys, busy, e) BY <2>1 DEF Heard, Retcp, SameParts
    <2>5. Frame(r, busy, ses, owner, a) BY <1>1, <2>0, <2>3, QuietFrame
    <2>6. Closing(r, busy, a)
      BY <1>1, <2>0, <2>1, <2>2, <2>4 DEF Closing, Retcp, SameParts
    <2>7. Hearing(r, busy, a)
      BY <1>1, <2>0, <2>1, <2>2, <2>4 DEF Hearing, Retcp, SameParts
    <2> QED BY <1>0, <1>3, <2>5, <2>6, <2>7 DEF IInv, Inv, r, a
  <1> QED BY <1>2, <1>3 DEF Write

-----------------------------------------------------------------------------
(* The transport channel                                                   *)

\* What the transport channel reports finds the channel and its connection.
LEMMA NewsTcp ==
    ASSUME IInv, News
    PROVE  /\ sys \in SysRec /\ sys.ch.tcp \in LiveTcp /\ sys.ch.session
           /\ busy["main"].id # "WK_CLOCK"
           /\ ses' = ses /\ owner' = owner /\ busy' = busy /\ app' = app
  <1>1. Bare(sys, busy, app) BY InvBare DEF IInv
  <1>2. sys \in SysRec /\ sys.ch.tcp # NoTcp BY <1>1 DEF Bare, News
  <1>3. sys.ch.tcp \in LiveTcp BY <1>2 DEF SysRec, ChannelRec
  <1>4. sys.ch.session BY <1>1, <1>2 DEF Bare, Wired
  <1> QED BY <1>2, <1>3, <1>4 DEF News, Idle, NoMsg

LEMMA OnChannelReadKeeps ==
    ASSUME IInv, NEW kind \in {"connect", "ack", "data", "reset"}, OnChannelRead(kind)
    PROVE  IInv'
  <1>1. /\ sys \in SysRec /\ sys.ch.tcp \in LiveTcp /\ sys.ch.session
        /\ busy["main"].id # "WK_CLOCK"
        /\ ses' = ses /\ owner' = owner /\ busy' = busy /\ app' = app
    BY NewsTcp DEF OnChannelRead
  <1>2. PICK more \in BOOLEAN, delayed \in BOOLEAN :
          sys' = AdjustClock(NotifyPacket(sys, kind, more, delayed), TRUE)
    BY DEF OnChannelRead
  <1> DEFINE r == NotifyPacket(sys, kind, more, delayed)
  <1>3. LiveTalk(sys, r) BY <1>1, PacketTalks
  <1> HIDE DEF r
  <1>4. Inv(r, busy, ses, owner, app) /\ r.ch.tcp \in LiveTcp
    BY <1>3, TalkKeeps DEF LiveTalk, IInv
  <1>5. Inv(AdjustClock(r, TRUE), busy, ses, owner, app) BY <1>1, <1>4, AdjustKeeps
  <1> QED BY <1>1, <1>2, <1>5 DEF IInv, r

LEMMA OnChannelConnectionChangedKeeps ==
    ASSUME IInv, OnChannelConnectionChanged PROVE IInv'
  <1>1. /\ sys.ch.tcp \in LiveTcp /\ busy["main"].id # "WK_CLOCK"
        /\ ses' = ses /\ owner' = owner /\ busy' = busy /\ app' = app
    BY NewsTcp DEF OnChannelConnectionChanged
  <1>2. Inv(AdjustClock(sys, TRUE), busy, ses, owner, app)
    BY <1>1, AdjustKeeps DEF IInv
  <1> QED BY <1>1, <1>2 DEF IInv, OnChannelConnectionChanged

LEMMA OnChannelWritableStateKeeps ==
    ASSUME IInv, OnChannelWritableState PROVE IInv'
  <1> DEFINE g == [sys EXCEPT !.ch.ready = FALSE]
             x == [g.ch.tcp EXCEPT !.state = "SYN_SENT", !.unsent = TRUE]
             h == [g EXCEPT !.ch.tcp.state = "SYN_SENT", !.ch.tcp.unsent = TRUE]
             r == IF g.ch.tcp.state = "LISTEN" THEN h ELSE g
  <1>1. /\ sys \in SysRec /\ sys.ch.tcp \in LiveTcp /\ busy["main"].id # "WK_CLOCK"
        /\ ses' = ses /\ owner' = owner /\ busy' = busy /\ app' = app
    BY NewsTcp DEF OnChannelWritableState
  <1>2. sys' = AdjustClock(r, TRUE) BY DEF OnChannelWritableState
  <1>3. Retcp(sys, g, sys.ch.tcp) BY <1>1 DEF Retcp, SysRec, ChannelRec, SameParts
  <1> HIDE DEF g
  <1>4. g \in SysRec /\ g.ch.tcp \in LiveTcp BY <1>1, <1>3 DEF Retcp
  <1>5. Talk(sys, g) BY <1>1, <1>3, RetcpTalks
  <1>6. CASE g.ch.tcp.state = "LISTEN"
    <2>1. Retcp(g, h, x) BY <1>4 DEF Retcp, SysRec, ChannelRec, SameParts, LiveTcp
    <2>2. /\ x \in LiveTcp /\ x.state = "SYN_SENT" /\ x.shutdown = g.ch.tcp.shutdown
          /\ x.readEnable = g.ch.tcp.readEnable /\ x.writeEnable = g.ch.tcp.writeEnable
          /\ x.rbuf = g.ch.tcp.rbuf
      BY <1>4 DEF LiveTcp
    <2> HIDE DEF h, x
    <2>3. Talk(g, h) BY <1>4, <1>6, <2>1, <2>2, RetcpTalks
    <2>4. Talk(sys, h) BY <1>5, <2>3, TalkTransitive
    <2>5. Inv(h, busy, ses, owner, app) BY <2>4, TalkKeeps DEF IInv
    <2>6. h.ch.tcp \in LiveTcp BY <2>1, <2>2 DEF Retcp
    <2>7. Inv(AdjustClock(h, TRUE), busy, ses, owner, app)
      BY <1>1, <2>5, <2>6, AdjustKeeps
    <2> QED BY <1>1, <1>2, <1>6, <2>7 DEF IInv
  <1>7. CASE g.ch.tcp.state # "LISTEN"
    <2>1. Inv(g, busy, ses, owner, app) BY <1>5, TalkKeeps DEF IInv
    <2>2. Inv(AdjustClock(g, TRUE), busy, ses, owner, app)
      BY <1>1, <1>4, <2>1, AdjustKeeps
    <2> QED BY <1>1, <1>2, <1>7, <2>2 DEF IInv
  <1> QED BY <1>6, <1>7

-----------------------------------------------------------------------------
(* The invariant holds                                                     *)

LEMMA InitInv == Init => IInv
  <1> SUFFICES ASSUME NEW role \in Roles,
                      sys = [role |-> role, clocks |-> 0,
                             queue |-> [t \in {"main", "stream"} |-> <<>>],
                             ch |-> [NewChannel("main") EXCEPT !.session = FALSE]],
                      ses = "INIT", owner = FALSE,
                      busy = [t \in {"main", "stream"} |-> NoMsg],
                      app = [closed |-> FALSE, closes |-> 0, readTurn |-> FALSE,
                             writeWait |-> FALSE]
               PROVE  IInv
    BY DEF Init
  <1>1. role \in {"INITIATOR", "RESPONDER"} BY TunnelAssumption
  <1>2. /\ sys.clocks = 0 /\ sys.queue = [t \in Two |-> <<>>]
        /\ sys.ch = [NewChannel("main") EXCEPT !.session = FALSE]
    BY DEF Two
  <1>3. sys.ch \in ChannelRec BY <1>2 DEF NewChannel, ChannelRec, Two
  <1>4. sys.queue \in [Two -> Seq(Message)] /\ sys.queue["stream"] \in Seq(Events)
    BY <1>2 DEF Two
  <1>5. sys \in SysRec BY <1>1, <1>3, <1>4 DEF SysRec
  <1>6. /\ ~sys.ch.session /\ ~sys.ch.channel /\ ~sys.ch.worker /\ ~sys.ch.stream
        /\ sys.ch.alive /\ ~sys.ch.misused /\ sys.ch.tcp = NoTcp
    BY <1>2 DEF NewChannel
  <1>7. \A t \in Two : sys.queue[t] = <<>> /\ busy[t] = NoMsg BY <1>2 DEF Two
  <1>8. \A id \in Ids : Due(sys, busy, id) = 0
    BY <1>7, CountEmpty DEF Due, One, Two, Ids, NoMsg
  <1>9. busy \in Busy /\ busy["stream"] \in Events \cup {NoMsg} BY DEF Busy, Two
  <1>10. app \in AppRec /\ app.closes = 0 BY DEF AppRec
  <1>11. Wired(sys, busy) BY <1>2, <1>6, <1>8 DEF Wired, Ids, One
  <1>12. Eventful(sys, busy) BY <1>7, CountEmpty DEF Eventful, NoMsg
  <1>13. Closing(sys, busy, app) /\ Hearing(sys, busy, app) BY <1>6 DEF Closing, Hearing
  <1>14. Lasting(sys, busy) BY <1>6, <1>8 DEF Lasting, Ids, One
  <1>15. Bare(sys, busy, app)
    BY <1>4, <1>5, <1>9, <1>10, <1>11, <1>12, <1>13, <1>14 DEF Bare
  <1>16. Staged(sys, busy, ses, owner, app)
    BY <1>2, <1>6, <1>7, <1>10 DEF Staged, Live
  <1>17. Ordered(sys, busy, ses) BY DEF Ordered, Ended
  <1> QED BY <1>15, <1>16, <1>17, BareInv DEF IInv

LEMMA NextInv == IInv /\ [Next]_vars => IInv'
  <1> SUFFICES ASSUME IInv, [Next]_vars PROVE IInv' OBVIOUS
  <1>1. ASSUME NEW thread \in Threads, CreateTunnel(thread) PROVE IInv'
    <2>1. thread \in Two BY TunnelAssumption DEF Two
    <2> QED BY <1>1, <2>1, CreateTunnelKeeps
  <1>2. CASE IncomingTunnel BY <1>2, IncomingTunnelKeeps
  <1>3. CASE AcceptTunnel BY <1>3, AcceptTunnelKeeps
  <1>4. CASE DeclineTunnel BY <1>4, DeclineTunnelKeeps
  <1>5. CASE DeleteClient BY <1>5, DeleteClientKeeps
  <1>6. CASE Terminate BY <1>6, TerminateKeeps
  <1>7. CASE OnAcceptMessage BY <1>7, OnAcceptMessageKeeps
  <1>8. CASE OnRejectMessage BY <1>8, OnRejectMessageKeeps
  <1>9. CASE OnTerminateMessage BY <1>9, OnTerminateMessageKeeps
  <1>10. CASE OnChannelWritableState BY <1>10, OnChannelWritableStateKeeps
  <1>11. CASE OnChannelConnectionChanged BY <1>11, OnChannelConnectionChangedKeeps
  <1>12. ASSUME NEW kind \in {"connect", "ack", "data", "reset"}, OnChannelRead(kind)
         PROVE  IInv'
    BY <1>12, OnChannelReadKeeps
  <1>13. CASE Get("main") BY <1>13, GetKeeps DEF Two
  <1>14. CASE PostState BY <1>14, PostStateKeeps
  <1>15. CASE OnState BY <1>15, OnStateKeeps
  <1>16. CASE OnClock BY <1>16, OnClockKeeps
  <1>17. CASE OnPurge BY <1>17, OnPurgeKeeps
  <1>18. CASE OnDestroyChannel BY <1>18, OnDestroyChannelKeeps
  <1>19. CASE OnDestroy BY <1>19, OnDestroyKeeps
  <1>20. CASE Get("stream") BY <1>20, GetKeeps DEF Two
  <1>21. CASE OnEvent BY <1>21, OnEventKeeps
  <1>22. CASE ClockDue BY <1>22, ClockDueKeeps
  <1>23. CASE Read BY <1>23, ReadKeeps
  <1>24. CASE Write BY <1>24, WriteKeeps
  <1>25. CASE Close BY <1>25, CloseKeeps
  <1>26. CASE UNCHANGED vars BY <1>26 DEF vars, IInv
  <1> QED
    BY <1>1, <1>2, <1>3, <1>4, <1>5, <1>6, <1>7, <1>8, <1>9, <1>10, <1>11, <1>12, <1>13,
       <1>14, <1>15, <1>16, <1>17, <1>18, <1>19, <1>20, <1>21, <1>22, <1>23, <1>24,
       <1>25, <1>26
    DEF Next, Client, Remote, Transport, Main, Stream

-----------------------------------------------------------------------------
(* Theorems                                                                *)

\* The inductive invariant: what is left of a tunnel determines which of its
\* messages and timers are on their way.
THEOREM Invariance == Spec => []IInv
  BY InitInv, NextInv, PTL DEF Spec

LEMMA MessagesFollow == IInv => MessagesValid
  <1> SUFFICES ASSUME IInv PROVE MessagesValid OBVIOUS
  <1>1. Bare(sys, busy, app) /\ Staged(sys, busy, ses, owner, app) BY InvBare DEF IInv
  <1>2. sys.ch.stream_thread \in Two /\ sys \in SysRec BY StreamThread
  <1>3. sys.clocks \in Nat /\ \A id : Due(sys, busy, id) \in Nat BY <1>2, DueType DEF SysRec
  <1>4. sys.clocks \in 0 .. 2
    <2>1. sys.clocks + Due(sys, busy, "WK_CLOCK") <= IF sys.ch.stream THEN 1 ELSE 2
      BY <1>1 DEF Bare, Wired
    <2>2. CASE sys.ch.stream BY <1>3, <2>1, <2>2
    <2>3. CASE ~sys.ch.stream BY <1>3, <2>1, <2>3
    <2> QED BY <2>2, <2>3
  <1>5. \A id : Handle(id) => Due(sys, busy, id) > 0
    <2> TAKE id
    <2> HAVE Handle(id)
    <2>1. Count(sys.queue["main"], id) \in Nat BY <1>2, CountType DEF SysRec, Two
    <2> QED BY <2>1 DEF Handle, Due, One
  <1>6. Handle("SI_DESTROYCHANNEL") => sys.ch.session /\ sys.ch.channel
    BY <1>1, <1>5 DEF Bare, Wired
  <1>7. Handle("WK_PURGE") => ~sys.ch.session /\ ~sys.ch.channel
    BY <1>1, <1>5 DEF Bare, Wired, One
  <1>8. Handle("WK_CLOCK") => sys.ch.worker
    BY <1>1, <1>3, <1>5 DEF Bare, Wired
  <1>9. busy[sys.ch.stream_thread].id = "ST_EVENT" => sys.ch.stream
    BY <1>1, <1>2 DEF Bare, Eventful
  <1>10. sys.ch.tcp # NoTcp => sys.ch.channel BY <1>1 DEF Bare, Wired
  <1>11. sys.ch.channel => ses \notin {"INIT", "DEINIT"} BY <1>1 DEF Staged
  <1> QED BY <1>4, <1>6, <1>7, <1>8, <1>9, <1>10, <1>11 DEF MessagesValid

\* Whatever the threads do while a message is queued, it finds what it is about
\* when it is handled, and clocks do not pile up.
THEOREM ValidMessages == Spec => []MessagesValid
  BY Invariance, MessagesFollow, PTL

\* What Heard counts is there.
LEMMA HeardTold ==
    ASSUME IInv, NEW e, Heard(sys, busy, e) > 0 PROVE Told(e)
  <1> DEFINE t == sys.ch.stream_thread
             q == sys.queue[t]
             T == {i \in 1 .. Len(q) : e \in q[i].events}
  <1>1. t \in Two /\ sys \in SysRec /\ busy \in Busy BY StreamThread
  <1>2. q \in Seq(Message) BY <1>1 DEF SysRec
  <1>3. CASE e \in busy[t].events
    <2>1. busy[t].id = "ST_EVENT" BY <1>1, <1>3 DEF Busy, Message, NoMsg, Msg
    <2>2. busy[t] \in Queued BY <1>1 DEF Queued, Two
    <2> QED BY <1>3, <2>1, <2>2 DEF Told
  <1>4. CASE e \notin busy[t].events
    <2>1. Tells(q, e) \in Nat BY <1>2, CountType
    <2>2. Tells(q, e) # 0 BY <1>4, <2>1 DEF Heard, One
    <2>3. T # {} BY <2>2, FS_EmptySet DEF Tells
    <2>4. PICK i \in 1 .. Len(q) : e \in q[i].events BY <2>3
    <2>5. q[i] \in Message /\ i \in DOMAIN q BY <1>2, <2>4
    <2>6. q[i].id = "ST_EVENT" BY <2>4, <2>5 DEF Message
    <2>7. q[i] \in Queued BY <1>1, <2>5 DEF Queued, Two
    <2> QED BY <2>4, <2>6, <2>7 DEF Told
  <1> QED BY <1>3, <1>4

LEMMA EventsFollow == IInv => NoLostEvent
  <1> SUFFICES ASSUME IInv, sys.ch.stream, sys.ch.tcp.state = "ESTABLISHED"
               PROVE  /\ sys.ch.tcp.rbuf > 0 => app.readTurn \/ Told("READ")
                      /\ app.writeWait => sys.ch.tcp.writeEnable \/ Told("WRITE")
    BY DEF NoLostEvent
  <1>1. Hearing(sys, busy, app) BY DEF IInv, Inv
  <1>2. Heard(sys, busy, "READ") > 0 => Told("READ") BY HeardTold
  <1>3. Heard(sys, busy, "WRITE") > 0 => Told("WRITE") BY HeardTold
  <1> QED BY <1>1, <1>2, <1>3 DEF Hearing

\* A reader that has data, and a writer that has room, has its turn or an event
\* on the way.
THEOREM LosesNoEvent == Spec => []NoLostEvent
  BY Invariance, EventsFollow, PTL

LEMMA CloseFollows == IInv => CloseToldOnce
  <1> SUFFICES ASSUME IInv PROVE CloseToldOnce OBVIOUS
  <1> DEFINE C(t) == Cardinality({i \in DOMAIN sys.queue[t] :
                                    "CLOSE" \in sys.queue[t][i].events})
             taken == {t \in {"main", "stream"} : "CLOSE" \in busy[t].events}
  <1>1. Bare(sys, busy, app) BY InvBare DEF IInv
  <1>2. sys.ch.stream_thread \in Two /\ sys \in SysRec /\ busy \in Busy BY StreamThread
  <1>3. PICK t \in Two : t = sys.ch.stream_thread BY <1>2
  <1>4. PICK u \in Two : u # t BY DEF Two
  <1>5. \A v \in Two : sys.queue[v] \in Seq(Message) BY <1>2 DEF SysRec
  <1>6. \A v \in Two : C(v) = Tells(sys.queue[v], "CLOSE") /\ C(v) \in Nat
    <2> TAKE v \in Two
    <2>1. DOMAIN sys.queue[v] = 1 .. Len(sys.queue[v]) BY <1>5
    <2>2. C(v) = Tells(sys.queue[v], "CLOSE") BY <2>1 DEF Tells
    <2> QED BY <1>5, <2>2, CountType
  <1>7. Count(sys.queue[u], "ST_EVENT") = 0 /\ busy[u].id # "ST_EVENT"
    BY <1>1, <1>3, <1>4 DEF Bare, Eventful
  <1>8. C(u) = 0 BY <1>5, <1>6, <1>7, CountType
  <1>9. "CLOSE" \notin busy[u].events
    BY <1>2, <1>7 DEF Busy, Message, NoMsg, Msg
  <1>10. Cardinality(taken) = One("CLOSE" \in busy[t].events)
    <2>1. taken = IF "CLOSE" \in busy[t].events THEN {t} ELSE {}
      BY <1>4, <1>9 DEF Two
    <2> HIDE DEF taken
    <2>2. Cardinality({t}) = 1 /\ Cardinality({}) = 0 BY FS_Singleton, FS_EmptySet
    <2> QED BY <2>1, <2>2 DEF One
  <1>11. C("main") + C("stream") = C(t)
    <2>1. \/ t = "main" /\ u = "stream"
          \/ t = "stream" /\ u = "main"
      BY <1>4 DEF Two
    <2> HIDE DEF C
    <2> QED BY <1>6, <1>8, <2>1 DEF Two
  <1>12. Heard(sys, busy, "CLOSE") = C("main") + C("stream") + Cardinality(taken)
    <2> HIDE DEF C, taken
    <2> QED BY <1>3, <1>6, <1>10, <1>11 DEF Heard
  <1>13. Closing(sys, busy, app) BY <1>1 DEF Bare
  <1>14. sys.ch.stream =>
           C("main") + C("stream") + Cardinality(taken) + app.closes =
             IF ~sys.ch.session \/ sys.ch.tcp.state = "CLOSED" THEN 1 ELSE 0
    <2> HIDE DEF C, taken
    <2> QED BY <1>12, <1>13 DEF Closing, One
  <1> QED BY <1>14 DEF CloseToldOnce

\* A stream is told exactly once that its session or connection is gone.
THEOREM TellsCloseOnce == Spec => []CloseToldOnce
  BY Invariance, CloseFollows, PTL

LEMMA DeletionFollows == IInv /\ Careful => DeletedLast
  <1> SUFFICES ASSUME IInv, Careful PROVE DeletedLast OBVIOUS
  <1>1. Bare(sys, busy, app) /\ Lasting(sys, busy) BY InvBare DEF IInv, Bare
  <1>2. sys.ch.stream_thread \in Two /\ sys \in SysRec /\ busy \in Busy BY StreamThread
  <1>3. ~sys.ch.misused BY <1>1 DEF Lasting
  <1>4. ASSUME ~sys.ch.alive
        PROVE  /\ ~sys.ch.session /\ ~sys.ch.channel /\ ~sys.ch.worker /\ ~sys.ch.stream
               /\ sys.ch.tcp = NoTcp
               /\ ForChannel = {} /\ sys.clocks = 0
    <2>1. ~sys.ch.session /\ ~sys.ch.worker /\ ~sys.ch.stream BY <1>1, <1>4 DEF Lasting
    <2>2. ~sys.ch.channel /\ sys.ch.tcp = NoTcp BY <1>1, <2>1 DEF Bare, Wired
    <2>3. sys.clocks \in Nat /\ \A id : Due(sys, busy, id) \in Nat
      BY <1>2, DueType DEF SysRec
    <2>4. sys.clocks = 0 /\ Due(sys, busy, "WK_CLOCK") = 0
          /\ Due(sys, busy, "SI_DESTROYCHANNEL") = 0
      BY <1>1, <2>2, <2>3 DEF Bare, Wired
    <2>5. Due(sys, busy, "WK_PURGE") = 0 BY <1>1, <2>1 DEF Bare, Wired, One
    <2>6. Due(sys, busy, "SI_DESTROY") = 0 BY <1>1, <1>4, <2>3 DEF Lasting, One
    <2>7. \A v \in Two : sys.queue[v] \in Seq(Message) BY <1>2 DEF SysRec
    <2>8. \A id : Due(sys, busy, id) = 0 =>
             Count(sys.queue["main"], id) = 0 /\ busy["main"].id # id
      <3> TAKE id
      <3>1. Count(sys.queue["main"], id) \in Nat BY <2>7, CountType DEF Two
      <3> QED BY <3>1 DEF Due, One
    <2>9. \A v \in Two : Count(sys.queue[v], "ST_EVENT") = 0 /\ busy[v].id # "ST_EVENT"
      BY <1>1, <2>1 DEF Bare, Eventful
    <2>10. \A m \in Message : m.id \in Ids BY DEF Message
    <2>11. \A i \in 1 .. Len(sys.queue["main"]) : sys.queue["main"][i].id = "STATE"
      <3> TAKE i \in 1 .. Len(sys.queue["main"])
      <3>1. sys.queue["main"][i] \in Message BY <2>7 DEF Two
      <3>2. \A id : Count(sys.queue["main"], id) = 0 => sys.queue["main"][i].id # id
        BY <2>7, CountType DEF Two
      <3> QED BY <2>4, <2>5, <2>6, <2>8, <2>9, <2>10, <3>1, <3>2 DEF Ids, Two
    <2>12. \A i \in 1 .. Len(sys.queue["stream"]) : FALSE
      <3> TAKE i \in 1 .. Len(sys.queue["stream"])
      <3>1. sys.queue["stream"] \in Seq(Events) BY <1>1 DEF Bare
      <3>2. sys.queue["stream"][i] \in Events BY <3>1
      <3>3. sys.queue["stream"][i].id # "ST_EVENT" BY <2>7, <2>9, CountType DEF Two
      <3> QED BY <3>2, <3>3 DEF Events
    <2>13. busy["main"].id \in {"NONE", "STATE", "POST_STATE"}
      BY <1>2, <2>4, <2>5, <2>6, <2>8, <2>9, <2>10 DEF Busy, Ids, Two, NoMsg, Msg
    <2>14. busy["stream"].id = "NONE"
      BY <1>1, <2>9 DEF Bare, Events, NoMsg, Two
    <2>15. \A v \in Two : DOMAIN sys.queue[v] = 1 .. Len(sys.queue[v]) BY <2>7
    <2>16. ForChannel = {}
      BY <2>11, <2>12, <2>13, <2>14, <2>15 DEF ForChannel, Queued, Two
    <2> QED BY <2>1, <2>2, <2>4, <2>16
  <1> QED BY <1>3, <1>4 DEF DeletedLast

\* The channel is deleted last, and nothing is left for it: for a client that
\* closes its stream, or is deleted, not before Connect, and that ends an ending
\* session once more only from the stream's own thread.
THEOREM DeletesLast == ASSUME Careful PROVE Spec => []DeletedLast
  BY Careful, Invariance, DeletionFollows, PTL
=============================================================================
