----------------------------- MODULE IceChannel -----------------------------
(***************************************************************************)
(* Two P2PTransportChannels (p2p/base/p2ptransportchannel.cc) that look    *)
(* for a way to each other, with their Ports and Connections (port.cc) and *)
(* the STUN requests of these (stunrequest.cc): pings and responses that   *)
(* are lost and reordered, read and write states, pruning, nomination by   *)
(* USE-CANDIDATE, the conflict of two equal ICE roles, and the messages    *)
(* the channel posts to its own thread.                                    *)
(*                                                                         *)
(* A candidate pair is the number that is its priority, the same at both   *)
(* ends.  A handler is an operator from an agent to an agent; it runs on   *)
(* the worker thread and is one step.  Clock readings are left out: silent *)
(* counts how long a connection has been without a response.               *)
(***************************************************************************)
EXTENDS Lists, FiniteSetsExt

CONSTANTS
    A, B,        \* the two agents; B has the larger tie-breaker
    Pairs,       \* the candidate pairs, each its own priority
    Network,     \* pair -> the network of its local ports
    Protocols,   \* the protocols the two may agree on
    Hybrid,      \* the agents that start before they know the protocol
    Roles,       \* the roles the two may start with
    Late,        \* agent -> the remote candidates that come after its start, in order
    Troubled,    \* bound: the connections, <<agent, pair>>, whose packets are lost or late
    MaxReq,      \* bound: requests of an agent on their way or waiting
    MaxTrouble   \* bound: packets lost, and times that one is waited for in vain

Agents == {A, B}
Other(a) == IF a = A THEN B ELSE A
Tiebreaker(a) == IF a = A THEN 1 ELSE 2
None == 0

ASSUME AgentsAssumption == A # B /\ Hybrid \subseteq Agents
ASSUME PairsAssumption ==
    /\ Pairs \subseteq Nat \ {None} /\ IsFiniteSet(Pairs)
    /\ DOMAIN Network = Pairs
ASSUME StartAssumption ==
    /\ Protocols \subseteq {"RFC5245", "GOOGLE"}
    /\ Roles \subseteq [Agents -> {"CONTROLLING", "CONTROLLED"}]
    /\ Troubled \subseteq Agents \X Pairs
    /\ Late \in [Agents -> Seq(Pairs)]
ASSUME BoundsAssumption == MaxReq \in Nat \ {0} /\ MaxTrouble \in Nat

VARIABLES
    agent,     \* agent -> its channel, ports and connections
    net,       \* packets on their way
    protocol,  \* the protocol the answer names
    left       \* what is left of MaxTrouble

vars == <<agent, net, protocol, left>>

-----------------------------------------------------------------------------
(* Connections                                                             *)

NewConn == [alive |-> TRUE, read |-> "INIT", write |-> "INIT", pruned |-> FALSE,
            reqs |-> {}, silent |-> 0, quiet |-> FALSE]
NoConn == [NewConn EXCEPT !.alive = FALSE]
Live(g) == {p \in Pairs : g.conn[p].alive}

Sort == [msg |-> "SORT", pair |-> None]
Delete(p) == [msg |-> "DELETE", pair |-> p]
Post(g, m) == [g EXCEPT !.queue = Append(@, m)]

\* One MSG_SORT at a time, until the sort begins.
RequestSort(g) == IF g.dirty THEN g ELSE [Post(g, Sort) EXCEPT !.dirty = TRUE]

IsWritable(g, p) == p # None /\ g.conn[p].write = "WRITABLE"
Follows(g) == g.proto = "RFC5245" /\ g.role = "CONTROLLED"

OnConnectionStateChange(g, p) ==
    RequestSort(IF Follows(g) /\ p = g.pending /\ IsWritable(g, p)
                THEN [g EXCEPT !.pending = None, !.best = p]
                ELSE g)

\* Neither readable nor writable any more: MSG_DELETE.
CheckTimeout(g, p) ==
    IF g.conn[p].read \in {"INIT", "TIMEOUT"} /\ g.conn[p].write = "TIMEOUT"
    THEN Post(g, Delete(p)) ELSE g

set_read_state(g, p, value) ==
    IF g.conn[p].read = value THEN g
    ELSE CheckTimeout(OnConnectionStateChange(
             [g EXCEPT !.conn[p].read = value], p), p)

set_write_state(g, p, value) ==
    IF g.conn[p].write = value THEN g
    ELSE CheckTimeout(OnConnectionStateChange(
             [g EXCEPT !.conn[p].write = value], p), p)

ReceivedPing(g, p) ==
    set_read_state([g EXCEPT !.conn[p].quiet = FALSE], p, "READABLE")

Prune(g, p) ==
    IF g.conn[p].pruned THEN g
    ELSE set_write_state([g EXCEPT !.conn[p].pruned = TRUE,
                                   !.conn[p].reqs = {}], p, "TIMEOUT")

\* Reading times out with Google's ICE only.
UpdateRead(g, p) ==
    IF g.port[p] = "GOOGLE" /\ g.conn[p].read = "READABLE" /\ g.conn[p].quiet
    THEN set_read_state(g, p, "TIMEOUT") ELSE g
UpdateReliable(g, p) ==
    IF g.conn[p].write = "WRITABLE" /\ g.conn[p].silent >= 1
    THEN set_write_state(g, p, "UNRELIABLE") ELSE g
UpdateWrite(g, p) ==
    IF g.conn[p].write \in {"UNRELIABLE", "INIT"} /\ g.conn[p].silent >= 2
    THEN set_write_state(g, p, "TIMEOUT") ELSE g
UpdateState(g, p) == UpdateWrite(UpdateReliable(UpdateRead(g, p), p), p)

-----------------------------------------------------------------------------
(* P2PTransportChannel                                                     *)

UpdateConnectionStates(g) == FoldSet(LAMBDA p, h : UpdateState(h, p), g, Live(g))

Rank(w) == CASE w = "WRITABLE" -> 0 [] w = "UNRELIABLE" -> 1
             [] w = "INIT" -> 2 [] w = "TIMEOUT" -> 3

\* CompareConnections: p comes before q.
Before(g, p, q) ==
    \/ Rank(g.conn[p].write) < Rank(g.conn[q].write)
    \/ Rank(g.conn[p].write) = Rank(g.conn[q].write) /\ p > q

Top(g, S) == IF S = {} THEN None
             ELSE CHOOSE p \in S : \A q \in S \ {p} : Before(g, p, q)

ShouldSwitch(g, top) ==
    g.best # top /\ (g.best = None \/ top = None \/ Before(g, top, g.best))

\* The controlled side waits to be told which connection to use.
SwitchBest(g) ==
    IF ~Follows(g) /\ ShouldSwitch(g, Top(g, Live(g)))
    THEN [g EXCEPT !.best = Top(g, Live(g))] ELSE g

GetBestConnectionOnNetwork(g, n) ==
    IF g.best # None /\ Network[g.best] = n THEN g.best
    ELSE Top(g, {p \in Live(g) : Network[p] = n})

Superfluous(g) ==
    {p \in Live(g) :
        LET q == GetBestConnectionOnNetwork(g, Network[p])
        IN q # p /\ IsWritable(g, q) /\ q > p}
PruneConnections(g) == FoldSet(LAMBDA p, h : Prune(h, p), g, Superfluous(g))

\* HandleWritable, HandleNotWritable, HandleAllTimedOut.
HandleWritable(g) == [g EXCEPT !.writable = IsWritable(g, g.best)]

UpdateChannelState(g) ==
    [g EXCEPT !.readable = \E p \in Live(g) : g.conn[p].read = "READABLE"]

Sorted(g) ==
    UpdateChannelState(HandleWritable(PruneConnections(SwitchBest(
        [g EXCEPT !.dirty = FALSE]))))

\* A channel without a protocol does not sort, and stays dirty.
SortUpdated(g) == IF g.proto = "HYBRID" THEN UpdateChannelState(g) ELSE Sorted(g)
SortConnections(g) == SortUpdated(UpdateConnectionStates(g))

\* Mutant: the requests of a connection outlive it.
DestroyedStillWaiting(g, p) ==
    LET h == [g EXCEPT !.conn[p].alive = FALSE,
                       !.queue = Without(@, {Delete(p)}),
                       !.check = IF g.role = "CONTROLLED" THEN @ \cup {p} ELSE @,
                       !.pending = IF @ = p THEN None ELSE @]
    IN IF g.best = p THEN RequestSort([h EXCEPT !.best = None]) ELSE h

\* Mutant: a connection that is to become the best one is forgotten about.
DestroyedQuietly(g, p) ==
    LET h == [g EXCEPT !.conn[p] = NoConn,
                       !.queue = Without(@, {Delete(p)}),
                       !.check = IF g.role = "CONTROLLED" THEN @ \cup {p} ELSE @]
    IN IF g.best = p THEN RequestSort([h EXCEPT !.best = None]) ELSE h

\* MSG_DELETE: the port and then the channel forget the connection, and the
\* port of a controlled agent will ask itself whether it is still needed.
OnConnectionDestroyed(g, p) ==
    LET h == [g EXCEPT !.conn[p] = NoConn,
                       !.queue = Without(@, {Delete(p)}),
                       !.check = IF g.role = "CONTROLLED" THEN @ \cup {p} ELSE @,
                       !.pending = IF @ = p THEN None ELSE @]
    IN IF g.best = p THEN RequestSort([h EXCEPT !.best = None]) ELSE h

\* Mutant: the channel is not sorted after the switch.
OnUseCandidateQuietly(g, p) ==
    IF ~IsWritable(g, p) THEN [g EXCEPT !.pending = p]
    ELSE [g EXCEPT !.pending = None, !.best = p]

OnUseCandidate(g, p) ==
    IF ~IsWritable(g, p) THEN [g EXCEPT !.pending = p]
    ELSE IF g.best = p THEN g
    ELSE RequestSort([g EXCEPT !.pending = None, !.best = p])

\* Mutant: a connection is not named again once it is the best.
UseCandidateOnce(g, p) ==
    /\ g.proto = "RFC5245" /\ g.role = "CONTROLLING"
    /\ g.best = None \/ ~IsWritable(g, g.best) \/ p > g.best

\* PingConnection: whether the ping names its connection.
UseCandidate(g, p) ==
    /\ g.proto = "RFC5245" /\ g.role = "CONTROLLING"
    /\ g.best \in {p, None} \/ ~IsWritable(g, g.best) \/ p > g.best

IsPingable(g, p) ==
    \/ g.conn[p].write # "TIMEOUT"
    \/ ~g.writable /\ g.conn[p].read # "TIMEOUT"

\* A remote candidate.  One that has been seen makes no connection again, a
\* pruned one would only be pruned once more; nor does a port that is gone.
CreateConnections(g, p) ==
    [g EXCEPT !.remote = @ \cup {p},
              !.conn[p] = IF p \in g.remote \/ @.alive \/ g.port[p] = "gone"
                          THEN @ ELSE NewConn]

Introduced(g, p) == SortConnections(CreateConnections(g, p))

-----------------------------------------------------------------------------
(* The agents at work                                                      *)

Created(a, role, proto) ==
    [proto |-> proto, role |-> role, switched |-> FALSE, conflict |-> FALSE,
     conn |-> [p \in Pairs |-> NoConn], port |-> [p \in Pairs |-> proto],
     check |-> {}, due |-> Late[a], remote |-> {}, best |-> None, pending |-> None,
     dirty |-> FALSE, queue |-> <<>>, writable |-> FALSE, readable |-> FALSE]
Early(a) == Pairs \ {Late[a][i] : i \in DOMAIN Late[a]}
Start(a, role, proto) ==
    FoldSet(LAMBDA p, g : Introduced(g, p), Created(a, role, proto), Early(a))

Init ==
    /\ protocol \in Protocols
    /\ \E roles \in Roles :
          agent = [a \in Agents |->
                     Start(a, roles[a], IF a \in Hybrid THEN "HYBRID" ELSE protocol)]
    /\ net = {}
    /\ left = MaxTrouble

Becomes(a, g) == agent' = [agent EXCEPT ![a] = g]
Trouble(a, p) == <<a, p>> \in Troubled /\ left > 0 /\ left' = left - 1

\* A request or response in the style of the port that sends it: one that does
\* not know its protocol yet writes user names as Google's ICE does.
Style(g, p) == IF g.port[p] = "RFC5245" THEN "RFC5245" ELSE "GOOGLE"
Packet(kind, to, p, id, style, role, use) ==
    [kind |-> kind, to |-> to, pair |-> p, id |-> id, style |-> style,
     role |-> role, use |-> use]
Request(a, g, p, id) ==
    Packet("REQUEST", Other(a), p, id, Style(g, p),
           IF g.port[p] = "RFC5245" THEN g.role ELSE "", UseCandidate(g, p))

InFlight(a) ==
    {m.id : m \in {n \in net : (n.to = a) <=> (n.kind # "REQUEST")}}
Waiting(g) == UNION {g.conn[p].reqs : p \in Pairs}
FreeIds(a) == 1 .. MaxReq \ (InFlight(a) \cup Waiting(agent[a]))

\* The answer has arrived: NegotiateTransportDescription_w.
SetIceProtocolType(a) ==
    /\ agent[a].proto = "HYBRID"
    /\ Becomes(a, [agent[a] EXCEPT !.proto = protocol,
                     !.port = [p \in Pairs |-> IF @[p] = "gone" THEN "gone" ELSE protocol]])
    /\ UNCHANGED <<net, protocol, left>>

\* Signaling posts one message per candidate: anything may come between two.
OnCandidate(a) ==
    LET g == [agent[a] EXCEPT !.due = Tail(@)]
    IN /\ agent[a].due # <<>>
       /\ Becomes(a, Introduced(g, Head(agent[a].due)))
       /\ UNCHANGED <<net, protocol, left>>

\* Who may have waited longest, if there is anybody to ping.
Pingable(g) == {p \in Live(g) : IsPingable(g, p)}
FindNextPingableConnection(g) == IF Pingable(g) = {} THEN {None} ELSE Pingable(g)

OnPing(a, p) ==
    LET g == UpdateConnectionStates(agent[a])
    IN /\ p \in FindNextPingableConnection(g)
       /\ \/ /\ p = None
             /\ Becomes(a, g) /\ UNCHANGED net
          \/ \E id \in FreeIds(a) :
                /\ p # None /\ \A i \in FreeIds(a) : id <= i
                /\ Becomes(a, [g EXCEPT !.conn[p].reqs = @ \cup {id}])
                /\ net' = net \cup {Request(a, g, p, id)}
       /\ UNCHANGED <<protocol, left>>

\* MaybeIceRoleConflict.
\* Mutant: whoever hears of a conflict gives in.
MustSwitchAlways(a, g) == TRUE

Conflicting(g, m) == g.port[m.pair] = "RFC5245" /\ m.role = g.role
MustSwitch(a, g) == IF g.role = "CONTROLLING"
                    THEN Tiebreaker(Other(a)) >= Tiebreaker(a)
                    ELSE Tiebreaker(Other(a)) < Tiebreaker(a)

\* A ping on a connection there is: Connection::OnReadPacket.
Answered(g, m) ==
    LET p == m.pair
        r == ReceivedPing(g, p)
        h == IF ~r.conn[p].pruned /\ r.conn[p].write = "TIMEOUT"
             THEN set_write_state(r, p, "INIT") ELSE r
    IN IF h.port[p] = "RFC5245" /\ h.role = "CONTROLLED" /\ m.use
       THEN OnUseCandidate(h, p) ELSE h

\* A ping from an address without a connection: OnUnknownAddress.  Google's
\* ICE remembers the address as a candidate.
Discovered(g, p) ==
    SortConnections(ReceivedPing(
        [g EXCEPT !.conn[p] = NewConn,
                  !.remote = IF g.port[p] = "GOOGLE" THEN @ \cup {p} ELSE @], p))

\* GetStunMessage: a port that did not know takes the protocol of the request.
Learned(g, m) ==
    IF g.port[m.pair] = "HYBRID" THEN [g EXCEPT !.port[m.pair] = m.style] ELSE g

\* A standard port takes what comes without a fingerprint for data, which wakes
\* up a readable connection.
Understood(g, m) ==
    g.port[m.pair] # "gone" /\ (g.port[m.pair] = "RFC5245" => m.style = "RFC5245")
TakenForData(g, p) ==
    IF g.conn[p].read = "READABLE" /\ ~g.conn[p].pruned /\ g.conn[p].write = "TIMEOUT"
    THEN set_write_state(g, p, "INIT") ELSE g

\* The answer to a request and what it makes of the agent: a user name in the
\* wrong style is an unknown one, and an unknown one makes the peer try again.
Verdict(a, g, m) ==
    IF m.style # g.port[m.pair] THEN <<"RETRY", g>>
    ELSE IF Conflicting(g, m) /\ ~MustSwitch(a, g) THEN <<"ROLE_CONFLICT", g>>
    ELSE LET c == IF Conflicting(g, m) THEN [g EXCEPT !.conflict = TRUE] ELSE g
         IN IF c.conn[m.pair].alive THEN <<"OK", Answered(c, m)>>
            ELSE IF c.remote # {} THEN <<"OK", Discovered(c, m.pair)>>
            ELSE <<"RETRY", c>>

ReceiveRequest(a, m) ==
    LET g == Learned(agent[a], m)
        v == Verdict(a, g, m)
    IN /\ m \in net /\ m.to = a /\ m.kind = "REQUEST"
       /\ IF Understood(g, m)
          THEN /\ Becomes(a, v[2])
               /\ net' = (net \ {m}) \cup
                    {Packet(v[1], Other(a), m.pair, m.id, g.port[m.pair], "", FALSE)}
          ELSE Becomes(a, TakenForData(g, m.pair)) /\ net' = net \ {m}
       /\ UNCHANGED <<protocol, left>>

\* CheckResponse and the handlers of ConnectionRequest.
Responded(g, m) ==
    LET h == [g EXCEPT !.conn[m.pair].reqs = @ \ {m.id}]
    IN CASE m.kind = "OK" ->
              set_write_state([h EXCEPT !.conn[m.pair].silent = 0], m.pair, "WRITABLE")
         [] m.kind = "ROLE_CONFLICT" -> [h EXCEPT !.conflict = TRUE]
         [] m.kind = "RETRY" -> h

\* A port that does not know its protocol checks the integrity of a response,
\* which Google's ICE does not have.
Valid(g, m) == g.port[m.pair] = "GOOGLE" \/ m.style = "RFC5245"

ReceiveResponse(a, m) ==
    LET g == agent[a]
    IN /\ m \in net /\ m.to = a /\ m.kind # "REQUEST"
       /\ net' = net \ {m}
       /\ Becomes(a, IF ~Understood(g, m) THEN TakenForData(g, m.pair)
                     ELSE IF m.id \in g.conn[m.pair].reqs /\ Valid(g, m)
                     THEN Responded(g, m) ELSE g)
       /\ UNCHANGED <<protocol, left>>

\* A request is sent once and waits 5 seconds for its response.
OnTimeout(a, p, id) ==
    /\ id \in agent[a].conn[p].reqs
    /\ id \notin InFlight(a) \/ agent[a].conn[p].silent >= 1
    /\ Becomes(a, [agent[a] EXCEPT !.conn[p].reqs = @ \ {id}])
    /\ UNCHANGED <<net, protocol, left>>

\* The thread takes the next message the channel or a connection posted.
OnMessage(a) ==
    LET g == agent[a]
        h == [g EXCEPT !.queue = Tail(@)]
    IN /\ g.queue # <<>>
       /\ \/ /\ Head(g.queue) = Sort
             /\ Becomes(a, SortConnections(h))
          \/ /\ Head(g.queue) # Sort
             /\ Becomes(a, OnConnectionDestroyed(h, Head(g.queue).pair))
       /\ UNCHANGED <<net, protocol, left>>

\* MSG_CHECKTIMEOUT, 30 seconds after a connection of the port was destroyed.  It
\* asserts that the agent is still controlled, which one that switched its role
\* meanwhile is not; a release build destroys the port all the same.
PortCheckTimeout(a, p) ==
    LET g == [agent[a] EXCEPT !.check = @ \ {p}]
    IN /\ p \in agent[a].check
       /\ Becomes(a, IF g.conn[p].alive THEN g ELSE [g EXCEPT !.port[p] = "gone"])
       /\ UNCHANGED <<net, protocol, left>>

\* The signaling thread: BaseSession::OnRoleConflict, once per session.
OnRoleConflict(a) ==
    /\ agent[a].conflict
    /\ Becomes(a, [agent[a] EXCEPT !.conflict = FALSE, !.switched = TRUE,
         !.role = IF agent[a].switched THEN @
                  ELSE IF @ = "CONTROLLING" THEN "CONTROLLED" ELSE "CONTROLLING"])
    /\ UNCHANGED <<net, protocol, left>>

\* 5 or 15 seconds since the first request without a response, or long without
\* a ping.
Silence(a, p) ==
    /\ Trouble(a, p)
    /\ agent[a].conn[p].reqs # {}
    /\ \E n \in agent[a].conn[p].silent + 1 .. 2 :
          Becomes(a, [agent[a] EXCEPT !.conn[p].silent = n])
    /\ UNCHANGED <<net, protocol>>

Quiet(a, p) ==
    /\ Trouble(a, p)
    /\ agent[a].port[p] = "GOOGLE" /\ agent[a].conn[p].read = "READABLE"
    /\ ~agent[a].conn[p].quiet
    /\ Becomes(a, [agent[a] EXCEPT !.conn[p].quiet = TRUE])
    /\ UNCHANGED <<net, protocol>>

Lose(m) ==
    /\ m \in net /\ Trouble(m.to, m.pair)
    /\ net' = net \ {m}
    /\ UNCHANGED <<agent, protocol>>

Step(a) ==
    \/ OnMessage(a) \/ OnRoleConflict(a) \/ SetIceProtocolType(a)
    \/ OnCandidate(a)
    \/ \E p \in Pairs \cup {None} : OnPing(a, p)
    \/ \E p \in Pairs :
          \/ PortCheckTimeout(a, p)
          \/ Silence(a, p) \/ Quiet(a, p)
          \/ \E id \in 1 .. MaxReq : OnTimeout(a, p, id)

Next ==
    \/ \E a \in Agents : Step(a)
    \/ \E m \in net : \/ ReceiveRequest(m.to, m) \/ ReceiveResponse(m.to, m)
                      \/ Lose(m)

CanPing(a, p) ==
    LET g == UpdateConnectionStates(agent[a])
    IN p \in Pingable(g) /\ FreeIds(a) # {}
Arriving(a, p) == {m \in net : m.to = a /\ m.pair = p}
Requests(a, p) == {m \in Arriving(a, p) : m.kind = "REQUEST"}
Responses(a, p) == Arriving(a, p) \ Requests(a, p)
Forgotten(a) == \E p \in Pairs : agent[a].conn[p].reqs \ InFlight(a) # {}
Forget(a) == \E p \in Pairs, id \in 1 .. MaxReq : OnTimeout(a, p, id)

\* Weak fairness: the threads run and packets arrive unless they are lost.
\* OnPing takes the connection that has waited longest, so none is passed over
\* for ever: strong fairness.
Fairness ==
    \A a \in Agents :
       /\ <>[](agent[a].queue # <<>>) => []<><<OnMessage(a)>>_vars
       /\ <>[](agent[a].conflict) => []<><<OnRoleConflict(a)>>_vars
       /\ <>[](agent[a].proto = "HYBRID") => []<><<SetIceProtocolType(a)>>_vars
       /\ <>[](agent[a].due # <<>>) => []<><<OnCandidate(a)>>_vars
       /\ <>[]Forgotten(a) => []<><<Forget(a)>>_vars
       /\ \A p \in Pairs :
             /\ <>[](Requests(a, p) # {}) =>
                   []<><<\E m \in Requests(a, p) : ReceiveRequest(a, m)>>_vars
             /\ <>[](Responses(a, p) # {}) =>
                   []<><<\E m \in Responses(a, p) : ReceiveResponse(a, m)>>_vars
             /\ []<>CanPing(a, p) => []<><<OnPing(a, p)>>_vars

Spec == Init /\ [][Next]_vars
FairSpec == Spec /\ Fairness

-----------------------------------------------------------------------------
(* Properties                                                              *)

Messages(g) == {g.queue[i] : i \in DOMAIN g.queue}

\* The types of an agent.  Nothing of a deleted connection stays: a response
\* that comes later finds no request of it.
TypeOK ==
    /\ \A a \in Agents :
          /\ agent[a].proto \in {"HYBRID", protocol}
          /\ agent[a].role \in {"CONTROLLING", "CONTROLLED"}
          /\ agent[a].remote \cup agent[a].check \subseteq Pairs
          /\ agent[a].due \in Seq(Pairs)
          /\ \A p \in Pairs :
                /\ agent[a].conn[p].read \in {"INIT", "READABLE", "TIMEOUT"}
                /\ agent[a].conn[p].write \in {"INIT", "WRITABLE", "UNRELIABLE", "TIMEOUT"}
                /\ agent[a].conn[p].reqs \subseteq 1 .. MaxReq
                /\ agent[a].port[p] \in {"HYBRID", "RFC5245", "GOOGLE", "gone"}
                /\ ~agent[a].conn[p].alive => agent[a].conn[p] = NoConn
    /\ left \in 0 .. MaxTrouble

\* A connection deletes itself by a message.  Whatever happens while the message
\* is on its way, no pointer to the connection outlives it: not the best or the
\* pending best connection of the channel, not another message, and a port is
\* destroyed only when it has no connection.
DeadUnused ==
    \A a \in Agents :
       /\ {agent[a].best, agent[a].pending} \subseteq Live(agent[a]) \cup {None}
       /\ \A m \in Messages(agent[a]) : m.msg = "DELETE" => m.pair \in Live(agent[a])
       /\ \A p \in Live(agent[a]) : agent[a].port[p] # "gone"

\* What the users of the channel see is what its connections are: unless a sort
\* is due, the channel is writable exactly when its best connection is, and one
\* that chooses for itself has chosen the best of the writable connections.
ChannelFollows ==
    \A a \in Agents :
       LET g == agent[a]
       IN g.proto # "HYBRID" /\ ~g.dirty =>
            /\ g.writable = IsWritable(g, g.best)
            /\ ~Follows(g) /\ IsWritable(g, Top(g, Live(g))) => g.best = Top(g, Live(g))

\* Of two agents in conflict at most one gives in.
RolesOnce == ~(agent[A].switched /\ agent[B].switched)

\* The two end up sending and receiving on the same pair, and stay there: each
\* prunes, deletes and finds again connections by what it alone has seen, and
\* only one of them decides, since however they start one is controlling and one
\* controlled in the end, although requests in the old role are on their way
\* while it is switched.  (Both know the protocol, no packet is lost.)
Agreement ==
    <>[](/\ agent[A].role # agent[B].role
         /\ agent[A].best = agent[B].best
         /\ \A a \in Agents : agent[a].writable /\ agent[a].readable)
=============================================================================
