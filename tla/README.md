# A TLA+ development for testjingle

The repository is a libjingle fork: an XMPP client, the Jingle/Gingle session
protocol, peer-to-peer transports found by ICE, tunnels and media channels on top
of them, all run by message-passing threads. This project models the parts with
protocol state, model-checks them with TLC and proves invariants with TLAPS.
`PROJECT.json` lists the runs, the mutants, the source lines each definition
stands for, the hazards and the theorems.

## 1. Inventory

| Part (src/) | State | Operations | Talks to |
|---|---|---|---|
| **Session signaling** (p2p/base/session*, sessionmanager) | session state, error, both descriptions, transport proxies (connecting, negotiated), unsent and sent candidates, one delayed MSG_TIMEOUT | Initiate, Accept, Reject, Terminate, SendInfo; stanzas, acknowledgements, errors, redirects; MSG_STATE, MSG_ERROR, MSG_TIMEOUT | the peer through an XMPP server; the client through sigslot callbacks in the middle of SetState; transports through posted messages |
| **Message queues and threads** (base/messagequeue, thread, physicalsocketserver) | three queues, fStop_, the wake-up event, the stacks of running calls | Post, PostDelayed, Send, Get, ReceiveSends, Dispatch, Clear, Quit | every other part runs on it |
| **PseudoTcp** (p2p/base/pseudotcp, base/stream) | send and receive buffers, segment lists, windows, timers | Connect, Send, Recv, NotifyPacket, NotifyClock, NotifyMTU, Close | the peer through datagrams; PseudoTcpChannel |
| **Tunnels** (session/tunnel) | session, channel, tcp and stream pointers under one lock; the TunnelSession's pointer to the channel | CreateTunnel, AcceptTunnel, DeclineTunnel; Connect, Read, Write, Close; transport events; MSG_WK_*, MSG_ST_EVENT, MSG_SI_* | the stream's thread and the signaling thread through posted messages; PseudoTcp; Session |
| Transports (p2p/base/transport*) | channels and their states, kept on the worker thread and copied to the signaling thread | Connect, Reset, candidate and state events | Session, ICE channels |
| **ICE** (p2p/base/p2ptransportchannel, port, stunrequest) | ports, connections with read and write states and requests, the best and the pending best one, role, protocol, a sort that is due | OnCandidate, OnUnknownAddress, OnPing, requests and responses, SortConnections, Prune, OnUseCandidate, MSG_DELETE, MSG_CHECKTIMEOUT, role conflicts | the peer through STUN packets; the session through SignalRoleConflict; itself through posted messages |
| Relay, TURN, DTLS, allocators | allocations, permissions, handshake, phases | | servers, ICE |
| **Media channels** (session/media) | SRTP and RTCP-mux filters, two transports, writability and readiness, what the engine was told | offers, provisional and final answers; SetLocalContent, SetRemoteContent; transport and socket events; EnableMedia | the other side through descriptions; the media engine; transports |
| XMPP (xmpp, xmllite) | engine state, login steps, pending queries, roster | stanzas, tasks | the server |
| base utilities, media engines, sound, third_party | - | I/O, codecs, vendored code | - |

What is hard: the client calls back into a session from inside its signals; stanzas
are delayed, repeated, bounced and redirected; writability is a worker-thread fact
that the signaling thread learns late; threads Send to each other and serve sends
while they wait; Quit and Clear race with both; timers wrap; packets are lost and
reordered while windows close; two ICE agents each drop connections by what they alone
have seen and must still end on the same one; two sides negotiate keys and
multiplexing in several rounds while transports come and go; a
tunnel's channel belongs to nobody and deletes itself when session, connection and
stream, which end on two threads in any order, are gone. The properties that make
the six modelled components correct are listed with the runs below.

## 2. Modules

| Module | Models | Shape |
|---|---|---|
| `Session` | session.cc, sessionmanager.cc | One record per peer. Every handler is an operator from a record to a record and the stanzas it sends; a client's call inside a signal is a nested operator. `q` is the signaling thread's queue, restricted to the session and its transports; `reqs`/`resps` the server. Actions: the client's calls (`DoInitiate` ... `CreateChannel`), the worker's events (`OnChannelWritableState`, `CandidatesReady`), the thread's dispatches, `TimerFires`, and what the network does. |
| `SessionProofs` | - | Theorems about each session of `Session` on its own, then about the two sessions of a call. |
| `ThreadQueue` | messagequeue.cc, thread.cc, the wake-up of physicalsocketserver.cc | A thread is a stack of frames. One step is one critical section, or one read of a flag outside the lock, so all interleavings of the unlocked reads of `fStop_` and `ready` are there. |
| `ThreadQueueProofs` | - | Theorems about `ThreadQueue`. |
| `Lists` | the erase loops of MessageQueue::Clear | `Without(s, Drop)`: the list that is left, for `ThreadQueue`, `TunnelChannel` and `IceChannel`. |
| `ListLemmas` | - | Induction over the naturals in a form the provers can use, and what `Without` leaves. |
| `PseudoTcp` | pseudotcp.cc, FifoBuffer, AdjustClock | Two endpoint records. Each call is one step (the channel holds its lock). A payload byte is its position in the stream, so a lost, repeated or misplaced byte shows; memory that was not written reads as `Stale`. A window scale is the factor (`Scale`), not the shift. |
| `ByteStream` | the promise of pseudotcp.h | Abstract: two streams of bytes with bounded memory, and what a graceful close means. `PseudoTcp` is shown to implement it: `IsByteStream == Stream!Spec`, where the bytes written and not yet arrived are the positions between the receiver's count and the writer's, and what can be read is the receive buffer itself. |
| `PseudoTcpLemmas` | - | What each operation of `PseudoTcp` does to one endpoint. |
| `PseudoTcpProofs` | - | Theorems about the two ends of `PseudoTcp`, and its refinement of `ByteStream`. |
| `IceChannel` | p2ptransportchannel.cc, port.cc, stunrequest.cc, OnRoleConflict of session.cc | Two agents, each a record: channel, ports, connections, and the queue of MSG_SORT and MSG_DELETE. A handler is an operator from an agent to an agent, so that the cascade of a state change (signal, switch, sort request, deletion) is one step as on the worker thread. Packets are in a set: they overtake each other and may be lost. |
| `IceChannelProofs` | - | Theorems about `IceChannel`. |
| `MediaChannel` | channel.cc, srtpfilter.cc, rtcpmuxfilter.cc, the crypto and mux parts of mediasession.cc | Two sides, each a VoiceChannel record with both filters. Setting a description, a transport event and a socket event are steps. Sending and reading a packet are operators (`SendPacket`, `HandlePacket`), so that a property can ask in every state what would become of a packet. |
| `MediaChannelProofs` | - | Theorems about `MediaChannel`. |
| `TunnelChannel` | pseudotcpchannel.cc, tunnelsessionclient.cc, and what they need of session.cc, pseudotcp.cc and messagequeue.cc | The channel's fields, the two queues and the delayed clock are one record, and a method of the channel (which holds `cs_`) is an operator on it; taking a message and handling it are two steps, so that the stream's thread can act between them. PseudoTcp is what the channel sees of it: state, shutdown, whether data or an acknowledgement is still to go out, readable bytes, and the two enable flags. |
| `TunnelProofs` | - | Theorems about `TunnelChannel`. |
| `MCSession`, `MCThreadQueue`, `MCPseudoTcp`, `MCIceChannel`, `MCMediaChannel`, `MCTunnelChannel` | - | Values for TLC: which thread a handler belongs to, who writes how much and who closes, networks, roles, policies. |

Definitions marked "Wrong variant of ..." or "Mutant" (`SplitUnsent`, `UseCandidateOnce`, ...) are not
used by any specification: they are plausible bugs, kept to show that each property
notices one.

### Abstractions

*Session.* An offer is what the client makes of it (good, of an unknown type,
unacceptable). An answer (`Answers`) is what the pushdowns make of it: the contents the
accept lists, and how far the local and the remote pushdown get, each of which skips
what is not described and stops at the first failure. The watchdog's delay is any delay. A second session object with the
same id (a repeated initiate whose first copy was refused) is not modelled, nor are
provisional offers. Of MaybeEnableMuxingSupport only what it dereferences matters: that
bundled contents then share a transport (SetSelectedProxy) is left out.

*ThreadQueue.* A message is its handler. A handler is destroyed only by its own
thread, as the code's users do. Peek, Stop, Join and ~Thread are left out.

*PseudoTcp.* A timer that is set may expire at any time; round-trip estimates and
timestamps are gone. The MTU levels of PACKET_MAXIMUMS are the sizes down to `MinMss`.
A packet write fails or is too large at most once per call. Resets (which no endpoint
sends), the conversation number, and peers without window scaling are left out.
Sequence numbers do not wrap; in the code they do, after 4 GB (listed as a hazard).
`dup_acks` is not counted beyond 4, and the congestion window not beyond `MaxCwnd`,
where it no longer limits anything.

*IceChannel.* A candidate pair has one port at each end and is its own priority, equal
at both ends: the pairs across ports (a port of one with another port of the other) and
ties decided by round-trip time are left out. The remote candidates in `Late` come one
by one after the start, as Transport::OnRemoteCandidate posts them. A port's user name is known to the peer once any candidate is. A request is
posted and sent in the step of the ping (Send posts it with delay 0). Time is two facts
about a connection: `silent`, for how long a request has been without a response (not,
over 5 seconds, over 15 seconds), and `quiet`, no ping for 30 seconds. Silence is
counted while a request waits. ICE-lite, restarts, peer reflexive candidates learned
from responses, binding indications and data packets are left out, except that a packet
which a standard port does not understand is one (`TakenForData`). The transaction id of
a new request is one that no packet and no connection has: in the code it is random. Roles are given: the
equal ones of ice_agreement are those of two sessions that a third party, or a gateway
between Jingle and Gingle, has made both initiators or both responders.

*MediaChannel.* A key is a number, fresh each time the factory draws one. DTLS is off.
Codecs, streams, header extensions and bandwidth are left out, and so are video and
data channels, whose base class is the same. Signaling is in order and reliable
(`Session` is about what happens if it is not). A side uses the same mux option in all
its offers.

*TunnelChannel.* The signaling thread is the worker thread, as the assertions of
PseudoTcpChannel and TransportProxy together demand. The other end is any order of
packets that a PseudoTcp peer could cause; `module PseudoTcp` has the two ends. A clock
message does all that is due, or only the delayed acknowledgement. The stream's owner
may read, write and close at any time its thread is free. The client answers an
incoming tunnel later, not from inside the signal, and sending a stanza succeeds.

## 3. Runs

All passing runs explore their bounded state space completely. Deadlock is not
checked: a call that has ended, a thread that has quit and a stream that has been
read may rest, and "something must still happen" is stated by the liveness
properties and by `NoLostWakeUp`.

| Run | Instance | Shows |
|---|---|---|
| session_signaling | 2 contents, 1 repeat, 1 redirect, 1 info, all offers; answers with both contents, with one, and with a pushdown that fails; clients that accept, reject or terminate inside SignalState, an initiator that hangs up | `PendingState`, `Negotiated`, `DescriptionsSignalled`, `EndingStays` |
| session_candidates | 1 transport, 1 batch of candidates on both sides, 1 loss, bounces, no repeats | `Agreement`, `NoEarlyCandidates` |
| session_watchdog | 1 transport, 2 flaps, fair | `TypeOK`, `OneTimeout`, `Watched`, `WritableOrGone` |
| thread_clear | 2 threads, 3 calls, 2 socket events, 2 clears, 1 quit | `NoLostWakeUp`, `NothingDangles` |
| thread_returns | 2 threads, 2 calls, 1 socket event, delays 1 and 3 on a clock of 64 values that starts at 62, fair | `TypeOK`, `SendsReturn`, `PostsDispatched`, `NotEarly` |
| ptcp_stream | 3 segments of 1 byte in flight, 1 repeat, give-up | `SegmentsTile`, `TimerRuns`, `InOrder` |
| ptcp_close | one segment of 2 bytes that must be split, failing and too large writes, MTU changes, either end closes at any moment | `TypeOK`, `GracefulDelivers`, `SegmentsTile`, `IsByteStream` |
| ptcp_liveness | send and receive buffers of 1 byte, 1 loss, idle senders, fair | `WindowKept`, `EverythingRead` |
| ice_agreement | standard ICE, 2 pairs on one network, both controlling or both controlled, fair | `RolesOnce`, `Agreement` |
| ice_failures | standard or Google ICE, 2 pairs on two networks, one agent without a protocol at first and one whose candidates come one by one, 1 packet lost, late or waited for in vain | `TypeOK`, `DeadUnused`, `ChannelFollows` |
| media_negotiation | 2 offers by either side or replaced before the answer, 1 provisional answer, four pairs of security policies, RTCP mux and bundle on and off, 1 transport, channel or socket event that goes wrong | `TypeOK`, `EndToEnd`, `NeverMisread`, `SecureSend`, `EngineFollows` |
| tunnel_life | initiator with its stream on either thread, or responder; 3 packets or other news from the transport, 2 bytes of receive buffer, 1 retransmission, fair | `DeletedLast`, `MessagesValid`, `CloseToldOnce`, `NoLostEvent`, `Released` |

Why these bounds are enough to be of interest: one lost, repeated or redirected
stanza, together with the free order of all others, meets every state of the session;
one flap puts a stale WRITESTATE message in the queue and a second one brings the
opposite stale one. Three calls let a Send arrive while the receiver waits in an inner
one, and two let the Sends cross. In ptcp_stream three packets that overtake each other, one of them repeated, are
enough for three duplicate acknowledgements, a fast retransmit, two saved segments and
a partial acknowledgement during recovery; a packet may stay on its way for ever, so
that a loss is covered without being counted. In ptcp_liveness every Send after the
first returns EWOULDBLOCK and the window closes after every byte. A retransmission
limit of 2 (instead of 15) lets both a successful and a final retransmission occur;
the handshake is not retransmitted (limit 1). Two candidate pairs are enough for a
better and a worse connection, for one that is pruned or nominated while the other is
not writable yet, and for one that is deleted and found again by a ping; one request
per agent on its way at a time (`MaxReq`) still lets requests and responses of the two
agents cross, and a request outlive the role or the connection it was sent for. In
ice_failures one lost or late packet takes a connection through every write state. Two
offers give each side the part of the offerer and the answerer, and an update of an
active filter. In tunnel_life three packets take the responder's connection through its
handshake and leave two for data, acknowledgements or a reset (one for the initiator's,
which its clock can end too), and every way to end it (by stream, by connection, by
session, by either end, by the client) can happen at each moment; the four safety
properties of this run are proved for every number of packets.

What the instances leave out on purpose, because the property does not hold there:

* `Agreement` is checked without repeated stanzas: an initiate that the server repeats
  after the call has ended starts a second session at the responder, which is not
  part of the first call.
* `NoEarlyCandidates` is checked without redirects: OnRedirectError sends initiate and
  candidates to the new address at once.
* `DescriptionsSignalled` asks of a responder only that its answer is signalled. A client
  that accepts from inside SignalState, as src/test/jingleclient.cc:215-251 does, makes
  SetState announce the answer twice and the remote offer never, since
  SignalNewDescription (session.cc:640) looks at the state it finds after the signal; the
  run has such a client.
* `Negotiated` asks only for the transports that the accept lists. MaybeEnableMuxingSupport
  asserts more (session.cc:703), that every proxy is negotiated, and that assertion can
  fail: an accept does not write a content that was rejected (sessionmessages.cc:806, 836),
  PushdownRemoteTransportDescription skips it, and its proxy is never negotiated. The same
  after a pushdown that failed, since nobody looks at its result (session.cc:979, 1387);
  there OnRemoteCandidates (1391) completes what the accept listed, after the assertion.
* `InOrder` and `IsByteStream` are checked with data from the connecting side only,
  and proved for both directions as long as no data overtakes the server's connect
  message. With `Writes` 2 at the server (`Sizes = {2}`,
  `SndBuf = RcvBuf = 3`, `Mss = 1`, `MaxSynXmit = 2`) TLC violates `InOrder` in 11 states:
  the server's connect message is delayed; the client retransmits its own one, which the
  server answers with a bare acknowledgement; the client, still in SYN_SENT, answers that
  with a packet without the control flag, which makes the server ESTABLISHED
  (pseudotcp.cc:826), and it writes. A data segment now reaches the client before the
  connect message and is stored at the offset seq - m_rcv_nxt (pseudotcp.cc:906-922),
  which still counts the connect message, although that takes no room in the buffer:
  when it arrives m_rcv_nxt moves and the write position, from which WriteOffset counts
  (stream.h:663), does not. The client reads bytes nobody sent.
* `Watched` is checked with one transport. With two (`Contents = {"a", "b"}` in
  SessionWatchdog.cfg) it fails: OnTransportWritable clears the one MSG_TIMEOUT whichever
  transport the signal is from (session.cc:1158), so the first transport to become
  writable stops the watchdog of one that never does, although the comment at
  session.cc:1152 promises to terminate.
* `IceChannel.Agreement` is checked with agents that know their protocol. An
  agent that starts without one returns from SortConnections before sort_dirty_ is
  cleared (p2ptransportchannel.cc:915): RequestSort then posts nothing more, and if no
  candidate or unknown address comes after the answer, the channel never becomes
  writable (`Hybrid = {"a"}` in IceAgreement.cfg).
* MSG_CHECKTIMEOUT asserts that the agent is controlled (port.cc:734). One that was when
  its connection was destroyed and has become controlling within the 30 seconds fails
  the assertion (`Troubled <- TopAtB`, `MaxTrouble = 1` in IceAgreement.cfg, both controlled at
  first); `PortCheckTimeout` does what a release build does.
* Nothing is pruned in ice_failures, where each pair has a network of its own;
  ice_agreement prunes, and loses no packet.
* `ChannelFollows` is checked with roles that are not both controlled at first. Two
  controlled agents that do not know the protocol at first violate it (`Roles <-
  EqualRoles`, `Hybrid = {"a", "b"}` in IceFailures.cfg): the one told to give in becomes
  controlling by SetIceRole, which does not sort (p2ptransportchannel.cc:218), so that it
  now decides and has not chosen its writable connection, until something else makes it
  sort.
* `ChannelFollows` speaks of writable only. Deleting a connection that is not the best
  one does not sort, so the channel may stay readable by a connection that is gone.
* `EngineFollows` has one direction of OnReadyToSend. When RTCP mux closes the one
  transport that was not ready, the engine is not told that it can send
  (channel.cc:410), until the RTP socket blocks and is ready again.
* An offer that replaces one which was not answered makes SrtpFilter::IsActive true
  without SRTP sessions (srtpfilter.cc:295); `SecureSend` and `EndToEnd` hold
  nevertheless. That ProtectRtp is not called with a null session then
  (srtpfilter.cc:215) is not a property of any run.
* `NeverMisread` speaks of packets that are handled at once. A multiplexed RTCP packet of
  a call without encryption that is delayed until the receiver has begun a new
  negotiation may be taken for RTP. And it allows ciphertext while an answer is
  outstanding: an offer for a bundle that names the 32-bit suite only is answered without
  crypto, and until that answer arrives the answerer takes what the offerer still encrypts
  for plain packets (a side that requires encryption drops it, channel.cc:613).
* A pruned connection that a response has brought back is not pruned again: the comment
  at port.cc:1224 says "if we don't really want it, we can always prune it again", but
  Prune does nothing once pruned_ is set. The connection stays writable and is pinged
  beside the better one; `DeadUnused` and `ChannelFollows` do not depend on it.
* Messages posted or sent just before Quit: messagequeue.h:192 says that they "will be
  delivered before Get (or Peek) returns false", but Get empties its queues before it
  reads fStop_, and what is queued in between stays. `PostsDispatched` and `SendsReturn`
  are checked without Quit.

### Assumptions of TunnelChannel

`DeletedLast` holds under two assumptions that the code does not enforce; with either
constant of TunnelLife.cfg changed TLC finds the channel deleted too early.

* `Early = FALSE`: the stream is not closed, and the client not deleted, between
  CreateTunnel and the accept. Otherwise CheckDestroy (pseudotcpchannel.cc:549) sees
  neither worker thread nor stream and posts MSG_SI_DESTROY while session_ is set, although
  ~PseudoTcpChannel asserts that it is NULL; the TunnelSession's channel_ dangles, and the
  accept or the end of the session calls it.
* `Overlaps = {"main"}`: a session that is ending is not ended once more, by the other
  end's terminate or by deleting the client, while the stream has a thread of its own.
  That thread may handle SE_CLOSE and close the stream between SignalState and the post
  of MSG_STATE (session.cc:637); MSG_SI_DESTROY is then queued first, and whatever calls
  the TunnelSession before its MSG_STATE finds a deleted channel.

Not visible in the model, where a method is one step: Close on another thread posts
MSG_SI_DESTROY while it still holds cs_, so the signaling thread may delete the lock
before it is released. And a tunnel that is declined, or ends before it was accepted,
has no stream whose Close would post MSG_SI_DESTROY: its channel is never deleted
(`Released` speaks of streams that were closed).

### Outside the model

`SessionManager::TerminateAll` (sessionmanager.cc:134) "terminates all of the sessions"
(sessionmanager.h:105), but with a live session it never returns: it loops until
session_map_ is empty, Terminate only posts MSG_STATE, and the loop keeps the thread from
dispatching it. Nothing in the repository calls it, so it is not an action of `Session`.

### Fairness

`Session.FairSpec`: a signaling thread dispatches what is in its queue and a delayed
message becomes due. `Thread::Run` loops over Get for ever, so this is what it does.
No fairness is assumed of the network or the clients.
`ThreadQueue.FairSpec`: the clock advances, and a thread inside a call goes on with
it; a thread may idle in its loop when there is nothing to do. Handlers return.
`PseudoTcp.FairSpec`: packets keep arriving while there are any, each timer that
stays set expires (AdjustClock always posts the next MSG_WK_CLOCK), and the
application goes on writing and reading until it is told to wait. It is weak
fairness with the enabling condition spelled out; a packet may still be lost, and one
particular packet may be overtaken for ever.
`IceChannel.FairSpec`: both threads take their messages, packets arrive unless they are
lost, forgotten requests time out: weak fairness, spelled out as above. A connection
that can be pinged again and again is pinged again and again: strong fairness, because
FindNextPingableConnection takes the one whose last ping is the oldest, and OnPing posts
itself for ever.
`TunnelChannel.FairSpec`: weak fairness of the two threads' message loops and of the
delayed clock; none of the client, the stream's owner, the other end or the transport.

## 4. Proofs

The theorems hold for every value of the constants that satisfies the assumptions the
modules name: any number of contents, threads, handlers, calls, offers, candidate
pairs and network events. What follows says of each component which invariant is inductive, and why the
property alone is not.

### Session

| Theorem | States | Under |
|---|---|---|
| `TypeCorrect` | `Spec => []TypeOK` | |
| `NeverStranded` | `Spec => []PendingState`: a state that only MSG_STATE leaves has one queued | |
| `SingleTimeout` | `Spec => []OneTimeout` | |
| `EndingIsFinal` | `Spec => EndingStays` | |
| `Negotiates` | `Spec => []Negotiated` | |
| `SignalsDescriptions` | `Spec => []DescriptionsSignalled` | |
| `WatchesTransport` | `Spec => []Watched` | one content |
| `Agrees`, `HoldsCandidates` | `Spec => []Agreement`, `Spec => []NoEarlyCandidates` | `Redirects = 0`, `MaxDup = 0` |

The invariant of the first four is
`IInv == TypeOK /\ RedirectsLead /\ \A p : Good(ses[p])`, with
`Good(s)` the type, `StatePending(s)` and `AtMostOneTimeout(s)`. `PendingState` is not
inductive without the type of the queue (a Tail must leave a queue, and what was
dispatched must have been a session's message), and the type of a redirected session
needs `RedirectsLead`: a redirect names an address that exists. Each handler is shown
to be `Fine`: it takes good sessions to good sessions, leaves ending ones ending and
sends well-formed stanzas. A step runs one handler on one session, so the steps of
`Next` follow from the lemmas one by one.

For the others `CallInv` adds to `IInv` the roles of the peers
and what each session's state says of it (`Settled`): the descriptions it holds and the
contents it has negotiated, the descriptions it has signalled, and that every transport
is under the watchdog. `OnceInv` adds the course of the call while nothing is repeated
or redirected: one initiate at most, no accept before the responder has left its
answering states, no acknowledgement, and no candidate of the initiator, while an
initiate awaits its answer. It is proved next to `CallInv`, because whether a stanza
is sent at all depends on the session's state. The hypotheses are those of section 3:
TLC shows `Agreement` violated with `MaxDup = 1`, `NoEarlyCandidates` with
`Redirects = 1` and `Watched` with two contents, so each hypothesis is there for a reason. (That `Agreement` needs
`Redirects = 0` and `NoEarlyCandidates` needs `MaxDup = 0` is not claimed: the shared
`OnceInv` uses both.)

### ThreadQueue

| Theorem | States |
|---|---|
| `TypeCorrect` | `Spec => []TypeOK` |
| `WakesTheSleeper` | `Spec => []NoLostWakeUp` |
| `LeavesNothingDangling` | `Spec => []NothingDangles` |

`NoLostWakeUp` speaks of the innermost Wait of a thread, but the one signal of a thread
is shared by all the Waits on its stack: a Send that waits inside a handler may consume
the signal that the Get below it needs. The invariant therefore speaks of every Wait on
the stack (`Wakes`): what it waits for is signalled, or about to be, or a Send above it
has taken the signal and will set it again when it returns (`Owed`). For this the stack
must be a nesting that the code can make (`Shape`). `NothingDangles` needs that a flag
which is still to be written belongs to one waiting Send and is promised once, by a
message in a sendlist_ or by a running ReceiveSends (`Pledges`), and that queued messages
reach live handlers of that thread (`Homes`). What a step does to a stack (move, push,
pop) is proved once and used by all steps.

### PseudoTcp

| Theorem | States | Under |
|---|---|---|
| `TypeCorrect` | `Spec => []TypeOK` | |
| `SegmentsSound` | `Spec => []SegmentsTile` | |
| `TimerSound` | `Spec => []TimerRuns` | |
| `WindowSound` | `Spec => []WindowKept` | |
| `AcceptorInOrder` | `Spec => []ReadsRight(Server)`: the half of `InOrder` about the accepting end | |
| `GracefulSound` | `Spec => []GracefulDelivers` | |
| `DeliveredInOrder` | `Spec => []InOrder` | `[][~Overtaken]_vars` |
| `ImplementsByteStream` | `Spec => IsByteStream` | `[][~Overtaken]_vars` |

They hold for every size of the buffers, segments and writes, every window scale, and
any number of losses, repetitions, retransmissions and splits. `SizeAssumption` is what
the code's constants satisfy (180 bytes is the smallest segment, MIN_PACKET less the
overhead of a packet, the buffers have 60 and 90 kilobytes, the connect message has 4
bytes): the connect message fits a segment and both buffers. The hypothesis of the last
two is that the client never handles a packet with data before the server's connect
message (`Overtaken` is that step); either end may write, and packets may be lost,
repeated and reordered in every other way. It is the one step behind the counterexample
of section 3: in that instance TLC finds `InOrder` violated by the specification as
it is, and in none of the 39138 states that are reached without the step. It concerns
only the direction from the server to the client, as `AcceptorInOrder` shows, and
only which bytes arrive there, not how many, as `GracefulSound` shows.

None of the properties is inductive. What an acknowledgement does to the segment list
depends on where it cuts the list, and this on where the other end's m_rcv_nxt may
stand; so the two ends have to be described together, with what is on its way between
them. `OK(x, L, C)` is the part of one end x, given the edge L of the window that the
other end has announced and the set C of sequence numbers at which the other end's
segments begin or end:

* `Tiled`: the list tiles the send buffer, the segments sent before the others, and each
  byte of the buffer is the one that belongs at its sequence number;
* `Timed` and `Limited`: `TimerRuns`, and that neither m_snd_nxt nor the window
  that x believes in goes beyond L;
* `Received`: m_rcv_nxt and the ends of all saved segments are in C, and C does not
  go beyond what x has announced;
* `Written`: each packet that x has written ends at one of its own boundaries, carries
  the right bytes, acknowledges an element of C and announces no more than x does.

`TcpInv` says this of both ends, of all packets on their way, and that m_snd_una is
not ahead of the other end's m_rcv_nxt. An acknowledgement therefore always falls on a
boundary of the sender's list (the hazard at pseudotcp.cc:756: one in the middle of a segment
would make seq - m_snd_una wrap), however old it is: boundaries are never taken
back, which is part of `Grows`, the relation every call keeps. Old packets stay good by
`Grows` alone, so losing, repeating and reordering them need no argument of their own.
Each operation (transmit, attemptSend, queue, the handling of an acknowledgement, of
data, of the timers) is shown in `PseudoTcpLemmas` to keep `OK` and `Grows`; its loops
are unfolded by induction over the turns.

`StreamInv` adds what arrives. `Clean(x)`: what can be read is what the other end
wrote, and every saved byte lies in the buffer where its sequence number says. This
is kept only if no data comes before the connect message, which is a matter of the
handshake: `Opens` says that the client writes, and the server queues its own connect
message, only once the server has the client's; `Whole` that the client's connect message
is never split, so that it arrives at once; `Asleep` that before the client's first packet
nothing can have happened. `Level(x)` is the part of `Clean` that only counts bytes: as many
have become readable as m_rcv_nxt has moved past the connect message. It is kept whatever
comes before the connect message, and is all that `GracefulSound` needs. `StreamInv` has
`Clean` of the server and `Level` of the client; `Unharmed` adds `Clean` of the client,
which every step but `Overtaken` keeps.

For the refinement the steps are grouped by what they do to the application: a call that
neither reads, writes nor receives is Open, Close, Leave or Break of `ByteStream` or a
stutter; Send is Write of the bytes that fitted, Recv is Read, and a packet is Carry
of as many bytes as it makes readable, saved segments included (or one of the
former). `Clean` gives the bytes; `TcpInv` gives that no more arrive than were written, and
that an end that leaves after a graceful close has nothing left to carry.

### MediaChannel

| Theorem | States |
|---|---|
| `TypeCorrect` | `Spec => []TypeOK` |
| `EngineInStep` | `Spec => []EngineFollows` |
| `SendsSecurely` | `Spec => []SecureSend` |
| `MisreadsNothing` | `Spec => []NeverMisread` |
| `NegotiatesEndToEnd` | `Spec => []EndToEnd` |

`EndToEnd` speaks of quiet moments only, so it says nothing of how they are reached. The
invariant has a part for each channel (`Sound`: the engine was told what the state says,
and keys come with SRTP sessions), a part for what a policy implies (`Guarded`: a side
that requires encryption has an inactive filter only before its first answer), and
`Round`: the two sides are idle and their keys match, or one has an offer on its way, or
one has an offer that the other is answering; each stage says what both filters hold and
which descriptions are on their way. The filters are then shown to accept every
description that `Round` lets arrive, so no negotiation ends in an error.

### TunnelChannel

| Theorem | States | Under |
|---|---|---|
| `ValidMessages` | `Spec => []MessagesValid` | |
| `TellsCloseOnce` | `Spec => []CloseToldOnce` | |
| `LosesNoEvent` | `Spec => []NoLostEvent` | |
| `DeletesLast` | `Spec => []DeletedLast` | `Careful`: `~Early` and `Overlaps \subseteq {"main"}` |

The properties speak of the message a thread has in hand; whether it may come at all is
a matter of what was queued before. The invariant therefore counts messages in queue and
hand together (`Due`). `Wired`: the transport channel is there exactly while session and
worker thread are; a clock, or MSG_SI_DESTROYCHANNEL, is due only while it is; there is
one clock with a stream and there are at most two without; and one MSG_WK_PURGE is due
exactly between the end of the session and that of the worker thread. `Eventful`: events
are for the stream's thread, while there is a stream. `Staged`: what the session's state
says of the channel. `Closing` and `Hearing` count the events on their way; the second one
says too that `pending` (pending_read_event_) is set only with SE_READ on its way, since
the channel posts no other one while it is. For
`DeletesLast` there are two parts that hold for careful clients only, the ones of section
3: `Lasting` (no MSG_SI_DESTROY is due while session, worker thread or stream is left, and
at most one ever) and `Ordered` (with the stream on the signaling thread, MSG_STATE of an
ended session is queued before any MSG_SI_DESTROY).

What PseudoTcp does to the channel in one call is a chain of callbacks; each link is
shown to keep a transitive relation between records (`Talk`), so a call keeps it too.
Every action of `Next` then has a lemma of its own.

### IceChannel

| Theorem | States | Under |
|---|---|---|
| `TypeCorrect` | `Spec => []TypeOK` | |
| `DestroysUnused` | `Spec => []DeadUnused` | |
| `GivesInOnce` | `Spec => []RolesOnce` | |
| `ChannelFollowsItsConnections` | `Spec => []ChannelFollows` | `Proper`: the two do not both start as controlled |

The invariant (`IInv`) has a part for each agent and one for the two. `Safe`: a deleted
connection is exactly `NoConn`, so it waits for no response and no late one can revive
it; the queue holds MSG_DELETE for live connections only, which is why destroying a
connection must also clear its messages; and an agent without a protocol that has a
writable connection has a sort due. `Chosen` is `ChannelFollows` for one agent. Neither
is kept by looking at one assignment: a state change of a connection breaks `Chosen`
unless it marks the sort, so each handler of a connection is shown to keep the
transitive relation `Shift` (a best connection or a write state that changes leaves
`dirty` set), and only the sort, which re-establishes `Chosen`, clears it. Pruning
inside a sort may set `dirty` again; `SortedEffect` shows that if it does not, the choice
made before it still stands.

`Course` is what makes `RolesOnce` inductive: it fixes the roles r the two started
with and says that an agent that has switched, or has been told of a conflict, or is
about to be by an error on its way, is the loser of r by tie-breaker; and that every
request bears the first or the present role of its sender. An old request then
reports a conflict to the loser only (`ConflictCourse`).

The loops over connections are folds over sets. `FoldExists` shows that the function
behind such a fold exists, `FoldStays` that what each turn keeps the loop keeps, both by
induction over a set of numbers; each loop of the model has its instance
(`UpdateFold`, `PruneFold`, `IntroduceFold`).

### What is only model-checked

* All liveness properties (`WritableOrGone`, `SendsReturn`, `PostsDispatched`,
  `EverythingRead`, `IceChannel.Agreement`, `Released`): there is no reasoning about
  ENABLED and fairness here.
* `ThreadQueue.NotEarly`. It is an invariant of the run, not of all instances: the
  comparison of times is right for half a period of the clock, and nothing bounds how
  long a thread stays inside ReceiveSends between two looks at the clock.
* `PseudoTcp.InOrder` and `IsByteStream` have no theorem without a hypothesis,
  because they are false without one; the same goes for `Watched`, `Session.Agreement`
  and `NoEarlyCandidates`.

The library's induction theorems take a predicate as a parameter, which the provers
cannot instantiate. Where induction was needed it is over a set instead (`LeastNat`,
`SetInduction`, `Ranks` in `ListLemmas`, from the library's well-foundedness of `<`).

## 5. Not modelled, and the plan

Order of the next modules, most important first:

1. `Transport`: worker-thread state and the signaling thread's copies (readable,
   writable, connecting, candidates allocated), as an implementation of the transport
   events that `Session` assumes.
2. `SignalThread`, `SharedExclusiveLock` over an abstract mailbox that `ThreadQueue`
   implements; Stop and Join.
3. `XmppEngine`, login and registration against a server; roster; tasks.
4. `Relay`/`Turn` allocations, DTLS channel, port allocator phases, file sharing.

Further questions: a redirect must resend every candidate
(SendAllUnsentTransportInfoMessages does not remember what it sends), and delayed
messages across the wrap must leave in the order of their trigger times
(`DelayedMessage::operator<` compares them raw).

Left out for good: vendored SCTP, codecs and devices, XML and STUN encodings, TLS and
HTTP, platform code, and the example programs; they keep no protocol state of their
own that TLC could explore.
