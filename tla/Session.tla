------------------------------ MODULE Session ------------------------------
(***************************************************************************)
(* Two Jingle/Gingle sessions (cricket::Session, p2p/base/session.cc), one *)
(* at the initiator and one at the responder, each owned by a              *)
(* SessionManager (p2p/base/sessionmanager.cc) and run by one signaling    *)
(* thread, talking through an XMPP server that may delay, reorder, lose,   *)
(* duplicate, bounce and redirect their stanzas.                           *)
(*                                                                         *)
(* Every handler is an operator from a session record to a session record  *)
(* (with the stanzas it sends), so that the nested calls of the code, the  *)
(* client's calls out of a signal included, are nested operators here and  *)
(* one handler is one atomic step of the signaling thread.  What crosses   *)
(* threads or the network goes through "q" (the signaling thread's message *)
(* queue, restricted to this session and its transports) or "reqs"/"resps".*)
(***************************************************************************)
EXTENDS Integers, Sequences, FiniteSets

CONSTANTS
    Initiator, Responder,   \* the two peers
    Contents,               \* content names of the offer: one transport each
    Batches,                \* candidate batches a transport gathers
    ChannelUsers,           \* the peers whose client creates channels
    HangsUp,                \* the peers whose client terminates on its own
    Offers,                 \* what the offer is to the responder's client
    Answers,                \* the answers a client may give, see AnswerRec
    Replies,                \* what a client does inside SignalState
    Bounces,                \* error types the server may answer with
    Redirects,              \* addresses that redirect before the responder's
    MaxDup,                 \* bound: stanzas duplicated by the network
    MaxLoss,                \* bound: requests lost, timed out or bounced
    MaxFlap,                \* bound: channel writability changes and deletions
    MaxInfo                 \* bound: session-info / description-info requests

ASSUME PeersAssumption ==
    /\ Initiator # Responder
    /\ ChannelUsers \subseteq {Initiator, Responder}
    /\ HangsUp \subseteq {Initiator, Responder}
ASSUME BoundsAssumption ==
    /\ Redirects \in Nat /\ MaxDup \in Nat /\ MaxLoss \in Nat
    /\ MaxFlap \in Nat /\ MaxInfo \in Nat
ASSUME ChoicesAssumption ==
    /\ Offers \subseteq {"good", "unknown_type", "unacceptable"}
    /\ Replies \subseteq {"none", "reject", "terminate"} \cup DOMAIN Answers
    /\ Bounces \subseteq {"cancel", "wait", "redirect_other"}

\* An answer need not describe every content: a rejected one is not written to
\* the accept, and a transport may lack its description or refuse it.
AnswerRec ==
    [lists : SUBSET Contents,      \* the contents written to the accept
     local : SUBSET Contents,      \* reached by PushdownLocalTransportDescription
     connected : SUBSET Contents,  \* ... and their transports took it
     remote : SUBSET Contents]     \* reached by PushdownRemoteTransportDescription
ASSUME AnswersAssumption ==
    /\ DOMAIN Answers \cap {"null", "none", "reject", "terminate"} = {}
    /\ \A ans \in DOMAIN Answers :
          /\ Answers[ans] \in AnswerRec
          /\ Answers[ans].connected \subseteq Answers[ans].local
          /\ Answers[ans].remote \subseteq Answers[ans].lists

VARIABLES
    ses,     \* peer -> its session; state "NONE" when not in session_map_
    reqs,    \* IQ requests in flight
    resps,   \* IQ responses in flight
    left     \* what is left of the bounds

vars == <<ses, reqs, resps, left>>

Peers == {Initiator, Responder}
NoName == -1
Addresses == 0 .. Redirects
Candidate == [content : Contents, batch : Batches]

Ending == {"SENTREJECT", "RECEIVEDREJECT", "SENTTERMINATE", "RECEIVEDTERMINATE"}
State == Ending \cup
    {"NONE", "INIT", "SENTINITIATE", "RECEIVEDINITIATE", "SENTACCEPT",
     "RECEIVEDACCEPT", "INPROGRESS"}
Error == {"NONE", "TIME", "RESPONSE"}
Description == {"null", "good", "unknown_type", "unacceptable"} \cup DOMAIN Answers
Signalled == {<<"local", "offer">>, <<"remote", "offer">>,
              <<"local", "answer">>, <<"remote", "answer">>}

\* A message of the signaling thread's queue.  "of" is empty for the session's
\* own messages and holds, for a transport's, the transports that posted it:
\* a loop over the transports that posts once per transport is one entry.
SessionIds == {"STATE", "ERROR", "TIMEOUT"}
MessageIds == SessionIds \cup {"CONNECTING", "WRITESTATE"}
Message == {m \in [id : MessageIds, of : SUBSET Contents] :
                m.of = {} <=> m.id \in SessionIds}
Kinds == {"initiate", "accept", "reject", "terminate", "transport-info",
          "session-info", "description-info"}
Request == {r \in [kind : Kinds, from : Peers, to : Addresses \cup {NoName},
                   cands : SUBSET Candidate, desc : Description, await : BOOLEAN] :
                r.kind = "accept" => r.desc \in DOMAIN Answers}
Response == [to : Peers, of : Kinds, addr : Addresses \cup {NoName},
             etype : {"result", "modify", "redirect"} \cup Bounces]

SessionRec ==
    [state : State, error : Error, initiator : BOOLEAN,
     remote_name : Addresses \cup {NoName},
     local_description : Description, remote_description : Description,
     initiate_acked : BOOLEAN,
     channels : SUBSET Contents,       \* TransportProxy::channels_ not empty
     connecting : SUBSET Contents,     \* TransportProxy::connecting_
     negotiated : SUBSET Contents,     \* TransportProxy::negotiated_
     requested : SUBSET Contents,      \* Transport::connect_requested_
     chan_writable : SUBSET Contents,  \* the channel itself (worker thread)
     writable : SUBSET Contents,       \* Transport::writable_ (signaling thread)
     gathered : SUBSET Candidate,      \* candidates the transports have given
     unsent_candidates : SUBSET Candidate, sent_candidates : SUBSET Candidate,
     remote_candidates : SUBSET Candidate,
     told : SUBSET Signalled,          \* SignalNew{Local,Remote}Description
     timer : BOOLEAN,                  \* MSG_TIMEOUT delayed, not yet due
     q : Seq(Message)]

\* A Session just constructed by SessionManager::CreateSession.
NewSession(initiator) ==
    [state |-> "INIT", error |-> "NONE", initiator |-> initiator,
     remote_name |-> NoName, local_description |-> "null",
     remote_description |-> "null", initiate_acked |-> FALSE,
     channels |-> {}, connecting |-> {}, negotiated |-> {}, requested |-> {},
     chan_writable |-> {}, writable |-> {}, gathered |-> {},
     unsent_candidates |-> {}, sent_candidates |-> {}, remote_candidates |-> {},
     told |-> {}, timer |-> FALSE, q |-> <<>>]

\* DestroySession: out of session_map_ and deleted, which also removes the
\* session's and its transports' messages from the thread (~MessageHandler).
Destroyed(s) == [NewSession(s.initiator) EXCEPT !.state = "NONE"]

-----------------------------------------------------------------------------
(* Messages to the signaling thread and stanzas to the other peer          *)

\* Wrong variant of Post: the message does not say which transport posted it.
PostAnonymous(s, id, of) == [s EXCEPT !.q = Append(@, [id |-> id, of |-> {}])]
Post(s, id, of) == [s EXCEPT !.q = Append(@, [id |-> id, of |-> of])]

\* MessageQueue::Clear(this, MSG_TIMEOUT): the timer is always posted right
\* after a Clear, so there is at most one to remove (OneTimeout below).
IsTimeout(m) == m.id = "TIMEOUT"
ClearTimeout(q) ==
    IF \E i \in 1 .. Len(q) : IsTimeout(q[i])
    THEN LET i == CHOOSE i \in 1 .. Len(q) : IsTimeout(q[i])
         IN [j \in 1 .. Len(q) - 1 |-> IF j < i THEN q[j] ELSE q[j + 1]]
    ELSE q

PeerOf(s) == IF s.initiator THEN Initiator ELSE Responder
Other(p) == IF p = Initiator THEN Responder ELSE Initiator

\* Session::SendMessage: an IQ "set", whose answer a SessionSendTask awaits.
Stanza(s, kind, cands, desc) ==
    [kind |-> kind, from |-> PeerOf(s), to |-> s.remote_name, cands |-> cands,
     desc |-> desc, await |-> TRUE]
Plain(s, kind) == Stanza(s, kind, {}, "null")

\* One transport-info per transport that has candidates in cs.
SendTransportInfos(s, cs) ==
    {Stanza(s, "transport-info", {x \in cs : x.content = c}, "null") :
        c \in {x.content : x \in cs}}

Ret(s, out) == [s |-> s, out |-> out]

-----------------------------------------------------------------------------
(* BaseSession: states, errors, descriptions                               *)

\* Wrong variant of GetContentAction: a received answer is not announced.
GetContentActionNoAnswer(state) ==
    CASE state = "SENTINITIATE"     -> {<<"local", "offer">>}
      [] state = "SENTACCEPT"       -> {<<"local", "answer">>}
      [] state = "RECEIVEDINITIATE" -> {<<"remote", "offer">>}
      [] OTHER                      -> {}
GetContentAction(state) ==
    CASE state = "SENTINITIATE"     -> {<<"local", "offer">>}
      [] state = "SENTACCEPT"       -> {<<"local", "answer">>}
      [] state = "RECEIVEDINITIATE" -> {<<"remote", "offer">>}
      [] state = "RECEIVEDACCEPT"   -> {<<"remote", "answer">>}
      [] OTHER                      -> {}

SignalNewDescription(s) == [s EXCEPT !.told = @ \cup GetContentAction(s.state)]

SetState(s, state) ==
    SignalNewDescription(
        IF state = s.state THEN s
                           ELSE Post([s EXCEPT !.state = state], "STATE", {}))

\* Session::SetError posts MSG_ERROR even when the error is not new.
SetError(s, error) == Post([s EXCEPT !.error = error], "ERROR", {})

-----------------------------------------------------------------------------
(* TransportProxy and Transport, as far as the session drives them         *)

\* The transport has channels_: the proxy's channels have their impls once the
\* proxy is connecting or negotiated.
HasChannels(s, c) == c \in s.channels /\ c \in s.connecting \cup s.negotiated

CompleteNegotiation(s, C) == [s EXCEPT !.negotiated = @ \cup C]

\* TransportProxy::ConnectChannels on each of C; Transport::ConnectChannels_w
\* returns early when already requested or when there is no channel.
ConnectChannels(s, C) ==
    LET new == (C \cap s.channels) \ s.requested
        t == [s EXCEPT !.connecting = @ \cup C, !.requested = @ \cup new]
    IN IF new = {} THEN t ELSE Post(t, "CONNECTING", new)

\* Wrong variant of OnTransportWritable: no Clear before the timer is posted.
OnTransportWritableNoClear(s, c) ==
    [s EXCEPT !.timer = HasChannels(s, c) /\ c \notin s.writable]
\* Session::OnTransportWritable, and OnTransportConnecting which is the same.
OnTransportWritable(s, c) ==
    [s EXCEPT !.q = ClearTimeout(@),
              !.timer = HasChannels(s, c) /\ c \notin s.writable]

\* Candidates cs for the transports in C.  A candidate for a component that
\* has no channel is an error, after negotiation has been completed.
CandidatesFit(s, cs) == \A x \in cs : x.content \in s.channels
\* Wrong variant of OnRemoteCandidates: it counts on the pushdown having
\* completed the negotiation (the code's TODO to remove CompleteNegotiation).
OnRemoteCandidatesPushed(s, C, cs) ==
    IF CandidatesFit(s, cs)
    THEN ConnectChannels([s EXCEPT !.remote_candidates = @ \cup cs], C)
    ELSE s
OnRemoteCandidates(s, C, cs) ==
    LET t == CompleteNegotiation(s, C)
    IN IF CandidatesFit(s, cs)
       THEN ConnectChannels([t EXCEPT !.remote_candidates = @ \cup cs], C)
       ELSE t

-----------------------------------------------------------------------------
(* Session: what the client calls                                          *)

Initiate(s, offer) ==
    LET t == [s EXCEPT !.remote_name = 0, !.local_description = offer]
    IN Ret(SetState(ConnectChannels(t, Contents), "SENTINITIATE"),
           {Stanza(t, "initiate", {}, offer)})

\* Wrong variant of CanAnswer: an accepted session can still be rejected.
CanAnswerTwice(s) == s.state \in {"RECEIVEDINITIATE", "SENTACCEPT"}
\* The guard of Accept, Reject: any other state returns false, with no effect.
CanAnswer(s) == s.state = "RECEIVEDINITIATE"

\* PushdownTransportDescription skips the transports the answer does not
\* describe and stops at the first that refuses its description, which is then
\* negotiated but not connected; Accept goes on whatever it returns.
Accept(s, ans) ==
    IF ~CanAnswer(s) THEN Ret(s, {})
    ELSE LET t == CompleteNegotiation(
                      [s EXCEPT !.local_description = ans], Answers[ans].local)
         IN Ret(SetState(ConnectChannels(t, Answers[ans].connected), "SENTACCEPT"),
                {Stanza(t, "accept", {}, ans)})

Reject(s) ==
    IF ~CanAnswer(s) THEN Ret(s, {})
    ELSE Ret(SetState(s, "SENTREJECT"), {Plain(s, "reject")})

TerminateWithReason(s) ==
    IF s.state \in {"SENTTERMINATE", "RECEIVEDTERMINATE"} THEN Ret(s, {})
    ELSE Ret(SetState(s, "SENTTERMINATE"),
             IF s.state \in {"SENTREJECT", "RECEIVEDREJECT"}
             THEN {} ELSE {Plain(s, "terminate")})

\* What a client that listens to SignalState does before SignalState returns.
ClientReply(s, reply) ==
    CASE reply \in DOMAIN Answers -> Accept(s, reply)
      [] reply = "reject"          -> Reject(s)
      [] reply = "terminate"       -> TerminateWithReason(s)
      [] OTHER                     -> Ret(s, {})

-----------------------------------------------------------------------------
(* Session: candidates and the acknowledgement of the initiate             *)

\* Wrong variant of OnTransportProxyCandidatesReady: sends before the ack.
CandidatesReadyUnheld(s, cs) ==
    Ret([s EXCEPT !.gathered = @ \cup cs], SendTransportInfos(s, cs))
OnTransportProxyCandidatesReady(s, cs) ==
    LET t == [s EXCEPT !.gathered = @ \cup cs]
        fresh == {x \in cs : x.content \notin s.negotiated}
    IN IF s.initiator /\ ~s.initiate_acked
       THEN Ret([t EXCEPT !.unsent_candidates = @ \cup cs], {})
       ELSE Ret([t EXCEPT !.sent_candidates = @ \cup fresh],
                SendTransportInfos(s, cs))

OnInitiateAcked(s) ==
    IF s.initiate_acked THEN Ret(s, {})
    ELSE Ret([s EXCEPT !.initiate_acked = TRUE, !.unsent_candidates = {}],
             SendTransportInfos(s, s.unsent_candidates))

-----------------------------------------------------------------------------
(* Session: incoming requests.  Each handler returns whether the message   *)
(* was valid: the answer is a result if it was and an error otherwise.     *)

Valid(s, out) == [s |-> s, out |-> out, valid |-> TRUE]
Invalid(s, out) == [s |-> s, out |-> out, valid |-> FALSE]
CheckState(s, expected) == s.state = expected

\* SetState(STATE_RECEIVEDINITIATE) runs the client inside SignalState, before
\* it posts MSG_STATE and signals the description of the state it then finds.
OnInitiateMessage(s, r, reply) ==
    IF ~CheckState(s, "INIT") \/ r.desc = "unacceptable" THEN Invalid(s, {})
    ELSE LET t == [s EXCEPT !.remote_name = 0, !.remote_description = r.desc,
                            !.state = "RECEIVEDINITIATE"]
             h == ClientReply(t, reply)
             u == SignalNewDescription(Post(h.s, "STATE", {}))
         IN Valid(IF u.state = "SENTREJECT" THEN u
                  ELSE OnRemoteCandidates(u, Contents, {}), h.out)

\* The pushdown of the answer may stop early, unnoticed; the transports the
\* accept lists are given their candidates (none yet) after SetState.
TakeAnswer(s, ans) ==
    LET t == CompleteNegotiation(
                 [s EXCEPT !.remote_description = ans], Answers[ans].remote)
    IN OnRemoteCandidates(SetState(t, "RECEIVEDACCEPT"), Answers[ans].lists, {})

\* Wrong variant of OnAcceptMessage: no CheckState.
OnAcceptMessageAnyState(s, r) ==
    LET h == OnInitiateAcked(s) IN Valid(TakeAnswer(h.s, r.desc), h.out)
OnAcceptMessage(s, r) ==
    IF ~CheckState(s, "SENTINITIATE") THEN Invalid(s, {})
    ELSE LET h == OnInitiateAcked(s) IN Valid(TakeAnswer(h.s, r.desc), h.out)

OnRejectMessage(s) ==
    IF ~CheckState(s, "SENTINITIATE") THEN Invalid(s, {})
    ELSE Valid(SetState(s, "RECEIVEDREJECT"), {})

\* Wrong variant of OnTerminateMessage: assigns state_ instead of SetState.
OnTerminateMessageDirect(s) == Valid([s EXCEPT !.state = "RECEIVEDTERMINATE"], {})
OnTerminateMessage(s) == Valid(SetState(s, "RECEIVEDTERMINATE"), {})

OnTransportInfoMessage(s, r) ==
    LET t == OnRemoteCandidates(s, {x.content : x \in r.cands}, r.cands)
    IN IF CandidatesFit(s, r.cands) THEN Valid(t, {}) ELSE Invalid(t, {})

\* session-info is only passed on to the client.
OnInfoMessage(s) == Valid(s, {})

\* description-info is passed on to the client of a session in progress only.
OnDescriptionInfoMessage(s) ==
    IF CheckState(s, "INPROGRESS") THEN Valid(s, {}) ELSE Invalid(s, {})

OnIncomingMessage(s, r, reply) ==
    CASE r.kind = "initiate"       -> OnInitiateMessage(s, r, reply)
      [] r.kind = "accept"         -> OnAcceptMessage(s, r)
      [] r.kind = "reject"         -> OnRejectMessage(s)
      [] r.kind = "terminate"      -> OnTerminateMessage(s)
      [] r.kind = "transport-info" -> OnTransportInfoMessage(s, r)
      [] r.kind = "session-info"   -> OnInfoMessage(s)
      [] OTHER                     -> OnDescriptionInfoMessage(s)

\* SessionManager::FindSession: by id and by the bare JID of the other side,
\* which a session that never got through Initiate/OnInitiateMessage lacks.
FindSession(s) == s.state # "NONE" /\ s.remote_name # NoName

ManagerOnIncomingMessage(s, r, reply) ==
    IF FindSession(s) THEN OnIncomingMessage(s, r, reply)
    ELSE IF r.kind # "initiate" \/ r.desc = "unknown_type" THEN Invalid(s, {})
    ELSE OnIncomingMessage(NewSession(FALSE), r, reply)

-----------------------------------------------------------------------------
(* Session: responses and failed sends                                     *)

\* The redirect target has the same bare JID, or another one.
OnRedirectError(s, target) ==
    LET t == [s EXCEPT !.remote_name = target]
    IN Ret([t EXCEPT !.sent_candidates = {}],
           {Stanza(t, "initiate", {}, t.local_description)}
               \cup SendTransportInfos(t, s.sent_candidates))

OnFailedSend(s, m) ==
    LET ignored == /\ m.etype \notin {"redirect", "redirect_other"}
                   /\ m.of = "transport-info" \/ m.etype = "wait"
    IN IF m.etype = "redirect" /\ CheckState(s, "SENTINITIATE")
       THEN OnRedirectError(s, m.addr + 1)
       ELSE IF ignored THEN Ret(s, {}) ELSE Ret(SetError(s, "RESPONSE"), {})

ManagerOnResponse(s, m) ==
    IF s.state = "NONE" \/ (m.addr = NoName) # (s.remote_name = NoName)
    THEN Ret(s, {})
    ELSE IF m.etype # "result" THEN OnFailedSend(s, m)
    ELSE IF m.of = "initiate" THEN OnInitiateAcked(s) ELSE Ret(s, {})

-----------------------------------------------------------------------------
(* Session::OnMessage, BaseSession::OnMessage, Transport::OnMessage        *)

\* Wrong variant of OnStateMessage: only a received terminate destroys.
OnStateMessageSentStays(s) ==
    IF s.state \in {"SENTACCEPT", "RECEIVEDACCEPT"}
    THEN Ret(SetState(s, "INPROGRESS"), {})
    ELSE IF s.state \in {"SENTREJECT", "RECEIVEDREJECT"}
    THEN TerminateWithReason(s)
    ELSE IF s.state = "RECEIVEDTERMINATE"
    THEN Ret(Destroyed(s), {})
    ELSE Ret(s, {})
OnStateMessage(s) ==
    IF s.state \in {"SENTACCEPT", "RECEIVEDACCEPT"}
    THEN Ret(SetState(s, "INPROGRESS"), {})
    ELSE IF s.state \in {"SENTREJECT", "RECEIVEDREJECT"}
    THEN TerminateWithReason(s)
    ELSE IF s.state \in {"SENTTERMINATE", "RECEIVEDTERMINATE"}
    THEN Ret(Destroyed(s), {})
    ELSE Ret(s, {})

OnSessionMessage(s, id) ==
    CASE id = "STATE"   -> OnStateMessage(s)
      [] id = "ERROR"   -> TerminateWithReason(s)
      [] id = "TIMEOUT" -> Ret(SetError(s, "TIME"), {})
      [] OTHER          -> Ret(s, {})

\* Wrong variant of OnTransportMessage: losing writability is not reported.
OnTransportMessageGainOnly(s, id, c) ==
    LET now == c \in s.chan_writable /\ HasChannels(s, c)
        t == [s EXCEPT !.writable = IF now THEN @ \cup {c} ELSE @ \ {c}]
    IN IF id = "CONNECTING" THEN OnTransportWritable(s, c)
       ELSE IF now THEN OnTransportWritable(t, c) ELSE t
\* MSG_WRITESTATE reads the channel's state when it is handled, not when it
\* was posted; MSG_CONNECTING always reaches the session.
OnTransportMessage(s, id, c) ==
    LET now == c \in s.chan_writable /\ HasChannels(s, c)
        t == [s EXCEPT !.writable = IF now THEN @ \cup {c} ELSE @ \ {c}]
    IN IF id = "CONNECTING" THEN OnTransportWritable(s, c)
       ELSE IF (c \in s.writable) = now THEN s
       ELSE OnTransportWritable(t, c)

-----------------------------------------------------------------------------
(* The specification                                                       *)

Init ==
    /\ ses = [p \in Peers |-> IF p = Initiator THEN NewSession(TRUE)
                                               ELSE Destroyed(NewSession(FALSE))]
    /\ reqs = {}
    /\ resps = {}
    /\ left = [dup |-> MaxDup, loss |-> MaxLoss, flap |-> MaxFlap,
               info |-> MaxInfo]

Alive(p) == ses[p].state # "NONE"
Use(bound) == left[bound] > 0 /\ left' = [left EXCEPT ![bound] = @ - 1]

\* Peer p's signaling thread runs handler h.
Run(p, h) == /\ ses' = [ses EXCEPT ![p] = h.s]
             /\ reqs' = reqs \cup h.out

\* SessionClient calls Session::Initiate, from STATE_INIT only.
DoInitiate(p, offer) ==
    /\ ses[p].state = "INIT" /\ ses[p].initiator
    /\ Run(p, Initiate(ses[p], offer))
    /\ UNCHANGED <<resps, left>>

DoAccept(p, ans) ==
    /\ CanAnswer(ses[p])
    /\ Run(p, Accept(ses[p], ans))
    /\ UNCHANGED <<resps, left>>

DoReject(p) ==
    /\ CanAnswer(ses[p])
    /\ Run(p, Reject(ses[p]))
    /\ UNCHANGED <<resps, left>>

DoTerminate(p) ==
    /\ Alive(p) /\ p \in HangsUp
    /\ Run(p, TerminateWithReason(ses[p]))
    /\ UNCHANGED <<resps, left>>

\* SendInfoMessage / SendDescriptionInfoMessage to the remote side.
SendInfo(p, kind) ==
    /\ FindSession(ses[p])
    /\ Use("info")
    /\ Run(p, Ret(ses[p], {Plain(ses[p], kind)}))
    /\ UNCHANGED resps

\* BaseSession::CreateChannel: the impl is created at once, and told to
\* connect, when the proxy and the transport have got that far already.
CreateChannel(p, c) ==
    /\ Alive(p) /\ p \in ChannelUsers /\ c \notin ses[p].channels
    /\ LET t == [ses[p] EXCEPT !.channels = @ \cup {c}]
       IN Run(p, Ret(IF c \in t.requested THEN Post(t, "CONNECTING", {c}) ELSE t,
                     {}))
    /\ UNCHANGED <<resps, left>>

\* BaseSession::DestroyChannel: Transport::DestroyChannel_w posts
\* MSG_CONNECTING for the last channel and MSG_WRITESTATE for its impl.
DestroyChannel(p, c) ==
    /\ Alive(p) /\ c \in ses[p].channels
    /\ Use("flap")
    /\ LET t == [ses[p] EXCEPT !.channels = @ \ {c}, !.chan_writable = @ \ {c}]
           u == IF c \in t.requested THEN Post(t, "CONNECTING", {c}) ELSE t
       IN Run(p, Ret(Post(u, "WRITESTATE", {c}), {}))
    /\ UNCHANGED resps

\* The worker thread sees a channel become writable or stop being so.
OnChannelWritableState(p, c) ==
    /\ Alive(p) /\ c \in ses[p].requested \cap ses[p].channels
    /\ Use("flap")
    /\ LET t == [ses[p] EXCEPT !.chan_writable =
                     IF c \in @ THEN @ \ {c} ELSE @ \cup {c}]
       IN Run(p, Ret(Post(t, "WRITESTATE", {c}), {}))
    /\ UNCHANGED resps

\* Transport hands a batch of gathered candidates to the session.
CandidatesReady(p, c, b) ==
    LET x == [content |-> c, batch |-> b]
    IN /\ Alive(p) /\ c \in ses[p].requested
       /\ x \notin ses[p].gathered
       /\ Run(p, OnTransportProxyCandidatesReady(ses[p], {x}))
       /\ UNCHANGED <<resps, left>>

\* The delayed MSG_TIMEOUT is due: it joins the thread's queue.
TimerFires(p) ==
    /\ ses[p].timer
    /\ Run(p, Ret(Post([ses[p] EXCEPT !.timer = FALSE], "TIMEOUT", {}), {}))
    /\ UNCHANGED <<resps, left>>

\* The signaling thread takes the first message of its queue and dispatches it.
Pop(s) == [s EXCEPT !.q = Tail(@)]
DispatchSession(p) ==
    /\ ses[p].q # <<>> /\ Head(ses[p].q).of = {}
    /\ Run(p, OnSessionMessage(Pop(ses[p]), Head(ses[p].q).id))
    /\ UNCHANGED <<resps, left>>

DispatchTransport(p) ==
    /\ ses[p].q # <<>>
    /\ \E c \in Head(ses[p].q).of :
          LET rest == Head(ses[p].q).of \ {c}
              s == IF rest = {} THEN Pop(ses[p])
                   ELSE [ses[p] EXCEPT !.q[1].of = rest]
          IN Run(p, Ret(OnTransportMessage(s, Head(ses[p].q).id, c), {}))
    /\ UNCHANGED <<resps, left>>

\* Request r reaches the session manager of the peer it is addressed to.
Reachable(r) == r.from = Responder \/ r.to = Redirects
Answer(r, etype) ==
    IF r.await THEN {[to |-> r.from, of |-> r.kind, addr |-> r.to,
                      etype |-> etype]}
               ELSE {}
Handle(r, reply, rest) ==
    LET p == Other(r.from)
        h == ManagerOnIncomingMessage(ses[p], r, reply)
    IN /\ Reachable(r) /\ r.to # NoName
       /\ ses' = [ses EXCEPT ![p] = h.s]
       /\ reqs' = rest \cup h.out
       /\ resps' = resps \cup Answer(r, IF h.valid THEN "result" ELSE "modify")

Deliver(r, reply) == Handle(r, reply, reqs \ {r}) /\ UNCHANGED left

\* The server delivers r and will deliver it again: the second answer finds no
\* SessionSendTask.  Assumed: an initiate the client cannot parse is not
\* repeated (it would overwrite the session it left in session_map_).
DeliverAndRepeat(r, reply) ==
    /\ r.desc # "unacceptable"
    /\ Handle(r, reply, (reqs \ {r}) \cup {[r EXCEPT !.await = FALSE]})
    /\ Use("dup")

\* An address before the responder's answers: it redirects to the next one or
\* takes the request without an error.
RedirectorAnswers(r) ==
    /\ r.from = Initiator /\ r.to \in 0 .. Redirects - 1
    /\ reqs' = reqs \ {r}
    /\ \E etype \in {"result", "redirect"} :
          /\ etype = "redirect" => r.kind \in {"initiate", "transport-info"}
          /\ resps' = resps \cup Answer(r, etype)
    /\ UNCHANGED <<ses, left>>

\* The server bounces a request instead of delivering it.
Bounce(r, etype) ==
    /\ Use("loss") /\ r.await
    /\ reqs' = reqs \ {r}
    /\ resps' = resps \cup Answer(r, etype)
    /\ UNCHANGED ses

Receive(m) ==
    /\ Run(m.to, ManagerOnResponse(ses[m.to], m))
    /\ resps' = resps \ {m}
    /\ UNCHANGED left

\* SessionSendTask::OnTimeout: no answer in time, because the request or its
\* answer was lost, or because the request is late and still to come.
NoAnswer(p, kind, addr) ==
    ManagerOnResponse(ses[p], [to |-> p, of |-> kind, addr |-> addr,
                               etype |-> "cancel"])
LoseRequest(r) ==
    LET h == NoAnswer(r.from, r.kind, r.to)
    IN /\ r.await /\ Use("loss")
       /\ ses' = [ses EXCEPT ![r.from] = h.s]
       /\ \E late \in {{}, {[r EXCEPT !.await = FALSE]}} :
             reqs' = (reqs \ {r}) \cup late \cup h.out
       /\ UNCHANGED resps

LoseResponse(m) ==
    /\ Use("loss")
    /\ Run(m.to, NoAnswer(m.to, m.of, m.addr))
    /\ resps' = resps \ {m}

Client(p) ==
    \/ \E offer \in Offers : DoInitiate(p, offer)
    \/ \E ans \in DOMAIN Answers : DoAccept(p, ans)
    \/ DoReject(p)
    \/ DoTerminate(p)
    \/ \E kind \in {"session-info", "description-info"} : SendInfo(p, kind)
    \/ \E c \in Contents : CreateChannel(p, c) \/ DestroyChannel(p, c)

Worker(p) ==
    \E c \in Contents : \/ OnChannelWritableState(p, c)
                        \/ \E b \in Batches : CandidatesReady(p, c, b)

Thread(p) == DispatchSession(p) \/ DispatchTransport(p)

Network ==
    \/ \E r \in reqs :
          \/ \E reply \in Replies : Deliver(r, reply) \/ DeliverAndRepeat(r, reply)
          \/ RedirectorAnswers(r)
          \/ \E etype \in Bounces : Bounce(r, etype)
          \/ LoseRequest(r)
    \/ \E m \in resps : Receive(m) \/ LoseResponse(m)

Next == \/ Network
        \/ \E p \in Peers : \/ Client(p) \/ Worker(p) \/ Thread(p)
                            \/ TimerFires(p)

\* A thread that can run takes its next message, and a timer expires.
Fairness == \A p \in Peers : WF_vars(Thread(p)) /\ WF_vars(TimerFires(p))

Spec == Init /\ [][Next]_vars
FairSpec == Spec /\ Fairness

-----------------------------------------------------------------------------
(* Properties                                                              *)

\* Every session, stanza and bound has its type.
TypeOK ==
    /\ ses \in [Peers -> SessionRec]
    /\ reqs \subseteq Request
    /\ resps \subseteq Response
    /\ left \in [{"dup", "loss", "flap", "info"} -> Nat]

Queued(s, id) == \E i \in 1 .. Len(s.q) : s.q[i].id = id
QueuedFor(s, id, c) == \E i \in 1 .. Len(s.q) : s.q[i].id = id /\ c \in s.q[i].of

StatePending(s) ==
    s.state \in Ending \cup {"SENTACCEPT", "RECEIVEDACCEPT"} => Queued(s, "STATE")

\* A state that only MSG_STATE moves on from (accept to in progress, reject to
\* terminate, terminate to DestroySession) always has a MSG_STATE queued: no
\* interleaving of client calls inside SignalState, errors, timeouts and
\* repeated stanzas strands a session in such a state.
PendingState == \A p \in Peers : StatePending(ses[p])

AtMostOneTimeout(s) ==
    /\ s.timer => ~Queued(s, "TIMEOUT")
    /\ \A i, j \in 1 .. Len(s.q) :
          s.q[i].id = "TIMEOUT" /\ s.q[j].id = "TIMEOUT" => i = j

\* OnTransportWritable clears MSG_TIMEOUT before it posts it again, so there is
\* never more than one, delayed or queued, however writability flaps.
OneTimeout == \A p \in Peers : AtMostOneTimeout(ses[p])

TransportWatched(s, c) ==
    c \in s.requested \cap s.channels /\ c \notin s.writable =>
        \/ s.timer \/ QueuedFor(s, "CONNECTING", c)
        \/ Queued(s, "TIMEOUT") \/ Queued(s, "ERROR")
        \/ s.state \in Ending

\* The watchdog of OnTransportConnecting/OnTransportWritable: a transport that
\* has begun connecting and is not writable is being timed, or its session has
\* already got the error or is ending (session.h, "to make sure that the
\* connection completes in a reasonable amount of time").
Watched == \A p \in Peers : \A c \in Contents : TransportWatched(ses[p], c)

\* The contents the other side has described: in its accept, or in its offer.
Agreed(s) == IF s.initiator THEN Answers[s.remote_description].lists ELSE Contents

\* What the two sides agreed to use is set up although pushdowns fail silently:
\* past the accept both descriptions are there to be dereferenced, and every
\* transport the accept lists (at the responder, every one of the offer) is
\* negotiated and told to connect.  And a session that FindSession returns has
\* the initiator's description, which OnTransportInfoMessage dereferences.
Negotiated ==
    \A p \in Peers : LET s == ses[p] IN
        /\ s.state \in {"SENTACCEPT", "RECEIVEDACCEPT", "INPROGRESS"} =>
              /\ s.local_description # "null" /\ s.remote_description # "null"
              /\ Agreed(s) \subseteq s.negotiated \cap s.connecting
        /\ FindSession(s) =>
              (IF s.initiator THEN s.local_description
                              ELSE s.remote_description) # "null"

\* While the network repeats nothing, an initiator that counts the session as
\* accepted faces a responder that accepted it: rejects, errors and late
\* stanzas never leave one side in a call the other has not taken.
Agreement ==
    ses[Initiator].state \in {"RECEIVEDACCEPT", "INPROGRESS"} =>
        ses[Responder].state \notin {"INIT", "RECEIVEDINITIATE", "SENTREJECT"}

\* OnTransportProxyCandidatesReady holds candidates back until the initiate is
\* acknowledged "to work around server re-ordering": a transport-info and the
\* initiate that still awaits its answer are never in flight together, so no
\* reordering makes the responder see candidates of a session it has not met.
NoEarlyCandidates ==
    \A r1, r2 \in reqs :
        ~ /\ r1.kind = "initiate" /\ r1.await
          /\ r2.kind = "transport-info" /\ r2.from = Initiator

\* The descriptions a session's media channels wait for ("Fired when SetState is
\* called", session.h) have been signalled once it is in progress: offer and
\* answer at the initiator, its own answer at the responder, even when that
\* client accepts from inside SignalState and the outer SetState then describes
\* a state that is no longer the one it set.  (The remote offer is lost then.)
DescriptionsSignalled ==
    \A p \in Peers : LET s == ses[p] IN
        s.state = "INPROGRESS" =>
            (IF s.initiator THEN {<<"local", "offer">>, <<"remote", "answer">>}
                            ELSE {<<"local", "answer">>}) \subseteq s.told

\* Rejected or terminated is for good: a session that FindSession knows and
\* that is ending only goes on to another ending state or out of session_map_,
\* never back to life, whatever late or repeated stanza arrives.
EndingStays ==
    [][\A p \in Peers : ses[p].state \in Ending /\ FindSession(ses[p]) =>
           ses'[p].state \in Ending \cup {"NONE"}]_vars

\* A transport that has begun connecting becomes writable or loses its channel,
\* or the session is torn down: no session waits for ever on a dead transport.
WritableOrGone ==
    \A p \in Peers : \A c \in Contents :
        (c \in ses[p].requested \cap ses[p].channels /\ c \notin ses[p].writable)
            ~> (\/ c \in ses[p].writable \/ c \notin ses[p].channels
                \/ ses[p].state = "NONE")
=============================================================================
