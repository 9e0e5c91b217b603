--------------------------- MODULE SessionProofs ---------------------------
(***************************************************************************)
(* Theorems about Session, for any contents, candidates, redirects, client *)
(* behaviour and bounds: the type invariant, that no session is stranded   *)
(* (PendingState), that there is never more than one timeout (OneTimeout), *)
(* and that a session that is ending stays so (EndingStays).               *)
(*                                                                         *)
(* The argument is per session: Good(s) is the inductive invariant of one  *)
(* session record, and each handler of Session is shown to be Fine, that   *)
(* is, to take good sessions to good sessions, to leave ending ones ending *)
(* and to send well-formed stanzas only.  A step of Next runs one handler  *)
(* on one session, so it preserves the conjunction over the peers.         *)
(*                                                                         *)
(* The second part needs more than Good: the descriptions a session has    *)
(* and has signalled in each state (Negotiated, DescriptionsSignalled),    *)
(* the watchdog of a single transport (Watched), and what the two peers    *)
(* know of each other while the network repeats and redirects nothing      *)
(* (Agreement, NoEarlyCandidates).  Settled(s) is again a property of one  *)
(* session record, preserved by each handler; OnceInv relates the two      *)
(* sessions and the stanzas between them.  A handler is Quiet when it      *)
(* neither opens nor answers the call, which is all that OnceInv has to    *)
(* know of most of them.                                                   *)
(***************************************************************************)
EXTENDS Session, TLAPS

Good(s) == s \in SessionRec /\ StatePending(s) /\ AtMostOneTimeout(s)
Keeps(s, t) ==
    s.state \in Ending /\ FindSession(s) => t.state \in Ending \cup {"NONE"}
Fine(s, h) == Good(h.s) /\ Keeps(s, h.s) /\ h.out \in SUBSET Request

RedirectsLead == \A m \in resps : m.etype = "redirect" => m.addr + 1 \in Addresses

IInv == TypeOK /\ RedirectsLead /\ \A p \in Peers : Good(ses[p])

\* The message ids are expanded throughout.
USE DEF MessageIds, SessionIds

-----------------------------------------------------------------------------
(* The queue                                                               *)

LEMMA AppendQ ==
    ASSUME NEW x \in Seq(Message), NEW m \in Message
    PROVE  /\ Append(x, m) \in Seq(Message)
           /\ Len(Append(x, m)) = Len(x) + 1
           /\ \A i \in 1 .. Len(x) : Append(x, m)[i] = x[i]
           /\ Append(x, m)[Len(x) + 1] = m
  OBVIOUS

\* What the updates of a session record leave alone.
LEMMA WithQ ==
    ASSUME NEW s \in SessionRec, NEW x \in Seq(Message)
    PROVE  /\ [s EXCEPT !.q = x] \in SessionRec
           /\ [s EXCEPT !.q = x].q = x
           /\ [s EXCEPT !.q = x].state = s.state
           /\ [s EXCEPT !.q = x].timer = s.timer
  BY DEF SessionRec

\* A session keeps being Good while its state, queue and timer are the same.
LEMMA SameGood ==
    ASSUME NEW s, NEW t \in SessionRec, Good(s),
           t.state = s.state, t.q = s.q, t.timer = s.timer
    PROVE  Good(t) /\ Keeps(s, t)
  BY DEF Good, Keeps, StatePending, AtMostOneTimeout, Queued

\* Post appends, so it loses nothing and adds its own message only.
LEMMA PostRec ==
    ASSUME NEW s \in SessionRec,
           NEW id \in MessageIds, NEW of \in SUBSET Contents,
           of = {} <=> id \in SessionIds
    PROVE  /\ Post(s, id, of) \in SessionRec
           /\ Post(s, id, of).state = s.state /\ Post(s, id, of).timer = s.timer
           /\ Queued(Post(s, id, of), id)
           /\ \A x : Queued(s, x) => Queued(Post(s, id, of), x)
           /\ \A x : Queued(Post(s, id, of), x) => Queued(s, x) \/ x = id
           /\ AtMostOneTimeout(s) /\ id # "TIMEOUT" =>
                  AtMostOneTimeout(Post(s, id, of))
           /\ ~s.timer /\ ~Queued(s, "TIMEOUT") =>
                  AtMostOneTimeout(Post(s, id, of))
  <1> DEFINE m == [id |-> id, of |-> of]
             t == Post(s, id, of)
  <1>1. s.q \in Seq(Message) BY DEF SessionRec
  <1>2. m \in Message /\ m.id = id BY DEF Message
  <1> HIDE DEF m
  <1>3. /\ t.q = Append(s.q, m) /\ t \in SessionRec
        /\ t.state = s.state /\ t.timer = s.timer
    BY <1>1, <1>2, AppendQ, WithQ DEF Post, m
  <1> HIDE DEF t
  <1>4. /\ Queued(t, id)
        /\ \A x : Queued(s, x) => Queued(t, x)
        /\ \A x : Queued(t, x) => Queued(s, x) \/ x = id
    BY <1>1, <1>2, <1>3, AppendQ DEF Queued
  <1>5. AtMostOneTimeout(s) /\ id # "TIMEOUT" => AtMostOneTimeout(t)
    BY <1>1, <1>2, <1>3, AppendQ DEF AtMostOneTimeout, Queued
  <1>6. ~s.timer /\ ~Queued(s, "TIMEOUT") => AtMostOneTimeout(t)
    BY <1>1, <1>2, <1>3, AppendQ DEF AtMostOneTimeout, Queued
  <1> QED BY <1>3, <1>4, <1>5, <1>6 DEF t

LEMMA PostGood ==
    ASSUME NEW s, Good(s),
           NEW id \in MessageIds \ {"TIMEOUT"}, NEW of \in SUBSET Contents,
           of = {} <=> id \in SessionIds
    PROVE  Good(Post(s, id, of)) /\ Keeps(s, Post(s, id, of))
  BY PostRec DEF Good, Keeps, StatePending

\* ClearTimeout removes the timeout and nothing else.
LEMMA ClearQ ==
    ASSUME NEW x \in Seq(Message),
           \A i, j \in 1 .. Len(x) : x[i].id = "TIMEOUT" /\ x[j].id = "TIMEOUT" => i = j
    PROVE  /\ ClearTimeout(x) \in Seq(Message)
           /\ \A i \in 1 .. Len(ClearTimeout(x)) : ClearTimeout(x)[i].id # "TIMEOUT"
           /\ \A id : id # "TIMEOUT" /\ (\E i \in 1 .. Len(x) : x[i].id = id) =>
                 \E i \in 1 .. Len(ClearTimeout(x)) : ClearTimeout(x)[i].id = id
  <1>1. CASE \E i \in 1 .. Len(x) : IsTimeout(x[i])
    <2> DEFINE k == CHOOSE i \in 1 .. Len(x) : IsTimeout(x[i])
               y == [j \in 1 .. Len(x) - 1 |-> IF j < k THEN x[j] ELSE x[j + 1]]
    <2>1. k \in 1 .. Len(x) /\ x[k].id = "TIMEOUT" BY <1>1 DEF IsTimeout
    <2>2. ClearTimeout(x) = y BY <1>1 DEF ClearTimeout
    <2> HIDE DEF k
    <2>3. /\ y \in Seq(Message) /\ Len(y) = Len(x) - 1
      <3>1. Len(x) \in Nat /\ Len(x) - 1 \in Nat BY <2>1
      <3>2. \A j \in 1 .. Len(x) - 1 : (IF j < k THEN x[j] ELSE x[j + 1]) \in Message
        BY <2>1, <3>1
      <3> QED BY <3>1, <3>2
    <2>4. \A i \in 1 .. Len(y) : y[i].id # "TIMEOUT" BY <2>1, <2>3
    <2>5. \A i \in 1 .. Len(x) : i < k => y[i] = x[i] /\ i \in 1 .. Len(y)
      BY <2>1, <2>3
    <2>6. \A i \in 1 .. Len(x) : i > k => y[i - 1] = x[i] /\ i - 1 \in 1 .. Len(y)
      BY <2>1, <2>3
    <2>7. \A i \in 1 .. Len(x) : i < k \/ i > k \/ i = k BY <2>1
    <2> HIDE DEF y
    <2> QED BY <2>1, <2>2, <2>3, <2>4, <2>5, <2>6, <2>7
  <1>2. CASE ~\E i \in 1 .. Len(x) : IsTimeout(x[i])
    BY <1>2 DEF ClearTimeout, IsTimeout
  <1> QED BY <1>1, <1>2

\* Taking the first message off the queue.
LEMMA PopRec ==
    ASSUME NEW s \in SessionRec, s.q # <<>>, AtMostOneTimeout(s)
    PROVE  /\ Head(s.q) \in Message
           /\ Pop(s) \in SessionRec /\ Pop(s).state = s.state /\ Pop(s).timer = s.timer
           /\ AtMostOneTimeout(Pop(s))
           /\ Head(s.q).id = "TIMEOUT" => ~Queued(Pop(s), "TIMEOUT")
           /\ \A x : Queued(s, x) => Queued(Pop(s), x) \/ Head(s.q).id = x
  <1>1. s.q \in Seq(Message) BY DEF SessionRec
  <1>2. /\ Head(s.q) \in Message /\ Tail(s.q) \in Seq(Message)
        /\ Head(s.q) = s.q[1] /\ Len(Tail(s.q)) = Len(s.q) - 1 /\ Len(s.q) > 0
        /\ \A i \in 1 .. Len(s.q) - 1 : Tail(s.q)[i] = s.q[i + 1]
    BY <1>1
  <1> DEFINE t == Pop(s)
  <1>3. t \in SessionRec /\ t.q = Tail(s.q) /\ t.state = s.state /\ t.timer = s.timer
    BY <1>2, WithQ DEF Pop
  <1> HIDE DEF t
  <1>4. \A i \in 1 .. Len(t.q) : t.q[i] = s.q[i + 1] /\ i + 1 \in 1 .. Len(s.q)
    BY <1>1, <1>2, <1>3
  <1>5. \A i \in 1 .. Len(s.q) : i = 1 \/ (i - 1 \in 1 .. Len(t.q) /\ t.q[i - 1] = s.q[i])
    BY <1>1, <1>2, <1>3
  <1>6. \A x : Queued(t, x) => Queued(s, x) BY <1>4 DEF Queued
  <1>7. \A x : Queued(s, x) => Queued(t, x) \/ Head(s.q).id = x
    BY <1>2, <1>5 DEF Queued
  <1>8. AtMostOneTimeout(t)
    <2>1. t.timer => ~Queued(t, "TIMEOUT") BY <1>3, <1>6 DEF AtMostOneTimeout
    <2>2. ASSUME NEW i \in 1 .. Len(t.q), NEW j \in 1 .. Len(t.q),
                 t.q[i].id = "TIMEOUT", t.q[j].id = "TIMEOUT"
          PROVE  i = j
      <3>1. i + 1 = j + 1 BY <2>2, <1>4 DEF AtMostOneTimeout
      <3> QED BY <3>1, <1>3, <1>2, <1>1
    <2> QED BY <2>1, <2>2 DEF AtMostOneTimeout
  <1>9. Head(s.q).id = "TIMEOUT" => ~Queued(t, "TIMEOUT")
    <2>1. SUFFICES ASSUME s.q[1].id = "TIMEOUT", NEW i \in 1 .. Len(t.q),
                          t.q[i].id = "TIMEOUT"
                   PROVE  FALSE
      BY <1>2 DEF Queued
    <2>2. 1 = i + 1 BY <2>1, <1>2, <1>4, <1>1 DEF AtMostOneTimeout
    <2> QED BY <2>2, <1>3, <1>2, <1>1
  <1> QED BY <1>2, <1>3, <1>7, <1>8, <1>9 DEF t

-----------------------------------------------------------------------------
(* The handlers                                                            *)

\* The parts of an answer are sets of contents.
LEMMA AnswerParts ==
    ASSUME NEW ans \in DOMAIN Answers
    PROVE  /\ ans \in Description /\ ans # "null"
           /\ Answers[ans].lists \in SUBSET Contents
           /\ Answers[ans].local \in SUBSET Contents
           /\ Answers[ans].connected \in SUBSET Contents
           /\ Answers[ans].remote \in SUBSET Contents
  BY AnswersAssumption DEF AnswerRec, Description

LEMMA StanzaType ==
    ASSUME NEW s \in SessionRec, NEW kind \in Kinds, NEW cs \in SUBSET Candidate,
           NEW desc \in Description, kind = "accept" => desc \in DOMAIN Answers
    PROVE  Stanza(s, kind, cs, desc) \in Request
  BY DEF SessionRec, Stanza, Request, PeerOf, Peers

LEMMA PlainType ==
    ASSUME NEW s \in SessionRec, NEW kind \in Kinds, kind # "accept"
    PROVE  Plain(s, kind) \in Request
  BY StanzaType DEF Plain, Description

LEMMA TransportInfosType ==
    ASSUME NEW s \in SessionRec, NEW cs \in SUBSET Candidate
    PROVE  SendTransportInfos(s, cs) \in SUBSET Request
  <1>1. \A c : Stanza(s, "transport-info", {x \in cs : x.content = c}, "null") \in Request
    BY StanzaType DEF Kinds, Description
  <1> QED BY <1>1 DEF SendTransportInfos

LEMMA SignalGood ==
    ASSUME NEW s \in SessionRec
    PROVE  LET t == SignalNewDescription(s) IN
           /\ t \in SessionRec /\ t.state = s.state /\ t.q = s.q
           /\ t.timer = s.timer
  <1>1. GetContentAction(s.state) \in SUBSET Signalled
    BY DEF GetContentAction, Signalled
  <1> QED BY <1>1 DEF SignalNewDescription, SessionRec

LEMMA SetStateGood ==
    ASSUME NEW s, Good(s), NEW st \in State \ {"NONE"}
    PROVE  Good(SetState(s, st)) /\ SetState(s, st).state = st
  <1>1. s \in SessionRec BY DEF Good
  <1>2. CASE st = s.state
    <2>1. SetState(s, st) = SignalNewDescription(s) BY <1>2 DEF SetState
    <2> QED BY <1>1, <1>2, <2>1, SignalGood, SameGood
  <1>3. CASE st # s.state
    <2> DEFINE t == [s EXCEPT !.state = st]
               u == Post(t, "STATE", {})
    <2>1. t \in SessionRec /\ t.state = st /\ t.q = s.q /\ t.timer = s.timer
      BY <1>1 DEF SessionRec
    <2>2. AtMostOneTimeout(t) BY <2>1 DEF Good, AtMostOneTimeout, Queued
    <2> HIDE DEF t
    <2>3. Good(u) /\ u.state = st BY <2>1, <2>2, PostRec DEF Good, StatePending
    <2>4. SetState(s, st) = SignalNewDescription(u) BY <1>3 DEF SetState, t
    <2> HIDE DEF u
    <2> QED BY <2>3, <2>4, SignalGood, SameGood DEF Good
  <1> QED BY <1>2, <1>3

LEMMA SetErrorFine ==
    ASSUME NEW s, Good(s), NEW e \in Error
    PROVE  Good(SetError(s, e)) /\ Keeps(s, SetError(s, e))
           /\ SetError(s, e).state = s.state
  <1> DEFINE t == [s EXCEPT !.error = e]
  <1>1. /\ t \in SessionRec /\ t.state = s.state /\ t.q = s.q /\ t.timer = s.timer
    BY DEF Good, SessionRec
  <1>2. Good(t) BY <1>1, SameGood
  <1>3. SetError(s, e) = Post(t, "ERROR", {}) BY DEF SetError
  <1> HIDE DEF t
  <1> QED BY <1>1, <1>2, <1>3, PostGood, PostRec DEF Keeps

LEMMA ConnectGood ==
    ASSUME NEW s, Good(s), NEW C \in SUBSET Contents
    PROVE  /\ Good(ConnectChannels(s, C))
           /\ ConnectChannels(s, C).state = s.state
  <1> DEFINE new == (C \cap s.channels) \ s.requested
             t == [s EXCEPT !.connecting = @ \cup C, !.requested = @ \cup new]
  <1>1. new \in SUBSET Contents OBVIOUS
  <1>2. /\ t \in SessionRec /\ t.state = s.state /\ t.q = s.q /\ t.timer = s.timer
    BY <1>1 DEF Good, SessionRec
  <1>3. Good(t) BY <1>2, SameGood
  <1>4. ConnectChannels(s, C) = IF new = {} THEN t ELSE Post(t, "CONNECTING", new)
    BY DEF ConnectChannels
  <1> HIDE DEF t, new
  <1>5. new # {} => /\ Good(Post(t, "CONNECTING", new))
                    /\ Post(t, "CONNECTING", new).state = t.state
    BY <1>1, <1>2, <1>3, PostGood, PostRec
  <1> QED BY <1>2, <1>3, <1>4, <1>5

LEMMA CompleteGood ==
    ASSUME NEW s, Good(s), NEW C \in SUBSET Contents
    PROVE  /\ Good(CompleteNegotiation(s, C))
           /\ CompleteNegotiation(s, C).state = s.state
  <1> DEFINE t == CompleteNegotiation(s, C)
  <1>1. /\ t \in SessionRec /\ t.state = s.state /\ t.q = s.q /\ t.timer = s.timer
    BY DEF Good, SessionRec, CompleteNegotiation
  <1> HIDE DEF t
  <1>2. Good(t) BY <1>1, SameGood
  <1> QED BY <1>1, <1>2 DEF t

LEMMA RemoteCandidatesGood ==
    ASSUME NEW s, Good(s), NEW C \in SUBSET Contents, NEW cs \in SUBSET Candidate
    PROVE  /\ Good(OnRemoteCandidates(s, C, cs))
           /\ OnRemoteCandidates(s, C, cs).state = s.state
  <1> DEFINE t == CompleteNegotiation(s, C)
             u == [t EXCEPT !.remote_candidates = @ \cup cs]
  <1>1. Good(t) /\ t.state = s.state BY CompleteGood
  <1>2. OnRemoteCandidates(s, C, cs) =
            IF CandidatesFit(s, cs) THEN ConnectChannels(u, C) ELSE t
    BY DEF OnRemoteCandidates
  <1> HIDE DEF t
  <1>3. /\ u \in SessionRec /\ u.state = t.state /\ u.q = t.q /\ u.timer = t.timer
    BY <1>1 DEF Good, SessionRec
  <1>4. Good(u) BY <1>1, <1>3, SameGood
  <1> HIDE DEF u
  <1> QED BY <1>1, <1>2, <1>3, <1>4, ConnectGood

LEMMA TransportWritableGood ==
    ASSUME NEW s, Good(s), NEW c
    PROVE  Good(OnTransportWritable(s, c)) /\ Keeps(s, OnTransportWritable(s, c))
  <1> DEFINE t == OnTransportWritable(s, c)
  <1>1. s.q \in Seq(Message) BY DEF Good, SessionRec
  <1>2. ClearTimeout(s.q) \in Seq(Message) BY <1>1, ClearQ DEF Good, AtMostOneTimeout
  <1>3. (HasChannels(s, c) /\ c \notin s.writable) \in BOOLEAN
    BY DEF HasChannels
  <1>4. t \in SessionRec /\ t.q = ClearTimeout(s.q) /\ t.state = s.state
    BY <1>2, <1>3 DEF Good, SessionRec, OnTransportWritable
  <1> HIDE DEF t
  <1>5. ~Queued(t, "TIMEOUT")
    BY <1>1, <1>4, ClearQ DEF Queued, Good, AtMostOneTimeout
  <1>6. Queued(s, "STATE") => Queued(t, "STATE")
    <2>1. /\ "STATE" # "TIMEOUT"
          /\ \A i, j \in 1 .. Len(s.q) :
                 s.q[i].id = "TIMEOUT" /\ s.q[j].id = "TIMEOUT" => i = j
      BY DEF Good, AtMostOneTimeout
    <2> QED BY <2>1, <1>1, <1>4, ClearQ, SMTT(30) DEF Queued
  <1>7. StatePending(t) BY <1>4, <1>6 DEF Good, StatePending
  <1>8. AtMostOneTimeout(t) BY <1>5 DEF AtMostOneTimeout, Queued
  <1> QED BY <1>4, <1>7, <1>8 DEF Good, Keeps, t

LEMMA NewType ==
    ASSUME NEW b \in BOOLEAN
    PROVE  /\ NewSession(b) \in SessionRec /\ NewSession(b).q = <<>>
           /\ NewSession(b).state = "INIT" /\ ~NewSession(b).timer
  BY DEF NewSession, SessionRec, State, Error, Description

LEMMA DestroyedGood ==
    ASSUME NEW s \in SessionRec
    PROVE  Good(Destroyed(s)) /\ Destroyed(s).state = "NONE"
  <1> DEFINE n == NewSession(s.initiator)
             t == Destroyed(s)
  <1>1. n \in SessionRec /\ n.q = <<>> /\ ~n.timer BY NewType DEF SessionRec
  <1>2. t = [n EXCEPT !.state = "NONE"] BY DEF Destroyed
  <1> HIDE DEF n, t
  <1>3. t \in SessionRec /\ t.q = <<>> /\ t.state = "NONE" /\ ~t.timer
    BY <1>1, <1>2 DEF SessionRec, State
  <1> QED BY <1>3 DEF Good, StatePending, AtMostOneTimeout, Queued, Ending, t

LEMMA FreshGood ==
    ASSUME NEW b \in BOOLEAN
    PROVE  Good(NewSession(b)) /\ Good(Destroyed(NewSession(b)))
  BY NewType, DestroyedGood DEF Good, StatePending, AtMostOneTimeout, Queued, Ending

LEMMA InitiateFine ==
    ASSUME NEW s, Good(s), s.state = "INIT", NEW offer \in Offers
    PROVE  Fine(s, Initiate(s, offer))
  <1> DEFINE t == [s EXCEPT !.remote_name = 0, !.local_description = offer]
  <1>1. offer \in Description /\ 0 \in Addresses
    BY ChoicesAssumption, BoundsAssumption DEF Description, Addresses
  <1>2. /\ t \in SessionRec /\ t.state = s.state /\ t.q = s.q /\ t.timer = s.timer
    BY <1>1 DEF Good, SessionRec
  <1>3. Good(t) BY <1>2, SameGood
  <1>4. Initiate(s, offer) =
            Ret(SetState(ConnectChannels(t, Contents), "SENTINITIATE"),
                {Stanza(t, "initiate", {}, offer)})
    BY DEF Initiate
  <1> HIDE DEF t
  <1>5. Good(SetState(ConnectChannels(t, Contents), "SENTINITIATE"))
    BY <1>3, ConnectGood, SetStateGood DEF State
  <1>6. Stanza(t, "initiate", {}, offer) \in Request
    BY <1>1, <1>2, StanzaType DEF Kinds
  <1> QED BY <1>4, <1>5, <1>6 DEF Fine, Ret, Keeps, Ending

LEMMA AcceptFine ==
    ASSUME NEW s, Good(s), NEW ans \in DOMAIN Answers
    PROVE  Fine(s, Accept(s, ans))
  <1>1. CASE ~CanAnswer(s)
    BY <1>1 DEF Accept, Fine, Ret, Keeps
  <1>2. CASE CanAnswer(s)
    <2> DEFINE r == [s EXCEPT !.local_description = ans]
               L == Answers[ans].local
               C == Answers[ans].connected
               t == CompleteNegotiation(r, L)
    <2>0. ans \in Description /\ L \in SUBSET Contents /\ C \in SUBSET Contents
      BY AnswerParts
    <2>1. /\ r \in SessionRec /\ r.state = s.state /\ r.q = s.q /\ r.timer = s.timer
      BY <2>0 DEF Good, SessionRec
    <2>2. Good(r) BY <2>1, SameGood
    <2>3. Accept(s, ans) = Ret(SetState(ConnectChannels(t, C), "SENTACCEPT"),
                               {Stanza(t, "accept", {}, ans)})
      BY <1>2 DEF Accept
    <2> HIDE DEF r, L, C
    <2>4. Good(t) BY <2>0, <2>2, CompleteGood
    <2> HIDE DEF t
    <2>5. Good(SetState(ConnectChannels(t, C), "SENTACCEPT"))
      BY <2>0, <2>4, ConnectGood, SetStateGood DEF State
    <2>6. Stanza(t, "accept", {}, ans) \in Request
      BY <2>0, <2>4, StanzaType DEF Good, Kinds
    <2> QED BY <1>2, <2>3, <2>5, <2>6 DEF Fine, Ret, Keeps, Ending, CanAnswer
  <1> QED BY <1>1, <1>2

LEMMA RejectFine ==
    ASSUME NEW s, Good(s)
    PROVE  Fine(s, Reject(s))
  <1>1. Good(SetState(s, "SENTREJECT")) /\ SetState(s, "SENTREJECT").state = "SENTREJECT"
    BY SetStateGood DEF State, Ending
  <1>2. Plain(s, "reject") \in Request BY PlainType DEF Good, Kinds
  <1> QED BY <1>1, <1>2 DEF Reject, Fine, Ret, Keeps, Ending

LEMMA TerminateFine ==
    ASSUME NEW s, Good(s)
    PROVE  Fine(s, TerminateWithReason(s))
  <1>1. /\ Good(SetState(s, "SENTTERMINATE"))
        /\ SetState(s, "SENTTERMINATE").state = "SENTTERMINATE"
    BY SetStateGood DEF State, Ending
  <1>2. Plain(s, "terminate") \in Request BY PlainType DEF Good, Kinds
  <1> QED BY <1>1, <1>2 DEF TerminateWithReason, Fine, Ret, Keeps, Ending

LEMMA ReplyFine ==
    ASSUME NEW s, Good(s), NEW reply
    PROVE  Fine(s, ClientReply(s, reply))
  <1>1. Fine(s, Ret(s, {})) BY DEF Fine, Ret, Keeps
  <1> QED BY <1>1, AcceptFine, RejectFine, TerminateFine DEF ClientReply

LEMMA CandidatesReadyFine ==
    ASSUME NEW s, Good(s), NEW cs \in SUBSET Candidate
    PROVE  Fine(s, OnTransportProxyCandidatesReady(s, cs))
  <1> DEFINE t == [s EXCEPT !.gathered = @ \cup cs]
             fresh == {x \in cs : x.content \notin s.negotiated}
             u == [t EXCEPT !.unsent_candidates = @ \cup cs]
             v == [t EXCEPT !.sent_candidates = @ \cup fresh]
  <1>1. fresh \in SUBSET Candidate OBVIOUS
  <1>2. OnTransportProxyCandidatesReady(s, cs) =
            IF s.initiator /\ ~s.initiate_acked
            THEN Ret(u, {}) ELSE Ret(v, SendTransportInfos(s, cs))
    BY DEF OnTransportProxyCandidatesReady
  <1> HIDE DEF fresh
  <1>3. /\ t \in SessionRec /\ t.state = s.state /\ t.q = s.q /\ t.timer = s.timer
    BY DEF Good, SessionRec
  <1> HIDE DEF t
  <1>4. /\ u \in SessionRec /\ u.state = s.state /\ u.q = s.q /\ u.timer = s.timer
        /\ v \in SessionRec /\ v.state = s.state /\ v.q = s.q /\ v.timer = s.timer
    BY <1>1, <1>3 DEF SessionRec
  <1>5. SendTransportInfos(s, cs) \in SUBSET Request BY TransportInfosType DEF Good
  <1> HIDE DEF u, v
  <1>6. Good(u) /\ Good(v) /\ Keeps(s, u) /\ Keeps(s, v) BY <1>4, SameGood
  <1> QED BY <1>2, <1>5, <1>6 DEF Fine, Ret

LEMMA AckedFine ==
    ASSUME NEW s, Good(s)
    PROVE  Fine(s, OnInitiateAcked(s)) /\ OnInitiateAcked(s).s.state = s.state
  <1> DEFINE t == [s EXCEPT !.initiate_acked = TRUE, !.unsent_candidates = {}]
  <1>1. /\ t \in SessionRec /\ t.state = s.state /\ t.q = s.q /\ t.timer = s.timer
    BY DEF Good, SessionRec
  <1>2. Good(t) /\ Keeps(s, t) BY <1>1, SameGood
  <1>3. SendTransportInfos(s, s.unsent_candidates) \in SUBSET Request
    BY TransportInfosType DEF Good, SessionRec
  <1>4. OnInitiateAcked(s) = IF s.initiate_acked THEN Ret(s, {})
                             ELSE Ret(t, SendTransportInfos(s, s.unsent_candidates))
    BY DEF OnInitiateAcked
  <1> HIDE DEF t
  <1> QED BY <1>1, <1>2, <1>3, <1>4 DEF Fine, Ret, Keeps

-----------------------------------------------------------------------------
(* Incoming requests, responses and queued messages                        *)

LEMMA InitiateMessageFine ==
    ASSUME NEW s, Good(s), NEW r \in Request, NEW reply
    PROVE  Fine(s, OnInitiateMessage(s, r, reply))
  <1>1. CASE ~CheckState(s, "INIT") \/ r.desc = "unacceptable"
    BY <1>1 DEF OnInitiateMessage, Invalid, Fine, Keeps
  <1>2. CASE CheckState(s, "INIT") /\ r.desc # "unacceptable"
    <2> DEFINE t == [s EXCEPT !.remote_name = 0, !.remote_description = r.desc,
                              !.state = "RECEIVEDINITIATE"]
               h == ClientReply(t, reply)
               u == SignalNewDescription(Post(h.s, "STATE", {}))
    <2>1. r.desc \in Description /\ 0 \in Addresses /\ "RECEIVEDINITIATE" \in State
      BY BoundsAssumption DEF Request, Addresses, State
    <2>2. /\ t \in SessionRec /\ t.state = "RECEIVEDINITIATE" /\ t.q = s.q
          /\ t.timer = s.timer
      BY <2>1 DEF Good, SessionRec
    <2>3. Good(t) BY <2>2 DEF Good, StatePending, AtMostOneTimeout, Queued, Ending
    <2>4. OnInitiateMessage(s, r, reply) =
              Valid(IF u.state = "SENTREJECT" THEN u
                    ELSE OnRemoteCandidates(u, Contents, {}), h.out)
      BY <1>2 DEF OnInitiateMessage
    <2> HIDE DEF t
    <2>5. Good(h.s) /\ h.out \in SUBSET Request BY <2>3, ReplyFine DEF Fine
    <2> HIDE DEF h
    <2>6. Good(u) BY <2>5, PostGood, SignalGood, SameGood DEF Good
    <2> HIDE DEF u
    <2>7. Good(OnRemoteCandidates(u, Contents, {})) BY <2>6, RemoteCandidatesGood
    <2> QED BY <1>2, <2>4, <2>5, <2>6, <2>7 DEF Fine, Valid, Keeps, Ending, CheckState
  <1> QED BY <1>1, <1>2

LEMMA AcceptMessageFine ==
    ASSUME NEW s, Good(s), NEW r \in Request, r.kind = "accept"
    PROVE  Fine(s, OnAcceptMessage(s, r))
  <1>1. CASE ~CheckState(s, "SENTINITIATE")
    BY <1>1 DEF OnAcceptMessage, Invalid, Fine, Keeps
  <1>2. CASE CheckState(s, "SENTINITIATE")
    <2> DEFINE h == OnInitiateAcked(s)
               d == [h.s EXCEPT !.remote_description = r.desc]
               R == Answers[r.desc].remote
               L == Answers[r.desc].lists
               t == CompleteNegotiation(d, R)
               u == SetState(t, "RECEIVEDACCEPT")
               v == OnRemoteCandidates(u, L, {})
    <2>0. r.desc \in DOMAIN Answers BY DEF Request
    <2>1. r.desc \in Description /\ R \in SUBSET Contents /\ L \in SUBSET Contents
      BY <2>0, AnswerParts
    <2>2. OnAcceptMessage(s, r) = Valid(v, h.out)
      BY <1>2 DEF OnAcceptMessage, TakeAnswer
    <2>3. Good(h.s) /\ h.out \in SUBSET Request BY AckedFine DEF Fine
    <2> HIDE DEF h, R, L
    <2>4. /\ d \in SessionRec /\ d.state = h.s.state /\ d.q = h.s.q
          /\ d.timer = h.s.timer
      BY <2>1, <2>3 DEF Good, SessionRec
    <2>5. Good(d) BY <2>3, <2>4, SameGood
    <2> HIDE DEF d
    <2>6. Good(t) BY <2>1, <2>5, CompleteGood
    <2> HIDE DEF t
    <2>7. Good(u) BY <2>6, SetStateGood DEF State
    <2> HIDE DEF u
    <2>8. Good(v) BY <2>1, <2>7, RemoteCandidatesGood
    <2> HIDE DEF v
    <2> QED BY <1>2, <2>2, <2>3, <2>8 DEF Fine, Valid, Keeps, Ending, CheckState
  <1> QED BY <1>1, <1>2

LEMMA OtherMessagesFine ==
    ASSUME NEW s, Good(s), NEW r \in Request
    PROVE  /\ Fine(s, OnRejectMessage(s))
           /\ Fine(s, OnTerminateMessage(s))
           /\ Fine(s, OnTransportInfoMessage(s, r))
           /\ Fine(s, OnInfoMessage(s))
           /\ Fine(s, OnDescriptionInfoMessage(s))
  <1>1. Fine(s, Valid(s, {})) /\ Fine(s, Invalid(s, {}))
    BY DEF Fine, Valid, Invalid, Keeps
  <1>2. Fine(s, OnRejectMessage(s))
    <2>1. Good(SetState(s, "RECEIVEDREJECT"))
      BY SetStateGood DEF State, Ending
    <2> QED BY <1>1, <2>1
      DEF OnRejectMessage, CheckState, Fine, Valid, Keeps, Ending
  <1>3. Fine(s, OnTerminateMessage(s))
    <2>1. /\ Good(SetState(s, "RECEIVEDTERMINATE"))
          /\ SetState(s, "RECEIVEDTERMINATE").state = "RECEIVEDTERMINATE"
      BY SetStateGood DEF State, Ending
    <2> QED BY <2>1 DEF OnTerminateMessage, Fine, Valid, Keeps, Ending
  <1>4. Fine(s, OnTransportInfoMessage(s, r))
    <2> DEFINE C == {x.content : x \in r.cands}
               t == OnRemoteCandidates(s, C, r.cands)
    <2>1. r.cands \in SUBSET Candidate BY DEF Request
    <2>2. C \in SUBSET Contents BY <2>1 DEF Candidate
    <2> HIDE DEF C
    <2>3. Good(t) /\ t.state = s.state BY <2>1, <2>2, RemoteCandidatesGood
    <2>4. OnTransportInfoMessage(s, r) =
              IF CandidatesFit(s, r.cands) THEN Valid(t, {}) ELSE Invalid(t, {})
      BY DEF OnTransportInfoMessage, C
    <2> HIDE DEF t
    <2> QED BY <2>3, <2>4 DEF Fine, Valid, Invalid, Keeps
  <1>5. Fine(s, OnInfoMessage(s)) BY <1>1 DEF OnInfoMessage
  <1>6. Fine(s, OnDescriptionInfoMessage(s)) BY <1>1 DEF OnDescriptionInfoMessage
  <1> QED BY <1>2, <1>3, <1>4, <1>5, <1>6

LEMMA IncomingFine ==
    ASSUME NEW s, Good(s), NEW r \in Request, NEW reply
    PROVE  Fine(s, ManagerOnIncomingMessage(s, r, reply))
  <1>1. ASSUME NEW x, Good(x) PROVE Fine(x, OnIncomingMessage(x, r, reply))
    BY <1>1, InitiateMessageFine, AcceptMessageFine, OtherMessagesFine
    DEF OnIncomingMessage
  <1>2. Fine(s, Invalid(s, {})) BY DEF Fine, Invalid, Keeps
  <1>3. CASE FindSession(s) BY <1>1, <1>3 DEF ManagerOnIncomingMessage
  <1>4. CASE ~FindSession(s)
    <2>1. Fine(NewSession(FALSE), OnIncomingMessage(NewSession(FALSE), r, reply))
      BY <1>1, FreshGood
    <2>2. Fine(s, OnIncomingMessage(NewSession(FALSE), r, reply))
      BY <1>4, <2>1 DEF Fine, Keeps
    <2> QED BY <1>2, <1>4, <2>2 DEF ManagerOnIncomingMessage
  <1> QED BY <1>3, <1>4

\* A redirect response comes from an address before the responder's.
LEMMA ResponseFine ==
    ASSUME NEW s, Good(s), NEW m, m.etype = "redirect" => m.addr + 1 \in Addresses
    PROVE  Fine(s, ManagerOnResponse(s, m))
  <1>1. Fine(s, Ret(s, {})) BY DEF Fine, Ret, Keeps
  <1>2. Fine(s, Ret(SetError(s, "RESPONSE"), {}))
    BY SetErrorFine DEF Fine, Ret, Error
  <1>3. ASSUME NEW a \in Addresses PROVE Fine(s, OnRedirectError(s, a))
    <2> DEFINE t == [s EXCEPT !.remote_name = a]
               u == [t EXCEPT !.sent_candidates = {}]
    <2>1. /\ t \in SessionRec /\ t.state = s.state /\ t.q = s.q /\ t.timer = s.timer
      BY DEF Good, SessionRec
    <2>2. OnRedirectError(s, a) =
              Ret(u, {Stanza(t, "initiate", {}, t.local_description)}
                         \cup SendTransportInfos(t, s.sent_candidates))
      BY DEF OnRedirectError
    <2> HIDE DEF t
    <2>3. /\ u \in SessionRec /\ u.state = s.state /\ u.q = s.q /\ u.timer = s.timer
      BY <2>1 DEF SessionRec
    <2>4. Stanza(t, "initiate", {}, t.local_description) \in Request
      <3>1. t.local_description \in Description BY <2>1 DEF SessionRec
      <3> QED BY <2>1, <3>1, StanzaType DEF Kinds
    <2>5. SendTransportInfos(t, s.sent_candidates) \in SUBSET Request
      BY <2>1, TransportInfosType DEF Good, SessionRec
    <2> HIDE DEF u
    <2>6. Good(u) /\ Keeps(s, u) BY <2>3, SameGood
    <2> QED BY <2>2, <2>4, <2>5, <2>6 DEF Fine, Ret
  <1>4. Fine(s, OnFailedSend(s, m))
    BY <1>1, <1>2, <1>3 DEF OnFailedSend
  <1>5. Fine(s, OnInitiateAcked(s)) BY AckedFine
  <1> QED BY <1>1, <1>4, <1>5 DEF ManagerOnResponse

\* A queued message of the session is handled once it is off the queue: it may
\* have been the MSG_STATE that StatePending promises, which the handler of
\* MSG_STATE makes up for.
LEMMA SessionMessageFine ==
    ASSUME NEW s, Good(s), s.q # <<>>
    PROVE  Fine(s, OnSessionMessage(Pop(s), Head(s.q).id))
  <1> DEFINE t == Pop(s)
             id == Head(s.q).id
  <1>1. /\ t \in SessionRec /\ t.state = s.state /\ AtMostOneTimeout(t)
        /\ \A x : Queued(s, x) => Queued(t, x) \/ id = x
    BY PopRec DEF Good
  <1> HIDE DEF t, id
  <1>2. CASE id # "STATE"
    <2>1. Good(t) BY <1>1, <1>2 DEF Good, StatePending
    <2>2. Keeps(s, t) BY <1>1 DEF Keeps, State
    <2>3. Fine(s, Ret(t, {})) BY <2>1, <2>2 DEF Fine, Ret
    <2>4. Fine(s, TerminateWithReason(t))
      <3>1. Good(SetState(t, "SENTTERMINATE"))
            /\ SetState(t, "SENTTERMINATE").state = "SENTTERMINATE"
        BY <2>1, SetStateGood DEF State, Ending
      <3>2. Plain(t, "terminate") \in Request BY <1>1, PlainType DEF Kinds
      <3> QED BY <2>1, <2>2, <3>1, <3>2
        DEF TerminateWithReason, Fine, Ret, Keeps, Ending
    <2>5. Fine(s, Ret(SetError(t, "TIME"), {}))
      <3>1. Good(SetError(t, "TIME")) /\ SetError(t, "TIME").state = t.state
        BY <2>1, SetErrorFine DEF Error
      <3> QED BY <1>1, <3>1 DEF Fine, Ret, Keeps
    <2> QED BY <1>2, <2>3, <2>4, <2>5 DEF OnSessionMessage, t, id
  <1>3. CASE id = "STATE"
    <2>1. OnSessionMessage(t, id) = OnStateMessage(t) BY <1>3 DEF OnSessionMessage
    <2>2. CASE t.state \in {"SENTACCEPT", "RECEIVEDACCEPT"}
      <3> DEFINE u == [t EXCEPT !.state = "INPROGRESS"]
                 v == Post(u, "STATE", {})
      <3>1. u \in SessionRec /\ u.state = "INPROGRESS" /\ u.q = t.q /\ u.timer = t.timer
        BY <1>1 DEF SessionRec, State
      <3>2. AtMostOneTimeout(u) BY <1>1, <3>1 DEF AtMostOneTimeout, Queued
      <3>3. SetState(t, "INPROGRESS") = SignalNewDescription(v)
        BY <2>2 DEF SetState
      <3> HIDE DEF u
      <3>4. Good(v) BY <3>1, <3>2, PostRec DEF Good, StatePending
      <3> HIDE DEF v
      <3>5. Good(SetState(t, "INPROGRESS")) BY <3>3, <3>4, SignalGood, SameGood DEF Good
      <3> QED BY <1>1, <2>1, <2>2, <3>5
        DEF OnStateMessage, Fine, Ret, Keeps, Ending, t, id
    <2>3. CASE t.state \in {"SENTREJECT", "RECEIVEDREJECT"}
      <3> DEFINE u == [t EXCEPT !.state = "SENTTERMINATE"]
                 v == Post(u, "STATE", {})
      <3>1. /\ u \in SessionRec /\ u.state = "SENTTERMINATE" /\ u.q = t.q
            /\ u.timer = t.timer
        BY <1>1 DEF SessionRec, State, Ending
      <3>2. AtMostOneTimeout(u) BY <1>1, <3>1 DEF AtMostOneTimeout, Queued
      <3>3. SetState(t, "SENTTERMINATE") = SignalNewDescription(v)
        BY <2>3 DEF SetState
      <3> HIDE DEF u
      <3>4. Good(v) /\ v.state = "SENTTERMINATE"
        BY <3>1, <3>2, PostRec DEF Good, StatePending
      <3> HIDE DEF v
      <3>5. /\ Good(SetState(t, "SENTTERMINATE"))
            /\ SetState(t, "SENTTERMINATE").state = "SENTTERMINATE"
        BY <3>3, <3>4, SignalGood, SameGood DEF Good
      <3>6. OnStateMessage(t) = Ret(SetState(t, "SENTTERMINATE"), {})
        BY <2>3 DEF OnStateMessage, TerminateWithReason
      <3> QED BY <2>1, <3>5, <3>6 DEF Fine, Ret, Keeps, Ending, t, id
    <2>4. CASE t.state \in {"SENTTERMINATE", "RECEIVEDTERMINATE"}
      <3>1. OnStateMessage(t) = Ret(Destroyed(t), {}) BY <2>4 DEF OnStateMessage
      <3> QED BY <1>1, <2>1, <3>1, DestroyedGood DEF Fine, Ret, Keeps, t, id
    <2>5. CASE t.state \notin Ending \cup {"SENTACCEPT", "RECEIVEDACCEPT"}
      <3>1. OnStateMessage(t) = Ret(t, {}) BY <2>5 DEF OnStateMessage, Ending
      <3>2. Good(t) BY <1>1, <2>5 DEF Good, StatePending
      <3> QED BY <1>1, <2>1, <2>5, <3>1, <3>2 DEF Fine, Ret, Keeps, t, id
    <2> QED BY <2>2, <2>3, <2>4, <2>5 DEF Ending
  <1> QED BY <1>2, <1>3

LEMMA TransportMessageFine ==
    ASSUME NEW s, Good(s), s.q # <<>>, NEW c \in Head(s.q).of
    PROVE  LET rest == Head(s.q).of \ {c}
               t == IF rest = {} THEN Pop(s) ELSE [s EXCEPT !.q[1].of = rest]
           IN Fine(s, Ret(OnTransportMessage(t, Head(s.q).id, c), {}))
  <1> DEFINE rest == Head(s.q).of \ {c}
             t == IF rest = {} THEN Pop(s) ELSE [s EXCEPT !.q[1].of = rest]
             id == Head(s.q).id
  <1> SUFFICES Fine(s, Ret(OnTransportMessage(t, id, c), {}))
    OBVIOUS
  <1>0. s \in SessionRec /\ s.q \in Seq(Message) BY DEF Good, SessionRec
  <1>00. Head(s.q) \in Message /\ Head(s.q).of \in SUBSET Contents
         /\ id \in {"CONNECTING", "WRITESTATE"}
    <2>1. Head(s.q) \in Message BY <1>0
    <2> QED BY <2>1 DEF Message
  <1>1. Good(t) /\ t.state = s.state
    <2>1. CASE rest = {}
      BY <2>1, <1>0, <1>00, PopRec DEF Good, StatePending
    <2>2. CASE rest # {}
      <3> DEFINE x == [s.q EXCEPT ![1].of = rest]
      <3>1. Len(s.q) \in Nat /\ Len(s.q) > 0 /\ s.q[1] = Head(s.q) BY <1>0
      <3>2. s.q[1] \in Message /\ rest \in SUBSET Contents
        BY <1>0, <1>00, <3>1
      <3>3. [s.q[1] EXCEPT !.of = rest] \in Message
            /\ [s.q[1] EXCEPT !.of = rest].id = s.q[1].id
        BY <2>2, <3>1, <3>2, <1>00 DEF Message
      <3> HIDE DEF rest
      <3>4. /\ x \in Seq(Message) /\ Len(x) = Len(s.q)
            /\ \A i \in 1 .. Len(s.q) : x[i].id = s.q[i].id
        BY <1>0, <3>1, <3>3
      <3>5. t = [s EXCEPT !.q = x] BY <2>2
      <3> HIDE DEF x, t
      <3>6. /\ t \in SessionRec /\ t.q = x /\ t.state = s.state /\ t.timer = s.timer
        BY <1>0, <3>4, <3>5, WithQ
      <3> QED BY <3>4, <3>6 DEF Good, StatePending, AtMostOneTimeout, Queued
    <2> QED BY <2>1, <2>2
  <1> HIDE DEF t, id
  <1> DEFINE now == c \in t.chan_writable /\ HasChannels(t, c)
             u == [t EXCEPT !.writable = IF now THEN @ \cup {c} ELSE @ \ {c}]
  <1>2. c \in Contents BY <1>00
  <1>3. /\ u \in SessionRec /\ u.state = t.state /\ u.q = t.q /\ u.timer = t.timer
    BY <1>1, <1>2 DEF Good, SessionRec
  <1>4. Good(u) BY <1>1, <1>3, SameGood
  <1>5. OnTransportMessage(t, id, c) =
            IF id = "CONNECTING" THEN OnTransportWritable(t, c)
            ELSE IF (c \in t.writable) = now THEN t ELSE OnTransportWritable(u, c)
    BY DEF OnTransportMessage
  <1> HIDE DEF u, now
  <1>6. ASSUME NEW x, Good(x), x.state = s.state
        PROVE  Good(OnTransportWritable(x, c)) /\ OnTransportWritable(x, c).state = s.state
    <2>1. OnTransportWritable(x, c).state = x.state
      BY <1>6 DEF OnTransportWritable, Good, SessionRec
    <2> QED BY <1>6, <2>1, TransportWritableGood
  <1> QED BY <1>1, <1>3, <1>4, <1>5, <1>6 DEF Fine, Ret, Keeps

-----------------------------------------------------------------------------
(* Steps                                                                   *)

EndingStep ==
    \A p \in Peers : ses[p].state \in Ending /\ FindSession(ses[p]) =>
        ses'[p].state \in Ending \cup {"NONE"}
Sessions == ses \in [Peers -> SessionRec] /\ \A p \in Peers : Good(ses[p])

\* Running a Fine handler on one session.
LEMMA RunFine ==
    ASSUME Sessions, NEW p \in Peers, NEW h, Fine(ses[p], h),
           ses' = [ses EXCEPT ![p] = h.s]
    PROVE  Sessions' /\ EndingStep
  <1>1. h.s \in SessionRec BY DEF Fine, Good
  <1>2. \A x \in Peers : ses'[x] = IF x = p THEN h.s ELSE ses[x] BY DEF Sessions
  <1>3. ses' \in [Peers -> SessionRec] BY <1>1 DEF Sessions
  <1>4. \A x \in Peers : Good(ses'[x]) BY <1>2 DEF Sessions, Fine
  <1>5. \A x \in Peers : Keeps(ses[x], ses'[x]) BY <1>2 DEF Fine, Keeps
  <1> QED BY <1>3, <1>4, <1>5 DEF Sessions, EndingStep, Keeps

LEMMA UseType ==
    ASSUME TypeOK, NEW b \in {"dup", "loss", "flap", "info"}, Use(b)
    PROVE  left' \in [{"dup", "loss", "flap", "info"} -> Nat]
  BY DEF TypeOK, Use

\* A step that runs a handler of p and leaves the responses alone.
LEMMA RunStep ==
    ASSUME IInv, NEW p \in Peers, NEW h, Fine(ses[p], h), Run(p, h),
           UNCHANGED resps,
           left' \in [{"dup", "loss", "flap", "info"} -> Nat]
    PROVE  IInv' /\ EndingStep
  <1>1. Sessions' /\ EndingStep BY RunFine DEF IInv, TypeOK, Sessions, Run
  <1>2. reqs' \subseteq Request BY DEF IInv, TypeOK, Run, Fine
  <1> QED BY <1>1, <1>2 DEF IInv, TypeOK, Sessions, RedirectsLead

LEMMA ClientStep ==
    ASSUME IInv, NEW p \in Peers, Client(p)
    PROVE  IInv' /\ EndingStep
  <1>0. /\ Good(ses[p])
        /\ left \in [{"dup", "loss", "flap", "info"} -> Nat]
        /\ TypeOK
    BY DEF IInv, TypeOK
  <1>1. ASSUME NEW offer \in Offers, DoInitiate(p, offer) PROVE IInv' /\ EndingStep
    BY <1>0, <1>1, InitiateFine, RunStep DEF DoInitiate
  <1>2. ASSUME NEW ans \in DOMAIN Answers, DoAccept(p, ans) PROVE IInv' /\ EndingStep
    BY <1>0, <1>2, AcceptFine, RunStep DEF DoAccept
  <1>3. CASE DoReject(p) BY <1>0, <1>3, RejectFine, RunStep DEF DoReject
  <1>4. CASE DoTerminate(p) BY <1>0, <1>4, TerminateFine, RunStep DEF DoTerminate
  <1>5. ASSUME NEW kind \in {"session-info", "description-info"}, SendInfo(p, kind)
        PROVE  IInv' /\ EndingStep
    <2>1. Fine(ses[p], Ret(ses[p], {Plain(ses[p], kind)}))
      BY <1>0, PlainType DEF Fine, Ret, Keeps, Good, Kinds
    <2>2. left' \in [{"dup", "loss", "flap", "info"} -> Nat]
      BY <1>0, <1>5, UseType DEF SendInfo
    <2> QED BY <1>5, <2>1, <2>2, RunStep DEF SendInfo
  <1>6. ASSUME NEW c \in Contents, CreateChannel(p, c) PROVE IInv' /\ EndingStep
    <2> DEFINE t == [ses[p] EXCEPT !.channels = @ \cup {c}]
               u == IF c \in t.requested THEN Post(t, "CONNECTING", {c}) ELSE t
    <2>1. /\ t \in SessionRec /\ t.state = ses[p].state /\ t.q = ses[p].q
          /\ t.timer = ses[p].timer
      BY <1>0 DEF Good, SessionRec
    <2>2. Run(p, Ret(u, {})) BY <1>6 DEF CreateChannel
    <2> HIDE DEF t
    <2>3. Good(t) BY <1>0, <2>1, SameGood
    <2>4. Good(u) /\ u.state = t.state BY <2>1, <2>3, PostGood, PostRec
    <2> HIDE DEF u
    <2>5. Fine(ses[p], Ret(u, {})) BY <2>1, <2>4 DEF Fine, Ret, Keeps
    <2> QED BY <1>0, <1>6, <2>2, <2>5, RunStep DEF CreateChannel
  <1>7. ASSUME NEW c \in Contents, DestroyChannel(p, c) PROVE IInv' /\ EndingStep
    <2> DEFINE t == [ses[p] EXCEPT !.channels = @ \ {c}, !.chan_writable = @ \ {c}]
               u == IF c \in t.requested THEN Post(t, "CONNECTING", {c}) ELSE t
               v == Post(u, "WRITESTATE", {c})
    <2>1. /\ t \in SessionRec /\ t.state = ses[p].state /\ t.q = ses[p].q
          /\ t.timer = ses[p].timer
      BY <1>0 DEF Good, SessionRec
    <2>2. Run(p, Ret(v, {})) BY <1>7 DEF DestroyChannel
    <2> HIDE DEF t
    <2>3. Good(t) BY <1>0, <2>1, SameGood
    <2>4. Good(u) /\ u.state = t.state BY <2>1, <2>3, PostGood, PostRec
    <2> HIDE DEF u
    <2>5. Good(v) /\ v.state = t.state BY <2>4, PostGood, PostRec DEF Good
    <2> HIDE DEF v
    <2>6. Fine(ses[p], Ret(v, {})) BY <2>1, <2>5 DEF Fine, Ret, Keeps
    <2>7. left' \in [{"dup", "loss", "flap", "info"} -> Nat]
      BY <1>0, <1>7, UseType DEF DestroyChannel
    <2> QED BY <1>7, <2>2, <2>6, <2>7, RunStep DEF DestroyChannel
  <1> QED BY <1>1, <1>2, <1>3, <1>4, <1>5, <1>6, <1>7 DEF Client

LEMMA WorkerStep ==
    ASSUME IInv, NEW p \in Peers, Worker(p)
    PROVE  IInv' /\ EndingStep
  <1>0. /\ Good(ses[p]) /\ TypeOK
        /\ left \in [{"dup", "loss", "flap", "info"} -> Nat]
    BY DEF IInv, TypeOK
  <1>1. ASSUME NEW c \in Contents, OnChannelWritableState(p, c)
        PROVE  IInv' /\ EndingStep
    <2> DEFINE t == [ses[p] EXCEPT !.chan_writable =
                         IF c \in @ THEN @ \ {c} ELSE @ \cup {c}]
               u == Post(t, "WRITESTATE", {c})
    <2>1. /\ t \in SessionRec /\ t.state = ses[p].state /\ t.q = ses[p].q
          /\ t.timer = ses[p].timer
      BY <1>0 DEF Good, SessionRec
    <2>2. Run(p, Ret(u, {})) BY <1>1 DEF OnChannelWritableState
    <2> HIDE DEF t
    <2>3. Good(t) BY <1>0, <2>1, SameGood
    <2>4. Good(u) /\ u.state = t.state BY <2>1, <2>3, PostGood, PostRec
    <2> HIDE DEF u
    <2>5. Fine(ses[p], Ret(u, {})) BY <2>1, <2>4 DEF Fine, Ret, Keeps
    <2>6. left' \in [{"dup", "loss", "flap", "info"} -> Nat]
      BY <1>0, <1>1, UseType DEF OnChannelWritableState
    <2> QED BY <1>1, <2>2, <2>5, <2>6, RunStep DEF OnChannelWritableState
  <1>2. ASSUME NEW c \in Contents, NEW b \in Batches, CandidatesReady(p, c, b)
        PROVE  IInv' /\ EndingStep
    <2>1. {[content |-> c, batch |-> b]} \in SUBSET Candidate BY DEF Candidate
    <2> QED BY <1>0, <1>2, <2>1, CandidatesReadyFine, RunStep DEF CandidatesReady
  <1> QED BY <1>1, <1>2 DEF Worker

LEMMA ThreadStep ==
    ASSUME IInv, NEW p \in Peers, Thread(p) \/ TimerFires(p)
    PROVE  IInv' /\ EndingStep
  <1>0. /\ Good(ses[p]) /\ TypeOK
        /\ left \in [{"dup", "loss", "flap", "info"} -> Nat]
    BY DEF IInv, TypeOK
  <1>1. CASE DispatchSession(p)
    BY <1>0, <1>1, SessionMessageFine, RunStep DEF DispatchSession
  <1>2. CASE DispatchTransport(p)
    <2> DEFINE t(c) == IF Head(ses[p].q).of \ {c} = {} THEN Pop(ses[p])
                       ELSE [ses[p] EXCEPT !.q[1].of = Head(ses[p].q).of \ {c}]
    <2>1. PICK c \in Head(ses[p].q).of :
              Run(p, Ret(OnTransportMessage(t(c), Head(ses[p].q).id, c), {}))
      BY <1>2 DEF DispatchTransport
    <2>2. ses[p].q # <<>> /\ UNCHANGED <<resps, left>>
      BY <1>2 DEF DispatchTransport
    <2>3. Fine(ses[p], Ret(OnTransportMessage(t(c), Head(ses[p].q).id, c), {}))
      BY <1>0, <2>2, TransportMessageFine
    <2> QED BY <1>0, <2>1, <2>2, <2>3, RunStep
  <1>3. CASE TimerFires(p)
    <2> DEFINE t == [ses[p] EXCEPT !.timer = FALSE]
               u == Post(t, "TIMEOUT", {})
    <2>1. /\ t \in SessionRec /\ t.state = ses[p].state /\ t.q = ses[p].q
          /\ ~t.timer
      BY <1>0 DEF Good, SessionRec
    <2>2. Run(p, Ret(u, {})) BY <1>3 DEF TimerFires
    <2> HIDE DEF t
    <2>3. ~Queued(t, "TIMEOUT")
      BY <1>0, <1>3, <2>1 DEF TimerFires, Good, AtMostOneTimeout, Queued
    <2>4. StatePending(t) BY <1>0, <2>1 DEF Good, StatePending, Queued
    <2>5. Good(u) /\ u.state = ses[p].state
      BY <2>1, <2>3, <2>4, PostRec DEF Good, StatePending
    <2> HIDE DEF u
    <2>6. Fine(ses[p], Ret(u, {})) BY <2>5 DEF Fine, Ret, Keeps
    <2> QED BY <1>0, <1>3, <2>2, <2>6, RunStep DEF TimerFires
  <1> QED BY <1>1, <1>2, <1>3 DEF Thread

LEMMA AnswerType ==
    ASSUME NEW r \in Request, NEW e \in {"result", "modify", "redirect"} \cup Bounces
    PROVE  Answer(r, e) \in SUBSET Response
  BY DEF Answer, Request, Response

LEMMA NetworkStep ==
    ASSUME IInv, Network
    PROVE  IInv' /\ EndingStep
  <1>0. TypeOK /\ Sessions /\ RedirectsLead /\ \A p \in Peers : Good(ses[p])
    BY DEF IInv, TypeOK, Sessions
  <1>1. ASSUME NEW r \in reqs, NEW reply, NEW rest \in SUBSET Request,
               Handle(r, reply, rest),
               left' \in [{"dup", "loss", "flap", "info"} -> Nat]
        PROVE  IInv' /\ EndingStep
    <2> DEFINE p == Other(r.from)
               h == ManagerOnIncomingMessage(ses[p], r, reply)
               e == IF h.valid THEN "result" ELSE "modify"
    <2>1. r \in Request /\ p \in Peers BY <1>0 DEF TypeOK, Other, Peers
    <2>2. /\ ses' = [ses EXCEPT ![p] = h.s] /\ reqs' = rest \cup h.out
          /\ resps' = resps \cup Answer(r, e)
      BY <1>1 DEF Handle
    <2>3. e \in {"result", "modify"} OBVIOUS
    <2> HIDE DEF p
    <2>4. Fine(ses[p], h) BY <1>0, <2>1, IncomingFine
    <2> HIDE DEF h, e
    <2>5. Sessions' /\ EndingStep BY <1>0, <2>1, <2>2, <2>4, RunFine
    <2>6. reqs' \subseteq Request BY <2>2, <2>4 DEF Fine
    <2>7. resps' \subseteq Response BY <1>0, <2>1, <2>2, <2>3, AnswerType DEF TypeOK
    <2>8. \A m \in Answer(r, e) : m.etype # "redirect" BY <2>3 DEF Answer
    <2>9. RedirectsLead' BY <1>0, <2>2, <2>8 DEF RedirectsLead
    <2> QED BY <1>0, <1>1, <2>2, <2>5, <2>6, <2>7, <2>9 DEF IInv, TypeOK, Sessions
  <1>2. ASSUME NEW r \in reqs, NEW reply, Deliver(r, reply)
        PROVE  IInv' /\ EndingStep
    <2>1. reqs \ {r} \in SUBSET Request BY <1>0 DEF TypeOK
    <2>2. left' \in [{"dup", "loss", "flap", "info"} -> Nat]
      BY <1>0, <1>2 DEF TypeOK, Deliver
    <2> QED BY <1>1, <1>2, <2>1, <2>2 DEF Deliver
  <1>3. ASSUME NEW r \in reqs, NEW reply, DeliverAndRepeat(r, reply)
        PROVE  IInv' /\ EndingStep
    <2>1. (reqs \ {r}) \cup {[r EXCEPT !.await = FALSE]} \in SUBSET Request
      BY <1>0 DEF TypeOK, Request
    <2>2. left' \in [{"dup", "loss", "flap", "info"} -> Nat]
      BY <1>0, <1>3, UseType DEF DeliverAndRepeat
    <2> QED BY <1>1, <1>3, <2>1, <2>2 DEF DeliverAndRepeat
  <1>4. ASSUME NEW r \in reqs, RedirectorAnswers(r)
        PROVE  IInv' /\ EndingStep
    <2>1. PICK e \in {"result", "redirect"} : resps' = resps \cup Answer(r, e)
      BY <1>4 DEF RedirectorAnswers
    <2>2. /\ reqs' = reqs \ {r} /\ UNCHANGED <<ses, left>>
          /\ r.to \in 0 .. Redirects - 1
      BY <1>4 DEF RedirectorAnswers
    <2>3. resps' \subseteq Response BY <1>0, <2>1, AnswerType DEF TypeOK
    <2>4. \A m \in Answer(r, e) : m.addr = r.to BY DEF Answer
    <2>5. r.to + 1 \in Addresses BY <2>2, BoundsAssumption DEF Addresses
    <2>6. RedirectsLead' BY <1>0, <2>1, <2>4, <2>5 DEF RedirectsLead
    <2> QED BY <1>0, <2>2, <2>3, <2>6 DEF IInv, TypeOK, EndingStep
  <1>5. ASSUME NEW r \in reqs, NEW e \in Bounces, Bounce(r, e)
        PROVE  IInv' /\ EndingStep
    <2>1. /\ reqs' = reqs \ {r} /\ UNCHANGED ses
          /\ resps' = resps \cup Answer(r, e)
      BY <1>5 DEF Bounce
    <2>2. left' \in [{"dup", "loss", "flap", "info"} -> Nat]
      BY <1>0, <1>5, UseType DEF Bounce
    <2>3. resps' \subseteq Response BY <1>0, <2>1, AnswerType DEF TypeOK
    <2>4. \A m \in Answer(r, e) : m.etype # "redirect"
      BY ChoicesAssumption DEF Answer
    <2>5. RedirectsLead' BY <1>0, <2>1, <2>4 DEF RedirectsLead
    <2> QED BY <1>0, <2>1, <2>2, <2>3, <2>5 DEF IInv, TypeOK, EndingStep
  <1>6. ASSUME NEW p \in Peers, NEW kind, NEW addr
        PROVE  Fine(ses[p], NoAnswer(p, kind, addr))
    BY <1>0, ResponseFine DEF NoAnswer
  <1>7. ASSUME NEW r \in reqs, LoseRequest(r)
        PROVE  IInv' /\ EndingStep
    <2> DEFINE h == NoAnswer(r.from, r.kind, r.to)
    <2>1. r \in Request /\ r.from \in Peers BY <1>0 DEF TypeOK, Request
    <2>2. Fine(ses[r.from], h) BY <1>6, <2>1
    <2>3. PICK late \in {{}, {[r EXCEPT !.await = FALSE]}} :
              reqs' = (reqs \ {r}) \cup late \cup h.out
      BY <1>7 DEF LoseRequest
    <2>4. ses' = [ses EXCEPT ![r.from] = h.s] /\ UNCHANGED resps
      BY <1>7 DEF LoseRequest
    <2>5. left' \in [{"dup", "loss", "flap", "info"} -> Nat]
      BY <1>0, <1>7, UseType DEF LoseRequest
    <2> HIDE DEF h
    <2>6. Sessions' /\ EndingStep BY <1>0, <2>1, <2>2, <2>4, RunFine
    <2>7. [r EXCEPT !.await = FALSE] \in Request BY <2>1 DEF Request
    <2>8. reqs' \subseteq Request BY <1>0, <2>2, <2>3, <2>7 DEF TypeOK, Fine
    <2> QED BY <1>0, <2>4, <2>5, <2>6, <2>8 DEF IInv, TypeOK, Sessions, RedirectsLead
  <1>8. ASSUME NEW m \in resps, NEW h, Fine(ses[m.to], h), Run(m.to, h),
               resps' = resps \ {m},
               left' \in [{"dup", "loss", "flap", "info"} -> Nat]
        PROVE  IInv' /\ EndingStep
    <2>1. m.to \in Peers BY <1>0 DEF TypeOK, Response
    <2>2. Sessions' /\ EndingStep BY <1>0, <1>8, <2>1, RunFine DEF Run
    <2>3. reqs' \subseteq Request BY <1>0, <1>8 DEF TypeOK, Run, Fine
    <2> QED BY <1>0, <1>8, <2>2, <2>3 DEF IInv, TypeOK, Sessions, RedirectsLead
  <1>9. ASSUME NEW m \in resps, Receive(m) \/ LoseResponse(m)
        PROVE  IInv' /\ EndingStep
    <2>1. m.to \in Peers BY <1>0 DEF TypeOK, Response
    <2>2. CASE Receive(m)
      <3>1. Fine(ses[m.to], ManagerOnResponse(ses[m.to], m))
        BY <1>0, <2>1, ResponseFine DEF RedirectsLead
      <3>2. left' \in [{"dup", "loss", "flap", "info"} -> Nat]
        BY <1>0, <2>2 DEF TypeOK, Receive
      <3> QED BY <1>8, <2>2, <3>1, <3>2 DEF Receive
    <2>3. CASE LoseResponse(m)
      <3>1. Fine(ses[m.to], NoAnswer(m.to, m.of, m.addr)) BY <1>6, <2>1
      <3>2. left' \in [{"dup", "loss", "flap", "info"} -> Nat]
        BY <1>0, <2>3, UseType DEF LoseResponse
      <3> QED BY <1>8, <2>3, <3>1, <3>2 DEF LoseResponse
    <2> QED BY <1>9, <2>2, <2>3
  <1> QED BY <1>2, <1>3, <1>4, <1>5, <1>7, <1>9 DEF Network

LEMMA NextStep ==
    ASSUME IInv, Next
    PROVE  IInv' /\ EndingStep
  BY NetworkStep, ClientStep, WorkerStep, ThreadStep DEF Next

LEMMA StutterStep ==
    ASSUME IInv, UNCHANGED vars
    PROVE  IInv' /\ EndingStep
  BY DEF IInv, TypeOK, RedirectsLead, EndingStep, vars

LEMMA InitInv == Init => IInv
  <1> SUFFICES ASSUME Init PROVE IInv OBVIOUS
  <1>1. Good(NewSession(TRUE)) /\ Good(Destroyed(NewSession(FALSE)))
    BY FreshGood
  <1>2. \A p \in Peers : Good(ses[p])
    BY <1>1 DEF Init
  <1>3. ses \in [Peers -> SessionRec] BY <1>1 DEF Init, Good
  <1>4. left \in [{"dup", "loss", "flap", "info"} -> Nat]
    BY BoundsAssumption DEF Init
  <1> QED BY <1>2, <1>3, <1>4 DEF IInv, TypeOK, RedirectsLead, Init

-----------------------------------------------------------------------------
(* The theorems                                                            *)

\* The inductive invariant of Session.
THEOREM Invariance == Spec => []IInv
  <1>1. IInv /\ [Next]_vars => IInv' BY NextStep, StutterStep
  <1> QED BY InitInv, <1>1, PTL DEF Spec

\* Every session record, stanza and bound keeps its type under every handler.
THEOREM TypeCorrect == Spec => []TypeOK
  <1>1. IInv => TypeOK BY DEF IInv
  <1> QED BY <1>1, Invariance, PTL

\* No session is ever stranded in a state that only MSG_STATE leaves: SetState,
\* nested inside a client's reply or not, and OnMessage always leave the
\* MSG_STATE that will move it on in the queue.
THEOREM NeverStranded == Spec => []PendingState
  <1>1. IInv => PendingState BY DEF IInv, PendingState, Good
  <1> QED BY <1>1, Invariance, PTL

\* OnTransportWritable never lets two MSG_TIMEOUTs exist, for any number of
\* transports and of writability changes.
THEOREM SingleTimeout == Spec => []OneTimeout
  <1>1. IInv => OneTimeout BY DEF IInv, OneTimeout, Good
  <1> QED BY <1>1, Invariance, PTL

\* A session that FindSession knows and that is ending never comes back,
\* whatever the network repeats, delays or bounces and the client calls.
THEOREM EndingIsFinal == Spec => EndingStays
  <1>1. IInv /\ [Next]_vars =>
            [\A p \in Peers : ses[p].state \in Ending /\ FindSession(ses[p]) =>
                 ses'[p].state \in Ending \cup {"NONE"}]_vars
    BY NextStep DEF EndingStep
  <1> QED BY <1>1, Invariance, PTL DEF Spec, EndingStays

-----------------------------------------------------------------------------
(* The two sessions of a call                                              *)

\* No two contents: one transport, and the timer that watches it is its own.
OneContent == \A c, d \in Contents : c = d

Answering == {"INIT", "RECEIVEDINITIATE", "SENTREJECT"}
Accepted == {"RECEIVEDACCEPT", "INPROGRESS"}

\* What a state says of the session that is in it: its role and the
\* descriptions it has.
Described(s) ==
    /\ s.state \in {"SENTINITIATE", "RECEIVEDACCEPT"} => s.initiator
    /\ s.state \in {"RECEIVEDINITIATE", "SENTACCEPT", "SENTREJECT"} => ~s.initiator
    /\ s.state = "INIT" => s.remote_name = NoName
    /\ s.state = "SENTINITIATE" => s.local_description # "null"
    /\ s.state = "RECEIVEDINITIATE" => s.remote_description # "null"
    /\ s.state \in {"SENTACCEPT", "RECEIVEDACCEPT", "INPROGRESS"} =>
           s.local_description # "null" /\ s.remote_description # "null"
    /\ s.remote_name # NoName => (IF s.initiator THEN s.local_description
                                                 ELSE s.remote_description) # "null"

\* The transports of a call that both sides have described are set up.  Inside
\* SignalState this does not hold yet: OnRemoteCandidates comes after it.
Joined(s) ==
    s.state \in {"RECEIVEDINITIATE", "SENTACCEPT", "RECEIVEDACCEPT", "INPROGRESS"} =>
        Agreed(s) \subseteq s.negotiated /\ Agreed(s) \subseteq s.connecting

\* What a state says of the descriptions the session has signalled.
Told(s) ==
    /\ s.state \in {"SENTINITIATE", "RECEIVEDACCEPT"} => <<"local", "offer">> \in s.told
    /\ s.state = "SENTACCEPT" => <<"local", "answer">> \in s.told
    /\ s.state = "RECEIVEDACCEPT" => <<"remote", "answer">> \in s.told
    /\ s.state = "INPROGRESS" /\ s.initiator =>
           <<"local", "offer">> \in s.told /\ <<"remote", "answer">> \in s.told
    /\ s.state = "INPROGRESS" /\ ~s.initiator => <<"local", "answer">> \in s.told

\* Every transport is watched; a transport that was asked to connect has a
\* proxy that is connecting.
Guarded(s) ==
    /\ s.requested \subseteq s.connecting
    /\ \A c \in Contents : TransportWatched(s, c)

Settled(s) ==
    /\ Described(s) /\ Joined(s) /\ Told(s)
    /\ OneContent => Guarded(s)

\* The roles of the peers, and who sends an initiate or an accept, and with
\* a description.
Roles ==
    /\ \A p \in Peers : ses[p].initiator <=> p = Initiator
    /\ \A r \in reqs : /\ r.kind = "initiate" => r.from = Initiator /\ r.desc # "null"
                       /\ r.kind = "accept" => r.from = Responder /\ r.desc # "null"

CallInv == IInv /\ Roles /\ \A p \in Peers : Settled(ses[p])

\* While nothing is repeated or redirected.
Once == Redirects = 0 /\ MaxDup = 0

Initiates == {r \in reqs : r.kind = "initiate"}
Accepts == {r \in reqs : r.kind = "accept"}
EarlyInfos == {r \in reqs : r.kind = "transport-info" /\ r.from = Initiator}
Acks == {m \in resps : m.of = "initiate"}

Unmet == ses[Responder].state \notin Answering
Unacked == ~ses[Initiator].initiate_acked /\ EarlyInfos = {} /\ Acks = {}

OnceInv ==
    /\ left["dup"] = 0
    /\ \A m \in resps : m.etype # "redirect"
    /\ \A r1, r2 \in Initiates : r1 = r2
    /\ Initiates # {} => /\ Unmet /\ Accepts = {}
                         /\ ses[Initiator].state \notin {"INIT"} \cup Accepted
    /\ Accepts # {} => Unmet
    /\ ses[Initiator].state = "INIT" => /\ Unmet /\ Unacked
                                        /\ Initiates = {} /\ Accepts = {}
    /\ \A r \in Initiates : r.await => Unacked
    /\ ses[Initiator].state \in Accepted => Unmet

-----------------------------------------------------------------------------
(* Updates that keep a session settled                                     *)

\* t is s with, at most, more negotiated, told or watched, and another state.
Steady(s, t) ==
    /\ t \in SessionRec
    /\ t.initiator = s.initiator /\ t.remote_name = s.remote_name
    /\ t.local_description = s.local_description
    /\ t.remote_description = s.remote_description
    /\ t.initiate_acked = s.initiate_acked
    /\ s.negotiated \subseteq t.negotiated /\ s.connecting \subseteq t.connecting
    /\ s.told \subseteq t.told
    /\ s.requested \subseteq s.connecting => t.requested \subseteq t.connecting
    /\ \A c \in Contents : TransportWatched(s, c) => TransportWatched(t, c)

\* Steady updates compose.
LEMMA SteadyTrans ==
    ASSUME NEW s, NEW t, NEW u, Steady(s, t), Steady(t, u)
    PROVE  Steady(s, u)
  BY DEF Steady

\* A session that stays in its state under a steady update stays settled.
LEMMA SteadySettled ==
    ASSUME NEW s, NEW t, Steady(s, t), t.state = s.state, Settled(s)
    PROVE  Settled(t)
  <1>1. Described(t) BY DEF Settled, Described, Steady
  <1>2. Joined(t) BY DEF Settled, Joined, Agreed, Steady
  <1>3. Told(t) BY DEF Settled, Told, Steady
  <1>4. Guarded(s) => Guarded(t) BY DEF Guarded, Steady
  <1> QED BY <1>1, <1>2, <1>3, <1>4 DEF Settled

\* The fields a post leaves alone, and what it queues.
LEMMA PostFields ==
    ASSUME NEW s \in SessionRec, NEW id \in MessageIds, NEW of \in SUBSET Contents,
           of = {} <=> id \in SessionIds
    PROVE  LET t == Post(s, id, of) IN
           /\ t \in SessionRec /\ t.state = s.state /\ t.timer = s.timer
           /\ t.initiator = s.initiator /\ t.remote_name = s.remote_name
           /\ t.local_description = s.local_description
           /\ t.remote_description = s.remote_description
           /\ t.initiate_acked = s.initiate_acked
           /\ t.negotiated = s.negotiated /\ t.told = s.told
           /\ t.requested = s.requested /\ t.connecting = s.connecting
           /\ t.channels = s.channels /\ t.writable = s.writable
           /\ \A x : Queued(s, x) => Queued(t, x)
           /\ \A x, c : QueuedFor(s, x, c) => QueuedFor(t, x, c)
           /\ Queued(t, id) /\ \A c \in of : QueuedFor(t, id, c)
  <1> DEFINE m == [id |-> id, of |-> of]
             t == Post(s, id, of)
  <1>1. s.q \in Seq(Message) BY DEF SessionRec
  <1>2. m \in Message /\ m.id = id /\ m.of = of BY DEF Message
  <1>3. t = [s EXCEPT !.q = Append(s.q, m)] BY DEF Post
  <1> HIDE DEF m
  <1>4. Append(s.q, m) \in Seq(Message) BY <1>1, <1>2, AppendQ
  <1> DEFINE x == Append(s.q, m)
  <1> HIDE DEF x
  <1>5. t = [s EXCEPT !.q = x] /\ x \in Seq(Message) BY <1>3, <1>4 DEF x
  <1> HIDE DEF t
  <1>6. /\ t \in SessionRec /\ t.state = s.state /\ t.timer = s.timer /\ t.q = x
        /\ t.initiator = s.initiator /\ t.remote_name = s.remote_name
        /\ t.local_description = s.local_description
        /\ t.remote_description = s.remote_description
        /\ t.initiate_acked = s.initiate_acked
        /\ t.negotiated = s.negotiated /\ t.told = s.told
        /\ t.requested = s.requested /\ t.connecting = s.connecting
        /\ t.channels = s.channels /\ t.writable = s.writable
    BY <1>5 DEF SessionRec
  <1>7. /\ Len(x) = Len(s.q) + 1 /\ x[Len(s.q) + 1] = m
        /\ \A i \in 1 .. Len(s.q) : x[i] = s.q[i]
    BY <1>1, <1>2, AppendQ DEF x
  <1>8. Len(s.q) \in Nat BY <1>1
  <1>9. /\ \A y : Queued(s, y) => Queued(t, y)
        /\ \A y, c : QueuedFor(s, y, c) => QueuedFor(t, y, c)
    BY <1>6, <1>7, <1>8 DEF Queued, QueuedFor
  <1>10. Queued(t, id) /\ \A c \in of : QueuedFor(t, id, c)
    BY <1>2, <1>6, <1>7, <1>8 DEF Queued, QueuedFor
  <1> QED BY <1>6, <1>9, <1>10 DEF t

\* A post loses no alarm of the watchdog and says nothing of the call.
LEMMA PostSteady ==
    ASSUME NEW s \in SessionRec, NEW id \in MessageIds, NEW of \in SUBSET Contents,
           of = {} <=> id \in SessionIds
    PROVE  Steady(s, Post(s, id, of)) /\ Post(s, id, of).state = s.state
  <1> DEFINE t == Post(s, id, of)
  <1>1. /\ t \in SessionRec /\ t.state = s.state /\ t.timer = s.timer
        /\ t.initiator = s.initiator /\ t.remote_name = s.remote_name
        /\ t.local_description = s.local_description
        /\ t.remote_description = s.remote_description
        /\ t.initiate_acked = s.initiate_acked
        /\ t.negotiated = s.negotiated /\ t.told = s.told
        /\ t.requested = s.requested /\ t.connecting = s.connecting
        /\ t.channels = s.channels /\ t.writable = s.writable
        /\ \A x : Queued(s, x) => Queued(t, x)
        /\ \A x, c : QueuedFor(s, x, c) => QueuedFor(t, x, c)
    BY PostFields
  <1> HIDE DEF t
  <1>2. \A c \in Contents : TransportWatched(s, c) => TransportWatched(t, c)
    BY <1>1 DEF TransportWatched
  <1> QED BY <1>1, <1>2 DEF Steady, t

\* SignalNewDescription tells what the state calls for.
LEMMA SignalSteady ==
    ASSUME NEW s \in SessionRec
    PROVE  LET t == SignalNewDescription(s) IN
           /\ Steady(s, t) /\ t.state = s.state
           /\ GetContentAction(s.state) \subseteq t.told
  <1> DEFINE g == GetContentAction(s.state)
             t == [s EXCEPT !.told = @ \cup g]
  <1>1. g \in SUBSET Signalled BY DEF GetContentAction, Signalled
  <1>2. SignalNewDescription(s) = t BY DEF SignalNewDescription
  <1> HIDE DEF g
  <1>3. /\ t \in SessionRec /\ t.state = s.state /\ t.timer = s.timer /\ t.q = s.q
        /\ t.initiator = s.initiator /\ t.remote_name = s.remote_name
        /\ t.local_description = s.local_description
        /\ t.remote_description = s.remote_description
        /\ t.initiate_acked = s.initiate_acked
        /\ t.negotiated = s.negotiated /\ t.told = s.told \cup g
        /\ t.requested = s.requested /\ t.connecting = s.connecting
        /\ t.channels = s.channels /\ t.writable = s.writable
    BY <1>1 DEF SessionRec
  <1> HIDE DEF t
  <1>4. \A c \in Contents : TransportWatched(s, c) => TransportWatched(t, c)
    BY <1>3 DEF TransportWatched, Queued, QueuedFor
  <1> QED BY <1>2, <1>3, <1>4 DEF Steady, g

\* SetState never takes an ending session back, or the watchdog would be off.
LEMMA SetStateSteady ==
    ASSUME NEW s \in SessionRec, NEW st \in State \ {"NONE"},
           s.state \in Ending => st \in Ending
    PROVE  LET t == SetState(s, st) IN
           Steady(s, t) /\ t.state = st /\ GetContentAction(st) \subseteq t.told
  <1>1. CASE st = s.state
    BY <1>1, SignalSteady DEF SetState
  <1>2. CASE st # s.state
    <2> DEFINE a == [s EXCEPT !.state = st]
               b == Post(a, "STATE", {})
    <2>1. /\ a \in SessionRec /\ a.state = st /\ a.timer = s.timer /\ a.q = s.q
          /\ a.initiator = s.initiator /\ a.remote_name = s.remote_name
          /\ a.local_description = s.local_description
          /\ a.remote_description = s.remote_description
          /\ a.initiate_acked = s.initiate_acked
          /\ a.negotiated = s.negotiated /\ a.told = s.told
          /\ a.requested = s.requested /\ a.connecting = s.connecting
          /\ a.channels = s.channels /\ a.writable = s.writable
      BY DEF SessionRec
    <2>2. SetState(s, st) = SignalNewDescription(b) BY <1>2 DEF SetState
    <2> HIDE DEF a
    <2>3. \A c \in Contents : TransportWatched(s, c) => TransportWatched(a, c)
      BY <2>1 DEF TransportWatched, Queued, QueuedFor
    <2>4. Steady(s, a) BY <2>1, <2>3 DEF Steady
    <2>5. Steady(a, b) /\ b.state = st BY <2>1, PostSteady
    <2> HIDE DEF b
    <2>6. b \in SessionRec BY <2>5 DEF Steady
    <2>7. LET t == SignalNewDescription(b) IN
          Steady(b, t) /\ t.state = st /\ GetContentAction(st) \subseteq t.told
      BY <2>5, <2>6, SignalSteady
    <2> QED BY <2>2, <2>4, <2>5, <2>7, SteadyTrans
  <1> QED BY <1>1, <1>2

\* CompleteNegotiation marks the transports of C as negotiated.
LEMMA CompleteSteady ==
    ASSUME NEW s \in SessionRec, NEW C \in SUBSET Contents
    PROVE  LET t == CompleteNegotiation(s, C) IN
           Steady(s, t) /\ t.state = s.state /\ C \subseteq t.negotiated
  <1> DEFINE t == CompleteNegotiation(s, C)
  <1>1. /\ t \in SessionRec /\ t.state = s.state /\ t.timer = s.timer /\ t.q = s.q
        /\ t.initiator = s.initiator /\ t.remote_name = s.remote_name
        /\ t.local_description = s.local_description
        /\ t.remote_description = s.remote_description
        /\ t.initiate_acked = s.initiate_acked
        /\ t.negotiated = s.negotiated \cup C /\ t.told = s.told
        /\ t.requested = s.requested /\ t.connecting = s.connecting
        /\ t.channels = s.channels /\ t.writable = s.writable
    BY DEF CompleteNegotiation, SessionRec
  <1> HIDE DEF t
  <1>2. \A c \in Contents : TransportWatched(s, c) => TransportWatched(t, c)
    BY <1>1 DEF TransportWatched, Queued, QueuedFor
  <1> QED BY <1>1, <1>2 DEF Steady, t

\* ConnectChannels posts MSG_CONNECTING for each transport it starts.
LEMMA ConnectSteady ==
    ASSUME NEW s \in SessionRec, NEW C \in SUBSET Contents
    PROVE  LET v == ConnectChannels(s, C) IN
           Steady(s, v) /\ v.state = s.state /\ C \subseteq v.connecting
  <1> DEFINE new == (C \cap s.channels) \ s.requested
             t == [s EXCEPT !.connecting = @ \cup C, !.requested = @ \cup new]
             u == Post(t, "CONNECTING", new)
  <1>1. new \in SUBSET Contents /\ new \subseteq C OBVIOUS
  <1>2. ConnectChannels(s, C) = IF new = {} THEN t ELSE u BY DEF ConnectChannels
  <1> HIDE DEF new
  <1>3. /\ t \in SessionRec /\ t.state = s.state /\ t.timer = s.timer /\ t.q = s.q
        /\ t.initiator = s.initiator /\ t.remote_name = s.remote_name
        /\ t.local_description = s.local_description
        /\ t.remote_description = s.remote_description
        /\ t.initiate_acked = s.initiate_acked
        /\ t.negotiated = s.negotiated /\ t.told = s.told
        /\ t.requested = s.requested \cup new /\ t.connecting = s.connecting \cup C
        /\ t.channels = s.channels /\ t.writable = s.writable
    BY <1>1 DEF SessionRec
  <1> HIDE DEF t
  <1>4. CASE new = {}
    <2>1. \A c \in Contents : TransportWatched(s, c) => TransportWatched(t, c)
      BY <1>3, <1>4 DEF TransportWatched, Queued, QueuedFor
    <2>2. s.requested \subseteq s.connecting => t.requested \subseteq t.connecting
      BY <1>1, <1>3
    <2> QED BY <1>2, <1>3, <1>4, <2>1, <2>2 DEF Steady
  <1>5. CASE new # {}
    <2>1. /\ u \in SessionRec /\ u.state = t.state /\ u.timer = t.timer
          /\ u.initiator = t.initiator /\ u.remote_name = t.remote_name
          /\ u.local_description = t.local_description
          /\ u.remote_description = t.remote_description
          /\ u.initiate_acked = t.initiate_acked
          /\ u.negotiated = t.negotiated /\ u.told = t.told
          /\ u.requested = t.requested /\ u.connecting = t.connecting
          /\ u.channels = t.channels /\ u.writable = t.writable
          /\ \A x : Queued(t, x) => Queued(u, x)
          /\ \A x, c : QueuedFor(t, x, c) => QueuedFor(u, x, c)
          /\ \A c \in new : QueuedFor(u, "CONNECTING", c)
      BY <1>1, <1>3, <1>5, PostFields
    <2> HIDE DEF u
    <2>2. /\ \A x : Queued(s, x) => Queued(t, x)
          /\ \A x, c : QueuedFor(s, x, c) => QueuedFor(t, x, c)
      BY <1>3 DEF Queued, QueuedFor
    <2>3. \A c \in Contents : TransportWatched(s, c) => TransportWatched(u, c)
      BY <1>3, <2>1, <2>2 DEF TransportWatched
    <2>4. s.requested \subseteq s.connecting => u.requested \subseteq u.connecting
      BY <1>1, <1>3, <2>1
    <2> QED BY <1>2, <1>3, <1>5, <2>1, <2>3, <2>4 DEF Steady
  <1> QED BY <1>4, <1>5

\* OnRemoteCandidates completes the negotiation of the transports in C.
LEMMA RemoteCandidatesSteady ==
    ASSUME NEW s \in SessionRec, NEW C \in SUBSET Contents, NEW cs \in SUBSET Candidate
    PROVE  /\ Steady(s, OnRemoteCandidates(s, C, cs))
           /\ OnRemoteCandidates(s, C, cs).state = s.state
           /\ cs = {} => /\ C \subseteq OnRemoteCandidates(s, C, cs).negotiated
                         /\ C \subseteq OnRemoteCandidates(s, C, cs).connecting
  <1> DEFINE t == CompleteNegotiation(s, C)
             u == [t EXCEPT !.remote_candidates = @ \cup cs]
             v == ConnectChannels(u, C)
  <1>0. cs = {} => CandidatesFit(s, cs) BY DEF CandidatesFit
  <1>1. Steady(s, t) /\ t.state = s.state /\ C \subseteq t.negotiated BY CompleteSteady
  <1>2. OnRemoteCandidates(s, C, cs) = IF CandidatesFit(s, cs) THEN v ELSE t
    BY DEF OnRemoteCandidates
  <1> HIDE DEF t
  <1>3. t \in SessionRec BY <1>1 DEF Steady
  <1>4. /\ u \in SessionRec /\ u.state = t.state /\ u.timer = t.timer /\ u.q = t.q
        /\ u.initiator = t.initiator /\ u.remote_name = t.remote_name
        /\ u.local_description = t.local_description
        /\ u.remote_description = t.remote_description
        /\ u.initiate_acked = t.initiate_acked
        /\ u.negotiated = t.negotiated /\ u.told = t.told
        /\ u.requested = t.requested /\ u.connecting = t.connecting
        /\ u.channels = t.channels /\ u.writable = t.writable
    BY <1>3 DEF SessionRec
  <1> HIDE DEF u
  <1>5. \A c \in Contents : TransportWatched(t, c) => TransportWatched(u, c)
    BY <1>4 DEF TransportWatched, Queued, QueuedFor
  <1>6. Steady(t, u) BY <1>4, <1>5 DEF Steady
  <1>7. Steady(u, v) /\ v.state = u.state /\ C \subseteq v.connecting
    BY <1>4, ConnectSteady
  <1>8. C \subseteq v.negotiated BY <1>1, <1>4, <1>7 DEF Steady
  <1> HIDE DEF v
  <1> QED BY <1>0, <1>1, <1>2, <1>4, <1>6, <1>7, <1>8, SteadyTrans

-----------------------------------------------------------------------------
(* Handlers that neither open nor answer the call                          *)

\* What h sends comes from s, and is no initiate and no accept; candidates are
\* only sent by the responder or by an initiator whose initiate is acked.
Discreet(s, out) ==
    \A r \in out : /\ r.from = PeerOf(s) /\ r.kind \notin {"initiate", "accept"}
                   /\ r.kind = "transport-info" => ~s.initiator \/ s.initiate_acked

\* The session keeps its role and gets no closer to being answered.
Quiet(s, h) ==
    /\ Settled(h.s) /\ Discreet(s, h.out)
    /\ h.s.initiator = s.initiator
    /\ h.s.initiate_acked => s.initiate_acked
    /\ h.s.state \in Accepted => s.state \in Accepted \/ ~s.initiator
    /\ h.s.state \in Answering => s.state \in Answering
    /\ h.s.state = "INIT" => s.state = "INIT"

\* A session that is left as it is.
LEMMA StillQuiet ==
    ASSUME NEW s, Settled(s)
    PROVE  Quiet(s, [s |-> s, out |-> {}])
  BY DEF Quiet, Discreet

\* A steady update that sends nothing and stays in its state is quiet.
LEMMA SteadyQuiet ==
    ASSUME NEW s, NEW t, NEW h, Settled(s), Steady(s, t), t.state = s.state,
           h.s = t, h.out = {}
    PROVE  Quiet(s, h)
  <1>1. Settled(t) BY SteadySettled
  <1> QED BY <1>1 DEF Quiet, Discreet, Steady

\* A session that has lost an alarm of its watchdog, but for that is settled.
Startled(s) ==
    /\ Described(s) /\ Joined(s)
    /\ OneContent => s.requested \subseteq s.connecting

\* A session that is ending is settled, whatever it was before.
LEMMA EndingSettled ==
    ASSUME NEW s, NEW t, Startled(s), Steady(s, t), t.state \in Ending,
           t.state = "SENTREJECT" => ~s.initiator
    PROVE  Settled(t)
  <1>1. Described(t) BY DEF Startled, Described, Steady, Ending
  <1>2. Told(t) /\ Joined(t) BY DEF Told, Joined, Ending
  <1>3. OneContent => Guarded(t)
    BY DEF Startled, Guarded, Steady, TransportWatched
  <1> QED BY <1>1, <1>2, <1>3 DEF Settled

\* Settled sessions are startled too, and an ending one may be either.
LEMMA StartledSettled ==
    ASSUME NEW s
    PROVE  /\ Settled(s) => Startled(s)
           /\ Startled(s) /\ s.state \in Ending => Settled(s)
  BY DEF Settled, Startled, Guarded, Told, Joined, Ending, TransportWatched

\* The fields of a plain stanza.
LEMMA PlainDiscreet ==
    ASSUME NEW s, NEW kind, kind \notin {"initiate", "accept", "transport-info"}
    PROVE  Discreet(s, {Plain(s, kind)}) /\ Discreet(s, {})
  BY DEF Discreet, Plain, Stanza

\* The transport-infos of a session come from it.
LEMMA InfosFrom ==
    ASSUME NEW s, NEW cs
    PROVE  \A r \in SendTransportInfos(s, cs) :
               r.from = PeerOf(s) /\ r.kind = "transport-info"
  BY DEF SendTransportInfos, Stanza

\* Reject is quiet: the initiate is answered, but not with an accept.
LEMMA RejectQuiet ==
    ASSUME NEW s \in SessionRec, Settled(s)
    PROVE  Quiet(s, Reject(s))
  <1>1. CASE ~CanAnswer(s)
    BY <1>1, StillQuiet DEF Reject, Ret
  <1>2. CASE CanAnswer(s)
    <2> DEFINE t == SetState(s, "SENTREJECT")
    <2>1. Steady(s, t) /\ t.state = "SENTREJECT"
      BY SetStateSteady DEF State, Ending
    <2>2. Reject(s).s = t /\ Reject(s).out = {Plain(s, "reject")}
      BY <1>2 DEF Reject, Ret
    <2> HIDE DEF t
    <2>3. s.state = "RECEIVEDINITIATE" /\ ~s.initiator
      BY <1>2 DEF CanAnswer, Settled, Described
    <2>4. Settled(t) BY <2>1, <2>3, EndingSettled, StartledSettled DEF Ending
    <2>5. Discreet(s, {Plain(s, "reject")}) BY PlainDiscreet
    <2> QED BY <2>1, <2>2, <2>3, <2>4, <2>5 DEF Quiet, Accepted, Answering, Steady
  <1> QED BY <1>1, <1>2

\* TerminateWithReason is quiet, even when it takes the last alarm off.
LEMMA TerminateQuiet ==
    ASSUME NEW s \in SessionRec, Startled(s)
    PROVE  Quiet(s, TerminateWithReason(s))
  <1>1. CASE s.state \in {"SENTTERMINATE", "RECEIVEDTERMINATE"}
    <2>1. Settled(s) BY <1>1, StartledSettled DEF Ending
    <2> QED BY <1>1, <2>1, StillQuiet DEF TerminateWithReason, Ret
  <1>2. CASE s.state \notin {"SENTTERMINATE", "RECEIVEDTERMINATE"}
    <2> DEFINE t == SetState(s, "SENTTERMINATE")
               h == TerminateWithReason(s)
    <2>1. Steady(s, t) /\ t.state = "SENTTERMINATE"
      BY SetStateSteady DEF State, Ending
    <2>2. h.s = t /\ (h.out = {} \/ h.out = {Plain(s, "terminate")})
      BY <1>2 DEF TerminateWithReason, Ret
    <2> HIDE DEF t, h
    <2>3. Settled(t) BY <2>1, EndingSettled DEF Ending
    <2>4. Discreet(s, h.out)
      <3>1. Discreet(s, {}) /\ Discreet(s, {Plain(s, "terminate")}) BY PlainDiscreet
      <3> QED BY <2>2, <3>1
    <2> QED BY <2>1, <2>2, <2>3, <2>4 DEF Quiet, Accepted, Answering, Steady, h
  <1> QED BY <1>1, <1>2

\* Candidates are held back until the initiate is acknowledged.
LEMMA CandidatesReadyQuiet ==
    ASSUME NEW s \in SessionRec, Settled(s), NEW cs \in SUBSET Candidate
    PROVE  Quiet(s, OnTransportProxyCandidatesReady(s, cs))
  <1> DEFINE t == [s EXCEPT !.gathered = @ \cup cs]
             fresh == {x \in cs : x.content \notin s.negotiated}
             u == [t EXCEPT !.unsent_candidates = @ \cup cs]
             v == [t EXCEPT !.sent_candidates = @ \cup fresh]
             h == OnTransportProxyCandidatesReady(s, cs)
  <1>1. fresh \in SUBSET Candidate OBVIOUS
  <1>2. h = IF s.initiator /\ ~s.initiate_acked
            THEN Ret(u, {}) ELSE Ret(v, SendTransportInfos(s, cs))
    BY DEF OnTransportProxyCandidatesReady
  <1> HIDE DEF fresh, h
  <1>3. /\ t \in SessionRec /\ t.state = s.state /\ t.timer = s.timer /\ t.q = s.q
        /\ t.initiator = s.initiator /\ t.remote_name = s.remote_name
        /\ t.local_description = s.local_description
        /\ t.remote_description = s.remote_description
        /\ t.initiate_acked = s.initiate_acked
        /\ t.negotiated = s.negotiated /\ t.told = s.told
        /\ t.requested = s.requested /\ t.connecting = s.connecting
        /\ t.channels = s.channels /\ t.writable = s.writable
    BY DEF SessionRec
  <1> HIDE DEF t
  <1>4. ASSUME NEW x \in {u, v}
        PROVE  Steady(s, x) /\ x.state = s.state
    <2>1. /\ x \in SessionRec /\ x.state = t.state /\ x.timer = t.timer /\ x.q = t.q
          /\ x.initiator = t.initiator /\ x.remote_name = t.remote_name
          /\ x.local_description = t.local_description
          /\ x.remote_description = t.remote_description
          /\ x.initiate_acked = t.initiate_acked
          /\ x.negotiated = t.negotiated /\ x.told = t.told
          /\ x.requested = t.requested /\ x.connecting = t.connecting
          /\ x.channels = t.channels /\ x.writable = t.writable
      <3>1. CASE x = u BY <1>3, <3>1 DEF SessionRec
      <3>2. CASE x = v BY <1>1, <1>3, <3>2 DEF SessionRec
      <3> QED BY <3>1, <3>2
    <2>2. \A c \in Contents : TransportWatched(s, c) => TransportWatched(x, c)
      BY <1>3, <2>1 DEF TransportWatched, Queued, QueuedFor
    <2> QED BY <1>3, <2>1, <2>2 DEF Steady
  <1>5. /\ Steady(s, u) /\ Steady(s, v) /\ u.state = s.state /\ v.state = s.state
        /\ Settled(u) /\ Settled(v)
    BY <1>4, SteadySettled
  <1> HIDE DEF u, v
  <1>6. CASE s.initiator /\ ~s.initiate_acked
    <2>1. h.s = u /\ h.out = {} BY <1>2, <1>6 DEF Ret
    <2> QED BY <1>5, <2>1, SteadyQuiet DEF h
  <1>7. CASE ~(s.initiator /\ ~s.initiate_acked)
    <2>1. h.s = v /\ h.out = SendTransportInfos(s, cs) BY <1>2, <1>7 DEF Ret
    <2>2. Discreet(s, h.out) BY <1>7, <2>1, InfosFrom DEF Discreet
    <2> QED BY <1>5, <2>1, <2>2 DEF Quiet, Steady, h
  <1> QED BY <1>6, <1>7

\* SetError posts the error and nothing else.
LEMMA SetErrorSteady ==
    ASSUME NEW s \in SessionRec, NEW e \in Error
    PROVE  /\ Steady(s, SetError(s, e)) /\ SetError(s, e).state = s.state
           /\ Queued(SetError(s, e), "ERROR")
           /\ SetError(s, e).requested = s.requested
           /\ SetError(s, e).connecting = s.connecting
  <1> DEFINE t == [s EXCEPT !.error = e]
             u == Post(t, "ERROR", {})
  <1>1. /\ t \in SessionRec /\ t.state = s.state /\ t.timer = s.timer /\ t.q = s.q
        /\ t.initiator = s.initiator /\ t.remote_name = s.remote_name
        /\ t.local_description = s.local_description
        /\ t.remote_description = s.remote_description
        /\ t.initiate_acked = s.initiate_acked
        /\ t.negotiated = s.negotiated /\ t.told = s.told
        /\ t.requested = s.requested /\ t.connecting = s.connecting
        /\ t.channels = s.channels /\ t.writable = s.writable
    BY DEF SessionRec
  <1>2. SetError(s, e) = u BY DEF SetError
  <1> HIDE DEF t
  <1>3. \A c \in Contents : TransportWatched(s, c) => TransportWatched(t, c)
    BY <1>1 DEF TransportWatched, Queued, QueuedFor
  <1>4. Steady(s, t) BY <1>1, <1>3 DEF Steady
  <1>5. Steady(t, u) /\ u.state = t.state BY <1>1, PostSteady
  <1>6. Queued(u, "ERROR") /\ u.requested = t.requested /\ u.connecting = t.connecting
    BY <1>1, PostFields
  <1> HIDE DEF u
  <1> QED BY <1>1, <1>2, <1>4, <1>5, <1>6, SteadyTrans

-----------------------------------------------------------------------------
(* Handlers that open, accept or acknowledge the call                      *)

\* Session::Initiate: the offer is the session's description, is signalled,
\* and is what the initiate carries.
LEMMA InitiateSettled ==
    ASSUME NEW s \in SessionRec, Settled(s), s.state = "INIT", s.initiator,
           NEW offer \in Offers
    PROVE  LET h == Initiate(s, offer) IN
           /\ Settled(h.s) /\ h.s.initiator /\ h.s.state = "SENTINITIATE"
           /\ h.s.initiate_acked = s.initiate_acked
           /\ \E r : /\ h.out = {r} /\ r.kind = "initiate" /\ r.from = Initiator
                     /\ r.desc # "null"
  <1> DEFINE t == [s EXCEPT !.remote_name = 0, !.local_description = offer]
             u == ConnectChannels(t, Contents)
             v == SetState(u, "SENTINITIATE")
             r == Stanza(t, "initiate", {}, offer)
  <1>1. offer \in Description /\ offer # "null" /\ 0 \in Addresses
    BY ChoicesAssumption, BoundsAssumption DEF Description, Addresses
  <1>2. Initiate(s, offer).s = v /\ Initiate(s, offer).out = {r} BY DEF Initiate, Ret
  <1>3. /\ t \in SessionRec /\ t.state = s.state /\ t.timer = s.timer /\ t.q = s.q
        /\ t.initiator = s.initiator /\ t.remote_name = 0
        /\ t.local_description = offer
        /\ t.initiate_acked = s.initiate_acked
        /\ t.requested = s.requested /\ t.connecting = s.connecting
        /\ t.channels = s.channels /\ t.writable = s.writable
    BY <1>1 DEF SessionRec
  <1>4. r.kind = "initiate" /\ r.from = Initiator /\ r.desc # "null"
    BY <1>1, <1>3 DEF Stanza, PeerOf
  <1> HIDE DEF t, r
  <1>5. Guarded(s) => Guarded(t)
    BY <1>3 DEF Guarded, TransportWatched, Queued, QueuedFor
  <1>6. Steady(t, u) /\ u.state = "INIT" BY <1>3, ConnectSteady
  <1> HIDE DEF u
  <1>7. u \in SessionRec BY <1>6 DEF Steady
  <1>8. Steady(u, v) /\ v.state = "SENTINITIATE" /\ <<"local", "offer">> \in v.told
    BY <1>6, <1>7, SetStateSteady DEF State, Ending, GetContentAction
  <1> HIDE DEF v
  <1>9. Steady(t, v) BY <1>6, <1>8, SteadyTrans
  <1>10. Described(v) BY <1>1, <1>3, <1>8, <1>9 DEF Described, Steady
  <1>11. Told(v) /\ Joined(v) BY <1>8 DEF Told, Joined
  <1>12. Guarded(s) => Guarded(v) BY <1>5, <1>9 DEF Guarded, Steady
  <1>13. Settled(v) BY <1>10, <1>11, <1>12 DEF Settled
  <1> QED BY <1>2, <1>3, <1>4, <1>8, <1>9, <1>13 DEF Steady

\* Session::Accept signals its own answer wherever it is called from, inside
\* SignalState too, where Joined does not hold yet.
LEMMA AcceptSettled ==
    ASSUME NEW s \in SessionRec, CanAnswer(s), Described(s), NEW ans \in DOMAIN Answers
    PROVE  LET h == Accept(s, ans) IN
           /\ Described(h.s) /\ Told(h.s)
           /\ Joined(s) => Joined(h.s)
           /\ Guarded(s) => Guarded(h.s)
           /\ h.s \in SessionRec
           /\ h.s.initiator = s.initiator /\ h.s.state = "SENTACCEPT"
           /\ h.s.initiate_acked = s.initiate_acked
           /\ \E r : /\ h.out = {r} /\ r.kind = "accept" /\ r.from = Responder
                     /\ r.desc # "null"
  <1> DEFINE a == [s EXCEPT !.local_description = ans]
             L == Answers[ans].local
             C == Answers[ans].connected
             t == CompleteNegotiation(a, L)
             u == ConnectChannels(t, C)
             v == SetState(u, "SENTACCEPT")
             r == Stanza(t, "accept", {}, ans)
  <1>0. /\ ans \in Description /\ ans # "null"
        /\ L \in SUBSET Contents /\ C \in SUBSET Contents
    BY AnswerParts
  <1>1. /\ s.state = "RECEIVEDINITIATE" /\ ~s.initiator
        /\ s.remote_description # "null"
    BY DEF CanAnswer, Described
  <1>2. Accept(s, ans).s = v /\ Accept(s, ans).out = {r} BY DEF Accept, Ret
  <1>3. /\ a \in SessionRec /\ a.state = s.state /\ a.timer = s.timer /\ a.q = s.q
        /\ a.initiator = s.initiator /\ a.remote_name = s.remote_name
        /\ a.local_description = ans
        /\ a.remote_description = s.remote_description
        /\ a.initiate_acked = s.initiate_acked
        /\ a.negotiated = s.negotiated /\ a.told = s.told
        /\ a.requested = s.requested /\ a.connecting = s.connecting
        /\ a.channels = s.channels /\ a.writable = s.writable
    BY <1>0 DEF SessionRec
  <1> HIDE DEF a, L, C
  <1>4. Guarded(s) => Guarded(a)
    BY <1>3 DEF Guarded, TransportWatched, Queued, QueuedFor
  <1>5. Steady(a, t) /\ t.state = a.state BY <1>0, <1>3, CompleteSteady
  <1> HIDE DEF t
  <1>6. t \in SessionRec /\ ~t.initiator BY <1>1, <1>3, <1>5 DEF Steady
  <1>7. r.kind = "accept" /\ r.from = Responder /\ r.desc # "null"
    BY <1>0, <1>6 DEF Stanza, PeerOf, r
  <1> HIDE DEF r
  <1>8. Steady(t, u) /\ u.state = t.state BY <1>0, <1>6, ConnectSteady
  <1> HIDE DEF u
  <1>9. u \in SessionRec /\ u.state = "RECEIVEDINITIATE" BY <1>1, <1>3, <1>5, <1>8 DEF Steady
  <1>10. Steady(u, v) /\ v.state = "SENTACCEPT" /\ <<"local", "answer">> \in v.told
    BY <1>9, SetStateSteady DEF State, Ending, GetContentAction
  <1> HIDE DEF v
  <1>11. Steady(t, v) BY <1>8, <1>10, SteadyTrans
  <1>12. Steady(a, v) BY <1>5, <1>11, SteadyTrans
  <1>13. Described(v)
    BY <1>0, <1>1, <1>3, <1>10, <1>12 DEF Described, Steady
  <1>14. Told(v) BY <1>10 DEF Told
  <1>15. Joined(s) => Joined(v) BY <1>1, <1>3, <1>12 DEF Joined, Agreed, Steady
  <1>16. Guarded(s) => Guarded(v) BY <1>4, <1>12 DEF Guarded, Steady
  <1> QED BY <1>2, <1>3, <1>7, <1>10, <1>12, <1>13, <1>14, <1>15, <1>16 DEF Steady

\* OnInitiateAcked sends the candidates held back, and is then acked.
LEMMA AckedSettled ==
    ASSUME NEW s \in SessionRec, Settled(s)
    PROVE  LET h == OnInitiateAcked(s) IN
           /\ Settled(h.s) /\ h.s \in SessionRec
           /\ h.s.initiator = s.initiator /\ h.s.state = s.state
           /\ h.s.local_description = s.local_description
           /\ \A r \in h.out : r.from = PeerOf(s) /\ r.kind = "transport-info"
  <1> DEFINE t == [s EXCEPT !.initiate_acked = TRUE, !.unsent_candidates = {}]
             o == SendTransportInfos(s, s.unsent_candidates)
             h == OnInitiateAcked(s)
  <1>1. (h.s = s /\ h.out = {}) \/ (h.s = t /\ h.out = o)
    BY DEF OnInitiateAcked, Ret
  <1>2. \A r \in o : r.from = PeerOf(s) /\ r.kind = "transport-info" BY InfosFrom
  <1> HIDE DEF h, o
  <1>3. /\ t \in SessionRec /\ t.state = s.state /\ t.timer = s.timer /\ t.q = s.q
        /\ t.initiator = s.initiator /\ t.remote_name = s.remote_name
        /\ t.local_description = s.local_description
        /\ t.remote_description = s.remote_description
        /\ t.negotiated = s.negotiated /\ t.told = s.told
        /\ t.requested = s.requested /\ t.connecting = s.connecting
        /\ t.channels = s.channels /\ t.writable = s.writable
    BY DEF SessionRec
  <1> HIDE DEF t
  <1>4. Described(t) /\ Joined(t) /\ Told(t)
    BY <1>3 DEF Settled, Described, Joined, Agreed, Told
  <1>5. Guarded(s) => Guarded(t)
    BY <1>3 DEF Guarded, TransportWatched, Queued, QueuedFor
  <1>6. Settled(t) BY <1>4, <1>5 DEF Settled
  <1> QED BY <1>1, <1>2, <1>3, <1>6 DEF h

-----------------------------------------------------------------------------
(* Incoming requests                                                       *)

\* What a handler may send while the call is not open yet, or not at all.
Speaks(s, out) ==
    \A r \in out : /\ r.from = PeerOf(s) /\ r.kind # "initiate"
                   /\ r.kind = "accept" => r.from = Responder /\ r.desc # "null"

\* A client's reply inside SignalState, in STATE_RECEIVEDINITIATE.
LEMMA ReplySettled ==
    ASSUME NEW s \in SessionRec, s.state = "RECEIVEDINITIATE",
           ~s.initiate_acked, Described(s), NEW reply
    PROVE  LET h == ClientReply(s, reply) IN
           /\ h.s \in SessionRec /\ Described(h.s) /\ Told(h.s)
           /\ Guarded(s) => Guarded(h.s)
           /\ h.s.initiator = s.initiator /\ ~h.s.initiate_acked
           /\ h.s.state \in {"RECEIVEDINITIATE", "SENTACCEPT", "SENTREJECT", "SENTTERMINATE"}
           /\ \A r \in h.out :
                  /\ r.from = PeerOf(s) /\ r.kind \notin {"initiate", "transport-info"}
                  /\ r.kind = "accept" => /\ r.from = Responder /\ r.desc # "null"
                                          /\ h.s.state = "SENTACCEPT"
  <1> DEFINE h == ClientReply(s, reply)
  <1>0. ~s.initiator /\ PeerOf(s) = Responder BY DEF Described, PeerOf
  <1>1. CASE reply \in DOMAIN Answers
    <2>1. h = Accept(s, reply) BY <1>1, AnswersAssumption DEF ClientReply
    <2>2. CanAnswer(s) BY DEF CanAnswer
    <2>3. LET g == Accept(s, reply) IN
          /\ Described(g.s) /\ Told(g.s)
          /\ (Guarded(s) => Guarded(g.s)) /\ g.s \in SessionRec
          /\ g.s.initiator = s.initiator /\ g.s.state = "SENTACCEPT"
          /\ g.s.initiate_acked = s.initiate_acked
          /\ \E r : /\ g.out = {r} /\ r.kind = "accept" /\ r.from = Responder
                    /\ r.desc # "null"
      BY <1>1, <2>2, AcceptSettled
    <2> HIDE DEF h
    <2> QED BY <1>0, <1>1, <2>1, <2>3 DEF h
  <1>2. ASSUME NEW st \in {"SENTREJECT", "SENTTERMINATE"},
               h.s = SetState(s, st),
               h.out \in {{Plain(s, "reject")}, {Plain(s, "terminate")}}
        PROVE  /\ h.s \in SessionRec /\ Described(h.s) /\ Told(h.s)
               /\ Guarded(s) => Guarded(h.s)
               /\ h.s.state \in Ending
               /\ h.s.initiator = s.initiator /\ ~h.s.initiate_acked
               /\ h.s.state = st
               /\ \A r \in h.out :
                      /\ r.from = PeerOf(s)
                      /\ r.kind \notin {"initiate", "accept", "transport-info"}
    <2>1. st \in State \ {"NONE"} /\ st \in Ending BY DEF State, Ending
    <2> DEFINE t == h.s
    <2>2. Steady(s, t) /\ t.state = st BY <1>2, <2>1, SetStateSteady
    <2> HIDE DEF h
    <2> HIDE DEF t
    <2>3. Described(t)
      BY <1>0, <2>1, <2>2 DEF Described, Steady, FindSession, Ending
    <2>6. Told(t) BY <2>1, <2>2 DEF Told, Ending
    <2>4. Guarded(s) => Guarded(t) BY <2>2 DEF Guarded, Steady
    <2>5. \A r \in h.out : /\ r.from = PeerOf(s)
                           /\ r.kind \notin {"initiate", "accept", "transport-info"}
      BY <1>2 DEF Plain, Stanza
    <2> QED BY <2>1, <2>2, <2>3, <2>4, <2>5, <2>6 DEF Steady, t
  <1>3. CASE reply = "reject" /\ reply \notin DOMAIN Answers
    <2>1. h.s = SetState(s, "SENTREJECT") /\ h.out = {Plain(s, "reject")}
      BY <1>3 DEF ClientReply, Reject, CanAnswer, Ret
    <2> HIDE DEF h
    <2> QED BY <1>2, <1>3, <2>1 DEF Ending, h
  <1>4. CASE reply = "terminate" /\ reply \notin DOMAIN Answers
    <2>1. h.s = SetState(s, "SENTTERMINATE") /\ h.out = {Plain(s, "terminate")}
      BY <1>4 DEF ClientReply, TerminateWithReason, Ret
    <2> HIDE DEF h
    <2> QED BY <1>2, <1>4, <2>1 DEF Ending, h
  <1>5. CASE reply \notin {"reject", "terminate"} \cup DOMAIN Answers
    <2>1. h.s = s /\ h.out = {} BY <1>5 DEF ClientReply, Ret
    <2>2. Told(s) BY DEF Told
    <2> HIDE DEF h
    <2> QED BY <1>5, <2>1, <2>2 DEF h
  <1> QED BY <1>1, <1>3, <1>4, <1>5

\* OnInitiateMessage on the session that SessionManager has just created.
LEMMA InitiateMessageSettled ==
    ASSUME NEW r \in Request, r.desc # "null", NEW reply \in Replies
    PROVE  LET s == NewSession(FALSE)
               h == OnInitiateMessage(s, r, reply) IN
           /\ Settled(h.s) /\ ~h.s.initiator /\ ~h.s.initiate_acked
           /\ \A x \in h.out :
                  /\ x.from = Responder /\ x.kind \notin {"initiate", "transport-info"}
                  /\ x.kind = "accept" => /\ x.desc # "null"
                                          /\ h.s.state \notin Answering
  <1> DEFINE s == NewSession(FALSE)
             h == OnInitiateMessage(s, r, reply)
  <1>1. /\ s \in SessionRec /\ s.state = "INIT" /\ s.remote_name = NoName
        /\ s.initiator = FALSE /\ s.initiate_acked = FALSE /\ s.requested = {}
        /\ s.connecting = {}
    BY NewType DEF NewSession
  <1> HIDE DEF s
  <1>2. Settled(s)
    BY <1>1 DEF Settled, Described, Joined, Told, Guarded, TransportWatched
  <1>3. CASE r.desc = "unacceptable"
    <2>1. h.s = s /\ h.out = {} BY <1>3 DEF OnInitiateMessage, Invalid
    <2> HIDE DEF h
    <2> QED BY <1>1, <1>2, <2>1 DEF h, s
  <1>4. CASE r.desc # "unacceptable"
    <2> DEFINE t == [s EXCEPT !.remote_name = 0, !.remote_description = r.desc,
                              !.state = "RECEIVEDINITIATE"]
               g == ClientReply(t, reply)
               p == Post(g.s, "STATE", {})
               u == SignalNewDescription(p)
               v == OnRemoteCandidates(u, Contents, {})
    <2>1. r.desc \in Description /\ 0 \in Addresses /\ "RECEIVEDINITIATE" \in State
      BY BoundsAssumption DEF Request, Addresses, State
    <2>2. /\ t \in SessionRec /\ t.state = "RECEIVEDINITIATE"
          /\ t.initiator = FALSE /\ t.initiate_acked = FALSE
          /\ t.remote_description = r.desc
          /\ t.requested = {} /\ t.connecting = {}
      BY <1>1, <2>1 DEF SessionRec
    <2>3. h.s = (IF u.state = "SENTREJECT" THEN u ELSE v) /\ h.out = g.out
      BY <1>1, <1>4 DEF OnInitiateMessage, CheckState, Valid
    <2> HIDE DEF t, h
    <2>4. Described(t) /\ Guarded(t) /\ PeerOf(t) = Responder
      BY <2>2 DEF Described, Guarded, TransportWatched, PeerOf
    <2>5. /\ g.s \in SessionRec /\ Described(g.s) /\ Told(g.s) /\ Guarded(g.s)
          /\ ~g.s.initiator /\ ~g.s.initiate_acked
          /\ g.s.state \in {"RECEIVEDINITIATE", "SENTACCEPT", "SENTREJECT", "SENTTERMINATE"}
          /\ \A x \in g.out :
                  /\ x.from = Responder /\ x.kind \notin {"initiate", "transport-info"}
                  /\ x.kind = "accept" => x.desc # "null" /\ g.s.state = "SENTACCEPT"
      BY <2>2, <2>4, ReplySettled
    <2> HIDE DEF g
    <2>6. Steady(g.s, p) /\ p.state = g.s.state BY <2>5, PostSteady
    <2> HIDE DEF p
    <2>7. p \in SessionRec BY <2>6 DEF Steady
    <2>8. Steady(p, u) /\ u.state = p.state /\ GetContentAction(p.state) \subseteq u.told
      BY <2>7, SignalSteady
    <2> HIDE DEF u
    <2>9. u \in SessionRec BY <2>8 DEF Steady
    <2>10. /\ Steady(u, v) /\ v.state = u.state
           /\ Contents \subseteq v.negotiated /\ Contents \subseteq v.connecting
      BY <2>9, RemoteCandidatesSteady
    <2> HIDE DEF v
    <2>11. ASSUME NEW x \in {u, v}, x = u => u.state = "SENTREJECT" \/ u = v
           PROVE  Settled(x) /\ ~x.initiator /\ ~x.initiate_acked
                                         /\ x.state = g.s.state
      <3>1. Steady(g.s, u) BY <2>6, <2>8, SteadyTrans
      <3>2. Steady(g.s, v) BY <2>10, <3>1, SteadyTrans
      <3>3. Steady(g.s, x) /\ x.state = g.s.state BY <2>6, <2>8, <2>10, <3>1, <3>2
      <3>4. Described(x) BY <2>5, <3>3 DEF Described, Steady
      <3>5. Told(x) BY <2>5, <3>3 DEF Told, Steady
      <3>6. Guarded(x) BY <2>5, <3>3 DEF Guarded, Steady
      <3>7. Joined(x)
        <4>1. Agreed(x) = Contents BY <2>5, <3>3 DEF Agreed, Steady
        <4> QED BY <2>10, <2>11, <4>1 DEF Joined
      <3> QED BY <2>5, <3>3, <3>4, <3>5, <3>6, <3>7 DEF Settled, Steady
    <2>12. h.s \in {u, v} /\ (h.s = u => u.state = "SENTREJECT" \/ u = v) BY <2>3
    <2>13. \A x \in h.out :
                  /\ x.from = Responder /\ x.kind \notin {"initiate", "transport-info"}
                  /\ x.kind = "accept" => x.desc # "null" /\ h.s.state \notin Answering
      BY <2>3, <2>5, <2>11, <2>12 DEF Answering
    <2> QED BY <2>11, <2>12, <2>13 DEF h, s
  <1> QED BY <1>3, <1>4


\* OnAcceptMessage: the answer completes the initiator's session.
LEMMA AcceptMessageSettled ==
    ASSUME NEW s \in SessionRec, Settled(s), NEW r \in Request, r.kind = "accept",
           CheckState(s, "SENTINITIATE")
    PROVE  LET h == OnAcceptMessage(s, r) IN
           /\ Settled(h.s) /\ h.s.initiator = s.initiator /\ s.initiator
           /\ h.s.state = "RECEIVEDACCEPT"
           /\ \A x \in h.out : x.from = PeerOf(s) /\ x.kind = "transport-info"
  <1> DEFINE h == OnAcceptMessage(s, r)
             g == OnInitiateAcked(s)
             d == [g.s EXCEPT !.remote_description = r.desc]
             R == Answers[r.desc].remote
             L == Answers[r.desc].lists
             t == CompleteNegotiation(d, R)
             u == SetState(t, "RECEIVEDACCEPT")
             v == OnRemoteCandidates(u, L, {})
  <1>0. s.state = "SENTINITIATE" /\ s.initiator /\ s.local_description # "null"
    BY DEF CheckState, Settled, Described
  <1>1. /\ r.desc \in Description /\ r.desc # "null"
        /\ R \in SUBSET Contents /\ L \in SUBSET Contents
    <2>1. r.desc \in DOMAIN Answers BY DEF Request
    <2> QED BY <2>1, AnswerParts
  <1>2. h.s = v /\ h.out = g.out BY DEF OnAcceptMessage, TakeAnswer, Valid
  <1>3. /\ Settled(g.s) /\ g.s \in SessionRec
        /\ g.s.initiator = s.initiator /\ g.s.state = s.state
        /\ g.s.local_description = s.local_description
        /\ \A x \in g.out : x.from = PeerOf(s) /\ x.kind = "transport-info"
    BY AckedSettled
  <1> HIDE DEF g, h, R
  <1>4. /\ d \in SessionRec /\ d.state = g.s.state /\ d.timer = g.s.timer /\ d.q = g.s.q
        /\ d.initiator = g.s.initiator /\ d.local_description = g.s.local_description
        /\ d.remote_description = r.desc /\ d.told = g.s.told
        /\ d.requested = g.s.requested /\ d.connecting = g.s.connecting
        /\ d.channels = g.s.channels /\ d.writable = g.s.writable
    BY <1>1, <1>3 DEF SessionRec
  <1> HIDE DEF d
  <1>5. Guarded(g.s) => Guarded(d)
    BY <1>4 DEF Guarded, TransportWatched, Queued, QueuedFor
  <1>6. Steady(d, t) /\ t.state = d.state BY <1>1, <1>4, CompleteSteady
  <1> HIDE DEF t
  <1>7. t \in SessionRec /\ t.state = "SENTINITIATE" BY <1>0, <1>3, <1>4, <1>6 DEF Steady
  <1>8. Steady(t, u) /\ u.state = "RECEIVEDACCEPT" /\ <<"remote", "answer">> \in u.told
    BY <1>7, SetStateSteady DEF State, Ending, GetContentAction
  <1> HIDE DEF u
  <1>9. u \in SessionRec BY <1>8 DEF Steady
  <1>10. /\ Steady(u, v) /\ v.state = u.state
         /\ L \subseteq v.negotiated /\ L \subseteq v.connecting
    BY <1>1, <1>9, RemoteCandidatesSteady
  <1> HIDE DEF v
  <1>11. Steady(t, v) BY <1>8, <1>10, SteadyTrans
  <1>12. Steady(d, v) BY <1>6, <1>11, SteadyTrans
  <1>13. Joined(v)
    <2>1. v.initiator /\ v.remote_description = r.desc
      BY <1>0, <1>3, <1>4, <1>12 DEF Steady
    <2>2. Agreed(v) = L BY <2>1 DEF Agreed
    <2> QED BY <1>10, <2>2 DEF Joined
  <1>14. Described(v)
    BY <1>0, <1>1, <1>3, <1>4, <1>8, <1>10, <1>12 DEF Described, Steady
  <1>15. Told(v)
    <2>1. <<"local", "offer">> \in g.s.told BY <1>0, <1>3 DEF Settled, Told
    <2>2. <<"local", "offer">> \in v.told BY <1>4, <1>12, <2>1 DEF Steady
    <2>3. <<"remote", "answer">> \in v.told BY <1>8, <1>10 DEF Steady
    <2> QED BY <1>8, <1>10, <2>2, <2>3 DEF Told
  <1>16. Guarded(g.s) => Guarded(v) BY <1>5, <1>12 DEF Guarded, Steady
  <1>17. Settled(v) BY <1>3, <1>13, <1>14, <1>15, <1>16 DEF Settled
  <1> QED BY <1>0, <1>2, <1>3, <1>4, <1>8, <1>10, <1>12, <1>17 DEF Steady, h

\* The other requests answer nothing; a terminate ends the session.
LEMMA OtherMessagesQuiet ==
    ASSUME NEW s \in SessionRec, Settled(s), NEW r \in Request
    PROVE  /\ Quiet(s, OnRejectMessage(s))
           /\ Quiet(s, OnTerminateMessage(s))
           /\ Quiet(s, OnTransportInfoMessage(s, r))
           /\ Quiet(s, OnInfoMessage(s))
           /\ Quiet(s, OnDescriptionInfoMessage(s))
  <1>1. Quiet(s, Valid(s, {})) /\ Quiet(s, Invalid(s, {}))
    BY DEF Quiet, Discreet, Valid, Invalid
  <1>2. ASSUME NEW st \in {"RECEIVEDREJECT", "RECEIVEDTERMINATE"}
        PROVE  Quiet(s, Valid(SetState(s, st), {}))
    <2> DEFINE t == SetState(s, st)
    <2>1. st \in State \ {"NONE"} /\ st \in Ending BY DEF State, Ending
    <2>2. Steady(s, t) /\ t.state = st BY <2>1, SetStateSteady
    <2> HIDE DEF t
    <2>3. Settled(t) BY <2>1, <2>2, EndingSettled, StartledSettled
    <2>4. Quiet(s, Valid(t, {}))
      BY <2>2, <2>3 DEF Quiet, Discreet, Valid, Accepted, Answering, Steady
    <2> QED BY <2>4 DEF t
  <1>3. Quiet(s, OnRejectMessage(s)) BY <1>1, <1>2 DEF OnRejectMessage
  <1>4. Quiet(s, OnTerminateMessage(s)) BY <1>2 DEF OnTerminateMessage
  <1>5. Quiet(s, OnTransportInfoMessage(s, r))
    <2> DEFINE C == {x.content : x \in r.cands}
               t == OnRemoteCandidates(s, C, r.cands)
               h == OnTransportInfoMessage(s, r)
    <2>1. r.cands \in SUBSET Candidate BY DEF Request
    <2>2. C \in SUBSET Contents BY <2>1 DEF Candidate
    <2>3. h.s = t /\ h.out = {} BY DEF OnTransportInfoMessage, Valid, Invalid
    <2> HIDE DEF C, h
    <2>4. Steady(s, t) /\ t.state = s.state BY <2>1, <2>2, RemoteCandidatesSteady
    <2> HIDE DEF t
    <2> QED BY <2>3, <2>4, SteadyQuiet DEF h
  <1>6. Quiet(s, OnInfoMessage(s)) BY <1>1 DEF OnInfoMessage
  <1>7. Quiet(s, OnDescriptionInfoMessage(s)) BY <1>1 DEF OnDescriptionInfoMessage
  <1> QED BY <1>3, <1>4, <1>5, <1>6, <1>7

\* A request at the session manager: it opens a session, accepts the one the
\* initiator has opened, or is quiet.
LEMMA IncomingSettled ==
    ASSUME NEW s \in SessionRec, Settled(s), NEW r \in Request, NEW reply \in Replies,
           r.kind = "initiate" => ~s.initiator /\ r.desc # "null",
           r.kind = "accept" => r.desc # "null"
    PROVE  LET h == ManagerOnIncomingMessage(s, r, reply) IN
           \/ Quiet(s, h)
           \/ /\ r.kind = "initiate"
              /\ Settled(h.s) /\ ~h.s.initiator
              /\ \A x \in h.out :
                     /\ x.from = Responder /\ x.kind \notin {"initiate", "transport-info"}
                     /\ x.kind = "accept" => /\ x.desc # "null"
                                             /\ h.s.state \notin Answering
           \/ /\ r.kind = "accept" /\ s.initiator /\ s.state = "SENTINITIATE"
              /\ Settled(h.s) /\ h.s.initiator /\ h.s.state = "RECEIVEDACCEPT"
              /\ \A x \in h.out : x.from = PeerOf(s) /\ x.kind = "transport-info"
  <1> DEFINE h == ManagerOnIncomingMessage(s, r, reply)
  <1>1. Quiet(s, Invalid(s, {})) BY DEF Quiet, Discreet, Invalid
  <1>2. CASE ~FindSession(s)
    <2>1. CASE r.kind # "initiate" \/ r.desc = "unknown_type"
      BY <1>1, <1>2, <2>1 DEF ManagerOnIncomingMessage
    <2>2. CASE r.kind = "initiate" /\ r.desc # "unknown_type"
      <3>1. h = OnInitiateMessage(NewSession(FALSE), r, reply)
        BY <1>2, <2>2 DEF ManagerOnIncomingMessage, OnIncomingMessage
      <3> HIDE DEF h
      <3> QED BY <2>2, <3>1, InitiateMessageSettled DEF h
    <2> QED BY <2>1, <2>2
  <1>3. CASE FindSession(s)
    <2>1. h = OnIncomingMessage(s, r, reply) BY <1>3 DEF ManagerOnIncomingMessage
    <2>2. s.state # "NONE" /\ s.state # "INIT"
      BY <1>3 DEF FindSession, Settled, Described
    <2>3. OnInitiateMessage(s, r, reply) = Invalid(s, {})
      BY <2>2 DEF OnInitiateMessage, CheckState
    <2>4. ~CheckState(s, "SENTINITIATE") => OnAcceptMessage(s, r) = Invalid(s, {})
      BY DEF OnAcceptMessage
    <2> HIDE DEF h
    <2>5. CASE r.kind = "initiate"
      BY <1>1, <2>1, <2>3, <2>5 DEF OnIncomingMessage, h
    <2>6. CASE r.kind = "accept"
      <3>1. h = OnAcceptMessage(s, r) BY <2>1, <2>6 DEF OnIncomingMessage
      <3>2. CASE ~CheckState(s, "SENTINITIATE") BY <1>1, <2>4, <3>1, <3>2 DEF h
      <3>3. CASE CheckState(s, "SENTINITIATE")
        <4>1. s.state = "SENTINITIATE" BY <3>3 DEF CheckState
        <4> QED BY <2>6, <3>1, <3>3, <4>1, AcceptMessageSettled DEF h
      <3> QED BY <3>2, <3>3
    <2>7. CASE r.kind \notin {"initiate", "accept"}
      BY <2>1, <2>2, <2>7, OtherMessagesQuiet DEF OnIncomingMessage, h
    <2> QED BY <2>5, <2>6, <2>7
  <1> QED BY <1>2, <1>3

-----------------------------------------------------------------------------
(* Responses                                                               *)

\* A response acknowledges the initiate, redirects it, or is quiet.
LEMMA ResponseSettled ==
    ASSUME NEW s \in SessionRec, Settled(s), NEW m,
           m.etype = "redirect" => m.addr + 1 \in Addresses
    PROVE  LET h == ManagerOnResponse(s, m) IN
           \/ Quiet(s, h)
           \/ /\ m.etype = "result" /\ m.of = "initiate"
              /\ Settled(h.s) /\ h.s.initiator = s.initiator /\ h.s.state = s.state
              /\ \A r \in h.out : r.from = PeerOf(s) /\ r.kind = "transport-info"
           \/ /\ m.etype = "redirect"
              /\ Settled(h.s) /\ h.s.initiator = s.initiator
              /\ \A r \in h.out : /\ r.from = PeerOf(s)
                                  /\ \/ r.kind = "transport-info"
                                     \/ /\ r.kind = "initiate" /\ r.desc # "null"
                                        /\ r.from = Initiator
  <1> DEFINE h == ManagerOnResponse(s, m)
  <1>1. Quiet(s, Ret(s, {})) BY DEF Quiet, Discreet, Ret
  <1>2. Quiet(s, Ret(SetError(s, "RESPONSE"), {}))
    <2> DEFINE t == SetError(s, "RESPONSE")
    <2>1. Steady(s, t) /\ t.state = s.state BY SetErrorSteady DEF Error
    <2> HIDE DEF t
    <2>2. Quiet(s, Ret(t, {})) BY <2>1, SteadyQuiet DEF Ret
    <2> QED BY <2>2 DEF t
  <1>3. CASE h = OnInitiateAcked(s) /\ m.etype = "result" /\ m.of = "initiate"
    BY <1>3, AckedSettled
  <1>4. CASE /\ h = OnRedirectError(s, m.addr + 1)
             /\ m.etype = "redirect" /\ CheckState(s, "SENTINITIATE")
    <2> DEFINE a == m.addr + 1
               t == [s EXCEPT !.remote_name = a]
               u == [t EXCEPT !.sent_candidates = {}]
               r == Stanza(t, "initiate", {}, t.local_description)
               o == SendTransportInfos(t, s.sent_candidates)
    <2>1. h.s = u /\ h.out = {r} \cup o BY <1>4 DEF OnRedirectError, Ret
    <2>2. s.state = "SENTINITIATE" /\ s.initiator /\ s.local_description # "null"
      BY <1>4 DEF CheckState, Settled, Described
    <2>3. a \in Addresses BY <1>4
    <2> HIDE DEF a, h
    <2>4. /\ t \in SessionRec /\ t.initiator = s.initiator
          /\ t.local_description = s.local_description
      BY <2>3 DEF SessionRec
    <2>5. /\ u.state = s.state /\ u.timer = s.timer /\ u.q = s.q
          /\ u.initiator = s.initiator
          /\ u.local_description = s.local_description
          /\ u.told = s.told
          /\ u.requested = s.requested /\ u.connecting = s.connecting
          /\ u.channels = s.channels /\ u.writable = s.writable
      BY DEF SessionRec
    <2>6. r.from = Initiator /\ r.kind = "initiate" /\ r.desc # "null" /\ PeerOf(s) = Initiator
      BY <2>2, <2>4 DEF Stanza, PeerOf
    <2> HIDE DEF t, u, r
    <2>7. \A x \in o : x.from = PeerOf(t) /\ x.kind = "transport-info" BY InfosFrom
    <2>8. PeerOf(t) = PeerOf(s) BY <2>4 DEF PeerOf
    <2>9. Described(u) BY <2>2, <2>5 DEF Described
    <2>10. Told(u) /\ Joined(u) BY <2>2, <2>5 DEF Settled, Told, Joined
    <2>11. Guarded(s) => Guarded(u)
      BY <2>5 DEF Guarded, TransportWatched, Queued, QueuedFor
    <2>12. Settled(u) BY <2>9, <2>10, <2>11 DEF Settled
    <2> HIDE DEF o
    <2> QED BY <1>4, <2>1, <2>5, <2>6, <2>7, <2>8, <2>12 DEF h
  <1>5. \/ h = Ret(s, {}) \/ h = Ret(SetError(s, "RESPONSE"), {})
        \/ h = OnInitiateAcked(s) /\ m.etype = "result" /\ m.of = "initiate"
        \/ /\ h = OnRedirectError(s, m.addr + 1)
           /\ m.etype = "redirect" /\ CheckState(s, "SENTINITIATE")
    BY DEF ManagerOnResponse, OnFailedSend
  <1> HIDE DEF h
  <1> QED BY <1>1, <1>2, <1>3, <1>4, <1>5 DEF h

-----------------------------------------------------------------------------
(* The messages of the signaling thread                                    *)

\* The message taken off the queue is all that a session loses.
LEMMA PopFields ==
    ASSUME NEW s \in SessionRec, s.q # <<>>
    PROVE  LET t == Pop(s) IN
           /\ t \in SessionRec /\ t.state = s.state /\ t.timer = s.timer
           /\ t.initiator = s.initiator /\ t.remote_name = s.remote_name
           /\ t.local_description = s.local_description
           /\ t.remote_description = s.remote_description
           /\ t.initiate_acked = s.initiate_acked
           /\ t.negotiated = s.negotiated /\ t.told = s.told
           /\ t.requested = s.requested /\ t.connecting = s.connecting
           /\ t.channels = s.channels /\ t.writable = s.writable
           /\ \A x : Queued(s, x) => Queued(t, x) \/ Head(s.q).id = x
           /\ \A x, c : QueuedFor(s, x, c) => QueuedFor(t, x, c) \/ Head(s.q).id = x
  <1> DEFINE t == Pop(s)
             x == Tail(s.q)
  <1>1. s.q \in Seq(Message) BY DEF SessionRec
  <1>2. /\ x \in Seq(Message) /\ Head(s.q) = s.q[1]
        /\ Len(x) = Len(s.q) - 1 /\ Len(s.q) > 0 /\ Len(s.q) \in Nat
        /\ \A i \in 1 .. Len(s.q) - 1 : x[i] = s.q[i + 1]
    BY <1>1
  <1>3. t = [s EXCEPT !.q = x] BY DEF Pop
  <1> HIDE DEF x, t
  <1>4. /\ t \in SessionRec /\ t.state = s.state /\ t.timer = s.timer /\ t.q = x
        /\ t.initiator = s.initiator /\ t.remote_name = s.remote_name
        /\ t.local_description = s.local_description
        /\ t.remote_description = s.remote_description
        /\ t.initiate_acked = s.initiate_acked
        /\ t.negotiated = s.negotiated /\ t.told = s.told
        /\ t.requested = s.requested /\ t.connecting = s.connecting
        /\ t.channels = s.channels /\ t.writable = s.writable
    BY <1>2, <1>3 DEF SessionRec
  <1>5. \A i \in 1 .. Len(s.q) : i = 1 \/ (i - 1 \in 1 .. Len(x) /\ x[i - 1] = s.q[i])
    BY <1>2
  <1>6. \A y : Queued(s, y) => Queued(t, y) \/ Head(s.q).id = y
    BY <1>2, <1>4, <1>5 DEF Queued
  <1>7. \A y, c : QueuedFor(s, y, c) => QueuedFor(t, y, c) \/ Head(s.q).id = y
    <2> SUFFICES ASSUME NEW y, NEW c, QueuedFor(s, y, c), Head(s.q).id # y
                 PROVE  QueuedFor(t, y, c)
      OBVIOUS
    <2>1. PICK i \in 1 .. Len(s.q) : s.q[i].id = y /\ c \in s.q[i].of
      BY DEF QueuedFor
    <2>2. i - 1 \in 1 .. Len(x) /\ x[i - 1] = s.q[i] BY <1>2, <1>5, <2>1
    <2> QED BY <1>4, <2>1, <2>2 DEF QueuedFor
  <1> QED BY <1>4, <1>6, <1>7 DEF t

\* A message that is no alarm of the watchdog can be taken off the queue; any
\* other one startles the session at most.
LEMMA PopSteady ==
    ASSUME NEW s \in SessionRec, s.q # <<>>, Settled(s)
    PROVE  LET t == Pop(s) IN
           /\ Startled(t) /\ t.state = s.state
           /\ Head(s.q).id \in {"STATE", "WRITESTATE"} => Steady(s, t)
  <1> DEFINE t == Pop(s)
             id == Head(s.q).id
  <1>1. /\ t \in SessionRec /\ t.state = s.state /\ t.timer = s.timer
        /\ t.initiator = s.initiator /\ t.remote_name = s.remote_name
        /\ t.local_description = s.local_description
        /\ t.remote_description = s.remote_description
        /\ t.initiate_acked = s.initiate_acked
        /\ t.negotiated = s.negotiated /\ t.told = s.told
        /\ t.requested = s.requested /\ t.connecting = s.connecting
        /\ t.channels = s.channels /\ t.writable = s.writable
        /\ \A x : Queued(s, x) => Queued(t, x) \/ id = x
        /\ \A x, c : QueuedFor(s, x, c) => QueuedFor(t, x, c) \/ id = x
    BY PopFields
  <1> HIDE DEF t, id
  <1>2. Described(t) /\ Joined(t) BY <1>1 DEF Settled, Described, Joined, Agreed
  <1>3. OneContent => t.requested \subseteq t.connecting BY <1>1 DEF Settled, Guarded
  <1>4. ASSUME id \in {"STATE", "WRITESTATE"} PROVE Steady(s, t)
    <2>1. \A c \in Contents : TransportWatched(s, c) => TransportWatched(t, c)
      BY <1>1, <1>4 DEF TransportWatched
    <2> QED BY <1>1, <2>1 DEF Steady
  <1> QED BY <1>1, <1>2, <1>3, <1>4 DEF Startled, t, id

\* Quiet handlers may be run on what is left when a message is taken off.
LEMMA QuietAfter ==
    ASSUME NEW s, NEW t, NEW h, Quiet(t, h), t.state = s.state,
           t.initiator = s.initiator, t.initiate_acked = s.initiate_acked
    PROVE  Quiet(s, h)
  BY DEF Quiet, Discreet, PeerOf

\* Session::OnMessage is quiet: it moves an accepted session on, or ends it.
LEMMA SessionMessageQuiet ==
    ASSUME NEW s \in SessionRec, Settled(s), s.q # <<>>, Head(s.q).of = {}
    PROVE  Quiet(s, OnSessionMessage(Pop(s), Head(s.q).id))
  <1> DEFINE t == Pop(s)
             id == Head(s.q).id
             h == OnSessionMessage(t, id)
  <1>1. /\ t \in SessionRec /\ t.state = s.state
        /\ t.initiator = s.initiator /\ t.initiate_acked = s.initiate_acked
    BY PopFields
  <1>2. Startled(t) /\ (id \in {"STATE", "WRITESTATE"} => Steady(s, t))
    BY PopSteady
  <1>3. id \in SessionIds
    <2>1. s.q \in Seq(Message) BY DEF SessionRec
    <2>2. Head(s.q) \in Message BY <2>1
    <2> QED BY <2>2 DEF Message
  <1> HIDE DEF t, id
  <1>4. Quiet(t, TerminateWithReason(t)) BY <1>1, <1>2, TerminateQuiet
  <1> SUFFICES Quiet(s, h) BY DEF t, id
  <1>5. CASE id = "ERROR"
    <2>1. h = TerminateWithReason(t) BY <1>5 DEF OnSessionMessage
    <2> QED BY <1>1, <1>4, <2>1, QuietAfter
  <1>6. CASE id = "TIMEOUT"
    <2> DEFINE u == SetError(t, "TIME")
    <2>1. h = Ret(u, {}) BY <1>6 DEF OnSessionMessage
    <2>2. /\ Steady(t, u) /\ u.state = t.state /\ Queued(u, "ERROR")
          /\ u.requested = t.requested /\ u.connecting = t.connecting
      BY <1>1, SetErrorSteady DEF Error
    <2> HIDE DEF u
    <2>3. Described(u) BY <1>2, <2>2 DEF Startled, Described, Steady
    <2>4. Joined(u) BY <1>2, <2>2 DEF Startled, Joined, Agreed, Steady
    <2>5. Told(u)
      <3>1. s.told = t.told BY PopFields DEF t
      <3> QED BY <1>1, <2>2, <3>1 DEF Settled, Told, Steady
    <2>6. OneContent => Guarded(u)
      BY <1>2, <2>2 DEF Startled, Guarded, TransportWatched
    <2>7. Settled(u) BY <2>3, <2>4, <2>5, <2>6 DEF Settled
    <2> HIDE DEF h
    <2>8. h.s = u /\ h.out = {} BY <2>1 DEF Ret
    <2> QED BY <1>1, <2>2, <2>7, <2>8 DEF Quiet, Discreet, Steady
  <1>7. CASE h = Ret(t, {}) /\ Settled(t)
    <2>1. Quiet(t, h) BY <1>7 DEF Quiet, Discreet, Ret
    <2> HIDE DEF h
    <2> QED BY <1>1, <2>1, QuietAfter
  <1>8. CASE id = "STATE"
    <2>0. Steady(s, t) BY <1>2, <1>8
    <2>1. Settled(t) BY <1>1, <2>0, SteadySettled
    <2>2. h = OnStateMessage(t) BY <1>8 DEF OnSessionMessage
    <2>3. CASE t.state \in {"SENTACCEPT", "RECEIVEDACCEPT"}
      <3> DEFINE u == SetState(t, "INPROGRESS")
      <3>1. h = Ret(u, {}) BY <2>2, <2>3 DEF OnStateMessage
      <3>2. Steady(t, u) /\ u.state = "INPROGRESS"
        BY <1>1, <2>3, SetStateSteady DEF State, Ending
      <3> HIDE DEF u, h
      <3>3. Joined(u) BY <2>1, <2>3, <3>2 DEF Settled, Joined, Agreed, Steady
      <3>4. Described(u) BY <2>1, <2>3, <3>2 DEF Settled, Described, Steady
      <3>5. Told(u) BY <2>1, <2>3, <3>2 DEF Settled, Described, Told, Steady
      <3>6. Guarded(t) => Guarded(u) BY <3>2 DEF Guarded, Steady
      <3>7. Settled(u) BY <2>1, <3>3, <3>4, <3>5, <3>6 DEF Settled
      <3>8. h.s = u /\ h.out = {} BY <3>1 DEF Ret
      <3>9. t.initiator => t.state = "RECEIVEDACCEPT"
        BY <2>1, <2>3 DEF Settled, Described
      <3>10. Quiet(t, h)
        BY <2>3, <3>2, <3>7, <3>8, <3>9 DEF Quiet, Discreet, Steady, Accepted, Answering
      <3> QED BY <1>1, <3>10, QuietAfter
    <2>4. CASE t.state \in {"SENTREJECT", "RECEIVEDREJECT"}
      <3>1. h = TerminateWithReason(t) BY <2>2, <2>4 DEF OnStateMessage
      <3> QED BY <1>1, <1>4, <3>1, QuietAfter
    <2>5. CASE t.state \in {"SENTTERMINATE", "RECEIVEDTERMINATE"}
      <3> DEFINE u == Destroyed(t)
      <3>1. h.s = u /\ h.out = {} BY <2>2, <2>5 DEF OnStateMessage, Ret
      <3>2. /\ u.state = "NONE" /\ u.initiator = t.initiator /\ ~u.initiate_acked
            /\ u.remote_name = NoName /\ u.requested = {} /\ u.connecting = {}
        BY DEF Destroyed, NewSession
      <3> HIDE DEF u, h
      <3>3. Settled(u)
        BY <3>2 DEF Settled, Described, Joined, Told, Guarded, TransportWatched
      <3> QED BY <1>1, <3>1, <3>2, <3>3 DEF Quiet, Discreet, Accepted, Answering
    <2>6. CASE t.state \notin Ending \cup {"SENTACCEPT", "RECEIVEDACCEPT"}
      <3>1. h = Ret(t, {}) BY <2>2, <2>6 DEF OnStateMessage, Ending
      <3> QED BY <1>7, <2>1, <3>1
    <2> QED BY <2>3, <2>4, <2>5, <2>6 DEF Ending
  <1> QED BY <1>3, <1>5, <1>6, <1>8


\* OnTransportWritable restarts the only watchdog there is: with one content,
\* its transport is watched afterwards, whatever was queued before.
LEMMA WritableFields ==
    ASSUME NEW s \in SessionRec, NEW c \in Contents
    PROVE  LET t == OnTransportWritable(s, c) IN
           /\ t.state = s.state
           /\ t.initiator = s.initiator /\ t.remote_name = s.remote_name
           /\ t.local_description = s.local_description
           /\ t.remote_description = s.remote_description
           /\ t.initiate_acked = s.initiate_acked
           /\ t.negotiated = s.negotiated /\ t.connecting = s.connecting
           /\ t.told = s.told
           /\ OneContent /\ s.requested \subseteq s.connecting => Guarded(t)
  <1> DEFINE t == OnTransportWritable(s, c)
             w == HasChannels(s, c) /\ c \notin s.writable
  <1>1. /\ t.state = s.state /\ t.timer = w
        /\ t.initiator = s.initiator /\ t.remote_name = s.remote_name
        /\ t.local_description = s.local_description
        /\ t.remote_description = s.remote_description
        /\ t.initiate_acked = s.initiate_acked
        /\ t.negotiated = s.negotiated /\ t.told = s.told
        /\ t.requested = s.requested /\ t.connecting = s.connecting
        /\ t.channels = s.channels /\ t.writable = s.writable
    BY DEF OnTransportWritable, SessionRec
  <1> HIDE DEF t
  <1>2. ASSUME OneContent, s.requested \subseteq s.connecting PROVE Guarded(t)
    <2>1. \A d \in Contents : d = c BY <1>2 DEF OneContent
    <2>2. TransportWatched(t, c) BY <1>1, <1>2 DEF TransportWatched, HasChannels
    <2> QED BY <1>1, <1>2, <2>1, <2>2 DEF Guarded
  <1> QED BY <1>1, <1>2 DEF t

\* Transport::OnMessage is quiet: it only starts and stops the watchdog.
LEMMA TransportMessageQuiet ==
    ASSUME NEW s \in SessionRec, Settled(s), s.q # <<>>, NEW c \in Head(s.q).of
    PROVE  LET rest == Head(s.q).of \ {c}
               t == IF rest = {} THEN Pop(s) ELSE [s EXCEPT !.q[1].of = rest]
           IN Quiet(s, Ret(OnTransportMessage(t, Head(s.q).id, c), {}))
  <1> DEFINE rest == Head(s.q).of \ {c}
             t == IF rest = {} THEN Pop(s) ELSE [s EXCEPT !.q[1].of = rest]
             id == Head(s.q).id
             v == OnTransportMessage(t, id, c)
  <1> SUFFICES Quiet(s, Ret(v, {})) OBVIOUS
  <1>1. /\ Head(s.q) \in Message /\ c \in Contents /\ rest \subseteq Contents
        /\ id \in {"CONNECTING", "WRITESTATE"}
    <2>1. s.q \in Seq(Message) BY DEF SessionRec
    <2>2. Head(s.q) \in Message BY <2>1
    <2> QED BY <2>2 DEF Message
  <1>2. /\ t \in SessionRec /\ t.state = s.state
        /\ t.initiator = s.initiator /\ t.remote_name = s.remote_name
        /\ t.local_description = s.local_description
        /\ t.remote_description = s.remote_description
        /\ t.initiate_acked = s.initiate_acked
        /\ t.negotiated = s.negotiated /\ t.told = s.told
        /\ t.requested = s.requested /\ t.connecting = s.connecting
    <2>1. CASE rest = {} BY <2>1, PopFields
    <2>2. CASE rest # {}
      <3> DEFINE x == [s.q EXCEPT ![1].of = rest]
      <3>0. s.q \in Seq(Message) BY DEF SessionRec
      <3>1. Len(s.q) \in Nat /\ Len(s.q) > 0 /\ s.q[1] = Head(s.q) BY <3>0
      <3>2. [s.q[1] EXCEPT !.of = rest] \in Message
        BY <1>1, <2>2, <3>1 DEF Message
      <3> HIDE DEF rest
      <3>3. x \in Seq(Message) BY <3>0, <3>1, <3>2
      <3>4. t = [s EXCEPT !.q = x] BY <2>2
      <3> HIDE DEF x, t
      <3> QED BY <3>3, <3>4 DEF SessionRec
    <2> QED BY <2>1, <2>2
  <1>3. OneContent /\ id = "WRITESTATE" => Guarded(t)
    <2>1. SUFFICES ASSUME OneContent, id = "WRITESTATE" PROVE Guarded(t) OBVIOUS
    <2>2. rest = {} BY <1>1, <2>1 DEF OneContent
    <2>3. Steady(s, t) BY <2>1, <2>2, PopSteady
    <2> HIDE DEF t
    <2> QED BY <2>1, <2>3 DEF Settled, Guarded, Steady
  <1> HIDE DEF t, id, rest
  <1> DEFINE now == c \in t.chan_writable /\ HasChannels(t, c)
             u == [t EXCEPT !.writable = IF now THEN @ \cup {c} ELSE @ \ {c}]
  <1>4. v = IF id = "CONNECTING" THEN OnTransportWritable(t, c)
            ELSE IF (c \in t.writable) = now THEN t ELSE OnTransportWritable(u, c)
    BY DEF OnTransportMessage
  <1>5. /\ u \in SessionRec /\ u.state = t.state
        /\ u.initiator = t.initiator /\ u.remote_name = t.remote_name
        /\ u.local_description = t.local_description
        /\ u.remote_description = t.remote_description
        /\ u.initiate_acked = t.initiate_acked
        /\ u.negotiated = t.negotiated /\ u.told = t.told
        /\ u.requested = t.requested /\ u.connecting = t.connecting
    BY <1>1, <1>2 DEF SessionRec
  <1> HIDE DEF u, now, v
  <1>6. ASSUME NEW x \in {t, u}
        PROVE  LET y == OnTransportWritable(x, c) IN
               /\ y.state = s.state
               /\ y.initiator = s.initiator /\ y.remote_name = s.remote_name
               /\ y.local_description = s.local_description
               /\ y.remote_description = s.remote_description
               /\ y.initiate_acked = s.initiate_acked
               /\ y.negotiated = s.negotiated /\ y.connecting = s.connecting
               /\ y.told = s.told
               /\ OneContent /\ Guarded(s) => Guarded(y)
    <2>1. /\ x \in SessionRec /\ x.state = s.state
          /\ x.initiator = s.initiator /\ x.remote_name = s.remote_name
          /\ x.local_description = s.local_description
          /\ x.remote_description = s.remote_description
          /\ x.initiate_acked = s.initiate_acked
          /\ x.negotiated = s.negotiated /\ x.told = s.told
          /\ x.requested = s.requested /\ x.connecting = s.connecting
      BY <1>2, <1>5
    <2>2. Guarded(s) => x.requested \subseteq x.connecting BY <2>1 DEF Guarded
    <2> QED BY <1>1, <2>1, <2>2, WritableFields
  <1>7. /\ v.state = s.state
        /\ v.initiator = s.initiator /\ v.remote_name = s.remote_name
        /\ v.local_description = s.local_description
        /\ v.remote_description = s.remote_description
        /\ v.initiate_acked = s.initiate_acked
        /\ v.negotiated = s.negotiated /\ v.connecting = s.connecting
        /\ v.told = s.told
        /\ OneContent => Guarded(v)
    <2>1. OneContent => Guarded(s) BY DEF Settled
    <2>2. CASE v = t /\ id # "CONNECTING" BY <1>1, <1>2, <1>3, <2>2
    <2>3. CASE v = OnTransportWritable(t, c) BY <1>6, <2>1, <2>3
    <2>4. CASE v = OnTransportWritable(u, c) BY <1>6, <2>1, <2>4
    <2> QED BY <1>4, <2>2, <2>3, <2>4
  <1>8. Settled(v) BY <1>7 DEF Settled, Described, Joined, Agreed, Told
  <1> QED BY <1>7, <1>8 DEF Quiet, Discreet, Ret

\* The timer that is due becomes a MSG_TIMEOUT in the queue.
LEMMA TimerQuiet ==
    ASSUME NEW s \in SessionRec, Settled(s)
    PROVE  Quiet(s, Ret(Post([s EXCEPT !.timer = FALSE], "TIMEOUT", {}), {}))
  <1> DEFINE t == [s EXCEPT !.timer = FALSE]
             u == Post(t, "TIMEOUT", {})
  <1>1. /\ t \in SessionRec /\ t.state = s.state
        /\ t.initiator = s.initiator /\ t.remote_name = s.remote_name
        /\ t.local_description = s.local_description
        /\ t.remote_description = s.remote_description
        /\ t.initiate_acked = s.initiate_acked
        /\ t.negotiated = s.negotiated /\ t.told = s.told
        /\ t.requested = s.requested /\ t.connecting = s.connecting
    BY DEF SessionRec
  <1> HIDE DEF t
  <1>2. /\ u.state = s.state
        /\ u.initiator = s.initiator /\ u.remote_name = s.remote_name
        /\ u.local_description = s.local_description
        /\ u.remote_description = s.remote_description
        /\ u.initiate_acked = s.initiate_acked
        /\ u.negotiated = s.negotiated /\ u.told = s.told
        /\ u.requested = s.requested /\ u.connecting = s.connecting
        /\ Queued(u, "TIMEOUT")
    BY <1>1, PostFields
  <1> HIDE DEF u
  <1>3. Guarded(s) => Guarded(u) BY <1>2 DEF Guarded, TransportWatched
  <1>4. Settled(u) BY <1>2, <1>3 DEF Settled, Described, Joined, Agreed, Told
  <1>5. Quiet(s, Ret(u, {})) BY <1>2, <1>4 DEF Quiet, Discreet, Ret
  <1> QED BY <1>5 DEF u, t

\* t is s with other channels, or with other writability of its channels.
Rewired(s, t) ==
    /\ t \in SessionRec /\ t.state = s.state /\ t.timer = s.timer /\ t.q = s.q
    /\ t.initiator = s.initiator /\ t.remote_name = s.remote_name
    /\ t.local_description = s.local_description
    /\ t.remote_description = s.remote_description
    /\ t.initiate_acked = s.initiate_acked
    /\ t.negotiated = s.negotiated /\ t.told = s.told
    /\ t.requested = s.requested /\ t.connecting = s.connecting
    /\ t.writable = s.writable

\* MSG_CONNECTING watches a channel that is new; one that goes needs no watch.
LEMMA RewiredSteady ==
    ASSUME NEW s \in SessionRec, NEW c \in Contents, NEW t, Rewired(s, t),
           t.channels \subseteq s.channels \cup {c}
    PROVE  LET u == Post(t, "CONNECTING", {c}) IN
           /\ t \in SessionRec /\ Steady(s, u) /\ u.state = s.state
           /\ c \notin t.requested \/ t.channels \subseteq s.channels => Steady(s, t)
  <1> DEFINE C == {c}
             u == Post(t, "CONNECTING", C)
  <1>1. /\ C \in SUBSET Contents /\ c \in C
        /\ C = {} <=> "CONNECTING" \in SessionIds
        /\ t \in SessionRec
    BY DEF Rewired
  <1> HIDE DEF C
  <1>2. /\ u \in SessionRec /\ u.state = t.state /\ u.timer = t.timer
        /\ u.initiator = t.initiator /\ u.remote_name = t.remote_name
        /\ u.local_description = t.local_description
        /\ u.remote_description = t.remote_description
        /\ u.initiate_acked = t.initiate_acked
        /\ u.negotiated = t.negotiated /\ u.told = t.told
        /\ u.requested = t.requested /\ u.connecting = t.connecting
        /\ u.channels = t.channels /\ u.writable = t.writable
        /\ \A x : Queued(t, x) => Queued(u, x)
        /\ \A x, d : QueuedFor(t, x, d) => QueuedFor(u, x, d)
        /\ QueuedFor(u, "CONNECTING", c)
    BY <1>1, PostFields
  <1>3. /\ \A x : Queued(s, x) => Queued(t, x)
        /\ \A x, d : QueuedFor(s, x, d) => QueuedFor(t, x, d)
    BY DEF Queued, QueuedFor, Rewired
  <1>4. Steady(s, u) /\ u.state = s.state
    <2> HIDE DEF u
    <2>1. \A d \in Contents : TransportWatched(s, d) => TransportWatched(u, d)
      BY <1>2, <1>3 DEF TransportWatched, Rewired
    <2> QED BY <1>2, <2>1 DEF Steady, Rewired
  <1>5. ASSUME c \notin t.requested \/ t.channels \subseteq s.channels
        PROVE  Steady(s, t)
    <2>1. \A d \in Contents : TransportWatched(s, d) => TransportWatched(t, d)
      BY <1>3, <1>5 DEF TransportWatched, Rewired
    <2> QED BY <2>1 DEF Steady, Rewired
  <1> QED BY <1>1, <1>4, <1>5 DEF C

\* Posting MSG_WRITESTATE after a steady update is quiet.
LEMMA WriteStateQuiet ==
    ASSUME NEW s \in SessionRec, Settled(s), NEW c \in Contents, NEW x,
           Steady(s, x), x.state = s.state
    PROVE  Quiet(s, Ret(Post(x, "WRITESTATE", {c}), {})) /\ Quiet(s, Ret(x, {}))
  <1> DEFINE y == Post(x, "WRITESTATE", {c})
  <1>0. x \in SessionRec BY DEF Steady
  <1>1. Steady(x, y) /\ y.state = x.state BY <1>0, PostSteady
  <1> HIDE DEF y
  <1>2. Steady(s, y) BY <1>1, SteadyTrans
  <1>3. Quiet(s, Ret(y, {})) BY <1>1, <1>2, SteadyQuiet DEF Ret
  <1>4. Quiet(s, Ret(x, {})) BY SteadyQuiet DEF Ret
  <1> QED BY <1>3, <1>4 DEF y

\* Creating a channel is quiet.
LEMMA CreateChannelQuiet ==
    ASSUME NEW s \in SessionRec, Settled(s), NEW c \in Contents
    PROVE  LET t == [s EXCEPT !.channels = @ \cup {c}] IN
           Quiet(s, Ret(IF c \in t.requested THEN Post(t, "CONNECTING", {c}) ELSE t, {}))
  <1> DEFINE t == [s EXCEPT !.channels = @ \cup {c}]
             u == Post(t, "CONNECTING", {c})
             v == IF c \in t.requested THEN u ELSE t
  <1>1. Rewired(s, t) /\ t.channels \subseteq s.channels \cup {c}
    BY DEF Rewired, SessionRec
  <1> HIDE DEF t
  <1>2. Steady(s, u) /\ u.state = s.state /\ (c \notin t.requested => Steady(s, t))
    BY <1>1, RewiredSteady
  <1> HIDE DEF u
  <1>3. Steady(s, v) /\ v.state = s.state BY <1>1, <1>2 DEF Rewired
  <1> HIDE DEF v
  <1>4. Quiet(s, Ret(v, {})) BY <1>3, WriteStateQuiet
  <1> QED BY <1>4 DEF v, u, t

\* Deleting a channel is quiet.
LEMMA DestroyChannelQuiet ==
    ASSUME NEW s \in SessionRec, Settled(s), NEW c \in Contents
    PROVE  LET t == [s EXCEPT !.channels = @ \ {c}, !.chan_writable = @ \ {c}]
               u == IF c \in t.requested THEN Post(t, "CONNECTING", {c}) ELSE t
           IN Quiet(s, Ret(Post(u, "WRITESTATE", {c}), {}))
  <1> DEFINE t == [s EXCEPT !.channels = @ \ {c}, !.chan_writable = @ \ {c}]
             w == Post(t, "CONNECTING", {c})
             u == IF c \in t.requested THEN w ELSE t
  <1>1. Rewired(s, t) /\ t.channels \subseteq s.channels
    BY DEF Rewired, SessionRec
  <1> HIDE DEF t
  <1>2. Steady(s, w) /\ w.state = s.state /\ Steady(s, t)
    BY <1>1, RewiredSteady
  <1> HIDE DEF w
  <1>3. Steady(s, u) /\ u.state = s.state BY <1>1, <1>2 DEF Rewired
  <1> HIDE DEF u
  <1>4. Quiet(s, Ret(Post(u, "WRITESTATE", {c}), {})) BY <1>3, WriteStateQuiet
  <1> QED BY <1>4 DEF u, w, t

\* A change of writability is quiet.
LEMMA WritabilityQuiet ==
    ASSUME NEW s \in SessionRec, Settled(s), NEW c \in Contents
    PROVE  LET t == [s EXCEPT !.chan_writable = IF c \in @ THEN @ \ {c} ELSE @ \cup {c}]
           IN Quiet(s, Ret(Post(t, "WRITESTATE", {c}), {}))
  <1> DEFINE t == [s EXCEPT !.chan_writable = IF c \in @ THEN @ \ {c} ELSE @ \cup {c}]
  <1>1. Rewired(s, t) /\ t.channels \subseteq s.channels
    BY DEF Rewired, SessionRec
  <1> HIDE DEF t
  <1>2. Steady(s, t) /\ t.state = s.state
    BY <1>1, RewiredSteady DEF Rewired
  <1>3. Quiet(s, Ret(Post(t, "WRITESTATE", {c}), {})) BY <1>2, WriteStateQuiet
  <1> QED BY <1>3 DEF t

-----------------------------------------------------------------------------
(* Steps                                                                   *)

\* The requests in flight after a step: sent by the handler, or there before,
\* perhaps as the late copy of a request that is no longer awaited.
Carried(out) ==
    \A r \in reqs' : \/ r \in out
                     \/ \E o \in reqs : /\ o.kind = r.kind /\ o.from = r.from
                                        /\ o.desc = r.desc /\ (r.await => o.await)

\* The responses in flight after a step: an initiate is answered only when it
\* is no longer in flight.
Answered ==
    \A m \in resps' : \/ m \in resps
                      \/ /\ m.etype # "redirect"
                         /\ m.of = "initiate" =>
                                /\ Initiates' = {}
                                /\ ses[Initiator].state # "INIT"

\* Either peer's session comes from its own side.
LEMMA PeerOfPeer ==
    ASSUME Roles, NEW p \in Peers
    PROVE  /\ PeerOf(ses[p]) = p
           /\ ses[p].initiator <=> p = Initiator
           /\ ~ses[p].initiator <=> p = Responder
  BY PeersAssumption DEF Roles, PeerOf, Peers

\* A turn of one peer that leaves its session settled and in its role.
LEMMA TurnSettled ==
    ASSUME CallInv, IInv', NEW p \in Peers, NEW h,
           ses' = [ses EXCEPT ![p] = h.s], Settled(h.s),
           h.s.initiator = ses[p].initiator, Carried(h.out),
           \A r \in h.out :
               /\ r.kind = "initiate" => r.from = Initiator /\ r.desc # "null"
               /\ r.kind = "accept" => r.from = Responder /\ r.desc # "null"
    PROVE  CallInv'
  <1>1. ses \in [Peers -> SessionRec] BY DEF CallInv, IInv, TypeOK
  <1>2. \A x \in Peers : ses'[x] = IF x = p THEN h.s ELSE ses[x] BY <1>1
  <1>3. \A x \in Peers : Settled(ses[x])' BY <1>2 DEF CallInv
  <1>4. \A x \in Peers : ses'[x].initiator <=> x = Initiator
    BY <1>2 DEF CallInv, Roles
  <1>5. \A r \in reqs' :
            /\ r.kind = "initiate" => r.from = Initiator /\ r.desc # "null"
            /\ r.kind = "accept" => r.from = Responder /\ r.desc # "null"
    BY DEF CallInv, Roles, Carried
  <1>6. Roles' BY <1>4, <1>5 DEF Roles
  <1> QED BY <1>3, <1>6 DEF CallInv

\* A quiet turn keeps the invariant of one session and, while each stanza is
\* delivered once, that of the pair.
LEMMA QuietTurn ==
    ASSUME CallInv, IInv', NEW p \in Peers, NEW h, Quiet(ses[p], h),
           ses' = [ses EXCEPT ![p] = h.s], Carried(h.out)
    PROVE  /\ CallInv'
           /\ /\ OnceInv /\ Answered /\ left'["dup"] = 0
              /\ \A r1, r2 \in Initiates' : r1 = r2
              => OnceInv'
  <1> DEFINE s == ses[p]
             I == ses[Initiator]
             R == ses[Responder]
  <1>0. /\ ses \in [Peers -> SessionRec] /\ Initiator \in Peers /\ Responder \in Peers
        /\ PeerOf(s) = p /\ (s.initiator <=> p = Initiator)
        /\ Initiator # Responder
    BY PeerOfPeer, PeersAssumption DEF CallInv, IInv, TypeOK, Peers
  <1>1. /\ ses'[Initiator] = IF p = Initiator THEN h.s ELSE I
        /\ ses'[Responder] = IF p = Responder THEN h.s ELSE R
    BY <1>0
  <1>2. \A r \in h.out : /\ r.from = p /\ r.kind \notin {"initiate", "accept"}
                         /\ r.kind = "transport-info" => p # Initiator \/ I.initiate_acked
    BY <1>0 DEF Quiet, Discreet
  <1>3. CallInv' BY <1>2, TurnSettled DEF Quiet
  <1>4. SUFFICES ASSUME OnceInv, Answered, left'["dup"] = 0,
                        \A r1, r2 \in Initiates' : r1 = r2
                 PROVE  OnceInv'
    BY <1>3
  <1>5. /\ ses'[Initiator].initiate_acked => I.initiate_acked
        /\ ses'[Initiator].state \in Accepted => I.state \in Accepted
        /\ ses'[Initiator].state = "INIT" => I.state = "INIT"
        /\ Unmet => Unmet'
    BY <1>0, <1>1 DEF Quiet, Unmet
  <1>6. /\ Initiates' # {} => Initiates # {}
        /\ Accepts' # {} => Accepts # {}
        /\ \A r \in Initiates' : r.await => \E o \in Initiates : o.await
    BY <1>2 DEF Carried, Initiates, Accepts
  <1>7. ~I.initiate_acked /\ EarlyInfos = {} => EarlyInfos' = {}
    <2>1. SUFFICES ASSUME ~I.initiate_acked, EarlyInfos = {}, NEW r \in EarlyInfos'
                   PROVE  FALSE
      OBVIOUS
    <2>2. r \in reqs' /\ r.kind = "transport-info" /\ r.from = Initiator
      BY DEF EarlyInfos
    <2>3. r \notin h.out BY <1>2, <2>1, <2>2
    <2> QED BY <2>1, <2>2, <2>3 DEF Carried, EarlyInfos
  <1>8. \A m \in resps' : m.etype # "redirect" BY <1>4 DEF OnceInv, Answered
  <1>9. /\ I.state = "INIT" /\ Acks = {} => Acks' = {}
        /\ Initiates' # {} /\ Acks = {} => Acks' = {}
    BY <1>4 DEF Answered, Acks
  <1>10. /\ I.state = "INIT" /\ Unacked => Unacked'
         /\ Initiates' # {} /\ Unacked => Unacked'
    BY <1>5, <1>7, <1>9 DEF Unacked
  <1>11. Initiates' # {} =>
             /\ Unmet' /\ Accepts' = {}
             /\ ses'[Initiator].state \notin {"INIT"} \cup Accepted
    BY <1>4, <1>5, <1>6 DEF OnceInv
  <1>12. Accepts' # {} => Unmet' BY <1>4, <1>5, <1>6 DEF OnceInv
  <1>13. ses'[Initiator].state = "INIT" =>
             /\ Unmet' /\ Unacked' /\ Initiates' = {} /\ Accepts' = {}
    BY <1>4, <1>5, <1>6, <1>10 DEF OnceInv
  <1>14. \A r \in Initiates' : r.await => Unacked'
    BY <1>4, <1>6, <1>10 DEF OnceInv
  <1>15. ses'[Initiator].state \in Accepted => Unmet' BY <1>4, <1>5 DEF OnceInv
  <1> QED BY <1>4, <1>8, <1>11, <1>12, <1>13, <1>14, <1>15 DEF OnceInv

\* A turn that sends what it has to say and leaves the responses alone.
LEMMA QuietRun ==
    ASSUME CallInv, IInv', NEW p \in Peers, NEW h, Quiet(ses[p], h), Run(p, h),
           resps' \subseteq resps, left'["dup"] = left["dup"]
    PROVE  CallInv' /\ (OnceInv => OnceInv')
  <1>1. Carried(h.out) BY DEF Run, Carried
  <1>2. Quiet(ses[p], h) => Initiates' \subseteq Initiates
    BY DEF Run, Initiates, Quiet, Discreet
  <1>3. Answered BY DEF Answered
  <1>4. OnceInv => left'["dup"] = 0 /\ \A r1, r2 \in Initiates' : r1 = r2
    BY <1>2 DEF OnceInv
  <1>5. ses' = [ses EXCEPT ![p] = h.s] BY DEF Run
  <1> QED BY <1>1, <1>3, <1>4, <1>5, QuietTurn

\* The bounds other than "dup" leave "dup" alone.
LEMMA UseOther ==
    ASSUME TypeOK, NEW b \in {"loss", "flap", "info"}, Use(b)
    PROVE  left'["dup"] = left["dup"]
  BY DEF TypeOK, Use


\* The client's calls.
LEMMA ClientCall ==
    ASSUME CallInv, IInv', NEW p \in Peers, Client(p)
    PROVE  CallInv' /\ (OnceInv => OnceInv')
  <1>0. /\ ses[p] \in SessionRec /\ Settled(ses[p]) /\ Startled(ses[p]) /\ TypeOK /\ Roles
        /\ ses \in [Peers -> SessionRec] /\ Initiator \in Peers /\ Responder \in Peers
        /\ Initiator # Responder
    BY StartledSettled, PeersAssumption DEF CallInv, IInv, TypeOK, Peers
  <1>1. ASSUME NEW offer \in Offers, DoInitiate(p, offer)
        PROVE  CallInv' /\ (OnceInv => OnceInv')
    <2> DEFINE h == Initiate(ses[p], offer)
    <2>1. /\ ses[p].state = "INIT" /\ ses[p].initiator /\ p = Initiator
          /\ ses' = [ses EXCEPT ![p] = h.s] /\ reqs' = reqs \cup h.out
          /\ resps' = resps /\ left' = left
      BY <1>0, <1>1, PeerOfPeer DEF DoInitiate, Run
    <2>2. /\ Settled(h.s) /\ h.s.initiator = TRUE /\ h.s.state = "SENTINITIATE"
          /\ h.s.initiate_acked = ses[p].initiate_acked
      BY <1>0, <2>1, InitiateSettled
    <2>3. PICK r : /\ h.out = {r} /\ r.kind = "initiate" /\ r.from = Initiator
                   /\ r.desc # "null"
      BY <1>0, <2>1, InitiateSettled
    <2> HIDE DEF h
    <2>4. Carried(h.out) BY <2>1 DEF Carried
    <2>5. h.s.initiator = ses[p].initiator BY <1>0, <2>1, <2>2 DEF SessionRec
    <2>6. CallInv' BY <2>1, <2>2, <2>3, <2>4, <2>5, TurnSettled
    <2>7. ASSUME OnceInv PROVE OnceInv'
      <3>1. Unmet /\ Unacked /\ Initiates = {} /\ Accepts = {} BY <2>1, <2>7 DEF OnceInv
      <3>2. ses'[Initiator] = h.s /\ ses'[Responder] = ses[Responder]
        BY <1>0, <2>1
      <3>3. Initiates' = {r} BY <2>1, <2>3, <3>1 DEF Initiates
      <3>4. Accepts' = {} BY <2>1, <2>3, <3>1 DEF Accepts
      <3>5. EarlyInfos' = EarlyInfos /\ Acks' = Acks
        BY <2>1, <2>3 DEF EarlyInfos, Acks
      <3>6. Unmet' /\ Unacked' BY <2>1, <2>2, <3>1, <3>2, <3>5 DEF Unmet, Unacked
      <3> QED BY <2>1, <2>2, <2>7, <3>2, <3>3, <3>4, <3>6 DEF OnceInv, Accepted
    <2> QED BY <2>6, <2>7
  <1>2. ASSUME NEW ans \in DOMAIN Answers, DoAccept(p, ans)
        PROVE  CallInv' /\ (OnceInv => OnceInv')
    <2> DEFINE h == Accept(ses[p], ans)
    <2>1. /\ CanAnswer(ses[p]) /\ ses[p].state = "RECEIVEDINITIATE"
          /\ ses' = [ses EXCEPT ![p] = h.s] /\ reqs' = reqs \cup h.out
          /\ resps' = resps /\ left' = left
      BY <1>2 DEF DoAccept, Run, CanAnswer
    <2>2. p = Responder /\ Described(ses[p])
      BY <1>0, <2>1, PeerOfPeer DEF Settled, Described
    <2>3. /\ Described(h.s) /\ Told(h.s) /\ (Joined(ses[p]) => Joined(h.s))
          /\ (Guarded(ses[p]) => Guarded(h.s))
          /\ h.s.initiator = ses[p].initiator /\ h.s.state = "SENTACCEPT"
      BY <1>0, <2>1, <2>2, AcceptSettled
    <2>4. PICK r : /\ h.out = {r} /\ r.kind = "accept" /\ r.from = Responder
                   /\ r.desc # "null"
      BY <1>0, <2>1, <2>2, AcceptSettled
    <2> HIDE DEF h
    <2>5. Settled(h.s) BY <1>0, <2>3 DEF Settled
    <2>6. Carried(h.out) BY <2>1 DEF Carried
    <2>7. CallInv' BY <2>1, <2>3, <2>4, <2>5, <2>6, TurnSettled
    <2>8. ASSUME OnceInv PROVE OnceInv'
      <3>1. ~Unmet BY <2>1, <2>2 DEF Unmet, Answering
      <3>2. /\ Initiates = {} /\ ses[Initiator].state \notin {"INIT"} \cup Accepted
        BY <2>8, <3>1 DEF OnceInv
      <3>3. ses'[Initiator] = ses[Initiator] /\ ses'[Responder] = h.s
        BY <1>0, <2>1, <2>2
      <3>4. Initiates' = {} BY <2>1, <2>4, <3>2 DEF Initiates
      <3>5. Unmet' BY <2>3, <3>3 DEF Unmet, Answering
      <3> QED BY <2>1, <2>8, <3>2, <3>3, <3>4, <3>5 DEF OnceInv
    <2> QED BY <2>7, <2>8
  <1>3. CASE DoReject(p)
    BY <1>0, <1>3, RejectQuiet, QuietRun DEF DoReject
  <1>4. CASE DoTerminate(p)
    BY <1>0, <1>4, TerminateQuiet, QuietRun DEF DoTerminate
  <1>5. ASSUME NEW kind \in {"session-info", "description-info"}, SendInfo(p, kind)
        PROVE  CallInv' /\ (OnceInv => OnceInv')
    <2> DEFINE h == Ret(ses[p], {Plain(ses[p], kind)})
    <2>1. Discreet(ses[p], {Plain(ses[p], kind)}) BY PlainDiscreet
    <2>2. Quiet(ses[p], h) BY <1>0, <2>1 DEF Quiet, Ret
    <2>3. Run(p, h) /\ resps' = resps BY <1>5 DEF SendInfo
    <2>4. left'["dup"] = left["dup"] BY <1>0, <1>5, UseOther DEF SendInfo
    <2> HIDE DEF h
    <2> QED BY <2>2, <2>3, <2>4, QuietRun
  <1>6. ASSUME NEW c \in Contents, CreateChannel(p, c)
        PROVE  CallInv' /\ (OnceInv => OnceInv')
    <2> DEFINE t == [ses[p] EXCEPT !.channels = @ \cup {c}]
               h == Ret(IF c \in t.requested THEN Post(t, "CONNECTING", {c}) ELSE t, {})
    <2>1. Run(p, h) /\ resps' = resps /\ left' = left BY <1>6 DEF CreateChannel
    <2>2. Quiet(ses[p], h) BY <1>0, CreateChannelQuiet
    <2> HIDE DEF h
    <2> QED BY <2>1, <2>2, QuietRun
  <1>7. ASSUME NEW c \in Contents, DestroyChannel(p, c)
        PROVE  CallInv' /\ (OnceInv => OnceInv')
    <2> DEFINE t == [ses[p] EXCEPT !.channels = @ \ {c}, !.chan_writable = @ \ {c}]
               u == IF c \in t.requested THEN Post(t, "CONNECTING", {c}) ELSE t
               h == Ret(Post(u, "WRITESTATE", {c}), {})
    <2>1. Run(p, h) /\ resps' = resps BY <1>7 DEF DestroyChannel
    <2>2. Quiet(ses[p], h) BY <1>0, DestroyChannelQuiet, Zenon
    <2>3. left'["dup"] = left["dup"] BY <1>0, <1>7, UseOther DEF DestroyChannel
    <2> HIDE DEF h
    <2> QED BY <2>1, <2>2, <2>3, QuietRun
  <1> QED BY <1>1, <1>2, <1>3, <1>4, <1>5, <1>6, <1>7 DEF Client

\* The worker thread and the signaling thread's queue and timer.
LEMMA ThreadCall ==
    ASSUME CallInv, IInv', NEW p \in Peers, Worker(p) \/ Thread(p) \/ TimerFires(p)
    PROVE  CallInv' /\ (OnceInv => OnceInv')
  <1>0. /\ ses[p] \in SessionRec /\ Settled(ses[p]) /\ TypeOK
    BY DEF CallInv, IInv, TypeOK
  <1>1. ASSUME NEW c \in Contents, OnChannelWritableState(p, c)
        PROVE  CallInv' /\ (OnceInv => OnceInv')
    <2> DEFINE t == [ses[p] EXCEPT !.chan_writable =
                         IF c \in @ THEN @ \ {c} ELSE @ \cup {c}]
               h == Ret(Post(t, "WRITESTATE", {c}), {})
    <2>1. Run(p, h) /\ resps' = resps BY <1>1 DEF OnChannelWritableState
    <2>2. Quiet(ses[p], h) BY <1>0, WritabilityQuiet
    <2>3. left'["dup"] = left["dup"] BY <1>0, <1>1, UseOther DEF OnChannelWritableState
    <2> HIDE DEF h
    <2> QED BY <2>1, <2>2, <2>3, QuietRun
  <1>2. ASSUME NEW c \in Contents, NEW b \in Batches, CandidatesReady(p, c, b)
        PROVE  CallInv' /\ (OnceInv => OnceInv')
    <2>1. {[content |-> c, batch |-> b]} \in SUBSET Candidate BY DEF Candidate
    <2> QED BY <1>0, <1>2, <2>1, CandidatesReadyQuiet, QuietRun DEF CandidatesReady
  <1>3. CASE DispatchSession(p)
    BY <1>0, <1>3, SessionMessageQuiet, QuietRun DEF DispatchSession
  <1>4. CASE DispatchTransport(p)
    <2> DEFINE t(c) == IF Head(ses[p].q).of \ {c} = {} THEN Pop(ses[p])
                       ELSE [ses[p] EXCEPT !.q[1].of = Head(ses[p].q).of \ {c}]
    <2>1. PICK c \in Head(ses[p].q).of :
              Run(p, Ret(OnTransportMessage(t(c), Head(ses[p].q).id, c), {}))
      BY <1>4 DEF DispatchTransport
    <2>2. ses[p].q # <<>> /\ UNCHANGED <<resps, left>>
      BY <1>4 DEF DispatchTransport
    <2>3. Quiet(ses[p], Ret(OnTransportMessage(t(c), Head(ses[p].q).id, c), {}))
      BY <1>0, <2>2, TransportMessageQuiet
    <2> QED BY <2>1, <2>2, <2>3, QuietRun
  <1>5. CASE TimerFires(p)
    BY <1>0, <1>5, TimerQuiet, QuietRun DEF TimerFires
  <1> QED BY <1>1, <1>2, <1>3, <1>4, <1>5 DEF Worker, Thread

\* A step of the network that leaves both sessions alone.
LEMMA StillTurn ==
    ASSUME CallInv, IInv', ses' = ses, reqs' \subseteq reqs
    PROVE  CallInv' /\ (OnceInv /\ Answered /\ left'["dup"] = 0 => OnceInv')
  <1> DEFINE h == [s |-> ses[Initiator], out |-> {}]
  <1>1. Initiator \in Peers /\ ses \in [Peers -> SessionRec] /\ Settled(ses[Initiator])
    BY DEF CallInv, IInv, TypeOK, Peers
  <1>2. h.s = ses[Initiator] /\ h.out = {} OBVIOUS
  <1>3. Quiet(ses[Initiator], h) BY <1>1, StillQuiet
  <1> HIDE DEF h
  <1>4. ses' = [ses EXCEPT ![Initiator] = h.s] BY <1>1, <1>2
  <1>5. Carried(h.out) BY DEF Carried
  <1>6. OnceInv => \A r1, r2 \in Initiates' : r1 = r2 BY DEF OnceInv, Initiates
  <1> QED BY <1>1, <1>3, <1>4, <1>5, <1>6, QuietTurn

\* An answer to r, which is taken off, answers an initiate that has gone.
LEMMA AnswerAnswered ==
    ASSUME OnceInv, NEW r \in reqs, NEW e, e # "redirect",
           resps' = resps \cup Answer(r, e),
           \A x \in reqs' : x \in reqs \ {r} \/ x.kind # "initiate"
    PROVE  Answered
  <1>1. r.kind = "initiate" => Initiates' = {} /\ ses[Initiator].state # "INIT"
    BY DEF OnceInv, Initiates
  <1>2. \A m \in Answer(r, e) : m.etype = e /\ m.of = r.kind BY DEF Answer
  <1> QED BY <1>1, <1>2 DEF Answered

\* A request is handled: the call is opened, accepted, or told nothing new.
LEMMA HandleCall ==
    ASSUME CallInv, IInv', NEW r \in reqs, NEW reply \in Replies, NEW rest,
           Handle(r, reply, rest),
           \A x \in rest : \E o \in reqs : /\ o.kind = x.kind /\ o.from = x.from
                                           /\ o.desc = x.desc /\ (x.await => o.await)
    PROVE  CallInv' /\ (OnceInv /\ rest = reqs \ {r} /\ left' = left => OnceInv')
  <1> DEFINE p == Other(r.from)
             h == ManagerOnIncomingMessage(ses[p], r, reply)
             e == IF h.valid THEN "result" ELSE "modify"
  <1>1. /\ ses' = [ses EXCEPT ![p] = h.s] /\ reqs' = rest \cup h.out
        /\ resps' = resps \cup Answer(r, e)
    BY DEF Handle
  <1>2. /\ r \in Request /\ p \in Peers /\ r.from \in Peers /\ Roles
        /\ ses \in [Peers -> SessionRec] /\ Initiator # Responder
        /\ Initiator \in Peers /\ Responder \in Peers
    BY PeersAssumption DEF CallInv, IInv, TypeOK, Other, Peers, Request
  <1>3. /\ r.kind = "initiate" => p = Responder /\ r.desc # "null"
        /\ r.kind = "accept" => p = Initiator /\ r.desc # "null"
    BY <1>2 DEF Roles, Other
  <1>4. e # "redirect" OBVIOUS
  <1> HIDE DEF p
  <1>5. /\ ses[p] \in SessionRec /\ Settled(ses[p]) /\ PeerOf(ses[p]) = p
        /\ ses[p].initiator <=> p = Initiator
        /\ ~ses[p].initiator <=> p = Responder
    BY <1>2, PeerOfPeer DEF CallInv
  <1>6. \/ Quiet(ses[p], h)
        \/ /\ r.kind = "initiate"
           /\ Settled(h.s) /\ ~h.s.initiator
           /\ \A x \in h.out :
                  /\ x.from = Responder /\ x.kind \notin {"initiate", "transport-info"}
                  /\ x.kind = "accept" => x.desc # "null" /\ h.s.state \notin Answering
        \/ /\ r.kind = "accept" /\ ses[p].initiator /\ ses[p].state = "SENTINITIATE"
           /\ Settled(h.s) /\ h.s.initiator /\ h.s.state = "RECEIVEDACCEPT"
           /\ \A x \in h.out : x.from = PeerOf(ses[p]) /\ x.kind = "transport-info"
    BY <1>2, <1>3, <1>5, IncomingSettled
  <1> HIDE DEF h, e
  <1>7. Carried(h.out) BY <1>1 DEF Carried
  <1>8. CASE Quiet(ses[p], h)
    <2>1. CallInv' BY <1>1, <1>2, <1>7, <1>8, QuietTurn
    <2>2. ASSUME OnceInv, rest = reqs \ {r}, left' = left PROVE OnceInv'
      <3>1. \A x \in h.out : x.kind # "initiate" BY <1>8 DEF Quiet, Discreet
      <3>2. reqs' = (reqs \ {r}) \cup h.out BY <1>1, <2>2
      <3>6. \A x \in reqs' : x \in reqs \ {r} \/ x.kind # "initiate" BY <3>1, <3>2
      <3>3. Answered BY <1>1, <1>4, <2>2, <3>6, AnswerAnswered
      <3>4. Initiates' \subseteq Initiates BY <3>1, <3>2 DEF Initiates
      <3>5. left'["dup"] = 0 /\ \A r1, r2 \in Initiates' : r1 = r2
        BY <2>2, <3>4 DEF OnceInv
      <3> QED BY <1>1, <1>2, <1>7, <1>8, <2>2, <3>3, <3>5, QuietTurn
    <2> QED BY <2>1, <2>2
  <1>9. CASE /\ r.kind = "initiate"
             /\ Settled(h.s) /\ ~h.s.initiator
             /\ \A x \in h.out :
                  /\ x.from = Responder /\ x.kind \notin {"initiate", "transport-info"}
                  /\ x.kind = "accept" => x.desc # "null" /\ h.s.state \notin Answering
    <2>1. p = Responder /\ ses'[Responder] = h.s /\ ses'[Initiator] = ses[Initiator]
      BY <1>1, <1>2, <1>3, <1>9
    <2>2. h.s.initiator = ses[p].initiator
      <3>1. h.s \in SessionRec BY <1>2, <2>1 DEF IInv, TypeOK
      <3> QED BY <1>2, <1>5, <1>9, <2>1, <3>1 DEF SessionRec
    <2>3. CallInv' BY <1>1, <1>2, <1>7, <1>9, <2>2, TurnSettled
    <2>4. ASSUME OnceInv, rest = reqs \ {r}, left' = left PROVE OnceInv'
      <3>1. r \in Initiates BY <1>9 DEF Initiates
      <3>2. Accepts = {} /\ ses[Initiator].state \notin {"INIT"} \cup Accepted
        BY <2>4, <3>1 DEF OnceInv
      <3>3. Initiates' = {} BY <1>1, <1>9, <2>4, <3>1 DEF OnceInv, Initiates
      <3>4. Accepts' # {} => Unmet'
        BY <1>1, <1>9, <2>1, <2>4, <3>2 DEF Accepts, Unmet
      <3>5. \A m \in resps' : m.etype # "redirect"
        BY <1>1, <1>4, <2>4 DEF OnceInv, Answer
      <3> QED BY <2>1, <2>4, <3>2, <3>3, <3>4, <3>5 DEF OnceInv
    <2> QED BY <2>3, <2>4
  <1>10. CASE /\ r.kind = "accept" /\ ses[p].initiator /\ ses[p].state = "SENTINITIATE"
              /\ Settled(h.s) /\ h.s.initiator /\ h.s.state = "RECEIVEDACCEPT"
              /\ \A x \in h.out : x.from = PeerOf(ses[p]) /\ x.kind = "transport-info"
    <2>1. p = Initiator /\ ses'[Initiator] = h.s /\ ses'[Responder] = ses[Responder]
      BY <1>1, <1>2, <1>3, <1>10
    <2>2. h.s.initiator = ses[p].initiator
      <3>1. h.s \in SessionRec BY <1>2, <2>1 DEF IInv, TypeOK
      <3> QED BY <1>2, <1>5, <1>10, <2>1, <3>1 DEF SessionRec
    <2>3. CallInv' BY <1>1, <1>2, <1>7, <1>10, <2>2, TurnSettled
    <2>4. ASSUME OnceInv, rest = reqs \ {r}, left' = left PROVE OnceInv'
      <3>1. r \in Accepts BY <1>10 DEF Accepts
      <3>2. Unmet /\ Initiates = {} BY <2>4, <3>1 DEF OnceInv
      <3>3. Initiates' = {} BY <1>1, <1>10, <2>4, <3>2 DEF Initiates
      <3>4. Unmet' BY <2>1, <3>2 DEF Unmet
      <3>5. \A m \in resps' : m.etype # "redirect"
        BY <1>1, <1>4, <2>4 DEF OnceInv, Answer
      <3> QED BY <1>10, <2>1, <2>4, <3>3, <3>4, <3>5 DEF OnceInv
    <2> QED BY <2>3, <2>4
  <1> QED BY <1>6, <1>8, <1>9, <1>10

\* A response is handled: the initiate is acknowledged or redirected, or the
\* session hears nothing new of the call.
LEMMA ReceiveCall ==
    ASSUME CallInv, IInv', NEW m \in resps, Receive(m)
    PROVE  CallInv' /\ (OnceInv => OnceInv')
  <1> DEFINE p == m.to
             h == ManagerOnResponse(ses[p], m)
  <1>1. /\ Run(p, h) /\ resps' = resps \ {m} /\ left' = left
        /\ ses' = [ses EXCEPT ![p] = h.s] /\ reqs' = reqs \cup h.out
    BY DEF Receive, Run
  <1>2. /\ p \in Peers /\ ses \in [Peers -> SessionRec] /\ Roles
        /\ Initiator \in Peers /\ Responder \in Peers /\ Initiator # Responder
        /\ m.etype = "redirect" => m.addr + 1 \in Addresses
    BY PeersAssumption DEF CallInv, IInv, TypeOK, Response, RedirectsLead, Peers
  <1> HIDE DEF p
  <1>3. ses[p] \in SessionRec /\ Settled(ses[p]) BY <1>2 DEF CallInv
  <1>4. \/ Quiet(ses[p], h)
        \/ /\ m.etype = "result" /\ m.of = "initiate"
           /\ Settled(h.s) /\ h.s.initiator = ses[p].initiator /\ h.s.state = ses[p].state
           /\ \A r \in h.out : r.from = PeerOf(ses[p]) /\ r.kind = "transport-info"
        \/ /\ m.etype = "redirect"
           /\ Settled(h.s) /\ h.s.initiator = ses[p].initiator
           /\ \A r \in h.out : /\ r.from = PeerOf(ses[p])
                               /\ \/ r.kind = "transport-info"
                                  \/ /\ r.kind = "initiate" /\ r.desc # "null"
                                     /\ r.from = Initiator
    BY <1>2, <1>3, ResponseSettled
  <1> HIDE DEF h
  <1>5. Carried(h.out) BY <1>1 DEF Carried
  <1>6. CASE Quiet(ses[p], h) BY <1>1, <1>2, <1>6, QuietRun
  <1>7. CASE /\ m.etype = "result" /\ m.of = "initiate"
             /\ Settled(h.s) /\ h.s.initiator = ses[p].initiator
             /\ h.s.state = ses[p].state
             /\ \A r \in h.out : r.from = PeerOf(ses[p]) /\ r.kind = "transport-info"
    <2>1. CallInv' BY <1>1, <1>2, <1>5, <1>7, TurnSettled
    <2>2. ASSUME OnceInv PROVE OnceInv'
      <3>1. ~Unacked BY <1>7 DEF Unacked, Acks
      <3>2. /\ ses'[Initiator].state = ses[Initiator].state
            /\ ses'[Responder].state = ses[Responder].state
        BY <1>1, <1>2, <1>7
      <3>3. Initiates' = Initiates /\ Accepts' = Accepts
        BY <1>1, <1>7 DEF Initiates, Accepts
      <3>4. Unmet' <=> Unmet BY <3>2 DEF Unmet
      <3> QED BY <1>1, <2>2, <3>1, <3>2, <3>3, <3>4 DEF OnceInv
    <2> QED BY <2>1, <2>2
  <1>8. CASE /\ m.etype = "redirect"
             /\ Settled(h.s) /\ h.s.initiator = ses[p].initiator
             /\ \A r \in h.out : /\ r.from = PeerOf(ses[p])
                                 /\ \/ r.kind = "transport-info"
                                    \/ /\ r.kind = "initiate" /\ r.desc # "null"
                                       /\ r.from = Initiator
    <2>1. CallInv' BY <1>1, <1>2, <1>5, <1>8, TurnSettled
    <2> QED BY <1>8, <2>1 DEF OnceInv
  <1> QED BY <1>4, <1>6, <1>7, <1>8

\* A request or its answer is lost: the session hears of a timeout.
LEMMA LostCall ==
    ASSUME CallInv, IInv',
           \/ \E r \in reqs : LoseRequest(r)
           \/ \E m \in resps : LoseResponse(m)
    PROVE  CallInv' /\ (OnceInv => OnceInv')
  <1>0. TypeOK /\ ses \in [Peers -> SessionRec] BY DEF CallInv, IInv, TypeOK
  <1>1. ASSUME NEW p \in Peers, NEW kind, NEW addr
        PROVE  Quiet(ses[p], NoAnswer(p, kind, addr))
    <2> DEFINE m == [to |-> p, of |-> kind, addr |-> addr, etype |-> "cancel"]
    <2>1. m.etype = "cancel" OBVIOUS
    <2>2. ses[p] \in SessionRec /\ Settled(ses[p]) BY <1>0 DEF CallInv
    <2> HIDE DEF m
    <2>3. Quiet(ses[p], ManagerOnResponse(ses[p], m)) BY <2>1, <2>2, ResponseSettled
    <2> QED BY <2>3 DEF NoAnswer, m
  <1>2. ASSUME NEW r \in reqs, LoseRequest(r)
        PROVE  CallInv' /\ (OnceInv => OnceInv')
    <2> DEFINE p == r.from
               h == NoAnswer(p, r.kind, r.to)
               l == [r EXCEPT !.await = FALSE]
    <2>1. r \in Request /\ p \in Peers BY <1>0 DEF TypeOK, Request
    <2>2. PICK late \in {{}, {l}} : reqs' = (reqs \ {r}) \cup late \cup h.out
      BY <1>2 DEF LoseRequest
    <2>3. ses' = [ses EXCEPT ![p] = h.s] /\ resps' = resps BY <1>2 DEF LoseRequest
    <2>4. left'["dup"] = left["dup"] BY <1>0, <1>2, UseOther DEF LoseRequest
    <2>5. l.kind = r.kind /\ l.from = r.from /\ l.desc = r.desc /\ ~l.await
      BY <2>1 DEF Request
    <2> HIDE DEF l, p
    <2>6. Quiet(ses[p], h) BY <1>1, <2>1
    <2> HIDE DEF h
    <2>7. Carried(h.out) BY <2>2, <2>5 DEF Carried
    <2>8. Answered BY <2>3 DEF Answered
    <2>9. OnceInv => \A r1, r2 \in Initiates' : r1 = r2
      <3>1. \A x \in h.out : x.kind # "initiate" BY <2>6 DEF Quiet, Discreet
      <3>2. CASE r.kind = "initiate"
        BY <2>2, <3>1, <3>2 DEF OnceInv, Initiates
      <3>3. CASE r.kind # "initiate"
        BY <2>2, <2>5, <3>1, <3>3 DEF OnceInv, Initiates
      <3> QED BY <3>2, <3>3
    <2>10. OnceInv => left'["dup"] = 0 BY <2>4 DEF OnceInv
    <2> QED BY <2>1, <2>3, <2>6, <2>7, <2>8, <2>9, <2>10, QuietTurn
  <1>3. ASSUME NEW m \in resps, LoseResponse(m)
        PROVE  CallInv' /\ (OnceInv => OnceInv')
    <2> DEFINE h == NoAnswer(m.to, m.of, m.addr)
    <2>1. m.to \in Peers BY <1>0 DEF TypeOK, Response
    <2>2. Run(m.to, h) /\ resps' \subseteq resps BY <1>3 DEF LoseResponse
    <2>3. left'["dup"] = left["dup"] BY <1>0, <1>3, UseOther DEF LoseResponse
    <2>4. Quiet(ses[m.to], h) BY <1>1, <2>1
    <2> HIDE DEF h
    <2> QED BY <2>1, <2>2, <2>3, <2>4, QuietRun
  <1> QED BY <1>2, <1>3

\* The network's steps.
LEMMA NetworkCall ==
    ASSUME CallInv, IInv', Network
    PROVE  CallInv' /\ (Once /\ OnceInv => OnceInv')
  <1>0. TypeOK BY DEF CallInv, IInv
  <1>1. ASSUME NEW r \in reqs, NEW reply \in Replies, Deliver(r, reply)
        PROVE  CallInv' /\ (OnceInv => OnceInv')
    <2> DEFINE rest == reqs \ {r}
    <2>1. Handle(r, reply, rest) /\ left' = left BY <1>1 DEF Deliver
    <2>2. \A x \in rest : \E o \in reqs : /\ o.kind = x.kind /\ o.from = x.from
                                          /\ o.desc = x.desc /\ (x.await => o.await)
      OBVIOUS
    <2>3. rest = reqs \ {r} OBVIOUS
    <2> HIDE DEF rest
    <2> QED BY <2>1, <2>2, <2>3, HandleCall
  <1>2. ASSUME NEW r \in reqs, NEW reply \in Replies, DeliverAndRepeat(r, reply)
        PROVE  CallInv' /\ ~OnceInv
    <2> DEFINE l == [r EXCEPT !.await = FALSE]
               rest == (reqs \ {r}) \cup {l}
    <2>1. Handle(r, reply, rest) BY <1>2 DEF DeliverAndRepeat
    <2>2. l.kind = r.kind /\ l.from = r.from /\ l.desc = r.desc /\ ~l.await
      BY <1>0 DEF TypeOK, Request
    <2> HIDE DEF l
    <2>3. \A x \in rest : \E o \in reqs : /\ o.kind = x.kind /\ o.from = x.from
                                          /\ o.desc = x.desc /\ (x.await => o.await)
      BY <2>2
    <2> HIDE DEF rest
    <2>4. CallInv' BY <2>1, <2>3, HandleCall
    <2>5. left["dup"] > 0 BY <1>2 DEF DeliverAndRepeat, Use
    <2> QED BY <2>4, <2>5 DEF OnceInv
  <1>3. ASSUME NEW r \in reqs, RedirectorAnswers(r)
        PROVE  CallInv' /\ ~Once
    <2>1. ses' = ses /\ reqs' \subseteq reqs /\ r.to \in 0 .. Redirects - 1
      BY <1>3 DEF RedirectorAnswers
    <2>2. CallInv' BY <2>1, StillTurn
    <2> QED BY <2>1, <2>2 DEF Once
  <1>4. ASSUME NEW r \in reqs, NEW e \in Bounces, Bounce(r, e)
        PROVE  CallInv' /\ (OnceInv => OnceInv')
    <2>1. /\ ses' = ses /\ reqs' = reqs \ {r} /\ e # "redirect"
          /\ resps' = resps \cup Answer(r, e)
      BY <1>4, ChoicesAssumption DEF Bounce
    <2>2. left'["dup"] = left["dup"] BY <1>0, <1>4, UseOther DEF Bounce
    <2>3. \A x \in reqs' : x \in reqs \ {r} \/ x.kind # "initiate" BY <2>1
    <2>4. OnceInv => Answered BY <2>1, <2>3, AnswerAnswered
    <2>5. OnceInv => left'["dup"] = 0 BY <2>2 DEF OnceInv
    <2> QED BY <2>1, <2>4, <2>5, StillTurn
  <1> QED BY <1>1, <1>2, <1>3, <1>4, ReceiveCall, LostCall DEF Network

\* Both invariants are inductive.
LEMMA CallStep ==
    ASSUME CallInv, Next \/ UNCHANGED vars
    PROVE  CallInv' /\ (Once /\ OnceInv => OnceInv')
  <1>1. IInv' BY NextStep, StutterStep DEF CallInv
  <1>2. CASE UNCHANGED vars
    <2>1. ses' = ses /\ reqs' = reqs /\ resps' = resps /\ left' = left BY <1>2 DEF vars
    <2>2. Answered BY <2>1 DEF Answered
    <2>3. OnceInv => left'["dup"] = 0 BY <2>1 DEF OnceInv
    <2> QED BY <1>1, <2>1, <2>2, <2>3, StillTurn
  <1> QED BY <1>1, <1>2, NetworkCall, ClientCall, ThreadCall DEF Next

\* A session that has not begun is settled, and so is one that is gone.
LEMMA NewSettled ==
    ASSUME NEW i \in BOOLEAN
    PROVE  Settled(NewSession(i)) /\ Settled(Destroyed(NewSession(i)))
  BY DEF Settled, Described, Joined, Told, Guarded, TransportWatched, NewSession, Destroyed

\* Init satisfies both.
LEMMA CallInit ==
    ASSUME Init
    PROVE  CallInv /\ (Once => OnceInv)
  <1>1. IInv BY InitInv
  <1>2. /\ ses[Initiator] = NewSession(TRUE)
        /\ ses[Responder] = Destroyed(NewSession(FALSE))
        /\ reqs = {} /\ resps = {} /\ left["dup"] = MaxDup
    BY PeersAssumption DEF Init, Peers
  <1>3. /\ ses[Initiator].initiator /\ ~ses[Responder].initiator
        /\ ses[Initiator].state = "INIT" /\ ses[Responder].state = "NONE"
        /\ ~ses[Initiator].initiate_acked
    BY <1>2 DEF NewSession, Destroyed
  <1>4. Roles BY <1>2, <1>3, PeersAssumption DEF Roles, Peers
  <1>5. \A p \in Peers : Settled(ses[p]) BY <1>2, NewSettled DEF Peers
  <1>6. Once => OnceInv
    BY <1>2, <1>3 DEF Once, OnceInv, Initiates, Accepts, EarlyInfos, Acks, Unmet,
                      Unacked, Answering, Accepted
  <1> QED BY <1>1, <1>4, <1>5, <1>6 DEF CallInv

-----------------------------------------------------------------------------
(* The theorems                                                            *)

\* The inductive invariant of one session's call.
THEOREM CallInvariance == Spec => []CallInv
  <1>1. CallInv /\ [Next]_vars => CallInv' BY CallStep
  <1>2. Init => CallInv BY CallInit
  <1> QED BY <1>1, <1>2, PTL DEF Spec

\* And of the pair, while the network neither repeats nor redirects.
THEOREM OnceInvariance ==
    ASSUME Redirects = 0, MaxDup = 0
    PROVE  Spec => [](CallInv /\ OnceInv)
  <1>0. Once BY DEF Once
  <1>1. (CallInv /\ OnceInv) /\ [Next]_vars => (CallInv /\ OnceInv)'
    BY <1>0, CallStep
  <1>2. Init => CallInv /\ OnceInv BY <1>0, CallInit
  <1> QED BY <1>1, <1>2, PTL DEF Spec

\* However far the pushdowns of offer and answer get, and whatever is repeated,
\* redirected, bounced or lost: past the accept both descriptions are set and
\* every transport the other side described is negotiated and connecting, and
\* OnTransportInfoMessage never reads a null description.
THEOREM Negotiates == Spec => []Negotiated
  <1>1. CallInv => Negotiated
    BY DEF CallInv, Settled, Described, Joined, Negotiated, FindSession
  <1> QED BY <1>1, CallInvariance, PTL

\* A session in progress has signalled its offer and the answer it got
\* (initiator), or its answer (responder), for clients that accept from inside
\* SignalState too (session.cc:SetState).
THEOREM SignalsDescriptions == Spec => []DescriptionsSignalled
  <1>1. CallInv => DescriptionsSignalled
    BY DEF CallInv, Settled, Told, DescriptionsSignalled
  <1> QED BY <1>1, CallInvariance, PTL

\* The watchdog of a session with one transport is always on while the transport
\* is connecting.  The timer is the session's, not the transport's: with two
\* transports the one that becomes writable clears the timer of the other.
THEOREM WatchesTransport ==
    ASSUME OneContent
    PROVE  Spec => []Watched
  <1>1. CallInv => Watched BY DEF CallInv, Settled, Guarded, Watched
  <1> QED BY <1>1, CallInvariance, PTL

\* An initiator that counts the call as accepted faces a responder that accepted
\* it, for every interleaving of rejects, errors, losses and late stanzas, as
\* long as no stanza is repeated and no address redirects.
THEOREM Agrees ==
    ASSUME Redirects = 0, MaxDup = 0
    PROVE  Spec => []Agreement
  <1>1. OnceInv => Agreement BY DEF OnceInv, Agreement, Accepted, Unmet, Answering
  <1> QED BY <1>1, OnceInvariance, PTL

\* Candidates never overtake the initiate they belong to: none is in flight
\* while the initiate still awaits its answer.
THEOREM HoldsCandidates ==
    ASSUME Redirects = 0, MaxDup = 0
    PROVE  Spec => []NoEarlyCandidates
  <1>1. OnceInv => NoEarlyCandidates
    BY DEF OnceInv, NoEarlyCandidates, Initiates, Unacked, EarlyInfos
  <1> QED BY <1>1, OnceInvariance, PTL
=============================================================================
