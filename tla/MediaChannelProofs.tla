------------------------- MODULE MediaChannelProofs -------------------------
(***************************************************************************)
(* Theorems about MediaChannel, for any policies, options, directions and  *)
(* bounds: its type invariant, that the engine is told what the channel    *)
(* is ready for (EngineFollows), that nothing is sent before a required    *)
(* filter is active (SecureSend), that no packet is misread during a       *)
(* negotiation (NeverMisread), and that a negotiation ends without error   *)
(* with two sides that can read each other (EndToEnd).                     *)
(*                                                                         *)
(* The inductive invariant has a part about each channel on its own        *)
(* (Sound), a part about what a side's policy and options imply (Guarded)  *)
(* and Round, which says where the two sides are with each other: idle,    *)
(* one with an offer on its way, or one with an offer that is answered.    *)
(* The handlers of a channel are first shown to take every description     *)
(* that Round lets arrive (SrtpTakes, MuxTakes) and to leave the channel   *)
(* Sound; a step of a negotiation then leads from one stage of Round to    *)
(* the next, and a step of the transports or the application to the same.  *)
(***************************************************************************)
EXTENDS MediaChannel, ListLemmas, SequenceTheorems, TLAPS

\* Both sides use RTCP mux: what every answer of the call says.
Agreed == \A p \in Peers : muxing[p]
Required(p) == policy[p] = "required"

\* A channel on its own: the engine follows it, and keys come with sessions.
Sound(c) ==
    /\ c \in ChannelRec
    /\ c.playout = IsReadyToReceive(c) /\ c.sending = IsReadyToSend(c)
    /\ TransportsUp(c) => c.writable
    /\ c.told_ready => CanSend(c)
    /\ c.send.suite # "" => c.sessions

\* What the options of a side imply for its channel.  A side that requires
\* encryption has an inactive filter only before its first answer arrives.
Guarded(p) ==
    /\ ~ch[p].rtcp_channel => Agreed
    /\ ch[p].secure_required => Required(p)
    /\ ch[p].secure_required /\ ~SrtpIsActive(ch[p]) =>
          ch[p].state = "SENTOFFER" /\ ch[p].remote_dir = "inactive"
    /\ Required(p) /\ ch[p].state = "INIT" => ch[p].remote_dir = "inactive"

\* d is an offer as the factory of side p makes it.
IsOffer(p, d) ==
    /\ d.action = "OFFER" /\ d.rtcp_mux = muxing[p] /\ d.required = Required(p)
    /\ Required(p) => d.cryptos # <<>>

\* d answers the offer that side p has set: its filters will take it.
IsAnswer(p, d) ==
    /\ d.action \in {"PRANSWER", "ANSWER"} /\ d.rtcp_mux = Agreed
    /\ d.cryptos = <<>> => \A r \in Peers : ~Required(r)
    /\ d.cryptos # <<>> => NegotiateParams(ch[p], d.cryptos)

\* The offered parameters that an answer picked, and the keys in use.
Mine(c, answer) == CHOOSE x \in Selected(c, answer) : TRUE
Keyed(c, send, recv) ==
    c.sessions /\ SameKey(c.send, send) /\ SameKey(c.recv, recv)

\* The filters of a channel between two negotiations.
Settled(c) ==
    /\ c.state \in {"INIT", "ACTIVE"} /\ c.mux \in {"INIT", "ACTIVE"}
    /\ c.mux = "ACTIVE" => Agreed /\ c.offer_enable

\* No negotiation is under way: the filters of the two sides are in the same
\* states, with each other's keys.
Idle ==
    /\ \A p \in Peers :
          /\ neg[p] = "stable" /\ sig[p] = <<>> /\ Settled(ch[p])
          /\ ch[p].state = ch[Other(p)].state /\ ch[p].mux = ch[Other(p)].mux
          /\ ch[p].state = "ACTIVE" =>
                ch[p].sessions /\ SameKey(ch[p].send, ch[Other(p)].recv)
          /\ ch[p].mux = "INIT" => ch[p].rtcp_channel

\* Side p has set an offer that has not arrived.
Offering(p) ==
    LET q == Other(p)
    IN /\ neg[p] = "local" /\ neg[q] = "stable"
       /\ sig[p] = <<>> /\ Len(sig[q]) = 1 /\ IsOffer(p, sig[q][1])
       /\ ch[p].state \in {"SENTOFFER", "SENTUPDATEDOFFER"}
       /\ ch[p].mux = "SENTOFFER" /\ ch[p].offer_enable = muxing[p]
       /\ ch[p].offer_params = sig[q][1].cryptos
       /\ Settled(ch[q])

\* Side q has the offer of p: it is still to answer for good, or its final
\* answer is the last of what is on its way to p.
Answerer(p, q) ==
    \/ /\ neg[q] \in {"remote", "refused"}
       /\ \A i \in 1 .. Len(sig[p]) : sig[p][i].action = "PRANSWER"
       /\ IsOffer(p, offered[q])
       /\ ch[q].offer_params = ch[p].offer_params
       /\ offered[q].cryptos = ch[p].offer_params
       /\ ch[q].state \in {"RECEIVEDOFFER", "RECEIVEDUPDATEDOFFER",
                           "SENTPRANSWER_NO_CRYPTO", "SENTPRANSWER"}
       /\ ch[q].mux \in {"RECEIVEDOFFER", "SENTPRANSWER"}
       /\ ch[q].mux = "SENTPRANSWER" => Agreed
       /\ ch[q].offer_enable = muxing[p]
    \/ /\ neg[q] = "stable" /\ sig[p] # <<>>
       /\ \A i \in 1 .. Len(sig[p]) :
             sig[p][i].action = "ANSWER" <=> i = Len(sig[p])
       /\ ch[q].state = IF sig[p][Len(sig[p])].cryptos = <<>> THEN "INIT" ELSE "ACTIVE"
       /\ sig[p][Len(sig[p])].cryptos # <<>> =>
             Keyed(ch[q], sig[p][Len(sig[p])].cryptos[1],
                          Mine(ch[p], sig[p][Len(sig[p])].cryptos))
       /\ ch[q].mux = IF Agreed THEN "ACTIVE" ELSE "INIT"
       /\ Agreed => ch[q].offer_enable

\* The offer of side p has arrived; provisional answers and the answer follow.
Answering(p) ==
    LET q == Other(p)
    IN /\ neg[p] = "local" /\ sig[q] = <<>>
       /\ \A i \in 1 .. Len(sig[p]) : IsAnswer(p, sig[p][i])
       /\ ch[p].state \in {"SENTOFFER", "SENTUPDATEDOFFER",
                           "RECEIVEDPRANSWER_NO_CRYPTO", "RECEIVEDPRANSWER"}
       /\ ch[p].mux \in {"SENTOFFER", "RECEIVEDPRANSWER"}
       /\ ch[p].offer_enable = muxing[p]
       /\ ch[p].mux = "RECEIVEDPRANSWER" => Agreed
       /\ ch[p].mux = "RECEIVEDPRANSWER" \/ sig[p] # <<>> =>
             (Agreed => ch[q].mux # "RECEIVEDOFFER")
       /\ Answerer(p, q)

\* Where the two sides are with each other.
Round == Idle \/ \E p \in Peers : Offering(p) \/ Answering(p)

\* The inductive invariant.
IInv ==
    /\ TypeOK
    /\ \A p \in Peers : Sound(ch[p]) /\ Guarded(p)
    /\ Round

\* What an update of a channel leaves alone.
SameSrtp(c, t) ==
    /\ t.state = c.state /\ t.offer_params = c.offer_params
    /\ t.sessions = c.sessions /\ t.send = c.send /\ t.recv = c.recv
SameMux(c, t) ==
    /\ t.mux = c.mux /\ t.offer_enable = c.offer_enable
    /\ t.rtcp_channel = c.rtcp_channel
SameTerms(c, t) ==
    /\ t.secure_required = c.secure_required
    /\ t.local_dir = c.local_dir /\ t.remote_dir = c.remote_dir

SameEngine(c, t) ==
    /\ t.playout = c.playout /\ t.sending = c.sending /\ t.enabled = c.enabled
    /\ t.was_ever_writable = c.was_ever_writable /\ t.writable = c.writable
    /\ t.up = c.up /\ t.ready = c.ready /\ t.told_ready = c.told_ready

\* Sound does not look at the state of the SRTP filter.
LEMMA SoundSame ==
    ASSUME NEW c, Sound(c), NEW t \in ChannelRec,
           SameMux(c, t), SameTerms(c, t), SameEngine(c, t),
           t.send.suite # "" => t.sessions
    PROVE  Sound(t)
  <1>1. IsReadyToReceive(t) = IsReadyToReceive(c) /\ IsReadyToSend(t) = IsReadyToSend(c)
    BY DEF IsReadyToReceive, IsReadyToSend, SameTerms, SameEngine
  <1>2. TransportsUp(t) = TransportsUp(c) /\ CanSend(t) = CanSend(c)
    BY DEF TransportsUp, CanSend, SameMux, SameEngine
  <1> QED BY <1>1, <1>2 DEF Sound, SameEngine

\* ContentSource.
Sources == {"LOCAL", "REMOTE"}

USE DEF Ok, Fail

-----------------------------------------------------------------------------
(* The SRTP filter                                                         *)

\* What is told to the engine does not depend on the filters.
LEMMA SoundFrame ==
    ASSUME NEW c, Sound(c), NEW t \in ChannelRec, SameEngine(c, t), SameTerms(c, t),
           t.rtcp_channel = c.rtcp_channel, t.send.suite # "" => t.sessions
    PROVE  Sound(t)
  BY DEF Sound, SameEngine, SameTerms, IsReadyToReceive, IsReadyToSend,
         TransportsUp, CanSend

\* An offer replaces the parameters on the table.
LEMMA StoreParamsSound ==
    ASSUME NEW c, Sound(c), NEW ps \in Seq(Crypto), NEW source \in Sources
    PROVE  LET t == StoreParams(c, ps, source)
           IN /\ Sound(t) /\ SameMux(c, t) /\ SameTerms(c, t)
              /\ t.offer_params = ps
              /\ t.state = IF c.state = "INIT"
                           THEN By(source, "SENTOFFER", "RECEIVEDOFFER")
                           ELSE By(source, "SENTUPDATEDOFFER", "RECEIVEDUPDATEDOFFER")
  <1> DEFINE st == IF c.state = "INIT"
                   THEN By(source, "SENTOFFER", "RECEIVEDOFFER")
                   ELSE By(source, "SENTUPDATEDOFFER", "RECEIVEDUPDATEDOFFER")
             t == [c EXCEPT !.offer_params = ps, !.state = st]
  <1>1. StoreParams(c, ps, source) = t BY DEF StoreParams, Sound, ChannelRec
  <1>2. st \in SrtpStates BY DEF SrtpStates, By, Sources
  <1> HIDE DEF st
  <1>3. /\ t \in ChannelRec /\ t.state = st /\ t.offer_params = ps
        /\ SameMux(c, t) /\ SameTerms(c, t) /\ SameEngine(c, t)
        /\ t.send = c.send /\ t.sessions = c.sessions
    BY <1>2 DEF Sound, ChannelRec, SameMux, SameTerms, SameEngine
  <1> HIDE DEF t
  <1>4. Sound(t) BY <1>3, SoundSame DEF Sound
  <1> QED BY <1>1, <1>3, <1>4 DEF st, t

\* The same keys again change nothing, and there are sessions for them already.
LEMMA ApplyParamsSound ==
    ASSUME NEW c, Sound(c), NEW send \in Crypto, NEW recv \in Crypto
    PROVE  LET t == ApplyParams(c, send, recv)
           IN /\ Sound(t) /\ SameMux(c, t) /\ SameTerms(c, t)
              /\ t.state = c.state /\ t.offer_params = c.offer_params
              /\ Keyed(t, send, recv)
  <1>1. send.suite # "" BY DEF Crypto
  <1>2. CASE SameKey(c.send, send) /\ SameKey(c.recv, recv)
    BY <1>1, <1>2 DEF ApplyParams, Sound, SameMux, SameTerms, Keyed, SameKey
  <1>3. CASE ~(SameKey(c.send, send) /\ SameKey(c.recv, recv))
    <2> DEFINE t == [c EXCEPT !.sessions = TRUE, !.send = send, !.recv = recv]
    <2>1. ApplyParams(c, send, recv) = t BY <1>3 DEF ApplyParams
    <2>2. /\ t \in ChannelRec /\ t.sessions = TRUE /\ t.send = send /\ t.recv = recv
          /\ SameMux(c, t) /\ SameTerms(c, t) /\ SameEngine(c, t)
          /\ t.state = c.state /\ t.offer_params = c.offer_params
      BY DEF Sound, ChannelRec, SameMux, SameTerms, SameEngine
    <2> HIDE DEF t
    <2>3. Sound(t) BY <2>2, SoundSame
    <2>4. Keyed(t, send, recv) BY <2>2 DEF Keyed, SameKey
    <2> QED BY <2>1, <2>2, <2>3, <2>4
  <1> QED BY <1>2, <1>3

\* What an answer picked is one of the offered parameters.
LEMMA SelectedMine ==
    ASSUME NEW c \in ChannelRec, NEW answer \in Seq(Crypto), NegotiateParams(c, answer)
    PROVE  answer[1] \in Crypto /\ Mine(c, answer) \in Crypto
  <1>1. answer[1] \in Crypto BY DEF NegotiateParams
  <1>2. c.offer_params \in Seq(Crypto) BY DEF ChannelRec
  <1>3. \E x : x \in Selected(c, answer) BY DEF NegotiateParams
  <1>4. Mine(c, answer) \in Selected(c, answer) BY <1>3 DEF Mine
  <1>5. Selected(c, answer) \subseteq Crypto BY <1>2 DEF Selected, ToSet
  <1> QED BY <1>1, <1>4, <1>5

\* A filter may go to any state.
LEMMA WithState ==
    ASSUME NEW c, Sound(c), NEW st \in SrtpStates
    PROVE  /\ LET t == [c EXCEPT !.state = st]
              IN /\ Sound(t) /\ SameMux(c, t) /\ SameTerms(c, t)
                 /\ t.state = st /\ t.offer_params = c.offer_params
                 /\ t.sessions = c.sessions /\ t.send = c.send /\ t.recv = c.recv
           /\ LET t == [c EXCEPT !.offer_params = <<>>, !.state = st]
              IN /\ Sound(t) /\ SameMux(c, t) /\ SameTerms(c, t)
                 /\ t.state = st /\ t.offer_params = <<>>
                 /\ t.sessions = c.sessions /\ t.send = c.send /\ t.recv = c.recv
  <1> DEFINE t == [c EXCEPT !.state = st]
             u == [c EXCEPT !.offer_params = <<>>, !.state = st]
  <1>1. <<>> \in Seq(Crypto) OBVIOUS
  <1>2. t \in ChannelRec /\ u \in ChannelRec BY <1>1 DEF Sound, ChannelRec
  <1>3. /\ SameMux(c, t) /\ SameTerms(c, t) /\ SameEngine(c, t)
        /\ t.state = st /\ t.offer_params = c.offer_params
        /\ t.sessions = c.sessions /\ t.send = c.send /\ t.recv = c.recv
    BY DEF Sound, ChannelRec, SameMux, SameTerms, SameEngine
  <1>4. /\ SameMux(c, u) /\ SameTerms(c, u) /\ SameEngine(c, u)
        /\ u.state = st /\ u.offer_params = <<>>
        /\ u.sessions = c.sessions /\ u.send = c.send /\ u.recv = c.recv
    BY DEF Sound, ChannelRec, SameMux, SameTerms, SameEngine
  <1> HIDE DEF t, u
  <1>5. Sound(t) BY <1>2, <1>3, SoundSame DEF Sound
  <1>6. Sound(u) BY <1>2, <1>4, SoundSame DEF Sound
  <1> QED BY <1>3, <1>4, <1>5, <1>6 DEF t, u

\* A provisional or final answer the filter expects is taken: the filter ends
\* up active with the answer's key and the offered one it picked, or without
\* encryption.
LEMMA DoSetAnswerSound ==
    ASSUME NEW c, Sound(c), NEW answer \in Seq(Crypto), NEW source \in Sources,
           NEW final \in BOOLEAN,
           ExpectAnswer(c, source), answer = <<>> \/ NegotiateParams(c, answer)
    PROVE  LET r == DoSetAnswer(c, answer, source, final)
               t == r.c
           IN /\ r.ok /\ Sound(t) /\ SameMux(c, t) /\ SameTerms(c, t)
              /\ t.state = IF answer = <<>>
                           THEN IF final THEN "INIT"
                                ELSE By(source, "SENTPRANSWER_NO_CRYPTO",
                                                "RECEIVEDPRANSWER_NO_CRYPTO")
                           ELSE IF final THEN "ACTIVE"
                                ELSE By(source, "SENTPRANSWER", "RECEIVEDPRANSWER")
              /\ ~final => t.offer_params = c.offer_params
              /\ answer # <<>> => Keyed(t, By(source, answer[1], Mine(c, answer)),
                                           By(source, Mine(c, answer), answer[1]))
  <1> DEFINE r == DoSetAnswer(c, answer, source, final)
  <1>1. CASE answer = <<>>
    <2> DEFINE nc == By(source, "SENTPRANSWER_NO_CRYPTO", "RECEIVEDPRANSWER_NO_CRYPTO")
    <2>1. nc \in SrtpStates /\ "INIT" \in SrtpStates BY DEF By, SrtpStates
    <2>2. r = Ok(IF final THEN [c EXCEPT !.offer_params = <<>>, !.state = "INIT"]
                 ELSE [c EXCEPT !.state = nc])
      BY <1>1 DEF DoSetAnswer, ResetParams
    <2> HIDE DEF nc, r
    <2>3. CASE final
      <3>1. /\ r.ok /\ Sound(r.c) /\ SameMux(c, r.c) /\ SameTerms(c, r.c)
            /\ r.c.state = "INIT"
        BY <2>1, <2>2, <2>3, WithState
      <3> QED BY <1>1, <2>3, <3>1 DEF r
    <2>4. CASE ~final
      <3>1. /\ r.ok /\ Sound(r.c) /\ SameMux(c, r.c) /\ SameTerms(c, r.c)
            /\ r.c.state = nc /\ r.c.offer_params = c.offer_params
        BY <2>1, <2>2, <2>4, WithState
      <3> QED BY <1>1, <2>4, <3>1 DEF r, nc
    <2> QED BY <2>3, <2>4
  <1>2. CASE answer # <<>>
    <2> DEFINE m == Mine(c, answer)
               send == By(source, answer[1], m)
               recv == By(source, m, answer[1])
               a == ApplyParams(c, send, recv)
               pr == By(source, "SENTPRANSWER", "RECEIVEDPRANSWER")
    <2>0. NegotiateParams(c, answer) BY <1>2
    <2>1. pr \in SrtpStates /\ "ACTIVE" \in SrtpStates BY DEF By, SrtpStates
    <2>2. Applied(c, answer, source) = a
      BY DEF Applied, Mine, By, Sources
    <2>3. r = Ok(IF final THEN [a EXCEPT !.offer_params = <<>>, !.state = "ACTIVE"]
                 ELSE [a EXCEPT !.state = pr])
      BY <1>2, <2>0, <2>2 DEF DoSetAnswer
    <2>4. answer[1] \in Crypto /\ m \in Crypto BY <2>0, SelectedMine DEF Sound
    <2>5. send \in Crypto /\ recv \in Crypto BY <2>4 DEF By
    <2> HIDE DEF send, recv, m
    <2>6. /\ Sound(a) /\ SameMux(c, a) /\ SameTerms(c, a)
          /\ a.offer_params = c.offer_params /\ Keyed(a, send, recv)
      BY <2>5, ApplyParamsSound
    <2> HIDE DEF a, pr, r
    <2>7. CASE final
      <3>1. /\ Sound(r.c) /\ SameMux(a, r.c) /\ SameTerms(a, r.c)
            /\ r.ok /\ r.c.state = "ACTIVE" /\ r.c.sessions = a.sessions /\ r.c.send = a.send
            /\ r.c.recv = a.recv
        <4> DEFINE u == [a EXCEPT !.offer_params = <<>>, !.state = "ACTIVE"]
        <4>1. /\ Sound(u) /\ SameMux(a, u) /\ SameTerms(a, u) /\ u.state = "ACTIVE"
              /\ u.sessions = a.sessions /\ u.send = a.send /\ u.recv = a.recv
          BY <2>1, <2>6, WithState
        <4>2. r = Ok(u) BY <2>3, <2>7
        <4> HIDE DEF u
        <4> QED BY <4>1, <4>2 DEF Ok
      <3> QED BY <1>2, <2>6, <2>7, <3>1 DEF SameMux, SameTerms, Keyed, r, send, recv, m
    <2>8. CASE ~final
      <3>1. /\ Sound(r.c) /\ SameMux(a, r.c) /\ SameTerms(a, r.c)
            /\ r.ok /\ r.c.state = pr /\ r.c.sessions = a.sessions /\ r.c.send = a.send
            /\ r.c.recv = a.recv /\ r.c.offer_params = a.offer_params
        <4> DEFINE u == [a EXCEPT !.state = pr]
        <4>1. /\ Sound(u) /\ SameMux(a, u) /\ SameTerms(a, u) /\ u.state = pr
              /\ u.sessions = a.sessions /\ u.send = a.send /\ u.recv = a.recv
              /\ u.offer_params = a.offer_params
          BY <2>1, <2>6, WithState
        <4>2. r = Ok(u) BY <2>3, <2>8
        <4> HIDE DEF u
        <4> QED BY <4>1, <4>2 DEF Ok
      <3> QED BY <1>2, <2>6, <2>8, <3>1 DEF SameMux, SameTerms, Keyed, r, send, recv, m, pr
    <2> QED BY <2>7, <2>8
  <1> QED BY <1>1, <1>2

-----------------------------------------------------------------------------
(* The RTCP mux filter                                                     *)

\* The filter takes an offer or an answer without an error.
MuxTakes(c, d, source) ==
    CASE d.action = "OFFER" -> MuxExpectOffer(c, d.rtcp_mux, source)
      [] OTHER -> MuxExpectAnswer(c, source) /\ (d.rtcp_mux => c.offer_enable)

\* The filter's state afterwards.
MuxAfter(c, d, source) ==
    CASE d.action = "OFFER" -> By(source, "SENTOFFER", "RECEIVEDOFFER")
      [] d.action = "PRANSWER" ->
            IF ~c.offer_enable THEN c.mux
            ELSE IF d.rtcp_mux THEN By(source, "SENTPRANSWER", "RECEIVEDPRANSWER")
            ELSE By(source, "RECEIVEDOFFER", "SENTOFFER")
      [] d.action = "ANSWER" -> IF d.rtcp_mux THEN "ACTIVE" ELSE "INIT"

\* The mux filter may go to any state.
LEMMA WithMux ==
    ASSUME NEW c, Sound(c), NEW m \in MuxStates
    PROVE  LET t == [c EXCEPT !.mux = m]
           IN /\ Sound(t) /\ SameSrtp(c, t) /\ SameTerms(c, t)
              /\ t.mux = m /\ t.offer_enable = c.offer_enable
              /\ t.rtcp_channel = c.rtcp_channel
  <1> DEFINE t == [c EXCEPT !.mux = m]
  <1>1. /\ t \in ChannelRec /\ SameSrtp(c, t) /\ SameTerms(c, t) /\ SameEngine(c, t)
        /\ t.mux = m /\ t.offer_enable = c.offer_enable
        /\ t.rtcp_channel = c.rtcp_channel
    BY DEF Sound, ChannelRec, SameSrtp, SameTerms, SameEngine
  <1> HIDE DEF t
  <1>2. Sound(t) BY <1>1, SoundFrame DEF SameSrtp, Sound
  <1> QED BY <1>1, <1>2 DEF t

\* RtcpMuxFilter::SetOffer, SetProvisionalAnswer and SetAnswer.
LEMMA MuxSetSound ==
    ASSUME NEW c, Sound(c), NEW d \in Description, NEW source \in Sources,
           MuxTakes(c, d, source)
    PROVE  LET r == MuxSet(c, d, source)
               t == r.c
           IN /\ r.ok /\ Sound(t) /\ SameSrtp(c, t) /\ SameTerms(c, t)
              /\ t.rtcp_channel = c.rtcp_channel
              /\ t.mux = MuxAfter(c, d, source)
              /\ t.offer_enable = IF d.action = "OFFER" THEN d.rtcp_mux ELSE c.offer_enable
  <1> DEFINE r == MuxSet(c, d, source)
             a == MuxAfter(c, d, source)
  <1>1. d.rtcp_mux \in BOOLEAN /\ d.action \in {"OFFER", "PRANSWER", "ANSWER"}
    BY DEF Description
  <1>2. a \in MuxStates
    <2>1. c.mux \in MuxStates BY DEF Sound, ChannelRec
    <2> QED BY <1>1, <2>1 DEF MuxAfter, By, MuxStates
  <1>3. CASE d.action = "OFFER"
    <2>1. r = Ok([c EXCEPT !.offer_enable = d.rtcp_mux, !.mux = a])
      BY <1>3 DEF MuxSet, MuxSetOffer, MuxTakes, MuxAfter
    <2> DEFINE e == d.rtcp_mux
               t == [c EXCEPT !.offer_enable = e, !.mux = a]
    <2>2. e \in BOOLEAN BY <1>1
    <2> HIDE DEF r, a, e
    <2>3. /\ t \in ChannelRec /\ SameSrtp(c, t) /\ SameTerms(c, t) /\ SameEngine(c, t)
          /\ t.mux = a /\ t.offer_enable = e
          /\ t.rtcp_channel = c.rtcp_channel
      BY <1>2, <2>2 DEF Sound, ChannelRec, SameSrtp, SameTerms, SameEngine
    <2> HIDE DEF t
    <2>4. r.ok /\ r.c = t BY <2>1 DEF t, e
    <2>5. Sound(t) BY <2>3, SoundFrame DEF SameSrtp, Sound
    <2> QED BY <1>3, <2>3, <2>4, <2>5 DEF r, a, e
  <1>4. CASE d.action = "ANSWER"
    <2>1. r = Ok([c EXCEPT !.mux = a])
      BY <1>4 DEF MuxSet, MuxSetAnswer, MuxTakes, MuxAfter
    <2> HIDE DEF r, a
    <2>2. /\ r.ok /\ Sound(r.c) /\ SameSrtp(c, r.c) /\ SameTerms(c, r.c)
          /\ r.c.mux = a /\ r.c.offer_enable = c.offer_enable
          /\ r.c.rtcp_channel = c.rtcp_channel
      BY <1>1, <1>2, <2>1, WithMux
    <2> QED BY <1>4, <2>2 DEF r, a
  <1>5. CASE d.action = "PRANSWER" /\ ~c.offer_enable
    <2>1. r = Ok(c) /\ a = c.mux
      BY <1>5 DEF MuxSet, MuxSetProvisionalAnswer, MuxTakes, MuxAfter
    <2> QED BY <1>5, <2>1 DEF SameSrtp, SameTerms
  <1>6. CASE d.action = "PRANSWER" /\ c.offer_enable
    <2>1. r = Ok([c EXCEPT !.mux = a])
      <3>1. r = MuxSetProvisionalAnswer(c, d.rtcp_mux, source) BY <1>6 DEF MuxSet
      <3>2. a = IF d.rtcp_mux THEN By(source, "SENTPRANSWER", "RECEIVEDPRANSWER")
                ELSE By(source, "RECEIVEDOFFER", "SENTOFFER")
        BY <1>6 DEF MuxAfter
      <3>3. MuxExpectAnswer(c, source) BY <1>6 DEF MuxTakes
      <3> HIDE DEF r, a
      <3>4. CASE d.rtcp_mux BY <1>6, <3>1, <3>2, <3>3, <3>4 DEF MuxSetProvisionalAnswer
      <3>5. CASE ~d.rtcp_mux BY <1>6, <3>1, <3>2, <3>3, <3>5 DEF MuxSetProvisionalAnswer
      <3> QED BY <3>4, <3>5
    <2> HIDE DEF r, a
    <2>2. /\ r.ok /\ Sound(r.c) /\ SameSrtp(c, r.c) /\ SameTerms(c, r.c)
          /\ r.c.mux = a /\ r.c.offer_enable = c.offer_enable
          /\ r.c.rtcp_channel = c.rtcp_channel
      BY <1>1, <1>2, <2>1, WithMux
    <2> QED BY <1>6, <2>2 DEF r, a
  <1> QED BY <1>1, <1>3, <1>4, <1>5, <1>6
-----------------------------------------------------------------------------
(* The channel                                                             *)

\* ChangeState settles what the engine is told.
LEMMA ChangeStateSound ==
    ASSUME NEW c \in ChannelRec, TransportsUp(c) => c.writable,
           c.told_ready => CanSend(c), c.send.suite # "" => c.sessions
    PROVE  LET t == ChangeState(c)
           IN /\ Sound(t) /\ SameSrtp(c, t) /\ SameMux(c, t) /\ SameTerms(c, t)
  <1> DEFINE play == IsReadyToReceive(c)
             go == IsReadyToSend(c)
             t == [c EXCEPT !.playout = play, !.sending = go]
  <1>1. play \in BOOLEAN /\ go \in BOOLEAN
    BY DEF IsReadyToReceive, IsReadyToSend, ChannelRec, Receives, Sends
  <1>2. ChangeState(c) = t BY DEF ChangeState
  <1> HIDE DEF play, go
  <1>3. /\ t \in ChannelRec /\ SameSrtp(c, t) /\ SameMux(c, t) /\ SameTerms(c, t)
        /\ t.playout = play /\ t.sending = go
        /\ t.enabled = c.enabled /\ t.was_ever_writable = c.was_ever_writable
        /\ t.writable = c.writable /\ t.up = c.up /\ t.ready = c.ready
        /\ t.told_ready = c.told_ready
    BY <1>1 DEF ChannelRec, SameSrtp, SameMux, SameTerms
  <1> HIDE DEF t
  <1>4. Sound(t)
    BY <1>3 DEF Sound, IsReadyToReceive, IsReadyToSend, TransportsUp, CanSend,
                SameMux, SameTerms, SameSrtp, play, go
  <1> QED BY <1>2, <1>3, <1>4

\* A channel that becomes writable.
LEMMA WritableSound ==
    ASSUME NEW c \in ChannelRec,
           c.playout = IsReadyToReceive(c), c.sending = IsReadyToSend(c),
           c.told_ready => CanSend(c), c.send.suite # "" => c.sessions
    PROVE  LET t == ChannelWritable_w(c)
           IN Sound(t) /\ SameSrtp(c, t) /\ SameMux(c, t) /\ SameTerms(c, t)
  <1>1. CASE c.writable
    BY <1>1 DEF ChannelWritable_w, Sound, SameSrtp, SameMux, SameTerms
  <1>2. CASE ~c.writable
    <2> DEFINE t == [c EXCEPT !.was_ever_writable = TRUE, !.writable = TRUE]
    <2>1. ChannelWritable_w(c) = ChangeState(t) BY <1>2 DEF ChannelWritable_w
    <2>2. /\ t \in ChannelRec /\ t.writable = TRUE
          /\ SameSrtp(c, t) /\ SameMux(c, t) /\ SameTerms(c, t)
          /\ t.told_ready = c.told_ready /\ t.ready = c.ready
      BY DEF ChannelRec, SameSrtp, SameMux, SameTerms
    <2> HIDE DEF t
    <2>3. /\ t.told_ready => CanSend(t)
          /\ t.send.suite # "" => t.sessions
      BY <2>2 DEF CanSend, SameMux, SameSrtp
    <2>4. /\ Sound(ChangeState(t)) /\ SameSrtp(t, ChangeState(t))
          /\ SameMux(t, ChangeState(t)) /\ SameTerms(t, ChangeState(t))
      BY <2>2, <2>3, ChangeStateSound
    <2> QED BY <2>1, <2>2, <2>4 DEF SameSrtp, SameMux, SameTerms
  <1> QED BY <1>1, <1>2

\* The transport that RTCP mux closes is not waited for.
LEMMA MuxAppliedSound ==
    ASSUME NEW c, Sound(c), NEW d
    PROVE  LET t == MuxApplied(c, d)
           IN /\ Sound(t) /\ SameSrtp(c, t) /\ SameTerms(c, t)
              /\ t.mux = c.mux /\ t.offer_enable = c.offer_enable
              /\ ~t.rtcp_channel => ~c.rtcp_channel \/ MuxIsActive(c)
  <1>1. CASE d.action = "ANSWER" /\ MuxIsActive(c) /\ c.rtcp_channel
    <2> DEFINE u == CloseRtcp(c)
    <2>1. /\ u \in ChannelRec /\ u.rtcp_channel = FALSE /\ u.up = c.up \ {"rtcp"}
          /\ SameSrtp(c, u) /\ SameTerms(c, u)
          /\ u.mux = c.mux /\ u.offer_enable = c.offer_enable
          /\ u.playout = c.playout /\ u.sending = c.sending /\ u.writable = c.writable
          /\ u.enabled = c.enabled /\ u.was_ever_writable = c.was_ever_writable
          /\ u.told_ready = c.told_ready /\ u.ready = c.ready
      BY DEF CloseRtcp, Sound, ChannelRec, SameSrtp, SameTerms
    <2>2. MuxApplied(c, d) = IF "rtp" \in u.up THEN ChannelWritable_w(u) ELSE u
      BY <1>1, <2>1 DEF MuxApplied, MuxIsActive
    <2> HIDE DEF u
    <2>3. /\ u.playout = IsReadyToReceive(u) /\ u.sending = IsReadyToSend(u)
          /\ u.told_ready => CanSend(u)
          /\ u.send.suite # "" => u.sessions
      BY <2>1 DEF Sound, SameSrtp, SameTerms, IsReadyToReceive, IsReadyToSend, CanSend
    <2>4. CASE "rtp" \in u.up
      <3>1. LET t == ChannelWritable_w(u)
            IN Sound(t) /\ SameSrtp(u, t) /\ SameMux(u, t) /\ SameTerms(u, t)
        BY <2>1, <2>3, WritableSound
      <3> QED BY <1>1, <2>1, <2>2, <2>4, <3>1 DEF SameSrtp, SameMux, SameTerms
    <2>5. CASE "rtp" \notin u.up
      BY <1>1, <2>1, <2>2, <2>3, <2>5 DEF Sound, TransportsUp
    <2> QED BY <2>4, <2>5
  <1>2. CASE ~(d.action = "ANSWER" /\ MuxIsActive(c) /\ c.rtcp_channel)
    <2>1. MuxApplied(c, d) = IF MuxIsActive(c) /\ "rtp" \in c.up
                             THEN ChannelWritable_w(c) ELSE c
      BY <1>2 DEF MuxApplied
    <2>2. LET t == ChannelWritable_w(c)
          IN Sound(t) /\ SameSrtp(c, t) /\ SameMux(c, t) /\ SameTerms(c, t)
      BY WritableSound DEF Sound
    <2> QED BY <2>1, <2>2 DEF SameSrtp, SameMux, SameTerms
  <1> QED BY <1>1, <1>2

-----------------------------------------------------------------------------
(* Setting a local or a remote content                                     *)

\* The SRTP filter takes an offer or an answer without an error.
SrtpTakes(c, d, source) ==
    CASE d.action = "OFFER" -> ExpectOffer(c, source)
      [] OTHER -> /\ ExpectAnswer(c, source)
                  /\ d.cryptos = <<>> \/ NegotiateParams(c, d.cryptos)

\* The filter's state afterwards.
SrtpAfter(c, d, source) ==
    CASE d.action = "OFFER" ->
            IF c.state = "INIT" THEN By(source, "SENTOFFER", "RECEIVEDOFFER")
            ELSE By(source, "SENTUPDATEDOFFER", "RECEIVEDUPDATEDOFFER")
      [] d.action = "PRANSWER" ->
            IF d.cryptos = <<>>
            THEN By(source, "SENTPRANSWER_NO_CRYPTO", "RECEIVEDPRANSWER_NO_CRYPTO")
            ELSE By(source, "SENTPRANSWER", "RECEIVEDPRANSWER")
      [] d.action = "ANSWER" -> IF d.cryptos = <<>> THEN "INIT" ELSE "ACTIVE"

\* The filters of t are those of c after d.
SrtpSet(c, d, source, t) ==
    /\ t.state = SrtpAfter(c, d, source)
    /\ d.action = "OFFER" => t.offer_params = d.cryptos
    /\ d.action = "PRANSWER" => t.offer_params = c.offer_params
    /\ d.action # "OFFER" /\ d.cryptos # <<>> =>
          Keyed(t, By(source, d.cryptos[1], Mine(c, d.cryptos)),
                   By(source, Mine(c, d.cryptos), d.cryptos[1]))
MuxDone(c, d, source, t) ==
    /\ t.mux = MuxAfter(c, d, source)
    /\ t.offer_enable = IF d.action = "OFFER" THEN d.rtcp_mux ELSE c.offer_enable
    /\ ~t.rtcp_channel => ~c.rtcp_channel \/ MuxIsActive(t)

\* BaseChannel::SetSrtp_w.
LEMMA SetSrtpSound ==
    ASSUME NEW c, Sound(c), NEW d \in Description, NEW source \in Sources,
           SrtpTakes(c, d, source)
    PROVE  LET r == SetSrtp_w(c, d, source)
           IN /\ r.ok /\ Sound(r.c) /\ SameMux(c, r.c) /\ SameTerms(c, r.c)
              /\ SrtpSet(c, d, source, r.c)
  <1> DEFINE r == SetSrtp_w(c, d, source)
  <1>1. /\ d.action \in {"OFFER", "PRANSWER", "ANSWER"} /\ d.cryptos \in Seq(Crypto)
    BY DEF Description
  <1>2. CASE d.action = "OFFER"
    <2>1. r = Ok(StoreParams(c, d.cryptos, source))
      BY <1>2 DEF SetSrtp_w, SrtpSetOffer, SrtpTakes
    <2> HIDE DEF r
    <2>2. LET t == StoreParams(c, d.cryptos, source)
          IN /\ Sound(t) /\ SameMux(c, t) /\ SameTerms(c, t)
             /\ t.offer_params = d.cryptos
             /\ t.state = SrtpAfter(c, d, source)
      BY <1>1, <1>2, StoreParamsSound DEF SrtpAfter
    <2> QED BY <1>2, <2>1, <2>2 DEF r, SrtpSet
  <1>3. CASE d.action # "OFFER"
    <2> DEFINE final == d.action = "ANSWER"
    <2>1. r = DoSetAnswer(c, d.cryptos, source, final)
      BY <1>1, <1>3 DEF SetSrtp_w
    <2>2. final \in BOOLEAN OBVIOUS
    <2>3. ExpectAnswer(c, source) /\ (d.cryptos = <<>> \/ NegotiateParams(c, d.cryptos))
      BY <1>3 DEF SrtpTakes
    <2> HIDE DEF r, final
    <2>4. /\ r.ok /\ Sound(r.c) /\ SameMux(c, r.c) /\ SameTerms(c, r.c)
          /\ r.c.state = IF d.cryptos = <<>>
                         THEN IF final THEN "INIT"
                              ELSE By(source, "SENTPRANSWER_NO_CRYPTO",
                                              "RECEIVEDPRANSWER_NO_CRYPTO")
                         ELSE IF final THEN "ACTIVE"
                              ELSE By(source, "SENTPRANSWER", "RECEIVEDPRANSWER")
          /\ ~final => r.c.offer_params = c.offer_params
          /\ d.cryptos # <<>> =>
                Keyed(r.c, By(source, d.cryptos[1], Mine(c, d.cryptos)),
                           By(source, Mine(c, d.cryptos), d.cryptos[1]))
      BY <1>1, <2>1, <2>2, <2>3, DoSetAnswerSound
    <2>5. r.c.state = SrtpAfter(c, d, source)
      BY <1>1, <1>3, <2>4 DEF SrtpAfter, final
    <2> QED BY <1>3, <2>4, <2>5 DEF SrtpSet, r, final
  <1> QED BY <1>2, <1>3

\* The new direction is told to the engine.
LEMMA SetDirectionSound ==
    ASSUME NEW c, Sound(c), NEW d \in Description, NEW source \in Sources
    PROVE  LET t == ChangeState(SetDirection(c, d, source))
           IN /\ Sound(t) /\ SameSrtp(c, t) /\ SameMux(c, t)
              /\ t.secure_required = c.secure_required
              /\ t.remote_dir = IF source = "REMOTE" THEN d.direction ELSE c.remote_dir
  <1> DEFINE t == SetDirection(c, d, source)
  <1>1. d.direction \in Direction BY DEF Description
  <1>2. /\ t \in ChannelRec /\ SameSrtp(c, t) /\ SameMux(c, t)
        /\ t.secure_required = c.secure_required
        /\ t.remote_dir = IF source = "REMOTE" THEN d.direction ELSE c.remote_dir
        /\ t.up = c.up /\ t.writable = c.writable /\ t.ready = c.ready
        /\ t.told_ready = c.told_ready
    <2>1. CASE source = "LOCAL"
      BY <1>1, <2>1 DEF SetDirection, Sound, ChannelRec, SameSrtp, SameMux
    <2>2. CASE source = "REMOTE"
      BY <1>1, <2>2 DEF SetDirection, Sound, ChannelRec, SameSrtp, SameMux
    <2> QED BY <2>1, <2>2 DEF Sources
  <1> HIDE DEF t
  <1>3. /\ TransportsUp(t) => t.writable
        /\ t.told_ready => CanSend(t)
        /\ t.send.suite # "" => t.sessions
    BY <1>2 DEF Sound, TransportsUp, CanSend, SameMux, SameSrtp
  <1>4. /\ Sound(ChangeState(t)) /\ SameSrtp(t, ChangeState(t))
        /\ SameMux(t, ChangeState(t)) /\ SameTerms(t, ChangeState(t))
    BY <1>2, <1>3, ChangeStateSound
  <1> QED BY <1>2, <1>4 DEF SameSrtp, SameMux, SameTerms, t

\* Both filters take d: the content is set and the engine told.
LEMMA SetBothSound ==
    ASSUME NEW c, Sound(c), NEW d \in Description, NEW source \in Sources,
           SrtpTakes(c, d, source), MuxTakes(c, d, source)
    PROVE  LET r == SetBoth(SetSrtp_w(c, d, source), d, source)
           IN /\ r.ok /\ Sound(r.c)
              /\ SrtpSet(c, d, source, r.c) /\ MuxDone(c, d, source, r.c)
              /\ r.c.secure_required = c.secure_required
              /\ r.c.remote_dir = IF source = "REMOTE" THEN d.direction ELSE c.remote_dir
  <1> DEFINE s == SetSrtp_w(c, d, source)
             m == MuxSet(s.c, d, source)
             a == MuxApplied(m.c, d)
             t == ChangeState(SetDirection(a, d, source))
             r == SetBoth(s, d, source)
  <1>1. /\ s.ok /\ Sound(s.c) /\ SameMux(c, s.c) /\ SameTerms(c, s.c)
        /\ SrtpSet(c, d, source, s.c)
    BY SetSrtpSound
  <1> HIDE DEF s
  <1>2. /\ MuxTakes(s.c, d, source) /\ MuxAfter(s.c, d, source) = MuxAfter(c, d, source)
    BY <1>1 DEF MuxTakes, MuxAfter, MuxExpectOffer, MuxExpectAnswer, SameMux
  <1>3. /\ m.ok /\ Sound(m.c) /\ SameSrtp(s.c, m.c) /\ SameTerms(s.c, m.c)
        /\ m.c.rtcp_channel = s.c.rtcp_channel
        /\ m.c.mux = MuxAfter(s.c, d, source)
        /\ m.c.offer_enable = IF d.action = "OFFER" THEN d.rtcp_mux ELSE s.c.offer_enable
    BY <1>1, <1>2, MuxSetSound
  <1>4. SetRtcpMux_w(s.c, d, source) = Ok(a) BY <1>3 DEF SetRtcpMux_w
  <1> HIDE DEF m
  <1>5. /\ Sound(a) /\ SameSrtp(m.c, a) /\ SameTerms(m.c, a)
        /\ a.mux = m.c.mux /\ a.offer_enable = m.c.offer_enable
        /\ ~a.rtcp_channel => ~m.c.rtcp_channel \/ MuxIsActive(m.c)
    BY <1>3, MuxAppliedSound
  <1> HIDE DEF a
  <1>6. /\ Sound(t) /\ SameSrtp(a, t) /\ SameMux(a, t)
        /\ t.secure_required = a.secure_required
        /\ t.remote_dir = IF source = "REMOTE" THEN d.direction ELSE a.remote_dir
    BY <1>5, SetDirectionSound
  <1>7. r = Ok(t) BY <1>1, <1>4 DEF SetBoth, Settle
  <1> HIDE DEF t, r
  <1>8. r.ok /\ r.c = t BY <1>7
  <1>9. SrtpSet(c, d, source, t)
    BY <1>1, <1>3, <1>5, <1>6 DEF SrtpSet, SameSrtp, Keyed
  <1>10. MuxDone(c, d, source, t)
    BY <1>1, <1>2, <1>3, <1>5, <1>6 DEF MuxDone, SameMux, MuxIsActive
  <1>11. t.secure_required = c.secure_required /\ a.remote_dir = c.remote_dir
    BY <1>1, <1>3, <1>5, <1>6 DEF SameTerms
  <1> QED BY <1>6, <1>8, <1>9, <1>10, <1>11 DEF r, s

\* VoiceChannel::SetLocalContent_w and SetRemoteContent_w.
LEMMA LocalContent ==
    ASSUME NEW c, Sound(c), NEW d \in Description,
           SrtpTakes(c, d, "LOCAL"), MuxTakes(c, d, "LOCAL")
    PROVE  LET r == SetLocalContent_w(c, d)
           IN /\ r.ok /\ Sound(r.c)
              /\ SrtpSet(c, d, "LOCAL", r.c) /\ MuxDone(c, d, "LOCAL", r.c)
              /\ r.c.secure_required = d.required /\ r.c.remote_dir = c.remote_dir
  <1> DEFINE b == [c EXCEPT !.secure_required = d.required]
             r == SetBoth(SetSrtp_w(b, d, "LOCAL"), d, "LOCAL")
  <1>1. d.required \in BOOLEAN BY DEF Description
  <1>2. /\ b \in ChannelRec /\ SameSrtp(c, b) /\ SameMux(c, b) /\ SameEngine(c, b)
        /\ b.secure_required = d.required
        /\ b.local_dir = c.local_dir /\ b.remote_dir = c.remote_dir
    BY <1>1 DEF Sound, ChannelRec, SameSrtp, SameMux, SameEngine
  <1> HIDE DEF b
  <1>3. Sound(b)
    BY <1>2 DEF Sound, SameSrtp, SameMux, SameEngine, IsReadyToReceive,
                IsReadyToSend, TransportsUp, CanSend
  <1>4. \A answer : /\ Selected(b, answer) = Selected(c, answer)
                    /\ Mine(b, answer) = Mine(c, answer)
    BY <1>2 DEF SameSrtp, Selected, Mine
  <1>5. SrtpTakes(b, d, "LOCAL") /\ MuxTakes(b, d, "LOCAL")
    BY <1>2, <1>4 DEF SrtpTakes, MuxTakes, SameSrtp, SameMux, ExpectOffer, ExpectAnswer,
                      NegotiateParams, MuxExpectOffer, MuxExpectAnswer
  <1>6. "LOCAL" \in Sources BY DEF Sources
  <1>7. /\ r.ok /\ Sound(r.c)
        /\ SrtpSet(b, d, "LOCAL", r.c) /\ MuxDone(b, d, "LOCAL", r.c)
        /\ r.c.secure_required = b.secure_required
        /\ r.c.remote_dir = b.remote_dir
    BY <1>3, <1>5, <1>6, SetBothSound
  <1>8. SetLocalContent_w(c, d) = r BY DEF SetLocalContent_w, b
  <1> HIDE DEF r
  <1>9. SrtpSet(c, d, "LOCAL", r.c)
    BY <1>2, <1>4, <1>7 DEF SrtpSet, SrtpAfter, SameSrtp
  <1>10. MuxDone(c, d, "LOCAL", r.c)
    BY <1>2, <1>7 DEF MuxDone, MuxAfter, SameMux
  <1> QED BY <1>2, <1>7, <1>8, <1>9, <1>10

\* A remote description that both filters take is applied without error.
LEMMA RemoteContent ==
    ASSUME NEW c, Sound(c), NEW d \in Description,
           SrtpTakes(c, d, "REMOTE"), MuxTakes(c, d, "REMOTE")
    PROVE  LET r == SetRemoteContent_w(c, d)
           IN /\ r.ok /\ Sound(r.c)
              /\ SrtpSet(c, d, "REMOTE", r.c) /\ MuxDone(c, d, "REMOTE", r.c)
              /\ r.c.secure_required = c.secure_required
              /\ r.c.remote_dir = d.direction
  <1>1. "REMOTE" \in Sources BY DEF Sources
  <1> QED BY <1>1, SetBothSound DEF SetRemoteContent_w

-----------------------------------------------------------------------------
(* Transports and the application                                          *)

\* Whatever the transports and the application do leaves the filters alone.
Steady(c, t) == Sound(t) /\ SameSrtp(c, t) /\ SameMux(c, t) /\ SameTerms(c, t)

\* BaseChannel::OnWritableState, EnableMedia_w and SetReadyToSend.
LEMMA OnWritableStateSteady ==
    ASSUME NEW c, Sound(c), NEW up \in SUBSET {"rtp", "rtcp"}
    PROVE  Steady(c, OnWritableState([c EXCEPT !.up = up]))
  <1> DEFINE b == [c EXCEPT !.up = up]
             t == OnWritableState(b)
  <1>1. /\ b \in ChannelRec /\ b.up = up
        /\ SameSrtp(c, b) /\ SameMux(c, b) /\ SameTerms(c, b)
        /\ b.playout = c.playout /\ b.sending = c.sending /\ b.enabled = c.enabled
        /\ b.was_ever_writable = c.was_ever_writable /\ b.writable = c.writable
        /\ b.ready = c.ready /\ b.told_ready = c.told_ready
    BY DEF Sound, ChannelRec, SameSrtp, SameMux, SameTerms
  <1> HIDE DEF b
  <1>2. /\ b.playout = IsReadyToReceive(b) /\ b.sending = IsReadyToSend(b)
        /\ b.told_ready => CanSend(b)
        /\ b.send.suite # "" => b.sessions
    BY <1>1 DEF Sound, SameSrtp, SameMux, SameTerms, IsReadyToReceive, IsReadyToSend,
                CanSend
  <1>3. Sound(t) /\ SameSrtp(b, t) /\ SameMux(b, t) /\ SameTerms(b, t)
    <2>1. CASE TransportsUp(b)
      BY <1>1, <1>2, <2>1, WritableSound DEF OnWritableState
    <2>2. CASE ~TransportsUp(b) /\ ~b.writable
      BY <1>1, <1>2, <2>2 DEF OnWritableState, ChannelNotWritable_w, Sound,
                              SameSrtp, SameMux, SameTerms
    <2>3. CASE ~TransportsUp(b) /\ b.writable
      <3> DEFINE w == [b EXCEPT !.writable = FALSE]
      <3>1. t = ChangeState(w) BY <2>3 DEF OnWritableState, ChannelNotWritable_w
      <3>2. /\ w \in ChannelRec /\ SameSrtp(b, w) /\ SameMux(b, w) /\ SameTerms(b, w)
            /\ w.up = b.up /\ w.ready = b.ready /\ w.told_ready = b.told_ready
        BY <1>1 DEF ChannelRec, SameSrtp, SameMux, SameTerms
      <3> HIDE DEF w, t
      <3>3. /\ ~TransportsUp(w)
            /\ w.told_ready => CanSend(w)
            /\ w.send.suite # "" => w.sessions
        BY <1>2, <2>3, <3>2 DEF TransportsUp, CanSend, SameMux, SameSrtp
      <3>4. Sound(t) /\ SameSrtp(w, t) /\ SameMux(w, t) /\ SameTerms(w, t)
        BY <3>1, <3>2, <3>3, ChangeStateSound
      <3> QED BY <3>2, <3>4 DEF SameSrtp, SameMux, SameTerms
    <2> QED BY <2>1, <2>2, <2>3
  <1> HIDE DEF t
  <1> QED BY <1>1, <1>3 DEF Steady, SameSrtp, SameMux, SameTerms, t, b

\* Enabling or disabling a channel leaves what was negotiated alone.
LEMMA EnableSteady ==
    ASSUME NEW c, Sound(c), NEW enable \in BOOLEAN
    PROVE  Steady(c, Enable(c, enable))
  <1>1. CASE c.enabled = enable
    BY <1>1 DEF Enable, Steady, SameSrtp, SameMux, SameTerms
  <1>2. CASE c.enabled # enable
    <2> DEFINE b == [c EXCEPT !.enabled = enable]
               t == ChangeState(b)
    <2>1. Enable(c, enable) = t BY <1>2 DEF Enable
    <2>2. /\ b \in ChannelRec /\ SameSrtp(c, b) /\ SameMux(c, b) /\ SameTerms(c, b)
          /\ b.up = c.up /\ b.writable = c.writable /\ b.ready = c.ready
          /\ b.told_ready = c.told_ready
      BY DEF Sound, ChannelRec, SameSrtp, SameMux, SameTerms
    <2> HIDE DEF b
    <2>3. /\ TransportsUp(b) => b.writable
          /\ b.told_ready => CanSend(b)
          /\ b.send.suite # "" => b.sessions
      BY <2>2 DEF Sound, TransportsUp, CanSend, SameMux, SameSrtp
    <2>4. Sound(t) /\ SameSrtp(b, t) /\ SameMux(b, t) /\ SameTerms(b, t)
      BY <2>2, <2>3, ChangeStateSound
    <2> HIDE DEF t
    <2> QED BY <2>1, <2>2, <2>4 DEF Steady, SameSrtp, SameMux, SameTerms
  <1> QED BY <1>1, <1>2

\* So does a transport channel that becomes ready to send, or stops to be.
LEMMA SetReadyToSendSteady ==
    ASSUME NEW c, Sound(c), NEW chan \in {"rtp", "rtcp"}, NEW ready \in BOOLEAN
    PROVE  Steady(c, SetReadyToSend(c, chan, ready))
  <1> DEFINE s == IF ready THEN c.ready \cup {chan} ELSE c.ready \ {chan}
             b == [c EXCEPT !.ready = s]
             told == IF ~ready THEN FALSE ELSE IF CanSend(b) THEN TRUE ELSE c.told_ready
             t == [b EXCEPT !.told_ready = told]
  <1>1. s \in SUBSET {"rtp", "rtcp"} BY DEF Sound, ChannelRec
  <1>2. /\ b \in ChannelRec /\ SameSrtp(c, b) /\ SameMux(c, b) /\ SameTerms(c, b)
        /\ b.ready = s /\ b.up = c.up /\ b.writable = c.writable
        /\ b.playout = c.playout /\ b.sending = c.sending /\ b.enabled = c.enabled
        /\ b.was_ever_writable = c.was_ever_writable /\ b.told_ready = c.told_ready
    BY <1>1 DEF Sound, ChannelRec, SameSrtp, SameMux, SameTerms
  <1>3. SetReadyToSend(c, chan, ready) = t BY <1>2 DEF SetReadyToSend
  <1> HIDE DEF b
  <1>4. told \in BOOLEAN BY DEF Sound, ChannelRec
  <1>5. told => CanSend(b)
    BY <1>2 DEF Sound, CanSend, SameMux
  <1> HIDE DEF told
  <1>6. /\ t \in ChannelRec /\ SameSrtp(b, t) /\ SameMux(b, t) /\ SameTerms(b, t)
        /\ t.ready = b.ready /\ t.up = b.up /\ t.writable = b.writable
        /\ t.playout = b.playout /\ t.sending = b.sending /\ t.enabled = b.enabled
        /\ t.was_ever_writable = b.was_ever_writable /\ t.told_ready = told
    BY <1>2, <1>4 DEF ChannelRec, SameSrtp, SameMux, SameTerms
  <1> HIDE DEF t, s
  <1>7. SameSrtp(c, t) /\ SameMux(c, t) /\ SameTerms(c, t)
    BY <1>2, <1>6 DEF SameSrtp, SameMux, SameTerms
  <1>8. t.told_ready => CanSend(t) BY <1>5, <1>6 DEF CanSend, SameMux
  <1>9. Sound(t)
    BY <1>2, <1>6, <1>7, <1>8 DEF Sound, SameSrtp, SameMux, SameTerms, IsReadyToReceive,
                                  IsReadyToSend, TransportsUp
  <1> QED BY <1>3, <1>7, <1>9 DEF Steady

\* There are two sides.
LEMMA Others == \A p \in Peers : /\ Other(p) \in Peers /\ Other(p) # p
                                 /\ Other(Other(p)) = p
                                 /\ \A r \in Peers : r = p \/ r = Other(p)
  BY PeersAssumption DEF Peers, Other

\* A step that leaves the filters alone keeps the invariant.
LEMMA SteadyStep ==
    ASSUME IInv, NEW p \in Peers, NEW t, Steady(ch[p], t), SetChannel(p, t),
           left' \in [{"offers", "provisional", "flap"} -> Nat]
    PROVE  IInv'
  <1>1. ch \in [Peers -> ChannelRec] /\ t \in ChannelRec
    BY DEF IInv, TypeOK, Steady, Sound
  <1>2. /\ ch' = [ch EXCEPT ![p] = t] /\ policy' = policy /\ muxing' = muxing
        /\ neg' = neg /\ desc' = desc /\ offered' = offered /\ sig' = sig /\ nkey' = nkey
    BY DEF SetChannel
  <1>3. TypeOK' BY <1>1, <1>2 DEF IInv, TypeOK
  <1>4. \A r \in Peers : Steady(ch[r], ch'[r])
    BY <1>1, <1>2 DEF IInv, Steady, SameSrtp, SameMux, SameTerms
  <1>5. \A r \in Peers :
           /\ Sound(ch'[r])
           /\ ch'[r].state = ch[r].state /\ ch'[r].offer_params = ch[r].offer_params
           /\ ch'[r].sessions = ch[r].sessions
           /\ ch'[r].send = ch[r].send /\ ch'[r].recv = ch[r].recv
           /\ ch'[r].mux = ch[r].mux /\ ch'[r].offer_enable = ch[r].offer_enable
           /\ ch'[r].rtcp_channel = ch[r].rtcp_channel
           /\ ch'[r].secure_required = ch[r].secure_required
           /\ ch'[r].remote_dir = ch[r].remote_dir
    BY <1>4 DEF Steady, SameSrtp, SameMux, SameTerms
  <1>6. Agreed' = Agreed /\ \A r \in Peers : Required(r)' = Required(r)
    BY <1>2 DEF Agreed, Required
  <1>7. \A r \in Peers : Guarded(r)'
    BY <1>5, <1>6 DEF IInv, Guarded, SrtpIsActive
  <1>8. \A r \in Peers : \A x : /\ Selected(ch'[r], x) = Selected(ch[r], x)
                               /\ Mine(ch'[r], x) = Mine(ch[r], x)
    BY <1>5 DEF Selected, Mine
  <1>9. Idle => Idle'
    BY <1>2, <1>5, <1>6, Others DEF Idle, Settled
  <1>10. ASSUME NEW r \in Peers, Offering(r) PROVE Offering(r)'
    BY <1>2, <1>5, <1>6, <1>10, Others DEF Offering, Settled, IsOffer
  <1>11. ASSUME NEW r \in Peers, Answering(r) PROVE Answering(r)'
    <2> DEFINE q == Other(r)
    <2>1. q \in Peers BY Others
    <2>2. \A d : IsAnswer(r, d)' = IsAnswer(r, d) /\ IsOffer(r, d)' = IsOffer(r, d)
      BY <1>2, <1>5, <1>6, <1>8 DEF IsAnswer, IsOffer, NegotiateParams
    <2>3. Answerer(r, q) BY <1>11 DEF Answering
    <2>4. Answerer(r, q)'
      BY <1>2, <1>5, <1>6, <1>8, <2>1, <2>2, <2>3, SMTT(30) DEF Answerer, Keyed
    <2> QED BY <1>2, <1>5, <1>6, <1>11, <2>1, <2>2, <2>4 DEF Answering
  <1>12. Round' BY <1>9, <1>10, <1>11 DEF IInv, Round
  <1> QED BY <1>3, <1>5, <1>7, <1>12 DEF IInv

-----------------------------------------------------------------------------
(* Offers and answers                                                      *)

\* MediaSessionDescriptionFactory: what an offer and an answer hold.
LEMMA DescCryptos ==
    ASSUME TypeOK, NEW p \in Peers
    PROVE  desc[p].cryptos \in Seq(Crypto)
  <1>1. desc[p] \in Description \/ desc[p] = NoDesc BY DEF TypeOK
  <1>2. \A d \in Description : d.cryptos \in Seq(Crypto) BY DEF Description
  <1>3. NoDesc.cryptos \in Seq(Crypto) BY DEF NoDesc
  <1> QED BY <1>1, <1>2, <1>3

\* What CreateOffer makes is an offer of that side's policy.
LEMMA OfferMade ==
    ASSUME IInv, NEW p \in Peers, NEW bundle \in BOOLEAN, NEW dir \in Direction
    PROVE  LET d == CreateOffer(p, bundle, dir)
           IN d \in Description /\ IsOffer(p, d)
  <1> DEFINE x == OfferCryptos(p)
  <1>1. /\ nkey \in Nat /\ policy[p] \in Policy /\ muxing[p] \in BOOLEAN
    BY DEF IInv, TypeOK
  <1>0. desc[p].cryptos \in Seq(Crypto) BY DescCryptos DEF IInv
  <1>2. MediaCryptos \in Seq(Crypto) /\ MediaCryptos # <<>>
    <2>1. /\ [tag |-> 0, suite |-> "32", key |-> nkey + 1] \in Crypto
          /\ [tag |-> 1, suite |-> "80", key |-> nkey + 2] \in Crypto
      BY <1>1 DEF Crypto
    <2> QED BY <2>1 DEF MediaCryptos
  <1>3. x \in Seq(Crypto) /\ (Required(p) => x # <<>>)
    BY <1>0, <1>1, <1>2 DEF OfferCryptos, Required
  <1> HIDE DEF x
  <1>4. CreateOffer(p, bundle, dir) =
          [action |-> "OFFER", cryptos |-> x, rtcp_mux |-> muxing[p],
           bundle |-> bundle, required |-> Required(p), direction |-> dir]
    BY DEF CreateOffer, x, Required
  <1>5. Required(p) \in BOOLEAN BY DEF Required
  <1>6. CreateOffer(p, bundle, dir) \in Description
    BY <1>1, <1>3, <1>4, <1>5 DEF Description
  <1>7. IsOffer(p, CreateOffer(p, bundle, dir))
    BY <1>3, <1>4 DEF IsOffer
  <1> QED BY <1>6, <1>7

\* An answer picks an offered suite, under the offer's tag.
LEMMA AnswerMade ==
    ASSUME IInv, NEW p \in Peers, NEW bundle \in BOOLEAN,
           offered[p].cryptos \in Seq(Crypto)
    PROVE  LET x == AnswerCryptos(p, offered[p], bundle)
           IN /\ x \in Seq(Crypto)
              /\ x # <<>> => /\ Len(x) = 1
                             /\ \E y \in ToSet(offered[p].cryptos) : Matches(x[1], y)
  <1> DEFINE o == offered[p].cryptos
             A == Acceptable(offered[p], bundle)
             y == Choice(offered[p], bundle)
             x == AnswerCryptos(p, offered[p], bundle)
  <1>1. CASE policy[p] = "disabled" \/ A = {}
    BY <1>1 DEF AnswerCryptos
  <1>2. CASE ~(policy[p] = "disabled" \/ A = {})
    <2>1. A \subseteq DOMAIN o /\ A \subseteq Nat BY DEF Acceptable
    <2>2. \E i \in A : \A j \in A : i <= j BY <1>2, <2>1, LeastNat
    <2> DEFINE i == CHOOSE i \in A : \A j \in A : i <= j
    <2>3. i \in A BY <2>2
    <2>4. y = o[i] BY DEF Choice
    <2> HIDE DEF i
    <2>5. y \in Crypto /\ y \in ToSet(o) BY <2>1, <2>3, <2>4 DEF ToSet
    <2> HIDE DEF y
    <2>6. CASE Current(p, y) # {}
      <3> DEFINE z == CHOOSE z \in Current(p, y) : TRUE
      <3>1. z \in Current(p, y) BY <2>6
      <3>2. x = << z >> BY <1>2, <2>6 DEF AnswerCryptos, y
      <3> HIDE DEF z
      <3>3. desc[p].cryptos \in Seq(Crypto) BY DescCryptos DEF IInv
      <3>4. z \in Crypto /\ Matches(y, z) BY <3>1, <3>3 DEF Current, ToSet
      <3>5. Matches(z, y) BY <3>4 DEF Matches
      <3> QED BY <2>5, <3>2, <3>4, <3>5
    <2>7. CASE Current(p, y) = {}
      <3> DEFINE z == [y EXCEPT !.key = nkey + 1]
      <3>1. x = << z >> BY <1>2, <2>7 DEF AnswerCryptos, y
      <3>2. nkey \in Nat BY DEF IInv, TypeOK
      <3>3. z \in Crypto /\ z.tag = y.tag /\ z.suite = y.suite BY <2>5, <3>2 DEF Crypto
      <3>4. Matches(z, y) BY <3>3 DEF Matches
      <3> QED BY <2>5, <3>1, <3>3, <3>4
    <2> QED BY <2>6, <2>7
  <1> QED BY <1>1, <1>2

\* The direction of an answer is a direction.
LEMMA MirrorDirection == \A dir \in Direction : Mirror(dir) \in Direction
  BY DEF Mirror, Direction

\* What a side that has an offer answers is taken by both filters of both.
LEMMA AnswerSent ==
    ASSUME IInv, NEW p \in Peers, Answering(Other(p)), neg[p] = "remote",
           NEW bundle \in BOOLEAN, NEW action \in {"PRANSWER", "ANSWER"},
           CanCreateAnswer(p, AnswerCryptos(p, offered[p], bundle))
    PROVE  LET d == CreateAnswer(p, action, AnswerCryptos(p, offered[p], bundle), bundle)
           IN /\ d \in Description /\ IsAnswer(Other(p), d)
              /\ d.action = action /\ d.required = FALSE
              /\ SrtpTakes(ch[p], d, "LOCAL") /\ MuxTakes(ch[p], d, "LOCAL")
              /\ \A a : Mine(ch[p], a) = Mine(ch[Other(p)], a)
  <1> DEFINE q == Other(p)
             x == AnswerCryptos(p, offered[p], bundle)
             d == CreateAnswer(p, action, x, bundle)
  <1>1. q \in Peers /\ Other(q) = p /\ \A r \in Peers : r = p \/ r = q BY Others
  <1>2. /\ IsOffer(q, offered[p]) /\ ch[p].offer_params = ch[q].offer_params
        /\ offered[p].cryptos = ch[q].offer_params
        /\ ch[p].state \in {"RECEIVEDOFFER", "RECEIVEDUPDATEDOFFER",
                            "SENTPRANSWER_NO_CRYPTO", "SENTPRANSWER"}
        /\ ch[p].mux \in {"RECEIVEDOFFER", "SENTPRANSWER"}
        /\ ch[p].offer_enable = muxing[q]
    BY <1>1 DEF Answering, Answerer
  <1>3. /\ ch[q].offer_params \in Seq(Crypto)
        /\ muxing[p] \in BOOLEAN /\ muxing[q] \in BOOLEAN
    BY <1>1 DEF IInv, TypeOK, ChannelRec
  <1>4. offered[p] \in Description BY <1>2 DEF IInv, TypeOK, NoDesc, IsOffer
  <1>5. x \in Seq(Crypto) /\ (x # <<>> => /\ Len(x) = 1
                              /\ \E y \in ToSet(offered[p].cryptos) : Matches(x[1], y))
    BY <1>2, <1>3, AnswerMade
  <1>6. CanCreateAnswer(p, x) OBVIOUS
  <1> HIDE DEF x
  <1>7. Agreed <=> muxing[p] /\ muxing[q] BY <1>1 DEF Agreed
  <1>8. /\ d.action = action /\ d.cryptos = x /\ d.rtcp_mux = Agreed
        /\ d.required = FALSE
    <2>1. /\ d.action = action /\ d.cryptos = x /\ d.required = FALSE
          /\ d.rtcp_mux = (muxing[p] /\ offered[p].rtcp_mux)
      BY DEF CreateAnswer
    <2>2. Agreed \in BOOLEAN BY DEF Agreed
    <2> QED BY <1>2, <1>3, <1>7, <2>1, <2>2 DEF IsOffer
  <1>9. d \in Description
    <2>1. (muxing[p] /\ offered[p].rtcp_mux) \in BOOLEAN OBVIOUS
    <2>2. Mirror(offered[p].direction) \in Direction
      BY <1>4, MirrorDirection DEF Description
    <2> QED BY <1>5, <2>1, <2>2 DEF CreateAnswer, Description
  <1> HIDE DEF d
  <1>10. x # <<>> => NegotiateParams(ch[p], x) /\ NegotiateParams(ch[q], x)
    BY <1>2, <1>5 DEF NegotiateParams, Selected
  <1>11. x = <<>> => \A r \in Peers : ~Required(r)
    BY <1>1, <1>2, <1>6 DEF CanCreateAnswer, IsOffer, Required
  <1>12. IsAnswer(q, d) BY <1>8, <1>10, <1>11 DEF IsAnswer
  <1>13. SrtpTakes(ch[p], d, "LOCAL")
    BY <1>2, <1>8, <1>10 DEF SrtpTakes, ExpectAnswer, By
  <1>14. MuxTakes(ch[p], d, "LOCAL")
    BY <1>2, <1>7, <1>8 DEF MuxTakes, MuxExpectAnswer, By
  <1>15. \A a : Mine(ch[p], a) = Mine(ch[q], a) BY <1>2 DEF Mine, Selected
  <1> QED BY <1>8, <1>9, <1>12, <1>13, <1>14, <1>15 DEF d, x

-----------------------------------------------------------------------------
(* The steps of a negotiation                                              *)

Negs == {"stable", "local", "remote", "refused", "error"}

\* The bounds stay naturals.
LEMMA UseTyped ==
    ASSUME TypeOK, NEW bound \in {"offers", "provisional", "flap"}, Use(bound)
    PROVE  left' \in [{"offers", "provisional", "flap"} -> Nat]
  <1>1. left[bound] \in Nat /\ left[bound] > 0 BY DEF TypeOK, Use
  <1>2. left[bound] - 1 \in Nat BY <1>1
  <1> QED BY <1>2 DEF TypeOK, Use

\* Side p sets its local description d and sends it.
LEMMA SetLocalTyped ==
    ASSUME IInv, NEW p \in Peers, NEW d \in Description, NEW next \in Negs,
           NEW queue \in Seq(Description), SetLocal(p, d, next, queue),
           SrtpTakes(ch[p], d, "LOCAL"), MuxTakes(ch[p], d, "LOCAL"),
           left' \in [{"offers", "provisional", "flap"} -> Nat],
           policy' = policy, muxing' = muxing, offered' = offered
    PROVE  /\ TypeOK'
           /\ ch'[Other(p)] = ch[Other(p)] /\ Sound(ch'[p])
           /\ SrtpSet(ch[p], d, "LOCAL", ch'[p]) /\ MuxDone(ch[p], d, "LOCAL", ch'[p])
           /\ ch'[p].secure_required = d.required
           /\ ch'[p].remote_dir = ch[p].remote_dir
           /\ neg'[p] = next /\ neg'[Other(p)] = neg[Other(p)]
           /\ sig'[Other(p)] = Append(queue, d) /\ sig'[p] = sig[p]
  <1> DEFINE q == Other(p)
             r == SetLocalContent_w(ch[p], d)
  <1>1. q \in Peers /\ q # p BY Others
  <1>2. Sound(ch[p]) BY DEF IInv
  <1>3. /\ r.ok /\ Sound(r.c)
        /\ SrtpSet(ch[p], d, "LOCAL", r.c) /\ MuxDone(ch[p], d, "LOCAL", r.c)
        /\ r.c.secure_required = d.required /\ r.c.remote_dir = ch[p].remote_dir
    BY <1>2, LocalContent
  <1>4. /\ ch' = [ch EXCEPT ![p] = r.c]
        /\ neg' = [neg EXCEPT ![p] = IF r.ok THEN next ELSE "error"]
        /\ desc' = [desc EXCEPT ![p] = d]
        /\ sig' = [sig EXCEPT ![q] = Append(queue, d)]
        /\ Drawn(d)
    BY DEF SetLocal
  <1> HIDE DEF r
  <1>5. nkey' \in Nat
    <2>1. nkey \in Nat /\ d.cryptos \in Seq(Crypto) BY DEF IInv, TypeOK, Description
    <2>2. d.cryptos # <<>> => Last(d.cryptos) \in Crypto BY <2>1 DEF Last
    <2>3. d.cryptos # <<>> => Last(d.cryptos).key \in Nat BY <2>2 DEF Crypto
    <2> QED BY <1>4, <2>1, <2>3 DEF Drawn
  <1>6. Append(queue, d) \in Seq(Description) OBVIOUS
  <1>7. r.c \in ChannelRec BY <1>3 DEF Sound
  <1>8. /\ ch \in [Peers -> ChannelRec] /\ neg \in [Peers -> Negs]
        /\ desc \in [Peers -> Description \cup {NoDesc}]
        /\ sig \in [Peers -> Seq(Description)]
    BY DEF IInv, TypeOK, Negs
  <1>9. /\ ch'[p] = r.c /\ ch'[q] = ch[q] /\ neg'[p] = next /\ neg'[q] = neg[q]
        /\ sig'[q] = Append(queue, d) /\ sig'[p] = sig[p]
    BY <1>1, <1>3, <1>4, <1>8
  <1>10. /\ ch' \in [Peers -> ChannelRec] /\ neg' \in [Peers -> Negs]
         /\ desc' \in [Peers -> Description \cup {NoDesc}]
         /\ sig' \in [Peers -> Seq(Description)]
    BY <1>1, <1>3, <1>4, <1>6, <1>7, <1>8
  <1>11. TypeOK' BY <1>5, <1>10 DEF IInv, TypeOK, Negs
  <1> QED BY <1>3, <1>9, <1>11

\* Before an offer: nothing is under way, or another offer that has not arrived.
MayOffer(p) ==
    /\ neg[Other(p)] = "stable" /\ sig[p] = <<>> /\ Settled(ch[Other(p)])
    /\ \/ Settled(ch[p])
       \/ ch[p].state \in {"SENTOFFER", "SENTUPDATEDOFFER"} /\ ch[p].mux = "SENTOFFER"

\* CreateOffer and SetLocalContent_w, for a first or for another offer.
LEMMA OfferStep ==
    ASSUME IInv, NEW p \in Peers, NEW bundle \in BOOLEAN, NEW dir \in Direction,
           MayOffer(p), Use("offers"),
           SetLocal(p, CreateOffer(p, bundle, dir), "local", <<>>),
           policy' = policy, muxing' = muxing, offered' = offered
    PROVE  IInv'
  <1> DEFINE q == Other(p)
             d == CreateOffer(p, bundle, dir)
  <1>1. q \in Peers /\ q # p /\ \A r \in Peers : r = p \/ r = q BY Others
  <1>2. d \in Description /\ IsOffer(p, d) BY OfferMade
  <1>3. SetLocal(p, d, "local", <<>>) OBVIOUS
  <1> HIDE DEF d
  <1>4. d.action = "OFFER" /\ d.rtcp_mux = muxing[p] BY <1>2 DEF IsOffer
  <1>5. SrtpTakes(ch[p], d, "LOCAL")
    BY <1>4 DEF MayOffer, Settled, SrtpTakes, ExpectOffer, By
  <1>6. MuxTakes(ch[p], d, "LOCAL")
    <2>1. muxing[p] \in BOOLEAN /\ ch[p].offer_enable \in BOOLEAN
      BY DEF IInv, TypeOK, ChannelRec
    <2>2. ch[p].mux = "ACTIVE" => muxing[p] = ch[p].offer_enable
      BY <2>1 DEF MayOffer, Settled, Agreed
    <2> QED BY <1>4, <2>2 DEF MayOffer, Settled, MuxTakes, MuxExpectOffer, By
  <1>7. left' \in [{"offers", "provisional", "flap"} -> Nat] BY UseTyped DEF IInv
  <1>8. <<>> \in Seq(Description) /\ "local" \in Negs BY DEF Negs
  <1>9. /\ TypeOK'
        /\ ch'[q] = ch[q] /\ Sound(ch'[p])
        /\ SrtpSet(ch[p], d, "LOCAL", ch'[p]) /\ MuxDone(ch[p], d, "LOCAL", ch'[p])
        /\ ch'[p].secure_required = d.required
        /\ ch'[p].remote_dir = ch[p].remote_dir
        /\ neg'[p] = "local" /\ neg'[q] = neg[q]
        /\ sig'[q] = Append(<<>>, d) /\ sig'[p] = sig[p]
    BY <1>2, <1>3, <1>5, <1>6, <1>7, <1>8, SetLocalTyped
  <1>10. /\ ch'[p].state = IF ch[p].state = "INIT" THEN "SENTOFFER" ELSE "SENTUPDATEDOFFER"
         /\ ch'[p].offer_params = d.cryptos
         /\ ch'[p].mux = "SENTOFFER" /\ ch'[p].offer_enable = muxing[p]
         /\ ~ch'[p].rtcp_channel => ~ch[p].rtcp_channel
    BY <1>4, <1>9 DEF SrtpSet, SrtpAfter, MuxDone, MuxAfter, By, MuxIsActive
  <1>11. Agreed' = Agreed /\ \A r \in Peers : Required(r)' = Required(r)
    BY DEF Agreed, Required
  <1>12. Guarded(p)'
    BY <1>2, <1>9, <1>10, <1>11 DEF IInv, Guarded, IsOffer, SrtpIsActive
  <1>13. Guarded(q)'
    BY <1>1, <1>9, <1>11 DEF IInv, Guarded, SrtpIsActive
  <1>14. Sound(ch'[q]) BY <1>1, <1>9 DEF IInv
  <1>15. Offering(p)'
    <2>1. Len(Append(<<>>, d)) = 1 /\ Append(<<>>, d)[1] = d OBVIOUS
    <2>2. Len(sig'[q]) = 1 /\ sig'[q][1] = d BY <1>9, <2>1
    <2>3. IsOffer(p, sig[q][1])' BY <1>2, <1>11, <2>2 DEF IsOffer
    <2>4. Settled(ch[q])' BY <1>9, <1>11 DEF MayOffer, Settled
    <2> QED BY <1>9, <1>10, <2>2, <2>3, <2>4 DEF Offering, MayOffer
  <1> QED BY <1>1, <1>9, <1>12, <1>13, <1>14, <1>15 DEF IInv, Round

\* Side p answers, provisionally or for good, the offer of the other side.
LEMMA AnswerStep ==
    ASSUME IInv, NEW p \in Peers, neg[p] = "remote", NEW bundle \in BOOLEAN,
           NEW action \in {"PRANSWER", "ANSWER"},
           CanCreateAnswer(p, AnswerCryptos(p, offered[p], bundle)),
           left' \in [{"offers", "provisional", "flap"} -> Nat],
           SetLocal(p, CreateAnswer(p, action, AnswerCryptos(p, offered[p], bundle), bundle),
                    IF action = "ANSWER" THEN "stable" ELSE "remote", sig[Other(p)]),
           policy' = policy, muxing' = muxing, offered' = offered
    PROVE  IInv'
  <1> DEFINE q == Other(p)
             d == CreateAnswer(p, action, AnswerCryptos(p, offered[p], bundle), bundle)
             next == IF action = "ANSWER" THEN "stable" ELSE "remote"
             n == Len(sig[q])
  <1>1. q \in Peers /\ q # p /\ Other(q) = p /\ \A r \in Peers : r = p \/ r = q BY Others
  <1>2. Answering(q)
    <2>1. ~Idle BY DEF Idle
    <2>2. \A r \in Peers : Offering(r) => FALSE BY <1>1 DEF Offering
    <2>3. ~Answering(p) BY DEF Answering
    <2> QED BY <1>1, <2>1, <2>2, <2>3 DEF IInv, Round
  <1>3. /\ d \in Description /\ IsAnswer(q, d)
        /\ d.action = action /\ d.required = FALSE
        /\ SrtpTakes(ch[p], d, "LOCAL") /\ MuxTakes(ch[p], d, "LOCAL")
        /\ \A a : Mine(ch[p], a) = Mine(ch[q], a)
    BY <1>2, AnswerSent
  <1>4. SetLocal(p, d, next, sig[q]) OBVIOUS
  <1>5. next \in Negs /\ sig[q] \in Seq(Description) BY <1>1 DEF Negs, IInv, TypeOK
  <1> HIDE DEF d, next
  <1>6. /\ TypeOK'
        /\ ch'[q] = ch[q] /\ Sound(ch'[p])
        /\ SrtpSet(ch[p], d, "LOCAL", ch'[p]) /\ MuxDone(ch[p], d, "LOCAL", ch'[p])
        /\ ch'[p].secure_required = d.required
        /\ ch'[p].remote_dir = ch[p].remote_dir
        /\ neg'[p] = next /\ neg'[q] = neg[q]
        /\ sig'[q] = Append(sig[q], d) /\ sig'[p] = sig[p]
    BY <1>3, <1>4, <1>5, SetLocalTyped
  <1>7. /\ Len(sig'[q]) = n + 1 /\ sig'[q][n + 1] = d /\ n \in Nat /\ sig'[q] # <<>>
        /\ \A i \in 1 .. n : sig'[q][i] = sig[q][i]
    BY <1>3, <1>5, <1>6
  <1>8. Agreed' = Agreed /\ \A r \in Peers : Required(r)' = Required(r)
    BY DEF Agreed, Required
  <1>9. Answerer(q, p) BY <1>1, <1>2 DEF Answering
  <1>10. /\ \A i \in 1 .. n : sig[q][i].action = "PRANSWER"
         /\ IsOffer(q, offered[p]) /\ offered[p].cryptos = ch[q].offer_params
         /\ ch[p].offer_params = ch[q].offer_params
         /\ ch[p].state # "INIT" /\ ch[p].offer_enable = muxing[q]
         /\ ch[p].mux \in {"RECEIVEDOFFER", "SENTPRANSWER"}
         /\ ch[p].mux = "SENTPRANSWER" => Agreed
    BY <1>9 DEF Answerer
  <1>11. d.rtcp_mux = Agreed /\ (d.cryptos = <<>> => \A r \in Peers : ~Required(r))
    BY <1>3 DEF IsAnswer
  <1>12. Agreed => muxing[q] BY <1>1 DEF Agreed
  <1>13. /\ ch'[p].state = SrtpAfter(ch[p], d, "LOCAL")
         /\ ch'[p].mux = MuxAfter(ch[p], d, "LOCAL")
         /\ ch'[p].offer_enable = muxing[q]
    BY <1>3, <1>6, <1>10 DEF SrtpSet, MuxDone
  <1>14. Guarded(p)'
    <2>1. ~ch'[p].rtcp_channel => Agreed
      <3>1. MuxIsActive(ch'[p]) => Agreed
        BY <1>3, <1>10, <1>11, <1>13 DEF MuxAfter, MuxIsActive, By
      <3> QED BY <1>6, <3>1 DEF IInv, Guarded, MuxDone
    <2>2. ~ch'[p].secure_required BY <1>3, <1>6
    <2>3. ch'[p].state = "INIT" => ~Required(p)
      BY <1>3, <1>11, <1>13 DEF SrtpAfter, By
    <2> QED BY <1>8, <2>1, <2>2, <2>3 DEF Guarded
  <1>15. Guarded(q)'
    BY <1>1, <1>6, <1>8 DEF IInv, Guarded, SrtpIsActive
  <1>16. \A a : /\ Mine(ch'[q], a) = Mine(ch[q], a)
                /\ NegotiateParams(ch'[q], a) = NegotiateParams(ch[q], a)
    BY <1>6
  <1>17. Answerer(q, p)'
    <2>1. CASE action = "PRANSWER"
      <3>1. /\ neg'[p] = "remote" /\ ch'[p].offer_params = ch'[q].offer_params
            /\ ch'[p].state \in {"SENTPRANSWER_NO_CRYPTO", "SENTPRANSWER"}
        <4>1. neg'[p] = "remote" BY <1>6, <1>10, <1>13, <2>1 DEF next
        <4>2. ch'[p].state \in {"SENTPRANSWER_NO_CRYPTO", "SENTPRANSWER"}
          BY <1>3, <1>13, <2>1 DEF SrtpSet, SrtpAfter, By
        <4>3. ch'[p].offer_params = ch'[q].offer_params
          BY <1>3, <1>6, <1>10, <1>13, <2>1 DEF SrtpSet, SrtpAfter, By
        <4> QED BY <4>1, <4>2, <4>3
      <3>2. /\ ch'[p].mux \in {"RECEIVEDOFFER", "SENTPRANSWER"}
            /\ ch'[p].mux = "SENTPRANSWER" => Agreed
        BY <1>3, <1>10, <1>11, <1>13, <2>1 DEF MuxAfter, By
      <3>3. IsOffer(q, offered[p])' BY <1>1, <1>8, <1>10 DEF IsOffer
      <3>4. \A i \in 1 .. Len(sig'[q]) : sig'[q][i].action = "PRANSWER"
        <4>1. \A i \in 1 .. n : sig'[q][i].action = "PRANSWER" BY <1>7, <1>10
        <4>2. sig'[q][n + 1].action = "PRANSWER" BY <1>3, <1>7, <2>1
        <4>3. \A i \in 1 .. n + 1 : i = n + 1 \/ i \in 1 .. n BY <1>7
        <4> QED BY <1>7, <4>1, <4>2, <4>3
      <3> QED BY <1>6, <1>8, <1>10, <1>13, <3>1, <3>2, <3>3, <3>4 DEF Answerer
    <2>2. CASE action = "ANSWER"
      <3>1. \A i \in 1 .. Len(sig'[q]) :
               sig'[q][i].action = "ANSWER" <=> i = Len(sig'[q])
        <4>1. \A i \in 1 .. n : sig'[q][i].action = "PRANSWER" BY <1>7, <1>10
        <4>2. sig'[q][n + 1].action = "ANSWER" BY <1>3, <1>7, <2>2
        <4>3. \A i \in 1 .. n + 1 : i = n + 1 \/ (i \in 1 .. n /\ i # n + 1) BY <1>7
        <4> QED BY <1>7, <4>1, <4>2, <4>3
      <3>2. ch'[p].state = IF d.cryptos = <<>> THEN "INIT" ELSE "ACTIVE"
        BY <1>3, <1>13, <2>2 DEF SrtpAfter
      <3>3. d.cryptos # <<>> => Keyed(ch'[p], d.cryptos[1], Mine(ch'[q], d.cryptos))
        BY <1>3, <1>6, <1>16, <2>2 DEF SrtpSet, By
      <3>4. ch'[p].mux = IF Agreed THEN "ACTIVE" ELSE "INIT"
        BY <1>3, <1>11, <1>13, <2>2 DEF MuxAfter
      <3>5. neg'[p] = "stable" BY <1>6, <2>2 DEF next
      <3> QED BY <1>7, <1>8, <1>12, <1>13, <3>1, <3>2, <3>3, <3>4, <3>5 DEF Answerer
    <2> QED BY <2>1, <2>2
  <1>18. Answering(q)'
    <2>1. \A i \in 1 .. Len(sig'[q]) : IsAnswer(q, sig[q][i])'
      <3>1. ASSUME NEW i \in 1 .. Len(sig'[q]) PROVE IsAnswer(q, sig[q][i])'
        <4>1. CASE i = n + 1 BY <1>3, <1>7, <1>8, <1>16, <4>1 DEF IsAnswer
        <4>2. CASE i \in 1 .. n
          <5>1. IsAnswer(q, sig[q][i]) BY <1>2, <4>2 DEF Answering
          <5> QED BY <1>7, <1>8, <1>16, <4>2, <5>1 DEF IsAnswer
        <4> QED BY <1>7, <4>1, <4>2
      <3> QED BY <3>1
    <2>2. Agreed => ch'[p].mux # "RECEIVEDOFFER"
      BY <1>3, <1>10, <1>11, <1>12, <1>13 DEF MuxAfter, By
    <2>3. /\ neg[q] = "local" /\ sig[p] = <<>>
          /\ ch[q].state \in {"SENTOFFER", "SENTUPDATEDOFFER",
                              "RECEIVEDPRANSWER_NO_CRYPTO", "RECEIVEDPRANSWER"}
          /\ ch[q].mux \in {"SENTOFFER", "RECEIVEDPRANSWER"}
          /\ ch[q].offer_enable = muxing[q]
          /\ ch[q].mux = "RECEIVEDPRANSWER" => Agreed
      BY <1>1, <1>2 DEF Answering
    <2> QED BY <1>1, <1>6, <1>8, <1>17, <2>1, <2>2, <2>3 DEF Answering
  <1>19. Sound(ch'[q]) BY <1>1, <1>6 DEF IInv
  <1> QED BY <1>1, <1>6, <1>14, <1>15, <1>18, <1>19 DEF IInv, Round

\* The only description on its way is taken.
LEMMA TailOfOne ==
    ASSUME NEW s \in Seq(Description), Len(s) = 1
    PROVE  Head(s) = s[1] /\ Tail(s) = <<>>
  <1>1. s # <<>> OBVIOUS
  <1>2. Head(s) = s[1] /\ Tail(s) \in Seq(Description) /\ Len(Tail(s)) = 0 BY <1>1
  <1>3. Tail(s) = <<>> BY <1>2, EmptySeq
  <1> QED BY <1>2, <1>3

\* Side p is handed the next description of the other side and takes it.
LEMMA DeliverTyped ==
    ASSUME IInv, NEW p \in Peers, Deliver(p),
           SrtpTakes(ch[p], Head(sig[p]), "REMOTE"),
           MuxTakes(ch[p], Head(sig[p]), "REMOTE")
    PROVE  LET d == sig[p][1]
               q == Other(p)
           IN /\ TypeOK' /\ d \in Description
              /\ ch'[q] = ch[q] /\ Sound(ch'[p])
              /\ SrtpSet(ch[p], d, "REMOTE", ch'[p]) /\ MuxDone(ch[p], d, "REMOTE", ch'[p])
              /\ ch'[p].secure_required = ch[p].secure_required
              /\ ch'[p].remote_dir = d.direction
              /\ neg'[p] = CASE d.action = "OFFER" -> "remote"
                             [] d.action = "PRANSWER" -> "local"
                             [] d.action = "ANSWER" -> "stable"
              /\ neg'[q] = neg[q]
              /\ sig'[p] = Tail(sig[p]) /\ sig'[q] = sig[q]
              /\ offered'[q] = offered[q]
              /\ d.action = "OFFER" => offered'[p] = d
              /\ policy' = policy /\ muxing' = muxing
  <1> DEFINE q == Other(p)
             d == Head(sig[p])
             r == SetRemoteContent_w(ch[p], d)
             next == CASE d.action = "OFFER" -> "remote"
                       [] d.action = "PRANSWER" -> "local"
                       [] d.action = "ANSWER" -> "stable"
  <1>1. q \in Peers /\ q # p BY Others
  <1>2. sig[p] \in Seq(Description) /\ sig[p] # <<>> BY DEF IInv, TypeOK, Deliver
  <1>3. d \in Description /\ d = sig[p][1] /\ Tail(sig[p]) \in Seq(Description) BY <1>2
  <1>4. Sound(ch[p]) BY DEF IInv
  <1>5. /\ r.ok /\ Sound(r.c)
        /\ SrtpSet(ch[p], d, "REMOTE", r.c) /\ MuxDone(ch[p], d, "REMOTE", r.c)
        /\ r.c.secure_required = ch[p].secure_required
        /\ r.c.remote_dir = d.direction
    BY <1>3, <1>4, RemoteContent
  <1>6. /\ ch' = [ch EXCEPT ![p] = r.c]
        /\ neg' = [neg EXCEPT ![p] = IF ~r.ok THEN "error" ELSE next]
        /\ offered' = IF d.action = "OFFER" THEN [offered EXCEPT ![p] = d] ELSE offered
        /\ sig' = [sig EXCEPT ![p] = Tail(sig[p])]
        /\ policy' = policy /\ muxing' = muxing /\ desc' = desc /\ nkey' = nkey
        /\ left' = left
    BY DEF Deliver, IInv, TypeOK
  <1>7. next \in Negs BY <1>3 DEF Description, Negs
  <1> HIDE DEF r, next, d
  <1>8. /\ ch \in [Peers -> ChannelRec] /\ neg \in [Peers -> Negs]
        /\ offered \in [Peers -> Description \cup {NoDesc}]
        /\ sig \in [Peers -> Seq(Description)]
    BY DEF IInv, TypeOK, Negs
  <1>9. r.c \in ChannelRec BY <1>5 DEF Sound
  <1>10. /\ ch' \in [Peers -> ChannelRec] /\ neg' \in [Peers -> Negs]
         /\ sig' \in [Peers -> Seq(Description)]
    BY <1>3, <1>5, <1>6, <1>7, <1>8, <1>9
  <1>11. offered' \in [Peers -> Description \cup {NoDesc}] BY <1>3, <1>6, <1>8
  <1>12. TypeOK' BY <1>6, <1>10, <1>11 DEF IInv, TypeOK, Negs
  <1>13. /\ ch'[p] = r.c /\ ch'[q] = ch[q] /\ neg'[p] = next /\ neg'[q] = neg[q]
         /\ sig'[p] = Tail(sig[p]) /\ sig'[q] = sig[q] /\ offered'[q] = offered[q]
         /\ d.action = "OFFER" => offered'[p] = d
    BY <1>1, <1>5, <1>6, <1>8
  <1> QED BY <1>3, <1>5, <1>6, <1>12, <1>13 DEF next

\* An offer arrives.
LEMMA DeliverOffer ==
    ASSUME IInv, NEW p \in Peers, Deliver(p), Offering(Other(p))
    PROVE  IInv'
  <1> DEFINE q == Other(p)
             d == sig[p][1]
  <1>1. q \in Peers /\ q # p /\ Other(q) = p /\ \A r \in Peers : r = p \/ r = q BY Others
  <1>2. /\ neg[q] = "local" /\ sig[q] = <<>> /\ Len(sig[p]) = 1 /\ IsOffer(q, d)
        /\ ch[q].state \in {"SENTOFFER", "SENTUPDATEDOFFER"}
        /\ ch[q].mux = "SENTOFFER" /\ ch[q].offer_enable = muxing[q]
        /\ ch[q].offer_params = d.cryptos
        /\ Settled(ch[p])
    BY <1>1 DEF Offering
  <1>3. sig[p] \in Seq(Description) BY DEF IInv, TypeOK
  <1>4. Head(sig[p]) = d /\ Tail(sig[p]) = <<>> BY <1>2, <1>3, TailOfOne
  <1>5. d.action = "OFFER" /\ d.rtcp_mux = muxing[q] BY <1>2 DEF IsOffer
  <1>6. SrtpTakes(ch[p], d, "REMOTE")
    BY <1>2, <1>5 DEF Settled, SrtpTakes, ExpectOffer
  <1>7. MuxTakes(ch[p], d, "REMOTE")
    <2>1. muxing[q] \in BOOLEAN /\ ch[p].offer_enable \in BOOLEAN
      BY <1>1 DEF IInv, TypeOK, ChannelRec
    <2>2. ch[p].mux = "ACTIVE" => muxing[q] = ch[p].offer_enable
      BY <1>1, <1>2, <2>1 DEF Settled, Agreed
    <2> QED BY <1>2, <1>5, <2>2 DEF Settled, MuxTakes, MuxExpectOffer
  <1>8. /\ TypeOK' /\ d \in Description
        /\ ch'[q] = ch[q] /\ Sound(ch'[p])
        /\ SrtpSet(ch[p], d, "REMOTE", ch'[p]) /\ MuxDone(ch[p], d, "REMOTE", ch'[p])
        /\ ch'[p].secure_required = ch[p].secure_required
        /\ neg'[p] = "remote" /\ neg'[q] = neg[q]
        /\ sig'[p] = <<>> /\ sig'[q] = sig[q]
        /\ offered'[p] = d
        /\ policy' = policy /\ muxing' = muxing
    BY <1>4, <1>5, <1>6, <1>7, DeliverTyped
  <1> HIDE DEF d
  <1>9. /\ ch'[p].state = IF ch[p].state = "INIT" THEN "RECEIVEDOFFER"
                          ELSE "RECEIVEDUPDATEDOFFER"
        /\ ch'[p].offer_params = d.cryptos
        /\ ch'[p].mux = "RECEIVEDOFFER" /\ ch'[p].offer_enable = muxing[q]
        /\ ~ch'[p].rtcp_channel => ~ch[p].rtcp_channel
    BY <1>5, <1>8 DEF SrtpSet, SrtpAfter, MuxDone, MuxAfter, By, MuxIsActive
  <1>10. Agreed' = Agreed /\ \A r \in Peers : Required(r)' = Required(r)
    BY <1>8 DEF Agreed, Required
  <1>11. Guarded(p)'
    <2>1. ch[p].secure_required => ch[p].state = "ACTIVE"
      BY <1>2 DEF IInv, Guarded, Settled, SrtpIsActive
    <2> QED BY <1>8, <1>9, <1>10, <2>1 DEF IInv, Guarded, SrtpIsActive
  <1>12. Guarded(q)'
    BY <1>1, <1>8, <1>10 DEF IInv, Guarded, SrtpIsActive
  <1>13. Sound(ch'[q]) BY <1>1, <1>8 DEF IInv
  <1>14. IsOffer(q, offered[p])' BY <1>1, <1>2, <1>8, <1>10 DEF IsOffer
  <1>15. Len(<<>>) = 0 OBVIOUS
  <1>16. Answerer(q, p)'
    BY <1>2, <1>8, <1>9, <1>14, <1>15 DEF Answerer
  <1>17. Answering(q)'
    BY <1>1, <1>2, <1>8, <1>9, <1>15, <1>16 DEF Answering
  <1> QED BY <1>1, <1>8, <1>11, <1>12, <1>13, <1>17 DEF IInv, Round

\* A provisional answer, or the answer that ends the round, arrives.
LEMMA DeliverAnswer ==
    ASSUME IInv, NEW p \in Peers, Deliver(p), Answering(p)
    PROVE  IInv'
  <1> DEFINE q == Other(p)
             d == sig[p][1]
             n == Len(sig[p])
  <1>1. q \in Peers /\ q # p /\ Other(q) = p /\ \A r \in Peers : r = p \/ r = q BY Others
  <1>2. sig[p] \in Seq(Description) /\ sig[p] # <<>> BY DEF IInv, TypeOK, Deliver
  <1>3. /\ Head(sig[p]) = d /\ n \in Nat /\ n > 0 /\ Len(Tail(sig[p])) = n - 1
        /\ \A i \in 1 .. n - 1 : Tail(sig[p])[i] = sig[p][i + 1]
        /\ n = 1 => Tail(sig[p]) = <<>>
    BY <1>2, TailOfOne
  <1>4. /\ neg[p] = "local" /\ sig[q] = <<>>
        /\ \A i \in 1 .. n : IsAnswer(p, sig[p][i])
        /\ ch[p].state \in {"SENTOFFER", "SENTUPDATEDOFFER",
                            "RECEIVEDPRANSWER_NO_CRYPTO", "RECEIVEDPRANSWER"}
        /\ ch[p].mux \in {"SENTOFFER", "RECEIVEDPRANSWER"}
        /\ ch[p].offer_enable = muxing[p]
        /\ ch[p].mux = "RECEIVEDPRANSWER" => Agreed
        /\ Agreed => ch[q].mux # "RECEIVEDOFFER"
        /\ Answerer(p, q)
    BY <1>2 DEF Answering
  <1>5. IsAnswer(p, d) BY <1>3, <1>4
  <1>6. /\ d.action \in {"PRANSWER", "ANSWER"} /\ d.rtcp_mux = Agreed
        /\ d.cryptos = <<>> => \A r \in Peers : ~Required(r)
        /\ d.cryptos # <<>> => NegotiateParams(ch[p], d.cryptos)
    BY <1>5 DEF IsAnswer
  <1>7. SrtpTakes(ch[p], d, "REMOTE")
    BY <1>4, <1>6 DEF SrtpTakes, ExpectAnswer, By
  <1>8. Agreed => muxing[p] BY DEF Agreed
  <1>9. MuxTakes(ch[p], d, "REMOTE")
    BY <1>4, <1>6, <1>8 DEF MuxTakes, MuxExpectAnswer, By
  <1>10. /\ TypeOK' /\ d \in Description
         /\ ch'[q] = ch[q] /\ Sound(ch'[p])
         /\ SrtpSet(ch[p], d, "REMOTE", ch'[p]) /\ MuxDone(ch[p], d, "REMOTE", ch'[p])
         /\ ch'[p].secure_required = ch[p].secure_required
         /\ neg'[p] = IF d.action = "ANSWER" THEN "stable" ELSE "local"
         /\ neg'[q] = neg[q]
         /\ sig'[p] = Tail(sig[p]) /\ sig'[q] = sig[q]
         /\ offered'[q] = offered[q]
         /\ policy' = policy /\ muxing' = muxing
    BY <1>3, <1>6, <1>7, <1>9, DeliverTyped
  <1> HIDE DEF d, n
  <1>11. Agreed' = Agreed /\ \A r \in Peers : Required(r)' = Required(r)
    BY <1>10 DEF Agreed, Required
  <1>12. /\ ch'[p].state = SrtpAfter(ch[p], d, "REMOTE")
         /\ ch'[p].mux = MuxAfter(ch[p], d, "REMOTE")
         /\ ch'[p].offer_enable = muxing[p]
         /\ ~ch'[p].rtcp_channel => ~ch[p].rtcp_channel \/ MuxIsActive(ch'[p])
    BY <1>4, <1>6, <1>10 DEF SrtpSet, MuxDone
  <1>13. Guarded(p)'
    <2>1. MuxIsActive(ch'[p]) => Agreed
      BY <1>4, <1>6, <1>12 DEF MuxAfter, MuxIsActive, By
    <2>2. Required(p) => SrtpIsActive(ch'[p])
      BY <1>6, <1>12 DEF SrtpAfter, SrtpIsActive, By
    <2>3. SrtpIsActive(ch'[p]) => ch'[p].state # "INIT" BY DEF SrtpIsActive
    <2> QED BY <1>10, <1>11, <1>12, <2>1, <2>2, <2>3 DEF IInv, Guarded
  <1>14. Guarded(q)'
    BY <1>1, <1>10, <1>11 DEF IInv, Guarded, SrtpIsActive
  <1>15. Sound(ch'[q]) BY <1>1, <1>10 DEF IInv
  <1>16. CASE d.action = "PRANSWER"
    <2>1. ch'[p].offer_params = ch[p].offer_params
      BY <1>10, <1>16 DEF SrtpSet
    <2>2. \A a : /\ Mine(ch'[p], a) = Mine(ch[p], a)
                 /\ NegotiateParams(ch'[p], a) = NegotiateParams(ch[p], a)
      BY <2>1 DEF Mine, NegotiateParams, Selected
    <2>3. /\ ch'[p].state \in {"RECEIVEDPRANSWER_NO_CRYPTO", "RECEIVEDPRANSWER"}
          /\ ch'[p].mux \in {"SENTOFFER", "RECEIVEDPRANSWER"}
          /\ ch'[p].mux = "RECEIVEDPRANSWER" => Agreed
      BY <1>4, <1>6, <1>12, <1>16 DEF SrtpAfter, MuxAfter, By
    <2>4. /\ Len(sig'[p]) = n - 1
          /\ \A i \in 1 .. Len(sig'[p]) : i + 1 \in 1 .. n /\ sig'[p][i] = sig[p][i + 1]
      BY <1>3, <1>10
    <2>5. ASSUME NEW i \in 1 .. Len(sig'[p]) PROVE IsAnswer(p, sig[p][i])'
      <3>1. IsAnswer(p, sig[p][i + 1]) BY <1>4, <2>4
      <3> QED BY <1>11, <2>2, <2>4, <3>1 DEF IsAnswer
    <2>6. Answerer(p, q)'
      <3>1. CASE neg[q] \in {"remote", "refused"}
        <4>1. \A i \in 1 .. n : sig[p][i].action = "PRANSWER"
          BY <1>4, <3>1 DEF Answerer, n
        <4>2. \A i \in 1 .. Len(sig'[p]) : sig'[p][i].action = "PRANSWER"
          BY <2>4, <4>1
        <4>3. IsOffer(p, offered[q])'
          BY <1>4, <1>10, <1>11, <3>1 DEF Answerer, IsOffer
        <4> QED BY <1>4, <1>10, <1>11, <2>1, <3>1, <4>2, <4>3 DEF Answerer
      <3>2. CASE neg[q] = "stable"
        <4>1. /\ \A i \in 1 .. n : sig[p][i].action = "ANSWER" <=> i = n
              /\ ch[q].state = IF sig[p][n].cryptos = <<>> THEN "INIT" ELSE "ACTIVE"
              /\ sig[p][n].cryptos # <<>> =>
                    Keyed(ch[q], sig[p][n].cryptos[1], Mine(ch[p], sig[p][n].cryptos))
              /\ ch[q].mux = IF Agreed THEN "ACTIVE" ELSE "INIT"
              /\ Agreed => ch[q].offer_enable
          BY <1>4, <3>2 DEF Answerer, n
        <4>2. n # 1 BY <1>3, <1>16, <4>1 DEF d
        <4>3. Len(sig'[p]) >= 1 /\ sig'[p][Len(sig'[p])] = sig[p][n] /\ sig'[p] # <<>>
          <5>1. n - 1 \in 1 .. n - 1 /\ (n - 1) + 1 = n BY <1>3, <4>2
          <5>2. sig'[p][n - 1] = sig[p][n] BY <1>3, <1>10, <5>1
          <5> QED BY <2>4, <5>1, <5>2
        <4>4. \A i \in 1 .. Len(sig'[p]) :
                 sig'[p][i].action = "ANSWER" <=> i = Len(sig'[p])
          <5> SUFFICES ASSUME NEW i \in 1 .. Len(sig'[p])
                       PROVE  sig'[p][i].action = "ANSWER" <=> i = Len(sig'[p])
            OBVIOUS
          <5>1. i = Len(sig'[p]) <=> i + 1 = n BY <1>3, <2>4
          <5>2. i + 1 \in 1 .. n /\ sig'[p][i] = sig[p][i + 1] BY <1>3, <2>4
          <5>3. sig[p][i + 1].action = "ANSWER" <=> i + 1 = n BY <4>1, <5>2
          <5> QED BY <5>1, <5>2, <5>3
        <4> QED BY <1>10, <1>11, <2>2, <3>2, <4>1, <4>3, <4>4 DEF Answerer
      <3> QED BY <1>4, <3>1, <3>2 DEF Answerer
    <2>7. Answering(p)'
      BY <1>1, <1>4, <1>10, <1>11, <1>12, <1>16, <2>3, <2>5, <2>6 DEF Answering
    <2> QED BY <1>1, <1>10, <1>13, <1>14, <1>15, <2>7 DEF IInv, Round
  <1>17. CASE d.action = "ANSWER"
    <2>1. neg[q] = "stable"
      <3>1. 1 \in 1 .. n BY <1>3
      <3> QED BY <1>4, <1>17, <3>1 DEF Answerer, d, n
    <2>2. n = 1
      <3>1. \A i \in 1 .. n : sig[p][i].action = "ANSWER" <=> i = n
        BY <1>4, <2>1 DEF Answerer, n
      <3>2. 1 \in 1 .. n BY <1>3
      <3> QED BY <1>17, <3>1, <3>2 DEF d
    <2>3. /\ ch[q].state = IF d.cryptos = <<>> THEN "INIT" ELSE "ACTIVE"
          /\ d.cryptos # <<>> => Keyed(ch[q], d.cryptos[1], Mine(ch[p], d.cryptos))
          /\ ch[q].mux = IF Agreed THEN "ACTIVE" ELSE "INIT"
          /\ Agreed => ch[q].offer_enable
      BY <1>4, <2>1, <2>2 DEF Answerer, d, n
    <2>4. /\ ch'[p].state = IF d.cryptos = <<>> THEN "INIT" ELSE "ACTIVE"
          /\ ch'[p].mux = IF Agreed THEN "ACTIVE" ELSE "INIT"
          /\ d.cryptos # <<>> => Keyed(ch'[p], Mine(ch[p], d.cryptos), d.cryptos[1])
      BY <1>6, <1>10, <1>12, <1>17 DEF SrtpAfter, MuxAfter, SrtpSet, By
    <2>5. Settled(ch[p])' /\ Settled(ch[q])'
      BY <1>8, <1>10, <1>11, <1>12, <2>3, <2>4 DEF Settled
    <2>6. ch'[p].state = "ACTIVE" =>
             /\ ch'[p].sessions /\ SameKey(ch'[p].send, ch'[q].recv)
             /\ ch'[q].sessions /\ SameKey(ch'[q].send, ch'[p].recv)
      BY <1>10, <2>3, <2>4 DEF Keyed, SameKey
    <2>7. \A r \in Peers : ch'[r].mux = "INIT" => ch'[r].rtcp_channel
      BY <1>1, <1>10, <1>11, <1>13, <1>14, <2>3, <2>4 DEF Guarded
    <2>8. /\ neg'[p] = "stable" /\ neg'[q] = "stable" /\ sig'[p] = <<>> /\ sig'[q] = <<>>
          /\ ch'[p].state = ch'[q].state /\ ch'[p].mux = ch'[q].mux
      BY <1>3, <1>4, <1>10, <1>17, <2>1, <2>2, <2>3, <2>4
    <2>9. Idle' BY <1>1, <2>5, <2>6, <2>7, <2>8 DEF Idle
    <2> QED BY <1>1, <1>10, <1>13, <1>14, <1>15, <2>9 DEF IInv, Round
  <1> QED BY <1>6, <1>16, <1>17

\* CreateAnswer fails: nothing else changes.
LEMMA RefuseStep ==
    ASSUME IInv, NEW p \in Peers, Refuse(p)
    PROVE  IInv'
  <1> DEFINE q == Other(p)
  <1>1. q \in Peers /\ q # p /\ Other(q) = p /\ \A r \in Peers : r = p \/ r = q BY Others
  <1>2. /\ neg[p] = "remote" /\ neg' = [neg EXCEPT ![p] = "refused"]
        /\ ch' = ch /\ policy' = policy /\ muxing' = muxing /\ desc' = desc
        /\ offered' = offered /\ sig' = sig /\ nkey' = nkey /\ left' = left
    BY DEF Refuse
  <1>3. neg \in [Peers -> Negs] BY DEF IInv, TypeOK, Negs
  <1>4. neg'[p] = "refused" /\ neg'[q] = neg[q] /\ neg' \in [Peers -> Negs]
    BY <1>1, <1>2, <1>3 DEF Negs
  <1>5. TypeOK' BY <1>2, <1>4 DEF IInv, TypeOK, Negs
  <1>6. Answering(q)
    <2>1. ~Idle BY <1>2 DEF Idle
    <2>2. \A r \in Peers : Offering(r) => FALSE BY <1>1, <1>2 DEF Offering
    <2>3. ~Answering(p) BY <1>2 DEF Answering
    <2> QED BY <1>1, <2>1, <2>2, <2>3 DEF IInv, Round
  <1>7. /\ Agreed' = Agreed
        /\ \A r \in Peers : Required(r)' = Required(r) /\ Guarded(r)' /\ Sound(ch'[r])
    BY <1>2 DEF Agreed, Required, Guarded, IInv
  <1>8. Answerer(q, p)'
    <2>1. Answerer(q, p) BY <1>1, <1>6 DEF Answering
    <2>2. IsOffer(q, offered[p])' = IsOffer(q, offered[p]) BY <1>1, <1>2, <1>7 DEF IsOffer
    <2> QED BY <1>2, <1>4, <1>7, <2>1, <2>2 DEF Answerer
  <1>9. Answering(q)'
    BY <1>1, <1>2, <1>4, <1>6, <1>7, <1>8 DEF Answering, IsAnswer
  <1> QED BY <1>1, <1>5, <1>7, <1>9 DEF IInv, Round

\* The steps of a side in a negotiation, by action.
LEMMA NegotiateStep ==
    ASSUME IInv, NEW p \in Peers, Negotiate(p)
    PROVE  IInv'
  <1> DEFINE q == Other(p)
  <1>1. q \in Peers /\ q # p /\ Other(q) = p /\ \A r \in Peers : r = p \/ r = q BY Others
  <1>2. Bundles \subseteq BOOLEAN /\ Directions \subseteq Direction BY OptionsAssumption
  <1>3. ASSUME NEW bundle \in Bundles, NEW dir \in Directions, Offer(p, bundle, dir)
        PROVE  IInv'
    <2>1. \A r \in Peers : neg[r] = "stable" BY <1>3 DEF Offer
    <2>2. Idle BY <1>1, <2>1 DEF IInv, Round, Offering, Answering
    <2>3. MayOffer(p) BY <1>1, <2>2 DEF Idle, MayOffer
    <2> QED BY <1>2, <1>3, <2>3, OfferStep DEF Offer
  <1>4. ASSUME NEW bundle \in Bundles, NEW dir \in Directions, ReplaceOffer(p, bundle, dir)
        PROVE  IInv'
    <2>1. neg[p] = "local" /\ Len(sig[q]) = 1 BY <1>4 DEF ReplaceOffer
    <2>2. ~Idle BY <2>1 DEF Idle
    <2>3. ~Offering(q) BY <1>1, <2>1 DEF Offering
    <2>4. ~Answering(q) BY <1>1, <2>1 DEF Answering, Answerer
    <2>5. \A x : Len(x) = 1 => x # <<>> OBVIOUS
    <2>a. sig[q] # <<>> BY <2>1, <2>5, Zenon
    <2>b. Answering(p) => sig[q] = <<>> BY Zenon DEF Answering
    <2>6. ~Answering(p) BY <2>a, <2>b
    <2>7. Offering(p) BY <1>1, <2>2, <2>3, <2>4, <2>6 DEF IInv, Round
    <2>8. MayOffer(p) BY <2>7 DEF Offering, MayOffer
    <2> QED BY <1>2, <1>4, <2>8, OfferStep DEF ReplaceOffer
  <1>5. ASSUME NEW bundle \in Bundles, Answer(p, bundle) PROVE IInv'
    <2>1. left' \in [{"offers", "provisional", "flap"} -> Nat]
      BY <1>5 DEF Answer, IInv, TypeOK
    <2>2. "ANSWER" \in {"PRANSWER", "ANSWER"} OBVIOUS
    <2>3. bundle \in BOOLEAN BY <1>2
    <2> QED BY <1>5, <2>1, <2>2, <2>3, AnswerStep DEF Answer
  <1>6. ASSUME NEW bundle \in Bundles, ProvisionalAnswer(p, bundle) PROVE IInv'
    <2>1. left' \in [{"offers", "provisional", "flap"} -> Nat]
      BY <1>6, UseTyped DEF ProvisionalAnswer, IInv
    <2>2. "PRANSWER" \in {"PRANSWER", "ANSWER"} OBVIOUS
    <2>3. bundle \in BOOLEAN BY <1>2
    <2> QED BY <1>6, <2>1, <2>2, <2>3, AnswerStep DEF ProvisionalAnswer
  <1>7. CASE Refuse(p) BY <1>7, RefuseStep
  <1>8. CASE Deliver(p)
    <2>1. sig[p] # <<>> BY <1>8 DEF Deliver
    <2>2. ~Idle /\ ~Offering(p) /\ ~Answering(q) BY <1>1, <2>1 DEF Idle, Offering, Answering
    <2>3. Offering(q) \/ Answering(p) BY <1>1, <2>2 DEF IInv, Round
    <2> QED BY <1>8, <2>3, DeliverOffer, DeliverAnswer
  <1> QED BY <1>3, <1>4, <1>5, <1>6, <1>7, <1>8 DEF Negotiate

\* The steps of the transports and of the application, by action.
LEMMA TransportStep ==
    ASSUME IInv, NEW p \in Peers, Transport(p) \/ EnableMedia(p) \/ DisableMedia(p)
    PROVE  IInv'
  <1>1. Sound(ch[p]) /\ ch[p] \in ChannelRec BY DEF IInv, Sound
  <1>2. ch[p].up \in SUBSET {"rtp", "rtcp"} BY <1>1 DEF ChannelRec
  <1>3. left \in [{"offers", "provisional", "flap"} -> Nat] BY DEF IInv, TypeOK
  <1>4. Use("flap") => left' \in [{"offers", "provisional", "flap"} -> Nat]
    BY UseTyped DEF IInv
  <1>5. ASSUME NEW chan \in {"rtp", "rtcp"}, TransportUp(p, chan) PROVE IInv'
    <2>1. ch[p].up \cup {chan} \in SUBSET {"rtp", "rtcp"} BY <1>2
    <2>2. Steady(ch[p], OnWritableState([ch[p] EXCEPT !.up = ch[p].up \cup {chan}]))
      BY <1>1, <2>1, OnWritableStateSteady
    <2>3. /\ SetChannel(p, OnWritableState([ch[p] EXCEPT !.up = ch[p].up \cup {chan}]))
          /\ left' = left
      BY <1>5 DEF TransportUp
    <2> QED BY <1>3, <2>2, <2>3, SteadyStep
  <1>6. ASSUME NEW chan \in {"rtp", "rtcp"}, TransportDown(p, chan) PROVE IInv'
    <2>1. ch[p].up \ {chan} \in SUBSET {"rtp", "rtcp"} BY <1>2
    <2>2. Steady(ch[p], OnWritableState([ch[p] EXCEPT !.up = ch[p].up \ {chan}]))
      BY <1>1, <2>1, OnWritableStateSteady
    <2>3. /\ SetChannel(p, OnWritableState([ch[p] EXCEPT !.up = ch[p].up \ {chan}]))
          /\ Use("flap")
      BY <1>6 DEF TransportDown
    <2> QED BY <1>4, <2>2, <2>3, SteadyStep
  <1>7. ASSUME NEW chan \in {"rtp", "rtcp"}, OnReadyToSend(p, chan) PROVE IInv'
    <2>1. Steady(ch[p], SetReadyToSend(ch[p], chan, TRUE)) BY <1>1, SetReadyToSendSteady
    <2>2. SetChannel(p, SetReadyToSend(ch[p], chan, TRUE)) /\ Use("flap")
      BY <1>7 DEF OnReadyToSend
    <2> QED BY <1>4, <2>1, <2>2, SteadyStep
  <1>8. ASSUME NEW rtcp \in BOOLEAN, SendBlocks(p, rtcp) PROVE IInv'
    <2>1. Via(ch[p], rtcp) \in {"rtp", "rtcp"} BY DEF Via
    <2>2. Steady(ch[p], SetReadyToSend(ch[p], Via(ch[p], rtcp), FALSE))
      BY <1>1, <2>1, SetReadyToSendSteady
    <2>3. SetChannel(p, SetReadyToSend(ch[p], Via(ch[p], rtcp), FALSE)) /\ Use("flap")
      BY <1>8 DEF SendBlocks
    <2> QED BY <1>4, <2>2, <2>3, SteadyStep
  <1>9. CASE EnableMedia(p)
    <2>1. SetChannel(p, Enable(ch[p], TRUE)) /\ left' = left BY <1>9 DEF EnableMedia
    <2>2. Steady(ch[p], Enable(ch[p], TRUE)) BY <1>1, EnableSteady
    <2> QED BY <1>3, <2>1, <2>2, SteadyStep
  <1>10. CASE DisableMedia(p)
    <2>1. SetChannel(p, Enable(ch[p], FALSE)) /\ Use("flap") BY <1>10 DEF DisableMedia
    <2>2. Steady(ch[p], Enable(ch[p], FALSE)) BY <1>1, EnableSteady
    <2> QED BY <1>4, <2>1, <2>2, SteadyStep
  <1> QED BY <1>5, <1>6, <1>7, <1>8, <1>9, <1>10 DEF Transport
-----------------------------------------------------------------------------
(* The theorems                                                            *)

\* Two channels before any negotiation.
LEMMA InitHolds == Init => IInv
  <1> SUFFICES ASSUME Init PROVE IInv OBVIOUS
  <1>1. <<>> \in Seq(Crypto) /\ <<>> \in Seq(Description) OBVIOUS
  <1>2. NewChannel \in ChannelRec
    BY <1>1 DEF NewChannel, ChannelRec, SrtpStates, MuxStates, NoCrypto, Direction
  <1>3. Sound(NewChannel)
    <2>1. ~IsReadyToReceive(NewChannel) /\ ~IsReadyToSend(NewChannel)
      BY DEF NewChannel, IsReadyToReceive, IsReadyToSend
    <2>2. ~TransportsUp(NewChannel) /\ NewChannel.told_ready = FALSE
      BY DEF NewChannel, TransportsUp
    <2>3. NewChannel.send.suite = "" BY DEF NewChannel, NoCrypto
    <2>4. NewChannel.playout = FALSE /\ NewChannel.sending = FALSE BY DEF NewChannel
    <2>5. IsReadyToReceive(NewChannel) \in BOOLEAN /\ IsReadyToSend(NewChannel) \in BOOLEAN
      BY DEF IsReadyToReceive, IsReadyToSend
    <2> QED BY <1>2, <2>1, <2>2, <2>3, <2>4, <2>5 DEF Sound
  <1>4. \A p \in Peers : /\ ch[p] = NewChannel /\ neg[p] = "stable" /\ sig[p] = <<>>
    BY DEF Init
  <1>5. /\ NewChannel.state = "INIT" /\ NewChannel.mux = "INIT" /\ NewChannel.rtcp_channel
        /\ ~NewChannel.secure_required /\ NewChannel.remote_dir = "inactive"
    BY DEF NewChannel
  <1>6. TypeOK
    <2>1. policy \in [Peers -> Policy] BY OptionsAssumption DEF Init
    <2>2. muxing \in [Peers -> BOOLEAN] BY OptionsAssumption DEF Init
    <2>3. left \in [{"offers", "provisional", "flap"} -> Nat]
      BY BoundsAssumption DEF Init
    <2> QED BY <1>1, <1>2, <2>1, <2>2, <2>3 DEF Init, TypeOK
  <1>7. \A p \in Peers : Sound(ch[p]) /\ Guarded(p)
    BY <1>3, <1>4, <1>5 DEF Guarded
  <1>8. Idle BY <1>4, <1>5, Others DEF Idle, Settled
  <1> QED BY <1>6, <1>7, <1>8 DEF IInv, Round

\* Every step keeps the inductive invariant.
LEMMA NextKeeps == IInv /\ [Next]_vars => IInv'
  <1> SUFFICES ASSUME IInv, [Next]_vars PROVE IInv' OBVIOUS
  <1>1. CASE Next
    <2>1. PICK p \in Peers : \/ Negotiate(p) \/ Transport(p)
                             \/ EnableMedia(p) \/ DisableMedia(p)
      BY <1>1 DEF Next
    <2> QED BY <2>1, NegotiateStep, TransportStep
  <1>2. CASE UNCHANGED vars
    <2>1. Caller \in Peers /\ Sound(ch[Caller]) BY DEF Peers, IInv
    <2>2. Steady(ch[Caller], ch[Caller])
      BY <2>1 DEF Steady, SameSrtp, SameMux, SameTerms
    <2>3. ch' = [ch EXCEPT ![Caller] = ch[Caller]] BY <1>2, <2>1 DEF vars, IInv, TypeOK
    <2>4. SetChannel(Caller, ch[Caller]) BY <1>2, <2>3 DEF SetChannel, vars
    <2>5. left' \in [{"offers", "provisional", "flap"} -> Nat]
      BY <1>2 DEF vars, IInv, TypeOK
    <2> QED BY <2>1, <2>2, <2>4, <2>5, SteadyStep
  <1> QED BY <1>1, <1>2

\* Every reachable state of a call satisfies the inductive invariant: the two
\* channels are sound and the two sides are in one stage of a round.
THEOREM Invariance == Spec => []IInv
  <1> QED BY InitHolds, NextKeeps, PTL DEF Spec

\* Every channel, description and counter has its type, whatever offers, answers,
\* transports and applications do.
THEOREM TypeCorrect == Spec => []TypeOK
  <1>1. IInv => TypeOK BY DEF IInv
  <1> QED BY <1>1, Invariance, PTL

\* VoiceChannel::ChangeState is never forgotten: every handler leaves the engine
\* playing and sending exactly when the channel is ready to, a channel whose
\* transports are up writable, and an engine told that it can send unblocked.
THEOREM EngineInStep == Spec => []EngineFollows
  <1>1. IInv => EngineFollows BY DEF IInv, Sound, EngineFollows
  <1> QED BY <1>1, Invariance, PTL

\* BaseChannel::SendPacket's last check is never needed: the engine of a side that
\* requires encryption is not told to send before the filter is active.
THEOREM SendsSecurely == Spec => []SecureSend
  <1>1. ASSUME IInv, NEW p \in Peers, ch[p].sending, ch[p].secure_required
        PROVE  SrtpIsActive(ch[p])
    <2>1. IsReadyToSend(ch[p]) BY <1>1 DEF IInv, Sound
    <2>2. ch[p].remote_dir # "inactive" BY <2>1 DEF IsReadyToSend, Receives
    <2> QED BY <1>1, <2>2 DEF IInv, Guarded
  <1>2. IInv => SecureSend BY <1>1 DEF SecureSend
  <1> QED BY <1>2, Invariance, PTL

\* A side that sends RTCP on the RTP transport finds the other looking for it.
LEMMA Demuxed ==
    ASSUME IInv, NEW p \in Peers, MuxIsActive(ch[Other(p)])
    PROVE  DemuxRtcp(ch[p])
  <1> DEFINE q == Other(p)
  <1>1. q \in Peers /\ Other(q) = p /\ \A r \in Peers : r = p \/ r = q BY Others
  <1>2. Agreed => muxing[p] /\ muxing[q] BY <1>1 DEF Agreed
  <1>3. CASE Idle BY <1>1, <1>3 DEF Idle, Settled, MuxIsActive, DemuxRtcp
  <1>4. CASE Offering(p) BY <1>2, <1>4 DEF Offering, Settled, MuxIsActive, DemuxRtcp
  <1>5. CASE Offering(q) BY <1>1, <1>5 DEF Offering, MuxIsActive
  <1>6. CASE Answering(p)
    <2>1. Agreed BY <1>6 DEF Answering, Answerer, MuxIsActive
    <2> QED BY <1>2, <1>6, <2>1 DEF Answering, DemuxRtcp
  <1>7. CASE Answering(q)
    <2>1. ch[q].mux = "RECEIVEDPRANSWER" BY <1>1, <1>7 DEF Answering, MuxIsActive
    <2>2. Agreed /\ ch[p].mux # "RECEIVEDOFFER" /\ Answerer(q, p)
      BY <1>1, <1>7, <2>1 DEF Answering
    <2> QED BY <1>2, <2>2 DEF Answerer, DemuxRtcp
  <1> QED BY <1>1, <1>3, <1>4, <1>5, <1>6, <1>7 DEF IInv, Round

\* A packet is taken for what the other side sent.
LEMMA TakenAsSent ==
    ASSUME IInv, NEW p \in Peers, NEW rtcp \in BOOLEAN,
           SendPacket(ch[Other(p)], rtcp) # NoPacket
    PROVE  LET pkt == SendPacket(ch[Other(p)], rtcp)
           IN pkt.rtcp = rtcp /\ PacketIsRtcp(ch[p], pkt) = rtcp
  <1> DEFINE q == Other(p)
             pkt == SendPacket(ch[q], rtcp)
  <1>1. pkt.rtcp = rtcp /\ pkt.via = Via(ch[q], rtcp) BY DEF SendPacket
  <1>2. CASE pkt.via = "rtcp" BY <1>1, <1>2 DEF PacketIsRtcp, Via
  <1>3. CASE pkt.via # "rtcp" /\ ~rtcp BY <1>1, <1>3 DEF PacketIsRtcp
  <1>4. CASE pkt.via # "rtcp" /\ rtcp
    <2>1. MuxIsActive(ch[q]) BY <1>1, <1>4 DEF Via
    <2>2. DemuxRtcp(ch[p]) BY <2>1, Demuxed
    <2> QED BY <1>1, <1>4, <2>2 DEF PacketIsRtcp
  <1> QED BY <1>1, <1>2, <1>3, <1>4

\* At every moment of every negotiation, encrypted or not, HandlePacket hands the
\* engine what was sent or nothing, also while the other side's RTCP moves to the
\* RTP transport; ciphertext gets through only while an answer is outstanding.
THEOREM MisreadsNothing == Spec => []NeverMisread
  <1>1. ASSUME IInv, NEW p \in Peers, NEW rtcp \in BOOLEAN
        PROVE  LET got == HandlePacket(ch[p], SendPacket(ch[Other(p)], rtcp))
               IN /\ got \in {Kind(rtcp), "nothing", "ciphertext"}
                  /\ got = "ciphertext" => \E r \in Peers : neg[r] = "local"
    <2> DEFINE q == Other(p)
               pkt == SendPacket(ch[q], rtcp)
               got == HandlePacket(ch[p], pkt)
    <2>1. q \in Peers /\ Other(q) = p BY Others
    <2>2. CASE pkt = NoPacket BY <2>2 DEF HandlePacket
    <2>3. CASE pkt # NoPacket
      <3>1. PacketIsRtcp(ch[p], pkt) = rtcp BY <1>1, <2>3, TakenAsSent
      <3> HIDE DEF pkt
      <3>2. got \in {Kind(rtcp), "nothing", "ciphertext"}
        BY <3>1 DEF HandlePacket, Kind
      <3>3. ASSUME got = "ciphertext", ~\E r \in Peers : neg[r] = "local" PROVE FALSE
        <4>1. Idle BY <1>1, <3>3 DEF IInv, Round, Offering, Answering
        <4>2. ch[p].state = ch[q].state /\ ch[p].state \in {"INIT", "ACTIVE"}
          BY <2>1, <4>1 DEF Idle, Settled
        <4>3. ~SrtpIsActive(ch[p]) /\ pkt.crypto # NoCrypto
          BY <3>1, <3>3 DEF HandlePacket
        <4>4. ~SrtpIsActive(ch[q]) BY <4>2, <4>3 DEF SrtpIsActive
        <4> QED BY <4>3, <4>4 DEF pkt, SendPacket, NoPacket
      <3> QED BY <3>2, <3>3 DEF pkt
    <2> QED BY <2>2, <2>3
  <1>2. IInv => NeverMisread BY <1>1 DEF NeverMisread
  <1> QED BY <1>2, Invariance, PTL

\* Any number of offers, replaced offers and provisional answers by either side ends
\* with filters that can read each other (SrtpFilter, RtcpMuxFilter), and no
\* description the factories make is ever refused by a filter.
THEOREM NegotiatesEndToEnd == Spec => []EndToEnd
  <1>1. ASSUME IInv, NEW p \in Peers PROVE neg[p] # "error"
    <2>1. \A r \in Peers : Other(r) \in Peers /\ (r = p \/ Other(r) = p) BY Others
    <2> QED BY <1>1, <2>1 DEF IInv, Round, Idle, Offering, Answering, Answerer
  <1>2. ASSUME IInv, Quiet, \A p \in Peers : TransportsUp(ch[p]),
               NEW p \in Peers, NEW rtcp \in BOOLEAN
        PROVE  HandlePacket(ch[Other(p)], SendPacket(ch[p], rtcp)) = Kind(rtcp)
    <2> DEFINE q == Other(p)
               pkt == SendPacket(ch[p], rtcp)
    <2>1. q \in Peers /\ Other(q) = p BY Others
    <2>2. Idle BY <1>2, <2>1 DEF IInv, Round, Offering, Answering, Quiet
    <2>3. /\ ch[p].state \in {"INIT", "ACTIVE"} /\ ch[q].state = ch[p].state
          /\ ch[p].mux \in {"INIT", "ACTIVE"} /\ ch[q].mux = ch[p].mux
          /\ ch[p].state = "ACTIVE" => /\ ch[p].sessions /\ ch[q].sessions
                                       /\ SameKey(ch[p].send, ch[q].recv)
          /\ ch[p].mux = "INIT" => ch[p].rtcp_channel /\ ch[q].rtcp_channel
      BY <2>1, <2>2 DEF Idle, Settled
    <2>4. ch[p].state = "INIT" => ~ch[p].secure_required /\ ~ch[q].secure_required
      BY <1>2, <2>1, <2>3 DEF IInv, Guarded, SrtpIsActive
    <2>5. Via(ch[p], rtcp) \in ch[p].up
      BY <1>2, <2>3 DEF Via, TransportsUp, MuxIsActive
    <2>6. SrtpIsActive(ch[p]) <=> ch[p].state = "ACTIVE"
      BY <2>3 DEF SrtpIsActive
    <2>7. SrtpIsActive(ch[q]) <=> ch[p].state = "ACTIVE"
      BY <2>3 DEF SrtpIsActive
    <2>8. /\ pkt = [via |-> Via(ch[p], rtcp), rtcp |-> rtcp,
                    crypto |-> IF ch[p].state = "ACTIVE" THEN ch[p].send ELSE NoCrypto]
      BY <2>3, <2>4, <2>5, <2>6 DEF SendPacket
    <2> HIDE DEF pkt
    <2>9. /\ pkt.via = Via(ch[p], rtcp) /\ pkt.rtcp = rtcp
          /\ ch[p].state = "ACTIVE" => SameKey(ch[q].recv, pkt.crypto)
          /\ ch[p].state = "INIT" => pkt.crypto = NoCrypto
      BY <2>3, <2>8 DEF SameKey
    <2>10. pkt # NoPacket BY <2>9 DEF NoPacket, Via
    <2>11. ~(pkt.via = "rtcp" /\ ~ch[q].rtcp_channel)
      BY <2>3, <2>9 DEF Via, MuxIsActive
    <2>12. PacketIsRtcp(ch[q], pkt) = rtcp BY <1>2, <2>1, <2>10, TakenAsSent DEF pkt
    <2>13. HandlePacket(ch[q], pkt) = IF PacketIsRtcp(ch[q], pkt) THEN "rtcp" ELSE "rtp"
      BY <2>3, <2>4, <2>7, <2>9, <2>10, <2>11, <2>12 DEF HandlePacket, Unprotects
    <2> QED BY <2>12, <2>13 DEF Kind, pkt
  <1>3. IInv => EndToEnd BY <1>1, <1>2 DEF EndToEnd
  <1> QED BY <1>3, Invariance, PTL
=============================================================================
