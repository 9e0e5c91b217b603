---------------------------- MODULE MediaChannel ----------------------------
(***************************************************************************)
(* The audio content of a call as its two ends see it: on each side a      *)
(* VoiceChannel (session/media/channel.cc) with its SrtpFilter             *)
(* (srtpfilter.cc) and RtcpMuxFilter (rtcpmuxfilter.cc), two transport     *)
(* channels (RTP and RTCP), and the offers and answers that                *)
(* MediaSessionDescriptionFactory (mediasession.cc) makes for it.          *)
(*                                                                         *)
(* A handler of the channel is an operator from a channel record to        *)
(* [c |-> the new record, ok |-> what it returns].  Everything runs on the *)
(* side's worker thread, so one handler is one step.  Keys are numbers,    *)
(* fresh each time the factory draws one.  DTLS is off: IsDtlsActive is    *)
(* false.  Codecs, streams and header extensions are left out.             *)
(***************************************************************************)
EXTENDS Naturals, Sequences, FiniteSets, SequencesExt

CONSTANTS
    Caller, Callee,   \* the two sides; either may offer again later
    Policies,         \* secure policies the two factories may have
    MuxOptions,       \* values of options.rtcp_mux_enabled a side may use
    Bundles,          \* values of options.bundle_enabled
    Directions,       \* directions an offer may have
    Replaces,         \* whether a side may replace the offer it has set
    MaxOffers,        \* bound: offers made
    MaxProvisional,   \* bound: provisional answers made
    MaxFlap           \* bound: transports lost, channels disabled, sockets
                      \* that block or are ready again

Peers == {Caller, Callee}
Policy == {"disabled", "enabled", "required"}
Direction == {"inactive", "sendonly", "recvonly", "sendrecv"}

ASSUME PeersAssumption == Caller # Callee
ASSUME OptionsAssumption ==
    /\ Policies \subseteq [Peers -> Policy]
    /\ MuxOptions \subseteq BOOLEAN /\ MuxOptions # {}
    /\ Bundles \subseteq BOOLEAN /\ Bundles # {}
    /\ Directions \subseteq Direction
    /\ Replaces \in BOOLEAN
ASSUME BoundsAssumption ==
    /\ MaxOffers \in Nat /\ MaxProvisional \in Nat
    /\ MaxFlap \in Nat

VARIABLES
    ch,      \* side -> its VoiceChannel
    policy,  \* side -> secure_ of its description factory
    muxing,  \* side -> options.rtcp_mux_enabled, the same for every offer
    neg,     \* side -> where its session is with the negotiation
    desc,    \* side -> its local description
    offered, \* side -> the remote offer it has to answer
    sig,     \* side -> descriptions on their way to it
    nkey,    \* keys drawn so far
    left     \* what is left of the bounds

vars == <<ch, policy, muxing, neg, desc, offered, sig, nkey, left>>

Other(p) == IF p = Caller THEN Callee ELSE Caller
Ok(c) == [c |-> c, ok |-> TRUE]
Fail(c) == [c |-> c, ok |-> FALSE]

\* CryptoParams: tag, cipher suite and key; NoCrypto is CryptoParams().
Crypto == [tag : 0 .. 1, suite : {"32", "80"}, key : Nat]
NoCrypto == [tag |-> 0, suite |-> "", key |-> 0]
Matches(x, y) == x.tag = y.tag /\ x.suite = y.suite
SameKey(x, y) == x.suite = y.suite /\ x.key = y.key

NewChannel == [
    state |-> "INIT", offer_params |-> <<>>, sessions |-> FALSE,
    send |-> NoCrypto, recv |-> NoCrypto,
    mux |-> "INIT", offer_enable |-> FALSE,
    rtcp_channel |-> TRUE, up |-> {},
    writable |-> FALSE, was_ever_writable |-> FALSE,
    ready |-> {}, told_ready |-> FALSE,
    enabled |-> FALSE, secure_required |-> FALSE,
    local_dir |-> "inactive", remote_dir |-> "inactive",
    playout |-> FALSE, sending |-> FALSE]

-----------------------------------------------------------------------------
(* SrtpFilter                                                              *)

SrtpStates == {"INIT", "SENTOFFER", "RECEIVEDOFFER", "SENTPRANSWER_NO_CRYPTO",
               "RECEIVEDPRANSWER_NO_CRYPTO", "ACTIVE", "SENTUPDATEDOFFER",
               "RECEIVEDUPDATEDOFFER", "SENTPRANSWER", "RECEIVEDPRANSWER"}

\* state_ >= ST_ACTIVE
SrtpIsActive(c) ==
    c.state \in {"ACTIVE", "SENTUPDATEDOFFER", "RECEIVEDUPDATEDOFFER",
                 "SENTPRANSWER", "RECEIVEDPRANSWER"}

By(source, sent, received) == IF source = "LOCAL" THEN sent ELSE received

ExpectOffer(c, source) ==
    c.state \in {"INIT", "ACTIVE"} \cup
        By(source, {"SENTOFFER", "SENTUPDATEDOFFER"},
                   {"RECEIVEDOFFER", "RECEIVEDUPDATEDOFFER"})
\* Mutant: an offer always starts over.
StoreParamsAnew(c, params, source) ==
    [c EXCEPT !.offer_params = params,
              !.state = By(source, "SENTOFFER", "RECEIVEDOFFER")]

\* Any state but ST_INIT is taken to be active already.
StoreParams(c, params, source) ==
    [c EXCEPT !.offer_params = params,
              !.state = IF @ = "INIT"
                        THEN By(source, "SENTOFFER", "RECEIVEDOFFER")
                        ELSE By(source, "SENTUPDATEDOFFER", "RECEIVEDUPDATEDOFFER")]

SrtpSetOffer(c, params, source) ==
    IF ExpectOffer(c, source) THEN Ok(StoreParams(c, params, source)) ELSE Fail(c)

ExpectAnswer(c, source) ==
    c.state \in By(source,
        {"RECEIVEDOFFER", "RECEIVEDUPDATEDOFFER", "SENTPRANSWER_NO_CRYPTO",
         "SENTPRANSWER"},
        {"SENTOFFER", "SENTUPDATEDOFFER", "RECEIVEDPRANSWER_NO_CRYPTO",
         "RECEIVEDPRANSWER"})

\* The offered parameters the answer picked; there is one answer, and it must
\* match an offer.
Selected(c, answer) == {x \in ToSet(c.offer_params) : Matches(answer[1], x)}
NegotiateParams(c, answer) == Len(answer) = 1 /\ Selected(c, answer) # {}

\* The same parameters again leave the sessions (and their counters) alone.
ApplyParams(c, send, recv) ==
    IF SameKey(c.send, send) /\ SameKey(c.recv, recv) THEN c
    ELSE [c EXCEPT !.sessions = TRUE, !.send = send, !.recv = recv]

ResetParams(c) == [c EXCEPT !.offer_params = <<>>, !.state = "INIT"]
\* Mutant: the answer's key is sent with by both sides.
AppliedSameWay(c, answer, source) ==
    ApplyParams(c, answer[1], CHOOSE x \in Selected(c, answer) : TRUE)

Applied(c, answer, source) ==
    LET mine == CHOOSE x \in Selected(c, answer) : TRUE
    IN IF source = "REMOTE" THEN ApplyParams(c, mine, answer[1])
                            ELSE ApplyParams(c, answer[1], mine)

DoSetAnswer(c, answer, source, final) ==
    IF ~ExpectAnswer(c, source) THEN Fail(c)
    ELSE IF answer = <<>>
    THEN Ok(IF final THEN ResetParams(c)
            ELSE [c EXCEPT !.state = By(source, "SENTPRANSWER_NO_CRYPTO",
                                                "RECEIVEDPRANSWER_NO_CRYPTO")])
    ELSE IF ~NegotiateParams(c, answer) THEN Fail(c)
    ELSE Ok(IF final
            THEN [Applied(c, answer, source) EXCEPT !.offer_params = <<>>,
                                                    !.state = "ACTIVE"]
            ELSE [Applied(c, answer, source) EXCEPT
                      !.state = By(source, "SENTPRANSWER", "RECEIVEDPRANSWER")])

-----------------------------------------------------------------------------
(* RtcpMuxFilter                                                           *)

MuxStates == {"INIT", "RECEIVEDOFFER", "SENTOFFER", "SENTPRANSWER",
              "RECEIVEDPRANSWER", "ACTIVE"}

MuxIsActive(c) == c.mux \in {"SENTPRANSWER", "RECEIVEDPRANSWER", "ACTIVE"}

MuxExpectOffer(c, enable, source) ==
    \/ c.mux = "INIT"
    \/ c.mux = "ACTIVE" /\ enable = c.offer_enable
    \/ c.mux = By(source, "SENTOFFER", "RECEIVEDOFFER")

MuxSetOffer(c, enable, source) ==
    IF MuxExpectOffer(c, enable, source)
    THEN Ok([c EXCEPT !.offer_enable = enable,
                      !.mux = By(source, "SENTOFFER", "RECEIVEDOFFER")])
    ELSE Fail(c)

MuxExpectAnswer(c, source) ==
    c.mux \in By(source, {"RECEIVEDOFFER", "SENTPRANSWER"},
                         {"SENTOFFER", "RECEIVEDPRANSWER"})

MuxSetProvisionalAnswer(c, enable, source) ==
    IF ~MuxExpectAnswer(c, source) \/ (enable /\ ~c.offer_enable) THEN Fail(c)
    ELSE IF ~c.offer_enable THEN Ok(c)
    ELSE Ok([c EXCEPT !.mux =
               IF enable THEN By(source, "SENTPRANSWER", "RECEIVEDPRANSWER")
                         ELSE By(source, "RECEIVEDOFFER", "SENTOFFER")])

MuxSetAnswer(c, enable, source) ==
    IF ~MuxExpectAnswer(c, source) \/ (enable /\ ~c.offer_enable) THEN Fail(c)
    ELSE Ok([c EXCEPT !.mux = IF enable THEN "ACTIVE" ELSE "INIT"])
\* Mutant: the offerer waits for the answer before it looks.
DemuxRtcpLate(c) == c.offer_enable /\ MuxIsActive(c)

\* Whether a packet that came in on the RTP transport is looked at: state_ is
\* ST_SENTOFFER or later.
DemuxRtcp(c) == c.offer_enable /\ c.mux \notin {"INIT", "RECEIVEDOFFER"}

-----------------------------------------------------------------------------
(* BaseChannel and VoiceChannel                                            *)

Receives(dir) == dir \in {"sendrecv", "recvonly"}
Sends(dir) == dir \in {"sendrecv", "sendonly"}
IsReadyToReceive(c) == c.enabled /\ Receives(c.local_dir)
IsReadyToSend(c) == /\ c.enabled /\ Receives(c.remote_dir) /\ Sends(c.local_dir)
                    /\ c.was_ever_writable

\* VoiceChannel::ChangeState tells the media engine to play and to send.
ChangeState(c) == [c EXCEPT !.playout = IsReadyToReceive(c),
                            !.sending = IsReadyToSend(c)]

Enable(c, enable) ==
    IF c.enabled = enable THEN c ELSE ChangeState([c EXCEPT !.enabled = enable])

ChannelWritable_w(c) ==
    IF c.writable THEN c
    ELSE ChangeState([c EXCEPT !.was_ever_writable = TRUE, !.writable = TRUE])

ChannelNotWritable_w(c) ==
    IF ~c.writable THEN c ELSE ChangeState([c EXCEPT !.writable = FALSE])

TransportsUp(c) == "rtp" \in c.up /\ (c.rtcp_channel => "rtcp" \in c.up)

OnWritableState(c) ==
    IF TransportsUp(c) THEN ChannelWritable_w(c) ELSE ChannelNotWritable_w(c)

CanSend(c) == "rtp" \in c.ready /\ ("rtcp" \in c.ready \/ ~c.rtcp_channel)

SetReadyToSend(c, chan, ready) ==
    LET t == [c EXCEPT !.ready = IF ready THEN @ \cup {chan} ELSE @ \ {chan}]
    IN [t EXCEPT !.told_ready = IF ~ready THEN FALSE
                                ELSE IF CanSend(t) THEN TRUE ELSE @]

\* set_rtcp_transport_channel(NULL): the session destroys the channel.
CloseRtcp(c) == [c EXCEPT !.rtcp_channel = FALSE, !.up = @ \ {"rtcp"}]

\* No DTLS: the filter gets every offer and answer.
SetSrtp_w(c, d, source) ==
    CASE d.action = "OFFER" -> SrtpSetOffer(c, d.cryptos, source)
      [] d.action = "PRANSWER" -> DoSetAnswer(c, d.cryptos, source, FALSE)
      [] d.action = "ANSWER" -> DoSetAnswer(c, d.cryptos, source, TRUE)

MuxSet(c, d, source) ==
    CASE d.action = "OFFER" -> MuxSetOffer(c, d.rtcp_mux, source)
      [] d.action = "PRANSWER" -> MuxSetProvisionalAnswer(c, d.rtcp_mux, source)
      [] d.action = "ANSWER" -> MuxSetAnswer(c, d.rtcp_mux, source)
\* Mutant: the channel is not told that it waits for one transport less.
MuxAppliedQuietly(c, d) ==
    IF d.action = "ANSWER" /\ MuxIsActive(c) THEN CloseRtcp(c) ELSE c

\* A final answer with RTCP mux closes the RTCP transport; the channel is then
\* as writable as the RTP transport alone.
MuxApplied(c, d) ==
    LET t == IF d.action = "ANSWER" /\ MuxIsActive(c) /\ c.rtcp_channel
             THEN CloseRtcp(c) ELSE c
    IN IF MuxIsActive(t) /\ "rtp" \in t.up THEN ChannelWritable_w(t) ELSE t

SetRtcpMux_w(c, d, source) ==
    LET r == MuxSet(c, d, source)
    IN IF r.ok THEN Ok(MuxApplied(r.c, d)) ELSE r

SetDirection(c, d, source) ==
    IF source = "LOCAL" THEN [c EXCEPT !.local_dir = d.direction]
                        ELSE [c EXCEPT !.remote_dir = d.direction]

\* Both filters are set even when the first fails; ChangeState only if all is
\* well.
Settle(srtp, mux, d, source) ==
    LET t == SetDirection(mux.c, d, source)
    IN IF srtp.ok /\ mux.ok THEN Ok(ChangeState(t)) ELSE Fail(t)

SetBoth(srtp, d, source) == Settle(srtp, SetRtcpMux_w(srtp.c, d, source), d, source)

SetLocalContent_w(c, d) ==
    SetBoth(SetSrtp_w([c EXCEPT !.secure_required = d.required], d, "LOCAL"),
            d, "LOCAL")
SetRemoteContent_w(c, d) == SetBoth(SetSrtp_w(c, d, "REMOTE"), d, "REMOTE")

\* BaseChannel::SendPacket: the packet put on the wire, or none.  An active
\* filter without sessions calls through a null pointer: nothing is sent, and
\* nothing received.
NoPacket == [via |-> "none", rtcp |-> FALSE, crypto |-> NoCrypto]
Via(c, rtcp) == IF ~rtcp \/ MuxIsActive(c) THEN "rtp" ELSE "rtcp"
SendPacket(c, rtcp) ==
    IF Via(c, rtcp) \notin c.up THEN NoPacket
    ELSE IF SrtpIsActive(c) /\ c.sessions
    THEN [via |-> Via(c, rtcp), rtcp |-> rtcp, crypto |-> c.send]
    ELSE IF SrtpIsActive(c) \/ c.secure_required THEN NoPacket
    ELSE [via |-> Via(c, rtcp), rtcp |-> rtcp, crypto |-> NoCrypto]

\* BaseChannel::OnChannelRead and HandlePacket: what the media engine gets.
\* UnprotectRtp and UnprotectRtcp fail on a packet of the other kind, or of
\* another key; a packet taken as it came may be any of the three.
PacketIsRtcp(c, pkt) == pkt.via = "rtcp" \/ (DemuxRtcp(c) /\ pkt.rtcp)
Unprotects(c, pkt) == /\ c.sessions /\ SameKey(c.recv, pkt.crypto)
                      /\ PacketIsRtcp(c, pkt) = pkt.rtcp
HandlePacket(c, pkt) ==
    IF pkt = NoPacket \/ (pkt.via = "rtcp" /\ ~c.rtcp_channel) THEN "nothing"
    ELSE IF (SrtpIsActive(c) /\ ~Unprotects(c, pkt))
            \/ (~SrtpIsActive(c) /\ c.secure_required) THEN "nothing"
    ELSE IF ~SrtpIsActive(c) /\ pkt.crypto # NoCrypto THEN "ciphertext"
    ELSE IF PacketIsRtcp(c, pkt) THEN "rtcp" ELSE "rtp"

-----------------------------------------------------------------------------
(* MediaSessionDescriptionFactory                                          *)

Description == [action : {"OFFER", "PRANSWER", "ANSWER"},
                cryptos : Seq(Crypto), rtcp_mux : BOOLEAN, bundle : BOOLEAN,
                required : BOOLEAN, direction : Direction]
NoDesc == [action |-> "NONE", cryptos |-> <<>>, rtcp_mux |-> FALSE,
           bundle |-> FALSE, required |-> FALSE, direction |-> "inactive"]
\* Mutant: the tag is the size after the resize.
MediaCryptosOffByOne == << [tag |-> 1, suite |-> "32", key |-> nkey + 1],
                           [tag |-> 2, suite |-> "80", key |-> nkey + 2] >>

\* CreateMediaCryptos with the two audio suites; the keys are new.
MediaCryptos == << [tag |-> 0, suite |-> "32", key |-> nkey + 1],
                   [tag |-> 1, suite |-> "80", key |-> nkey + 2] >>

\* CreateMediaContentOffer keeps the cryptos of the current description.
OfferCryptos(p) == IF policy[p] = "disabled" THEN <<>>
                   ELSE IF desc[p].cryptos # <<>> THEN desc[p].cryptos
                   ELSE MediaCryptos

CreateOffer(p, bundle, dir) ==
    [action |-> "OFFER", cryptos |-> OfferCryptos(p), rtcp_mux |-> muxing[p],
     bundle |-> bundle, required |-> policy[p] = "required", direction |-> dir]

\* SelectCrypto takes the first suite it supports; with bundle, not the 32-bit
\* HMAC.
Acceptable(offer, bundle) ==
    {i \in DOMAIN offer.cryptos :
        offer.cryptos[i].suite = "80" \/ ~(offer.bundle /\ bundle)}
Choice(offer, bundle) ==
    offer.cryptos[CHOOSE i \in Acceptable(offer, bundle) :
                      \A j \in Acceptable(offer, bundle) : i <= j]
\* The answerer's key: the one it has for that tag and suite, or a new one.
Current(p, x) == {y \in ToSet(desc[p].cryptos) : Matches(x, y)}
AnswerCryptos(p, offer, bundle) ==
    IF policy[p] = "disabled" \/ Acceptable(offer, bundle) = {} THEN <<>>
    ELSE IF Current(p, Choice(offer, bundle)) # {}
    THEN << CHOOSE y \in Current(p, Choice(offer, bundle)) : TRUE >>
    ELSE << [Choice(offer, bundle) EXCEPT !.key = nkey + 1] >>

\* CreateMediaContentAnswer fails without the cryptos either side requires.
CanCreateAnswer(p, cryptos) ==
    cryptos # <<>> \/ ~(offered[p].required \/ policy[p] = "required")

Mirror(dir) == CASE dir = "sendonly" -> "recvonly"
                 [] dir = "recvonly" -> "sendonly"
                 [] OTHER -> dir

CreateAnswer(p, action, cryptos, bundle) ==
    [action |-> action, cryptos |-> cryptos,
     rtcp_mux |-> muxing[p] /\ offered[p].rtcp_mux, bundle |-> bundle,
     required |-> FALSE, direction |-> Mirror(offered[p].direction)]
-----------------------------------------------------------------------------
(* The specification                                                       *)

Init ==
    /\ ch = [p \in Peers |-> NewChannel]
    /\ policy \in Policies
    /\ muxing \in [Peers -> MuxOptions]
    /\ neg = [p \in Peers |-> "stable"]
    /\ desc = [p \in Peers |-> NoDesc]
    /\ offered = [p \in Peers |-> NoDesc]
    /\ sig = [p \in Peers |-> <<>>]
    /\ nkey = 0
    /\ left = [offers |-> MaxOffers, provisional |-> MaxProvisional,
               flap |-> MaxFlap]

Use(bound) == left[bound] > 0 /\ left' = [left EXCEPT ![bound] = @ - 1]
Drawn(d) == nkey' = IF d.cryptos = <<>> \/ Last(d.cryptos).key <= nkey
                    THEN nkey ELSE Last(d.cryptos).key

\* OnNewLocalDescription: side p sends d and sets it on its channel; failing
\* is the session's ERROR_CONTENT.
SetLocal(p, d, next, queue) ==
    LET r == SetLocalContent_w(ch[p], d)
    IN /\ ch' = [ch EXCEPT ![p] = r.c]
       /\ neg' = [neg EXCEPT ![p] = IF r.ok THEN next ELSE "error"]
       /\ desc' = [desc EXCEPT ![p] = d]
       /\ sig' = [sig EXCEPT ![Other(p)] = Append(queue, d)]
       /\ Drawn(d)

\* The two sides offer in turn, the caller first.
Offer(p, bundle, dir) ==
    /\ \A q \in Peers : neg[q] = "stable" /\ sig[q] = <<>>
    /\ p = Caller \/ desc[p] # NoDesc
    /\ Use("offers")
    /\ SetLocal(p, CreateOffer(p, bundle, dir), "local", <<>>)
    /\ UNCHANGED <<policy, muxing, offered>>

\* The application sets another offer before the first has arrived.
ReplaceOffer(p, bundle, dir) ==
    /\ Replaces /\ neg[p] = "local" /\ Len(sig[Other(p)]) = 1
    /\ Use("offers")
    /\ SetLocal(p, CreateOffer(p, bundle, dir), "local", <<>>)
    /\ UNCHANGED <<policy, muxing, offered>>

Answer(p, bundle) ==
    LET x == AnswerCryptos(p, offered[p], bundle)
    IN /\ neg[p] = "remote" /\ CanCreateAnswer(p, x)
       /\ SetLocal(p, CreateAnswer(p, "ANSWER", x, bundle), "stable",
                   sig[Other(p)])
       /\ UNCHANGED <<policy, muxing, offered, left>>

ProvisionalAnswer(p, bundle) ==
    LET x == AnswerCryptos(p, offered[p], bundle)
    IN /\ neg[p] = "remote" /\ CanCreateAnswer(p, x)
       /\ Use("provisional")
       /\ SetLocal(p, CreateAnswer(p, "PRANSWER", x, bundle), "remote",
                   sig[Other(p)])
       /\ UNCHANGED <<policy, muxing, offered>>

\* CreateAnswer returns NULL: the call is not taken.
Refuse(p) ==
    /\ neg[p] = "remote"
    /\ \E bundle \in Bundles :
          ~CanCreateAnswer(p, AnswerCryptos(p, offered[p], bundle))
    /\ neg' = [neg EXCEPT ![p] = "refused"]
    /\ UNCHANGED <<ch, policy, muxing, desc, offered, sig, nkey, left>>

\* OnNewRemoteDescription: the next description from the other side.
Deliver(p) ==
    /\ neg[p] \notin {"error", "refused"} /\ sig[p] # <<>>
    /\ LET d == Head(sig[p])
           r == SetRemoteContent_w(ch[p], d)
       IN /\ ch' = [ch EXCEPT ![p] = r.c]
          /\ neg' = [neg EXCEPT ![p] =
                        IF ~r.ok THEN "error"
                        ELSE CASE d.action = "OFFER" -> "remote"
                               [] d.action = "PRANSWER" -> "local"
                               [] d.action = "ANSWER" -> "stable"]
          /\ offered' = IF d.action = "OFFER" THEN [offered EXCEPT ![p] = d]
                                             ELSE offered
    /\ sig' = [sig EXCEPT ![p] = Tail(@)]
    /\ UNCHANGED <<policy, muxing, desc, nkey, left>>

SetChannel(p, c) ==
    /\ ch' = [ch EXCEPT ![p] = c]
    /\ UNCHANGED <<policy, muxing, neg, desc, offered, sig, nkey>>

Channels(c) == {"rtp"} \cup (IF c.rtcp_channel THEN {"rtcp"} ELSE {})

TransportUp(p, chan) ==
    /\ chan \in Channels(ch[p]) \ ch[p].up
    /\ SetChannel(p, OnWritableState([ch[p] EXCEPT !.up = @ \cup {chan}]))
    /\ UNCHANGED left

TransportDown(p, chan) ==
    /\ chan \in ch[p].up /\ Use("flap")
    /\ SetChannel(p, OnWritableState([ch[p] EXCEPT !.up = @ \ {chan}]))

\* Call gives the side the focus or takes it away.
EnableMedia(p) ==
    /\ ~ch[p].enabled
    /\ SetChannel(p, Enable(ch[p], TRUE))
    /\ UNCHANGED left

DisableMedia(p) ==
    /\ ch[p].enabled /\ Use("flap")
    /\ SetChannel(p, Enable(ch[p], FALSE))

OnReadyToSend(p, chan) ==
    /\ chan \in Channels(ch[p]) /\ chan \notin ch[p].ready
    /\ Use("flap")
    /\ SetChannel(p, SetReadyToSend(ch[p], chan, TRUE))

\* SendPacket gets EWOULDBLOCK from the transport it sends a packet on.
SendBlocks(p, rtcp) ==
    /\ SendPacket(ch[p], rtcp) # NoPacket
    /\ Use("flap")
    /\ SetChannel(p, SetReadyToSend(ch[p], Via(ch[p], rtcp), FALSE))

Negotiate(p) ==
    \/ \E bundle \in Bundles :
          \/ \E dir \in Directions : \/ Offer(p, bundle, dir)
                                     \/ ReplaceOffer(p, bundle, dir)
          \/ Answer(p, bundle)
          \/ ProvisionalAnswer(p, bundle)
    \/ Refuse(p)
    \/ Deliver(p)

Transport(p) ==
    \/ \E chan \in {"rtp", "rtcp"} : \/ TransportUp(p, chan)
                                     \/ TransportDown(p, chan)
                                     \/ OnReadyToSend(p, chan)
    \/ \E rtcp \in BOOLEAN : SendBlocks(p, rtcp)

Next == \E p \in Peers : \/ Negotiate(p) \/ Transport(p)
                         \/ EnableMedia(p) \/ DisableMedia(p)

Spec == Init /\ [][Next]_vars

-----------------------------------------------------------------------------
(* Properties                                                              *)

ChannelRec == [
    state : SrtpStates, offer_params : Seq(Crypto), sessions : BOOLEAN,
    send : Crypto \cup {NoCrypto}, recv : Crypto \cup {NoCrypto},
    mux : MuxStates, offer_enable : BOOLEAN,
    rtcp_channel : BOOLEAN, up : SUBSET {"rtp", "rtcp"},
    writable : BOOLEAN, was_ever_writable : BOOLEAN,
    ready : SUBSET {"rtp", "rtcp"}, told_ready : BOOLEAN,
    enabled : BOOLEAN, secure_required : BOOLEAN,
    local_dir : Direction, remote_dir : Direction,
    playout : BOOLEAN, sending : BOOLEAN]

\* Every channel, description and counter has its type.
TypeOK ==
    /\ ch \in [Peers -> ChannelRec]
    /\ policy \in [Peers -> Policy] /\ muxing \in [Peers -> BOOLEAN]
    /\ neg \in [Peers -> {"stable", "local", "remote", "refused", "error"}]
    /\ desc \in [Peers -> Description \cup {NoDesc}]
    /\ offered \in [Peers -> Description \cup {NoDesc}]
    /\ sig \in [Peers -> Seq(Description)]
    /\ nkey \in Nat
    /\ left \in [{"offers", "provisional", "flap"} -> Nat]

Quiet == \A p \in Peers : neg[p] = "stable" /\ sig[p] = <<>>
Kind(rtcp) == IF rtcp THEN "rtcp" ELSE "rtp"

\* When the negotiation is over and the transports are up, what either side
\* sends, RTP or RTCP, is what the other's media engine gets: the two filters
\* ended with each other's keys and agree on where RTCP goes, after any number
\* of offers by either side, provisional answers, and changes of suite.  And no
\* negotiation ends in ERROR_CONTENT: sides that use the same options throughout
\* accept every offer and answer the other's factory makes.
EndToEnd ==
    /\ \A p \in Peers : neg[p] # "error"
    /\ Quiet /\ (\A p \in Peers : TransportsUp(ch[p])) =>
         \A p \in Peers, rtcp \in BOOLEAN :
             HandlePacket(ch[Other(p)], SendPacket(ch[p], rtcp)) = Kind(rtcp)

\* What HandlePacket hands on is what the other side sent, at every moment of
\* a negotiation and with or without encryption: no RTCP that shares the RTP
\* transport is taken for RTP, and a packet the filter did not decrypt gets
\* through only while one of the sides waits for an answer.
NeverMisread ==
    \A p \in Peers, rtcp \in BOOLEAN :
        LET got == HandlePacket(ch[p], SendPacket(ch[Other(p)], rtcp))
        IN /\ got \in {Kind(rtcp), "nothing", "ciphertext"}
           /\ got = "ciphertext" => \E q \in Peers : neg[q] = "local"

\* SendPacket's "double check for something that supposedly can't happen": the
\* engine is never told to send before a required SRTP filter is active.
SecureSend ==
    \A p \in Peers :
        neg[p] # "error" /\ ch[p].sending /\ ch[p].secure_required =>
            SrtpIsActive(ch[p])

\* ChangeState is never forgotten: the engine plays and sends exactly when the
\* channel is ready to, and a channel whose transports are up is writable,
\* also when it is the answer that closed the last transport it waited for.  An
\* engine that was told that it can send (SetReadyToSend) finds no transport it
\* uses blocked.
EngineFollows ==
    \A p \in Peers : neg[p] # "error" =>
        /\ ch[p].playout = IsReadyToReceive(ch[p])
        /\ ch[p].sending = IsReadyToSend(ch[p])
        /\ TransportsUp(ch[p]) => ch[p].writable
        /\ ch[p].told_ready => CanSend(ch[p])
=============================================================================
