SPECIFICATION FairSpec
CONSTANTS
  Initiator = "initiator"
  Responder = "responder"
  Contents = {"a"}
  Batches = {}
  ChannelUsers = {"initiator"}
  HangsUp = {}
  Offers = {"good"}
  Answers <- FullAnswers
  Replies = {"none"}
  Bounces = {}
  Redirects = 0
  MaxDup = 0
  MaxLoss = 0
  MaxFlap = 2
  MaxInfo = 0
CHECK_DEADLOCK FALSE
INVARIANT TypeOK OneTimeout Watched
PROPERTY WritableOrGone
