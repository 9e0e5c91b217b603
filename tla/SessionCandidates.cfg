SPECIFICATION Spec
CONSTANTS
  Initiator = "initiator"
  Responder = "responder"
  Contents = {"a"}
  Batches = {1}
  ChannelUsers = {"initiator", "responder"}
  HangsUp = {}
  Offers = {"good"}
  Answers <- FullAnswers
  Replies = {"none"}
  Bounces = {"cancel"}
  Redirects = 0
  MaxDup = 0
  MaxLoss = 1
  MaxFlap = 0
  MaxInfo = 0
CHECK_DEADLOCK FALSE
INVARIANT Agreement NoEarlyCandidates
