SPECIFICATION Spec
CONSTANTS
  Initiator = "initiator"
  Responder = "responder"
  Contents = {"a", "b"}
  Batches = {}
  ChannelUsers = {}
  HangsUp = {"initiator"}
  Offers = {"good", "unknown_type", "unacceptable"}
  Answers <- SomeAnswers
  Replies = {"none", "refused", "reject", "terminate"}
  Bounces = {"wait", "redirect_other"}
  Redirects = 1
  MaxDup = 1
  MaxLoss = 0
  MaxFlap = 0
  MaxInfo = 1
CHECK_DEADLOCK FALSE
INVARIANT PendingState Negotiated DescriptionsSignalled
PROPERTY EndingStays
