SPECIFICATION Spec
CONSTANTS
  t1 = t1
  t2 = t2
  ChannelMax = 1
  NumChans = 1
  Requests = {"channel", "BasicConsume", "BasicCancel", "BasicAck", "BasicReject", "drain"}
  CallbackRequests = {"BasicAck"}
  MaxCalls = 5
  Callbacks = {"BasicDeliver", "BasicCancel"}
  CallbackCatches = FALSE
  UsesClosing = FALSE
  TimedOps = {"drain"}
  ConfirmPublish = FALSE
  BlockedCapability = FALSE
  Events = {"BasicDeliver", "BasicCancel"}
  MaxEvents = 3
  Nowaits = {FALSE}
  NoAcks = {FALSE, TRUE}
  ExplicitIds = {0}
  Tags <- TwoTags
SYMMETRY TagSymmetry
INVARIANTS
  DeliveryReachesConsumer
