SPECIFICATION FairSpec
CONSTANTS
  t1 = t1
  t2 = t2
  ChannelMax = 1
  NumChans = 1
  Requests = {"channel", "QueueDeclare", "BasicConsume", "BasicQos"}
  CallbackRequests = {"QueueDeclare", "BasicQos"}
  MaxCalls = 5
  Callbacks = {"BasicDeliver"}
  CallbackCatches = FALSE
  UsesClosing = FALSE
  TimedOps = {}
  ConfirmPublish = FALSE
  BlockedCapability = FALSE
  Events = {"BasicDeliver"}
  MaxEvents = 2
  Nowaits = {FALSE}
  NoAcks = {FALSE}
  ExplicitIds = {0}
  Tags <- OneTag
PROPERTIES
  CallsReturn
CHECK_DEADLOCK FALSE
