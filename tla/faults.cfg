SPECIFICATION FairSpec
CONSTANTS
  t1 = t1
  t2 = t2
  ChannelMax = 2
  NumChans = 2
  Requests = {"channel", "QueueDeclare", "BasicConsume", "ChannelClose", "ConnectionClose"}
  CallbackRequests = {"ChannelClose", "ConnectionClose"}
  MaxCalls = 4
  Callbacks = {"BasicDeliver"}
  CallbackCatches = TRUE
  UsesClosing = FALSE
  TimedOps = {"open", "revive", "close", "connclose"}
  ConfirmPublish = FALSE
  BlockedCapability = FALSE
  Events = {"BasicDeliver", "ChannelClose", "drop", "ConnectionClose"}
  MaxEvents = 2
  Nowaits = {FALSE}
  NoAcks = {FALSE}
  ExplicitIds = {0}
  Tags <- OneTag
INVARIANTS
  IdsConsistent
PROPERTIES
  ClosedIsCollected
  CallsReturn
