SPECIFICATION Spec
CONSTANTS
  t1 = t1
  t2 = t2
  ChannelMax = 2
  NumChans = 2
  Requests = {"channel", "QueueDeclare", "BasicConsume", "ChannelClose"}
  CallbackRequests = {"QueueDeclare", "BasicConsume", "ChannelClose"}
  MaxCalls = 5
  Callbacks = {"BasicDeliver"}
  CallbackCatches = FALSE
  UsesClosing = TRUE
  TimedOps = {"rpc"}
  ConfirmPublish = FALSE
  BlockedCapability = FALSE
  Events = {"BasicDeliver", "ChannelClose"}
  MaxEvents = 2
  Nowaits = {FALSE}
  NoAcks = {FALSE}
  ExplicitIds = {0}
  Tags <- OneTag
INVARIANTS
  ReplyMatches
  IdsConsistent
  PendingLive
  PromiseKept
CHECK_DEADLOCK FALSE
