SPECIFICATION Spec
CONSTANTS
  t1 = t1
  t2 = t2
  ChannelMax = 1
  NumChans = 1
  Requests = {"channel", "BasicPublish", "drain"}
  CallbackRequests = {}
  MaxCalls = 3
  Callbacks = {}
  CallbackCatches = FALSE
  UsesClosing = FALSE
  TimedOps = {"drain"}
  ConfirmPublish = TRUE
  BlockedCapability = FALSE
  Events = {"ChannelClose"}
  MaxEvents = 1
  Nowaits = {FALSE}
  NoAcks = {FALSE}
  ExplicitIds = {0}
  Tags <- OneTag
INVARIANTS
  ConfirmAgrees
