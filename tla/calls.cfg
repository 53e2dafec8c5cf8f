SPECIFICATION Spec
CONSTANTS
  t1 = t1
  t2 = t2
  ChannelMax = 1
  NumChans = 1
  Requests <- AllRequests
  CallbackRequests = {"BasicPublish", "QueueDeclare"}
  MaxCalls = 4
  Callbacks = {"ChannelOpenOk", "BasicReturn", "BasicAck", "ConnectionBlocked"}
  CallbackCatches = FALSE
  UsesClosing = FALSE
  TimedOps = {"drain", "confirm"}
  ConfirmPublish = TRUE
  BlockedCapability = TRUE
  Events = {"ChannelFlow", "BasicNack", "BasicReturn", "ConnectionBlocked", "ConnectionUnblocked"}
  MaxEvents = 1
  Nowaits = {FALSE, TRUE}
  NoAcks = {FALSE}
  ExplicitIds = {0, 1}
  Tags <- OneTag
INVARIANTS
  PublishedIsAcked
  PromiseKept
  ConfirmAgrees
