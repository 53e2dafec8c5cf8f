SPECIFICATION Spec
CONSTANTS
  t1 = t1
  t2 = t2
  ChannelMax = 2
  NumChans = 3
  Requests = {"channel", "QueueDeclare", "BasicConsume", "BasicAck", "ChannelClose", "drain"}
  CallbackRequests = {"BasicAck"}
  MaxCalls = 5
  Callbacks = {"BasicDeliver"}
  CallbackCatches = FALSE
  UsesClosing = FALSE
  TimedOps = {"drain"}
  ConfirmPublish = FALSE
  BlockedCapability = FALSE
  Events = {"BasicDeliver", "ChannelClose"}
  MaxEvents = 2
  Nowaits = {FALSE}
  NoAcks = {FALSE}
  ExplicitIds = {0}
  Tags <- OneTag
INVARIANTS
  TypeOK
  PendingLive
  ReplyMatches
  IdsConsistent
  FreedIdIsQuiet
  NoProtocolError
  OpenAgrees
