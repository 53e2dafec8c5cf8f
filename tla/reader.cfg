SPECIFICATION EndlessSpec
CONSTANTS
  HeaderSize = 2
  SIGNED_INT_MAX = 1
  RaiseOnInitialEintr = TRUE
  Channels = {0, 1}
  BodySizes = {0, 2}
  MaxMethods = 2
  MaxExtras = 1
  MaxInFlight = 0
INVARIANTS
  TypeOK
  NothingLost
  HandlerInStep
PROPERTIES
  Implements
  TimedDrainReturns
  EagainDrainReturns
CHECK_DEADLOCK FALSE
