SPECIFICATION Spec
CONSTANTS
  FRAME_OVERHEAD = 40
  FrameMaxes = {56, 64}
  W = 2
  MaxWrites = 2
  Calls <- MCCalls
  Sends <- MCSends
  Probes <- MCProbes
INVARIANTS
  TypeOK
  RoundTrip
  PropertiesKept
  ContentFits
  FramesFit
  BrokerReads
CHECK_DEADLOCK FALSE
