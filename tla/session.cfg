SPECIFICATION Spec
CONSTANTS
  Authentication <- MCAuthentication
  Mechanisms <- MCMechanisms
  ClientTune <- MCClientTune
  ServerTunes <- MCServerTunes
  ConnectTimeouts = {FALSE, TRUE}
  MaxConnects = 3
  Rate = 2
  Period = 2
INVARIANTS
  TypeOK
  FirstConnectOpens
  SessionAgrees
  CollectedStaysClosed
  GapBounded
  NoFalseAlarm
  SilenceSeen
PROPERTIES
  ConnectEnds
CHECK_DEADLOCK FALSE
