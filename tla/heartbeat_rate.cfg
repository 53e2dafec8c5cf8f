SPECIFICATION Spec
CONSTANTS
  Authentication <- MCAuthentication
  Mechanisms <- MCMechanisms
  ClientTune <- RateClientTune
  ServerTunes <- RateServerTunes
  ConnectTimeouts = {FALSE}
  MaxConnects = 1
  Rate = 2
  Period = 2
INVARIANTS
  BeatsInTime
CHECK_DEADLOCK FALSE
