---------------------------- MODULE MCConnection ----------------------------
(***************************************************************************)
(* Small instances of Connection for TLC.                                  *)
(***************************************************************************)
EXTENDS ConnectionProperties, TLC

CONSTANTS t1, t2

OneTag  == {t1}
TwoTags == {t1, t2}

\* Tags are interchangeable.
TagSymmetry == Permutations(TwoTags)

\* Every method of the API, each called at most once or twice.
AllRequests ==
  (Sync \ {"BasicPublish"}) \cup {"BasicAck", "BasicReject",
   "BasicRecoverAsync", "BasicPublish", "channel", "drain"}

AllWaits == WaitOps \cup {"drain"}
=============================================================================
