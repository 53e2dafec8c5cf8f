----------------------------- MODULE Heartbeat -----------------------------
(***************************************************************************)
(* send_heartbeat and heartbeat_tick of amqp/connection.py, in a world     *)
(* where time passes.  Every time the code stores is kept as the time that *)
(* has passed since: an age.  The counters bytes_sent and bytes_recv       *)
(* matter only by whether they have changed since the last tick, and they  *)
(* only grow: they are kept as sent and received.                          *)
(***************************************************************************)
EXTENDS Integers

CONSTANTS
  Rate,    \* rate given to heartbeat_tick
  Period   \* the longest time between two ticks

ASSUME HeartbeatAssumption == Rate \in Int /\ Period \in Nat \ {0}

VARIABLES
  sent,                    \* bytes_sent # prev_sent
  received,                \* bytes_recv # prev_recv
  last_heartbeat_sent,     \* age of last_heartbeat_sent
  last_heartbeat_received, \* age of last_heartbeat_received
  ticked,                  \* time since the last tick
  write_age,               \* time since a frame was written,
  read_age,                \* and since one was read
  forced                   \* has ConnectionForced been raised?

heartbeatVars == <<sent, received, last_heartbeat_sent, last_heartbeat_received, ticked,
                   write_age, read_age, forced>>

HeartbeatTypeOK ==
  /\ sent \in BOOLEAN /\ received \in BOOLEAN /\ forced \in BOOLEAN
  /\ last_heartbeat_sent \in Nat /\ last_heartbeat_received \in Nat
  /\ ticked \in Nat /\ write_age \in Nat /\ read_age \in Nat

(* prev_sent and prev_recv are None: the first tick sets both times.       *)
HeartbeatInit ==
  /\ sent = TRUE /\ received = TRUE /\ forced = FALSE
  /\ last_heartbeat_sent = 0 /\ last_heartbeat_received = 0
  /\ ticked = 0 /\ write_age = 0 /\ read_age = 0

(* The session is over: nothing is measured any more.                      *)
HeartbeatForgotten ==
  /\ sent' = TRUE /\ received' = TRUE /\ forced' = FALSE
  /\ last_heartbeat_sent' = 0 /\ last_heartbeat_received' = 0
  /\ ticked' = 0 /\ write_age' = 0 /\ read_age' = 0

(* rate <= 0 is taken as 2.                                                *)
rate == IF Rate <= 0 THEN 2 ELSE Rate

(* Time passes; the application does not let more than Period go by        *)
(* between two ticks.                                                      *)
Passes ==
  /\ ticked < Period
  /\ ticked' = ticked + 1
  /\ last_heartbeat_sent' = last_heartbeat_sent + 1
  /\ last_heartbeat_received' = last_heartbeat_received + 1
  /\ write_age' = write_age + 1 /\ read_age' = read_age + 1
  /\ UNCHANGED <<sent, received, forced>>

(* A method is written, a frame is read.                                   *)
FrameWritten ==
  /\ sent' = TRUE /\ write_age' = 0
  /\ UNCHANGED <<received, last_heartbeat_sent, last_heartbeat_received, ticked, read_age,
                 forced>>

FrameRead ==
  /\ received' = TRUE /\ read_age' = 0
  /\ UNCHANGED <<sent, last_heartbeat_sent, last_heartbeat_received, ticked, write_age,
                 forced>>

SentAge == IF sent THEN 0 ELSE last_heartbeat_sent

(* Mutant: what was read since the last tick does not count.               *)
ReceivedAgeStale == last_heartbeat_received

ReceivedAge == IF received THEN 0 ELSE last_heartbeat_received

(* Mutant: a heartbeat is due when the whole interval is over.             *)
DueLate(h) == SentAge > h

Due(h) == rate * SentAge > h

(* Mutant: three intervals may be missed.                                  *)
MissedThree(h) == 3 * h < ReceivedAge

Missed(h) == 2 * h < ReceivedAge

(* heartbeat_tick with interval h: prev_sent is taken before the heartbeat *)
(* is written, so that the next tick sees it as data that was sent.        *)
heartbeat_tick(h) ==
  /\ h # 0
  /\ ticked' = 0
  /\ received' = FALSE
  /\ last_heartbeat_received' = ReceivedAge
  /\ sent' = Due(h)
  /\ last_heartbeat_sent' = IF Due(h) THEN 0 ELSE SentAge
  /\ write_age' = IF Due(h) THEN 0 ELSE write_age
  /\ forced' = Missed(h)
  /\ UNCHANGED read_age
=============================================================================
