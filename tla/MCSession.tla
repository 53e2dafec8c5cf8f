------------------------------ MODULE MCSession ------------------------------
(***************************************************************************)
(* Small instances of Session for TLC.                                     *)
(***************************************************************************)
EXTENDS Session

Auth(mechanism, ready) == [mechanism |-> mechanism, ready |-> ready]
Limits(c, f, hb) == [channel_max |-> c, frame_max |-> f, heartbeat |-> hb]

\* GSSAPI without credentials, and a user name and password for AMQPLAIN.
MCAuthentication == <<Auth("GSSAPI", FALSE), Auth("AMQPLAIN", TRUE)>>
MCMechanisms     == {"GSSAPI", "AMQPLAIN"}

\* The client proposes 3; the broker proposes less, more or nothing.
MCClientTune  == Limits(2, 2, 3)
MCServerTunes == {Limits(0, 0, 0), Limits(1, 3, 2), Limits(3, 1, 4)}

\* Half an interval of 4 is the period that the documentation asks for.
RateClientTune  == Limits(2, 2, 4)
RateServerTunes == {Limits(2, 2, 4)}
=============================================================================
