------------------------------ MODULE MCReader ------------------------------
(***************************************************************************)
(* Small instance of Reader for TLC, in which the broker may send          *)
(* heartbeats and wrong frames for ever.                                   *)
(***************************************************************************)
EXTENDS Reader

(* The stream is numbered from its beginning.  As long as it has carried   *)
(* no method, and all that was sent has been handled, the numbers may      *)
(* start again: frames of the past matter to no action, and MaxExtras      *)
(* bounds those since.                                                     *)
Renumber ==
  /\ frames # <<>> /\ MethodFrames = {}
  /\ Taken = Len(frames) /\ wire = <<>> /\ Held = <<>>
  /\ ~HasFrame /\ raised # "UnexpectedFrame"
  /\ frames' = <<>> /\ total' = 0
  /\ wrong' = {} /\ refused' = 0 /\ bytes_recv' = 0
  /\ UNCHANGED <<wire, closed, clientVars, expected_types, partial_messages,
                 delivered, peer, sent>>

(* The fairness of Spec. *)
EndlessSpec == Init /\ [][Next \/ Renumber]_vars /\ WF_vars(LibraryStep)
=============================================================================
