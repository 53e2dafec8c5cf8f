--------------------------- MODULE MethodDelivery ---------------------------
(***************************************************************************)
(* What the inbound side of the library promises to the code above it      *)
(* (Connection.on_inbound_method, and with it modules AbstractChannel to   *)
(* Connection, which receive whole methods): the methods of each channel   *)
(* are handed over once, in the order in which the broker sent them, each  *)
(* with the whole of its content.  Nothing is promised about the order     *)
(* between channels, nor that everything arrives.                          *)
(***************************************************************************)
EXTENDS Sequences, Naturals

CONSTANTS
  Channels,  \* the channel ids
  Methods    \* the methods with their content

VARIABLES
  sent,      \* per channel, the methods the broker has sent
  delivered  \* per channel, the methods handed to the channel

Init == /\ sent = [c \in Channels |-> <<>>]
        /\ delivered = [c \in Channels |-> <<>>]

Send(c) ==
  /\ Len(sent'[c]) = Len(sent[c]) + 1
  /\ LET m == sent'[c][Len(sent'[c])] IN
     m \in Methods /\ sent' = [sent EXCEPT ![c] = Append(@, m)]
  /\ UNCHANGED delivered

Deliver(c) ==
  LET n == Len(delivered[c]) + 1 IN
  /\ n \in DOMAIN sent[c]
  /\ delivered' = [delivered EXCEPT ![c] = Append(@, sent[c][n])]
  /\ UNCHANGED sent

Next == \E c \in Channels : Send(c) \/ Deliver(c)

Spec == Init /\ [][Next]_<<sent, delivered>>
=============================================================================
