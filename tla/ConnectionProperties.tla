------------------------ MODULE ConnectionProperties ------------------------
(***************************************************************************)
(* What the client of module Connection is supposed to guarantee.          *)
(***************************************************************************)
EXTENDS Connection

Last(s) == s[Len(s)]

(* No call is in progress and nothing is under way to or from the broker.  *)
Quiet ==
  /\ exc = "none" /\ stack = <<>>
  /\ toClient = <<>> /\ \A id \in Ids0 : toServer[id] = <<>>

Connected == connection[0] /\ sock /\ bconn = "open"

(* A promise in _pending (abstract_channel.py wait/dispatch_method) is the *)
(* promise of a call that is still in progress, on that channel, for that  *)
(* method: the finally clause of wait() leaves no promise of a call that   *)
(* has returned or raised, for a later reply to fulfil instead of its own. *)
(* What a nested call will put back (prev_p) belongs to a call further out *)
(* on the same channel that waits for the same method.                     *)
PendingLive ==
  /\ \A c \in Obj, m \in Replies :
       LET p == pending[c][m] IN
       p # 0 => p \in DOMAIN stack /\ stack[p].ch = c /\ m \in stack[p].on
  /\ \A i \in DOMAIN stack : \A m \in stack[i].on :
       LET p == stack[i].prev[m] IN
       p # 0 => p < i /\ stack[p].ch = stack[i].ch /\ m \in stack[p].on

(* No promise is lost: while no exception is being raised, every method a  *)
(* call still waits for leads to it, from _pending, from the prev_p of a   *)
(* call nested in it, or as the one_shot of a dispatch in progress.        *)
PromiseKept ==
  exc = "none" =>
  \A i \in DOMAIN stack : \A m \in stack[i].on :
    stack[i].ready \/ stack[i].got # NoMsg
    \/ pending[stack[i].ch][m] = i
    \/ \E j \in i + 1 .. Len(stack) :
         \/ stack[j].ch = stack[i].ch /\ m \in stack[j].on /\ stack[j].prev[m] = i
         \/ stack[j].shot = i

(* A call returns the reply to its own request, as long as no other        *)
(* request with the same reply was outstanding on the channel with it:     *)
(* whatever else is dispatched by, and nested in, its wait().              *)
ReplyMatches ==
  \A i \in DOMAIN stack :
    stack[i].op \in WaitOps /\ stack[i].ready /\ stack[i].alone
      => stack[i].got.rid = stack[i].req.rid

(* basic_publish_confirm returns only for a message that the broker has    *)
(* acknowledged (under the same condition): a Nack, a timeout or a lost    *)
(* channel surface as an exception, also when the answer is dispatched by  *)
(* a call nested in the wait.                                              *)
PublishedIsAcked ==
  \A i \in DOMAIN stack :
    stack[i].op = "confirm" /\ stack[i].ready /\ stack[i].alone
      => stack[i].got.m = "BasicAck" /\ stack[i].got.rid = stack[i].req.rid

(* Connection.close() that returns, or fails with OSError, leaves the      *)
(* connection collected: transport closed, and no channel with it.         *)
ClosedIsCollected ==
  [][(/\ stack # <<>> /\ Top.op = "connclose" /\ Len(stack') < Len(stack)
      /\ exc \in {"none", "OSError"})
       => ~sock' /\ \A c \in Obj : ~connection'[c]]_vars

(* The registry of the connection (channels, _used_channel_ids) and the    *)
(* attributes of the channel objects (channel_id, connection) agree: ids   *)
(* in use are those registered, a channel that can send is registered      *)
(* under its own id, and none can send once the connection is collected.   *)
IdsConsistent ==
  /\ connection[0] => used = {id \in Ids : channels[id] # 0}
  /\ ~connection[0] => \A id \in Ids : channels[id] = 0
  /\ \A c \in Chan : connection[c] =>
       connection[0] /\ channel_id[c] \in Ids /\ channels[channel_id[c]] = c

(* When close() has released a channel id for reuse, nothing is under way  *)
(* to the client on it, and the broker has closed its end or, when its own *)
(* Close crossed the client's, is about to get the Close-Ok it waits for:  *)
(* the next channel with this id receives nothing meant for the last.      *)
FreedIdIsQuiet ==
  Connected =>
  \A id \in Ids : channels[id] = 0 =>
    /\ \A i \in DOMAIN toClient : toClient[i].ch # id
    /\ \/ bchan[id] = "closed" /\ toServer[id] = <<>>
       \/ /\ bchan[id] = "closing"
          /\ toServer[id] # <<>> /\ Last(toServer[id]).m = "ChannelCloseOk"

(* A client in use never breaks the rules of the protocol for channels: it *)
(* opens closed channels only and uses open ones only, across close(),     *)
(* errors raised by the broker and the revival of the channel.             *)
NoProtocolError == bconn # "failed"

(* When all is quiet, client and broker agree on which channels are open.  *)
OpenAgrees ==
  Quiet /\ Connected =>
  \A c \in Chan : connection[c] => (is_open[c] <=> bchan[channel_id[c]] = "open")

(* A message that is delivered reaches the callback given to the           *)
(* basic_consume call it is delivered for: the tag is registered by then,  *)
(* and not by another call.  It holds when nothing is dispatched or raised *)
(* between Consume-Ok and the return of basic_consume (channel.py): in     *)
(* callbacks that make no call that waits, without nowait, and without     *)
(* errors of channels.                                                     *)
DeliveryReachesConsumer ==
  Reading /\ toClient # <<>> /\ In.m = "BasicDeliver" /\ Target # 0
    => is_closing[Target] \/ callbacks[Target][In.tag] = In.rid

(* _confirm_selected says that the broker confirms what is published.      *)
ConfirmAgrees ==
  Quiet /\ Connected =>
  \A c \in Chan : connection[c] /\ confirm_selected[c] => bconfirm[channel_id[c]]

(* Every call into the library comes back, with a result or an exception.  *)
CallsReturn == (stack # <<>>) ~> (stack = <<>>)
=============================================================================
