---------------------------- MODULE ProxyClient ----------------------------
(***************************************************************************)
(* The data plane of the remote proxy client (libremoteproxy): the channel *)
(* manager ClientChannelMannager and the two netty handlers that call it,  *)
(* ClientChannelHandler (control and data channels to the proxy server)    *)
(* and RealServerChannelHandler (channels to the local servers).           *)
(*                                                                         *)
(* Each channel belongs to one event loop and a loop runs one callback at  *)
(* a time, but different channels' loops run concurrently and share the    *)
(* pool, the map and each other's NEXT_CHANNEL attribute without a lock.   *)
(* An action is the longest piece of a callback that no other loop can     *)
(* observe half done.  Every channel gets a loop of its own here, which    *)
(* allows every interleaving that sharing a loop would.                    *)
(*                                                                         *)
(* Left out: payload bytes, heartbeats, and the AUTO_READ toggling of      *)
(* channelWritabilityChanged (flow control).  The proxy server is not in   *)
(* the repository; the Server actions are what this client relies on.      *)
(***************************************************************************)
EXTENDS Naturals, SequencesExt

CONSTANTS
  Reals,        \* identities for channels to real servers; reused once dead
  Proxies,      \* identities for data channels to the proxy server; reused
  Users,        \* user ids the proxy server hands out
  None,         \* "null"
  MaxPoolSize,  \* MAX_POOL_SIZE
  MaxUp,        \* bound on a data channel's queue for another TRANSFER up
  MaxDown,      \* bound on a data channel's queue for another TRANSFER down
  FreshIds      \* TRUE: the server never reuses an id the client still holds

ASSUME ProxyClientAssumption ==
  /\ None \notin Reals \cup Proxies \cup Users
  /\ Reals \cap Proxies = {}
  /\ MaxPoolSize \in Nat
  /\ MaxUp \in Nat /\ MaxDown \in Nat
  /\ FreshIds \in BOOLEAN

VARIABLES
  stage,      \* how far handleConnectMessage and its callbacks got, per real
  user,       \* the userId captured by those callbacks
  realSock,   \* the real channel: none, open, closed (event pending), dead
  userId,     \* attribute USER_ID of the real channel
  nextOfReal, \* attribute NEXT_CHANNEL of the real channel
  lease,      \* the polled channel borrowListener.success is about to bind
  pooled,     \* TRUE: success runs on the real channel's loop (pooled channel)
  received,   \* ids whose data was written to the real channel
  proxySock,  \* the data channel: none, open, closed (event pending), dead
  nextOfProxy,\* attribute NEXT_CHANNEL of the data channel
  toClose,    \* real channel handleDisconnectMessage has still to close
  up,         \* messages on the data channel, client to server
  down,       \* messages on the data channel, server to client
  bound,      \* the user the server has bound to the data channel
  pool,       \* proxyChannelPool
  realServerChannels,
  closing,    \* channels whose close has been requested
  urgent,     \* the real channels of it that do not wait for their buffer
  cmd,        \* the control channel, as seen by its own handler
  served      \* users the server is serving through this client

realVars   == <<stage, user, realSock, userId, nextOfReal, lease, pooled, received>>
proxyVars  == <<proxySock, nextOfProxy, toClose>>
wireVars   == <<up, down, bound>>
sharedVars == <<pool, realServerChannels>>
vars == <<realVars, proxyVars, wireVars, sharedVars, closing, urgent, cmd,
          served>>

Stages   == {"idle", "connecting", "dialing", "leased", "bound", "mapped",
             "done", "failed"}
Sockets  == {"none", "open", "closed", "dead"}
CmdState == {"up", "lost", "clearing", "waiting"}

Msg == [type : {"CONNECT", "TRANSFER", "DISCONNECT"}, user : Users \cup {None}]
Message(t, u) == [type |-> t, user |-> u]

(* writeAndFlush on a data channel: lost unless the channel is open. *)
Sent(p, t, u) ==
  IF proxySock[p] = "open"
  THEN [up EXCEPT ![p] = Append(@, Message(t, u))]
  ELSE up

(* Channels of the current event loop group that shutdownGracefully closes. *)
LiveChannels ==
  {r \in Reals : stage[r] = "connecting" \/ realSock[r] = "open"}
    \cup {p \in Proxies : proxySock[p] = "open"}

(* An identity may name a new channel once nothing can reach the old one. *)
FreeReal(r) ==
  \/ stage[r] = "idle"
  \/ /\ stage[r] \in {"done", "failed"} /\ realSock[r] = "dead"
     /\ \A u \in Users : realServerChannels[u] # r
     /\ \A p \in Proxies :
          toClose[p] # r /\ (nextOfProxy[p] = r => proxySock[p] = "dead")

FreeProxy(p) ==
  \/ proxySock[p] = "none"
  \/ /\ proxySock[p] = "dead" /\ ~Contains(pool, p)
     /\ \A r \in Reals :
          lease[r] # p /\ (nextOfReal[r] = p => realSock[r] = "dead")

(* The loop of a real channel runs success() when the channel was pooled;  *)
(* the loop of a data channel runs it when the channel was just dialled.   *)
RealLoopBusy(r) == pooled[r] /\ stage[r] \in {"leased", "bound", "mapped"}
ProxyLoopBusy(p) ==
  \/ toClose[p] # None
  \/ \E r \in Reals : /\ ~pooled[r] /\ stage[r] \in {"bound", "mapped"}
                      /\ nextOfReal[r] = p

Init ==
  /\ stage = [r \in Reals |-> "idle"]
  /\ user = [r \in Reals |-> None]
  /\ realSock = [r \in Reals |-> "none"]
  /\ userId = [r \in Reals |-> None]
  /\ nextOfReal = [r \in Reals |-> None]
  /\ lease = [r \in Reals |-> None]
  /\ pooled = [r \in Reals |-> FALSE]
  /\ received = [r \in Reals |-> {}]
  /\ proxySock = [p \in Proxies |-> "none"]
  /\ nextOfProxy = [p \in Proxies |-> None]
  /\ toClose = [p \in Proxies |-> None]
  /\ up = [p \in Proxies |-> <<>>]
  /\ down = [p \in Proxies |-> <<>>]
  /\ bound = [p \in Proxies |-> None]
  /\ pool = <<>>
  /\ realServerChannels = [u \in Users |-> None]
  /\ closing = {} /\ urgent = {}
  /\ cmd = "up"
  /\ served = {}

-----------------------------------------------------------------------------
(* Connection set-up: handleConnectMessage and borrowProxyChanel.          *)

(* TYPE_CONNECT(u) arrives on the control channel: connect to the local    *)
(* server on a new channel r.                                              *)
HandleConnect(u, r) ==
  /\ cmd = "up"
  /\ u \notin served
  /\ FreshIds => \A q \in Reals : user[q] = u => FreeReal(q)
  /\ FreeReal(r)
  /\ served' = served \cup {u}
  /\ stage' = [stage EXCEPT ![r] = "connecting"]
  /\ user' = [user EXCEPT ![r] = u]
  /\ realSock' = [realSock EXCEPT ![r] = "none"]
  /\ userId' = [userId EXCEPT ![r] = None]
  /\ nextOfReal' = [nextOfReal EXCEPT ![r] = None]
  /\ lease' = [lease EXCEPT ![r] = None]
  /\ pooled' = [pooled EXCEPT ![r] = FALSE]
  /\ received' = [received EXCEPT ![r] = {}]
  /\ closing' = closing \ {r}
  /\ urgent' = urgent \ {r}
  /\ UNCHANGED <<proxyVars, wireVars, sharedVars, cmd>>

(* DISCONNECT(u) on the control channel, lost if that channel is gone: the *)
(* server lets the user go.                                                *)
TellServerOnCmd(u) ==
  served' = IF cmd = "up" THEN served \ {u} ELSE served

(* The local server cannot be reached. *)
ConnectFailed(r) ==
  /\ stage[r] = "connecting"
  /\ stage' = [stage EXCEPT ![r] = "idle"]
  /\ user' = [user EXCEPT ![r] = None]
  /\ closing' = closing \ {r}
  /\ urgent' = urgent \ {r}
  /\ TellServerOnCmd(user[r])
  /\ UNCHANGED <<realSock, userId, nextOfReal, lease, pooled, received,
                 proxyVars, wireVars, sharedVars, cmd>>

(* Connected: take a pooled data channel, or start dialling a new one. *)
ConnectDone(r) ==
  /\ stage[r] = "connecting"
  /\ r \notin closing
  /\ realSock' = [realSock EXCEPT ![r] = "open"]
  /\ IF pool # <<>>
     THEN /\ stage' = [stage EXCEPT ![r] = "leased"]
          /\ lease' = [lease EXCEPT ![r] = Head(pool)]
          /\ pooled' = [pooled EXCEPT ![r] = TRUE]
          /\ pool' = Tail(pool)
     ELSE /\ stage' = [stage EXCEPT ![r] = "dialing"]
          /\ UNCHANGED <<lease, pooled, pool>>
  /\ UNCHANGED <<user, userId, nextOfReal, received, proxyVars, wireVars,
                 realServerChannels, closing, urgent, cmd, served>>

(* The dialled data channel p is up: success() starts on p's loop. *)
DialDone(r, p) ==
  /\ stage[r] = "dialing"
  /\ FreeProxy(p)
  /\ stage' = [stage EXCEPT ![r] = "leased"]
  /\ lease' = [lease EXCEPT ![r] = p]
  /\ proxySock' = [proxySock EXCEPT ![p] = "open"]
  /\ nextOfProxy' = [nextOfProxy EXCEPT ![p] = None]
  /\ closing' = closing \ {p}
  /\ UNCHANGED <<user, realSock, userId, nextOfReal, pooled, received,
                 toClose, wireVars, sharedVars, urgent, cmd, served>>

(* The proxy server cannot be reached: error() tells it over the control   *)
(* channel.  The real channel stays open, with reading switched off.       *)
DialFailed(r) ==
  /\ stage[r] = "dialing"
  /\ stage' = [stage EXCEPT ![r] = "failed"]
  /\ TellServerOnCmd(user[r])
  /\ UNCHANGED <<user, realSock, userId, nextOfReal, lease, pooled, received,
                 proxyVars, wireVars, sharedVars, closing, urgent, cmd>>

(* success(): bind the two channels to each other, announce the user, and  *)
(* set AUTO_READ on the real channel.  A pooled channel is not checked for *)
(* still being active.                                                     *)
Bind(r) ==
  LET p == lease[r] IN
  /\ stage[r] = "leased"
  /\ stage' = [stage EXCEPT ![r] = "bound"]
  /\ lease' = [lease EXCEPT ![r] = None]
  /\ nextOfProxy' = [nextOfProxy EXCEPT ![p] = r]
  /\ nextOfReal' = [nextOfReal EXCEPT ![r] = p]
  /\ up' = Sent(p, "CONNECT", user[r])
  /\ UNCHANGED <<user, realSock, userId, pooled, received, proxySock,
                 toClose, down, bound, sharedVars, closing, urgent, cmd,
                 served>>

(* Mutant: the map is given the data channel instead of the real channel. *)
AddRealWrongChannel(r) ==
  /\ stage[r] = "bound"
  /\ stage' = [stage EXCEPT ![r] = "mapped"]
  /\ realServerChannels' = [realServerChannels EXCEPT ![user[r]] = nextOfReal[r]]
  /\ UNCHANGED <<user, realSock, userId, nextOfReal, lease, pooled, received,
                 proxyVars, wireVars, pool, closing, urgent, cmd, served>>

(* success(): addRealServerChannel. *)
AddReal(r) ==
  /\ stage[r] = "bound"
  /\ stage' = [stage EXCEPT ![r] = "mapped"]
  /\ realServerChannels' = [realServerChannels EXCEPT ![user[r]] = r]
  /\ UNCHANGED <<user, realSock, userId, nextOfReal, lease, pooled, received,
                 proxyVars, wireVars, pool, closing, urgent, cmd, served>>

(* success(): setRealServerChannelUserId, its last statement. *)
SetUserId(r) ==
  /\ stage[r] = "mapped"
  /\ stage' = [stage EXCEPT ![r] = "done"]
  /\ userId' = [userId EXCEPT ![r] = user[r]]
  /\ UNCHANGED <<user, realSock, nextOfReal, lease, pooled, received,
                 proxyVars, wireVars, sharedVars, closing, urgent, cmd,
                 served>>

-----------------------------------------------------------------------------
(* The real server's channel: RealServerChannelHandler.                    *)

(* Data from the local server.  NEXT_CHANNEL is set before reading starts  *)
(* and never cleared on this side, so the "no next channel" branch of      *)
(* channelRead0 has no step.                                               *)
RealRead(r) ==
  LET p == nextOfReal[r] IN
  /\ realSock[r] = "open" /\ p # None /\ ~RealLoopBusy(r)
  /\ Len(up[p]) < MaxUp
  /\ up' = Sent(p, "TRANSFER", userId[r])
  /\ UNCHANGED <<realVars, proxyVars, down, bound, sharedVars, closing,
                 urgent, cmd, served>>

(* The channel closes: asked to by a handler, or, once it is reading, by   *)
(* the local server or the network.  A close asked for with a flush may    *)
(* take as long as the local server leaves data unread.                    *)
RealClose(r) ==
  /\ realSock[r] = "open"
  /\ r \in closing \/ nextOfReal[r] # None
  /\ realSock' = [realSock EXCEPT ![r] = "closed"]
  /\ closing' = closing \ {r}
  /\ urgent' = urgent \ {r}
  /\ UNCHANGED <<stage, user, userId, nextOfReal, lease, pooled, received,
                 proxyVars, wireVars, sharedVars, cmd, served>>

(* Mutant: the data channel goes back to the pool as soon as the local     *)
(* connection is gone, before the server has answered.                     *)
RealInactiveReturnsChannel(r) ==
  LET u == userId[r]
      p == nextOfReal[r] IN
  /\ realSock[r] = "closed" /\ ~RealLoopBusy(r)
  /\ realSock' = [realSock EXCEPT ![r] = "dead"]
  /\ IF u = None \/ proxySock[p] # "open"
     THEN UNCHANGED <<realServerChannels, up, pool, nextOfProxy>>
     ELSE /\ realServerChannels' = [realServerChannels EXCEPT ![u] = None]
          /\ up' = Sent(p, "DISCONNECT", u)
          /\ nextOfProxy' = [nextOfProxy EXCEPT ![p] = None]
          /\ pool' = Append(pool, p)
  /\ UNCHANGED <<stage, user, userId, nextOfReal, lease, pooled, received,
                 proxySock, toClose, down, bound, closing, urgent, cmd,
                 served>>

(* Mutant: the dead connection is dropped from the map without a message.  *)
RealInactiveSilent(r) ==
  /\ realSock[r] = "closed" /\ ~RealLoopBusy(r)
  /\ realSock' = [realSock EXCEPT ![r] = "dead"]
  /\ realServerChannels' =
       [u \in Users |-> IF u = userId[r] THEN None ELSE realServerChannels[u]]
  /\ UNCHANGED <<stage, user, userId, nextOfReal, lease, pooled, received,
                 proxyVars, wireVars, pool, closing, urgent, cmd, served>>

(* channelInactive.  Without a USER_ID the map's remove(null) throws, and  *)
(* nothing else of the handler is executed.                                *)
RealInactive(r) ==
  LET u == userId[r]
      p == nextOfReal[r] IN
  /\ realSock[r] = "closed" /\ ~RealLoopBusy(r)
  /\ realSock' = [realSock EXCEPT ![r] = "dead"]
  /\ IF u = None
     THEN UNCHANGED <<realServerChannels, up>>
     ELSE /\ realServerChannels' = [realServerChannels EXCEPT ![u] = None]
          /\ up' = IF p # None THEN Sent(p, "DISCONNECT", u) ELSE up
  /\ UNCHANGED <<stage, user, userId, nextOfReal, lease, pooled, received,
                 proxyVars, down, bound, pool, closing, urgent, cmd, served>>

-----------------------------------------------------------------------------
(* The data channel to the proxy server: ClientChannelHandler.             *)

Arrives(p, t) ==
  /\ proxySock[p] = "open" /\ ~ProxyLoopBusy(p)
  /\ down[p] # <<>> /\ Head(down[p]).type = t
  /\ down' = [down EXCEPT ![p] = Tail(@)]

(* handleTransferMessage: write the data to whatever is bound right now. *)
HandleTransfer(p) ==
  LET r == nextOfProxy[p] IN
  /\ Arrives(p, "TRANSFER")
  /\ received' = IF r = None THEN received
                 ELSE [received EXCEPT ![r] = @ \cup {Head(down[p]).user}]
  /\ UNCHANGED <<stage, user, realSock, userId, nextOfReal, lease, pooled,
                 proxyVars, up, bound, sharedVars, closing, urgent, cmd,
                 served>>

(* handleDisconnectMessage up to and including returnProxyChanel: from     *)
(* here on another loop may borrow p while r is still to be closed.        *)
HandleDisconnect(p) ==
  LET r == nextOfProxy[p] IN
  /\ Arrives(p, "DISCONNECT")
  /\ IF r = None
     THEN UNCHANGED <<nextOfProxy, toClose, pool, closing>>
     ELSE /\ nextOfProxy' = [nextOfProxy EXCEPT ![p] = None]
          /\ toClose' = [toClose EXCEPT ![p] = r]
          /\ IF Len(pool) > MaxPoolSize
             THEN closing' = closing \cup {p} /\ UNCHANGED pool
             ELSE pool' = Append(pool, p) /\ UNCHANGED closing
  /\ UNCHANGED <<realVars, proxySock, up, bound, realServerChannels, urgent,
                 cmd, served>>

(* Mutant: the real channel is left open. *)
FinishDisconnectNoClose(p) ==
  /\ toClose[p] # None
  /\ toClose' = [toClose EXCEPT ![p] = None]
  /\ UNCHANGED <<realVars, proxySock, nextOfProxy, wireVars, sharedVars,
                 closing, urgent, cmd, served>>

(* handleDisconnectMessage, last statement: close the real channel once    *)
(* everything written to it is flushed.                                    *)
FinishDisconnect(p) ==
  /\ toClose[p] # None
  /\ closing' = closing \cup {q \in {toClose[p]} : realSock[q] = "open"}
  /\ toClose' = [toClose EXCEPT ![p] = None]
  /\ UNCHANGED <<realVars, proxySock, nextOfProxy, wireVars, sharedVars,
                 urgent, cmd, served>>

(* The data channel closes, on request or by itself; what is in flight is  *)
(* lost.                                                                   *)
ProxyClose(p) ==
  /\ proxySock[p] = "open"
  /\ proxySock' = [proxySock EXCEPT ![p] = "closed"]
  /\ up' = [up EXCEPT ![p] = <<>>]
  /\ down' = [down EXCEPT ![p] = <<>>]
  /\ bound' = [bound EXCEPT ![p] = None]
  /\ closing' = closing \ {p}
  /\ UNCHANGED <<realVars, nextOfProxy, toClose, sharedVars, urgent, cmd,
                 served>>

(* Mutant: channelInactive forgets removeProxyChanel. *)
RemoveNothing(p) == UNCHANGED pool

(* ConcurrentLinkedQueue.remove(o) drops the first occurrence, if any. *)
RemoveProxyChanel(p) == pool' = RemoveFirst(pool, p)

(* Mutant: channelInactive does not close the bound real channel. *)
ProxyInactiveNoClose(p) ==
  /\ proxySock[p] = "closed" /\ ~ProxyLoopBusy(p)
  /\ proxySock' = [proxySock EXCEPT ![p] = "dead"]
  /\ RemoveProxyChanel(p)
  /\ UNCHANGED <<realVars, nextOfProxy, toClose, wireVars,
                 realServerChannels, closing, urgent, cmd, served>>

(* channelInactive of a data channel. *)
ProxyInactive(p) ==
  LET r == nextOfProxy[p] IN
  /\ proxySock[p] = "closed" /\ ~ProxyLoopBusy(p)
  /\ proxySock' = [proxySock EXCEPT ![p] = "dead"]
  /\ LET now == {q \in {r} \ {None} : realSock[q] = "open"} IN
     closing' = closing \cup now /\ urgent' = urgent \cup now
  /\ RemoveProxyChanel(p)
  /\ UNCHANGED <<realVars, nextOfProxy, toClose, wireVars,
                 realServerChannels, cmd, served>>

-----------------------------------------------------------------------------
(* The control channel.                                                    *)

CmdClose ==
  /\ cmd = "up"
  /\ cmd' = "lost"
  /\ UNCHANGED <<realVars, proxyVars, wireVars, sharedVars, closing, urgent,
                 served>>

(* Mutant: the map is cleared without closing what is in it. *)
CmdInactiveNoClose ==
  /\ cmd = "lost"
  /\ cmd' = "clearing"
  /\ UNCHANGED <<realVars, proxyVars, wireVars, sharedVars, closing, urgent,
                 served>>

(* channelInactive of the control channel: setCmdChannel(null), then the   *)
(* loop of clearRealServerChannels over the map, which closes each channel *)
(* once everything written to it is flushed.                               *)
CmdInactive ==
  /\ cmd = "lost"
  /\ cmd' = "clearing"
  /\ closing' = closing \cup
       {r \in Reals : realSock[r] = "open"
                      /\ \E u \in Users : realServerChannels[u] = r}
  /\ UNCHANGED <<realVars, proxyVars, wireVars, sharedVars, urgent, served>>

(* realServerChannels.clear(): entries added after the loop go unclosed. *)
ClearRealServerChannels ==
  /\ cmd = "clearing"
  /\ cmd' = "waiting"
  /\ realServerChannels' = [u \in Users |-> None]
  /\ UNCHANGED <<realVars, proxyVars, wireVars, pool, closing, urgent,
                 served>>

(* Mutant: the old event loop group is not shut down before init(). *)
ReconnectWithoutStop ==
  /\ cmd = "waiting"
  /\ cmd' = "up"
  /\ UNCHANGED <<realVars, proxyVars, wireVars, sharedVars, closing, urgent,
                 served>>

(* The channel status listener: stop() closes every channel of the old     *)
(* event loop group, and a new control channel comes up.                   *)
Reconnect ==
  /\ cmd = "waiting"
  /\ cmd' = "up"
  /\ closing' = closing \cup LiveChannels
  /\ urgent' = urgent \cup (LiveChannels \cap Reals)
  /\ UNCHANGED <<realVars, proxyVars, wireVars, sharedVars, served>>

-----------------------------------------------------------------------------
(* The proxy server, outside the repository.                               *)

ServerTakes(p, t) ==
  /\ up[p] # <<>> /\ Head(up[p]).type = t
  /\ up' = [up EXCEPT ![p] = Tail(@)]

(* CONNECT binds the data channel to a user who is still there. *)
ServerBind(p) ==
  LET u == Head(up[p]).user IN
  /\ ServerTakes(p, "CONNECT")
  /\ bound' = IF u \in served /\ \A q \in Proxies : bound[q] # u
              THEN [bound EXCEPT ![p] = u] ELSE bound
  /\ UNCHANGED <<realVars, proxyVars, down, sharedVars, closing, urgent, cmd,
                 served>>

ServerReceive(p) ==
  /\ ServerTakes(p, "TRANSFER")
  /\ UNCHANGED <<realVars, proxyVars, down, bound, sharedVars, closing,
                 urgent, cmd, served>>

(* The server unbinds p and says so: one DISCONNECT for each binding. *)
ServerUnbinds(p) ==
  /\ bound' = [bound EXCEPT ![p] = None]
  /\ down' = [down EXCEPT ![p] = Append(@, Message("DISCONNECT", bound[p]))]

(* DISCONNECT on a data channel ends whichever user is bound to it. *)
ServerDisconnect(p) ==
  /\ ServerTakes(p, "DISCONNECT")
  /\ IF bound[p] = None
     THEN UNCHANGED <<down, bound, served>>
     ELSE ServerUnbinds(p) /\ served' = served \ {bound[p]}
  /\ UNCHANGED <<realVars, proxyVars, sharedVars, closing, urgent, cmd>>

(* The user leaves. *)
UserGone(u) ==
  /\ u \in served
  /\ served' = served \ {u}
  /\ \/ /\ \A p \in Proxies : bound[p] # u
        /\ UNCHANGED <<down, bound>>
     \/ \E p \in Proxies : bound[p] = u /\ ServerUnbinds(p)
  /\ UNCHANGED <<realVars, proxyVars, up, sharedVars, closing, urgent, cmd>>

ServerSend(p) ==
  /\ bound[p] # None
  /\ Len(down[p]) < MaxDown
  /\ down' = [down EXCEPT ![p] = Append(@, Message("TRANSFER", bound[p]))]
  /\ UNCHANGED <<realVars, proxyVars, up, bound, sharedVars, closing, urgent,
                 cmd, served>>

-----------------------------------------------------------------------------
RealStep(r) ==
  \/ ConnectFailed(r) \/ ConnectDone(r) \/ DialFailed(r)
  \/ Bind(r) \/ AddReal(r) \/ SetUserId(r)
  \/ RealRead(r) \/ RealClose(r) \/ RealInactive(r)

ProxyStep(p) ==
  \/ HandleTransfer(p) \/ HandleDisconnect(p) \/ FinishDisconnect(p)
  \/ ProxyClose(p) \/ ProxyInactive(p)

CmdStep == CmdClose \/ CmdInactive \/ ClearRealServerChannels \/ Reconnect

ServerStep ==
  \/ \E p \in Proxies : ServerBind(p) \/ ServerReceive(p)
                        \/ ServerDisconnect(p) \/ ServerSend(p)
  \/ \E u \in Users : UserGone(u)

Next ==
  \/ \E u \in Users, r \in Reals : HandleConnect(u, r)
  \/ \E r \in Reals : RealStep(r)
  \/ \E r \in Reals, p \in Proxies : DialDone(r, p)
  \/ \E p \in Proxies : ProxyStep(p)
  \/ CmdStep
  \/ ServerStep

Spec == Init /\ [][Next]_vars

(* An event loop runs what was submitted to it: a requested close, the     *)
(* inactive event that follows, the rest of a callback once begun.  A      *)
(* close that waits for a buffer to drain is up to the local server.       *)
Fairness ==
  /\ \A r \in Reals : /\ WF_vars(r \in urgent /\ RealClose(r))
                      /\ WF_vars(RealInactive(r))
                      /\ WF_vars(Bind(r)) /\ WF_vars(AddReal(r))
                      /\ WF_vars(SetUserId(r))
  /\ \A p \in Proxies : /\ WF_vars(p \in closing /\ ProxyClose(p))
                        /\ WF_vars(ProxyInactive(p))
                        /\ WF_vars(FinishDisconnect(p))
  /\ WF_vars(CmdInactive) /\ WF_vars(ClearRealServerChannels)

FairSpec == Spec /\ Fairness

-----------------------------------------------------------------------------
TypeOK ==
  /\ stage \in [Reals -> Stages]
  /\ user \in [Reals -> Users \cup {None}]
  /\ realSock \in [Reals -> Sockets]
  /\ userId \in [Reals -> Users \cup {None}]
  /\ nextOfReal \in [Reals -> Proxies \cup {None}]
  /\ lease \in [Reals -> Proxies \cup {None}]
  /\ pooled \in [Reals -> BOOLEAN]
  /\ received \in [Reals -> SUBSET (Users \cup {None})]
  /\ proxySock \in [Proxies -> Sockets]
  /\ nextOfProxy \in [Proxies -> Reals \cup {None}]
  /\ toClose \in [Proxies -> Reals \cup {None}]
  /\ up \in [Proxies -> Seq(Msg)]
  /\ down \in [Proxies -> Seq(Msg)]
  /\ bound \in [Proxies -> Users \cup {None}]
  /\ pool \in Seq(Proxies)
  /\ realServerChannels \in [Users -> Reals \cup {None}]
  /\ closing \in SUBSET (Reals \cup Proxies)
  /\ urgent \in SUBSET (closing \cap Reals)
  /\ cmd \in CmdState
  /\ served \in SUBSET Users

(* borrowProxyChanel hands a channel to one caller only, and never one     *)
(* that a local connection still uses: a pooled channel is bound to        *)
(* nothing, sits in the pool once, is not being bound by a callback, and   *)
(* leaves the pool when its inactive event is handled.                     *)
PoolDetached ==
  /\ \A i, j \in 1..Len(pool) : pool[i] = pool[j] => i = j
  /\ \A i \in 1..Len(pool) :
       /\ nextOfProxy[pool[i]] = None
       /\ proxySock[pool[i]] # "dead"
       /\ \A r \in Reals : lease[r] # pool[i]

(* What makes PoolDetached inductive: the data channel a callback holds    *)
(* between poll (or dial) and setAttr is as detached as a pooled one.      *)
LeaseDetached ==
  \A r \in Reals : lease[r] # None =>
    /\ nextOfProxy[lease[r]] = None
    /\ proxySock[lease[r]] # "none"
    /\ \A q \in Reals : lease[q] = lease[r] => q = r

PoolInv ==
  /\ PoolDetached
  /\ \A i \in 1..Len(pool) : proxySock[pool[i]] # "none"
  /\ LeaseDetached

(* Data of one user is never written to another user's local connection,   *)
(* although data channels are pooled and handed from user to user.         *)
ReceivedOwnUser == \A r \in Reals : received[r] \subseteq {user[r]}

(* The only local connections that still write to a data channel that is   *)
(* no longer theirs are those the disconnect handler is closing.           *)
DetachedRealIsClosing ==
  \A r \in Reals, p \in Proxies :
    nextOfReal[r] = p /\ nextOfProxy[p] # r
      => r \in closing \/ realSock[r] # "open" \/ \E q \in Proxies : toClose[q] = r

(* What makes it inductive: a data channel something points to was opened, *)
(* and a channel still connecting points to nothing.                       *)
DetachInv ==
  /\ DetachedRealIsClosing
  /\ \A r \in Reals, p \in Proxies : nextOfReal[r] = p => proxySock[p] # "none"
  /\ \A r \in Reals : stage[r] = "connecting" => nextOfReal[r] = None

IInv == TypeOK /\ PoolInv /\ DetachInv

(* A local connection that died is known to be dead to the proxy server:   *)
(* if the server still has the user bound to the data channel, the         *)
(* DISCONNECT is on its way.                                               *)
HalfOpen(r, p) ==
  /\ realSock[r] = "dead" /\ nextOfReal[r] = p /\ nextOfProxy[p] = r
  /\ proxySock[p] = "open" /\ bound[p] = user[r]
  /\ \A i \in 1..Len(up[p]) : up[p][i].type # "DISCONNECT"

NoHalfOpen == \A r \in Reals, p \in Proxies : ~HalfOpen(r, p)

(* The refinement mapping to Tunnel.  A data channel belongs to the local   *)
(* connection a callback is about to bind it to, then to the one it is     *)
(* bound to, and to nobody once it is dead.                                *)
Owner ==
  [p \in Proxies |->
     IF \E r \in Reals : lease[r] = p THEN CHOOSE r \in Reals : lease[r] = p
     ELSE IF proxySock[p] = "dead" THEN None ELSE nextOfProxy[p]]

Life ==
  [r \in Reals |-> CASE stage[r] = "idle" -> "unused"
                     [] stage[r] \in {"connecting", "dialing"} -> "waiting"
                     [] stage[r] = "failed" -> "refused"
                     [] OTHER -> "served"]

T == INSTANCE Tunnel WITH owner <- Owner, life <- Life

(* The handlers, the pool and the callbacks on several event loops         *)
(* implement Tunnel: no data channel serves two local connections, none is *)
(* handed on before it was given up, and nobody gets another user's data.  *)
ImplementsTunnel == T!Spec

(* With a channel from the pool the whole of success() runs on the local   *)
(* connection's own loop, so no dead connection is left half open or in    *)
(* realServerChannels.                                                     *)
PooledPathCleansUp ==
  \A r \in Reals : pooled[r] /\ realSock[r] = "dead" =>
    /\ \A p \in Proxies : ~HalfOpen(r, p)
    /\ \A u \in Users : realServerChannels[u] # r

(* While the control channel is up, every established local connection is  *)
(* in the map under its user, so that losing the control channel closes it *)
(* (the server does not reuse ids).                                        *)
EstablishedIsMapped ==
  \A r \in Reals :
    cmd = "up" /\ stage[r] = "done" /\ realSock[r] = "open" /\ r \notin closing
      => realServerChannels[user[r]] = r

(* r is open and nobody is closing it, but its data channel is gone. *)
Stranded(r, p) ==
  /\ realSock[r] = "open" /\ r \notin closing
  /\ nextOfReal[r] = p /\ nextOfProxy[p] = r /\ proxySock[p] = "dead"

(* The pool does not check that a channel is alive, so success() may bind  *)
(* a local connection to a dead one.  There is no other way to leave it on *)
(* one: a channel that dies at any point after setAttr, with success()     *)
(* still running or not, takes its local connection with it.               *)
StrandedOnlyByBinding ==
  [][\A r \in Reals, p \in Proxies :
       Stranded(r, p)' => Stranded(r, p) \/ nextOfReal[r] # p]_vars

(* A local connection whose data channel is lost is closed. *)
DataLossClosesReal ==
  \A r \in Reals, p \in Proxies :
    (nextOfProxy[p] = r /\ proxySock[p] = "closed") ~> (realSock[r] # "open")

(* A local server that goes on reading drains the buffer, so that a close  *)
(* waiting for it happens.                                                 *)
Drains(r) == WF_vars(r \in closing /\ RealClose(r))

(* Every local connection in the map when the control channel is lost is   *)
(* closed: by clearRealServerChannels if its local server goes on reading, *)
(* and if it does not, by the shutdown of the event loop group when the    *)
(* client gets through to the proxy server again.                          *)
CmdLossClosesMapped ==
  \A r \in Reals :
    Drains(r) \/ WF_vars(Reconnect) =>
      \A u \in Users :
        (cmd = "lost" /\ realServerChannels[u] = r) ~> (realSock[r] # "open")
=============================================================================
