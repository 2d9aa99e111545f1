----------------------------- MODULE FlowControl -----------------------------
(***************************************************************************)
(* Flow control between a data channel and the local connections it serves *)
(* one after another (libremoteproxy).  When one side's send buffer fills, *)
(* its channelWritabilityChanged switches AUTO_READ off on the other side, *)
(* and on again when it has drained.  Handing the data channel from one    *)
(* local connection to the next does not wait for the events of the first, *)
(* and NEXT_CHANNEL of a local connection is never cleared, so an old      *)
(* connection can switch reading off on a channel that serves another one. *)
(* The reader idle timer of IdleCheckHandler is what ends that.            *)
(*                                                                         *)
(* The connections' loops run concurrently with the data channel's; each   *)
(* action is one callback.  netty announces a change of isWritable() by an *)
(* event executed later, and a closed channel is never writable.           *)
(***************************************************************************)
CONSTANTS
  Reals,  \* local connections; an identity is reused when nothing is left
  None    \* "null"

VARIABLES
  proxy,       \* the data channel: "none", "bound", "pooled" or "closed"
  nextOfProxy, \* its NEXT_CHANNEL
  proxyRead,   \* its AUTO_READ
  proxyRoom,   \* its isWritable()
  proxyEvent,  \* its channelWritabilityChanged has still to run
  real,        \* each local connection
  close,       \* how it was asked to close: "no", "flush" or "now"
  realRead, realRoom, realEvent

proxyVars == <<proxy, nextOfProxy, proxyRead, proxyRoom, proxyEvent>>
realVars  == <<real, close, realRead, realRoom, realEvent>>
vars == <<proxyVars, realVars>>

Open == proxy \in {"bound", "pooled"}

(* Every connection that was served has gone, its events with it. *)
NobodyLeft == \A r \in Reals : real[r] = "none"

Init ==
  /\ proxy = "none" /\ nextOfProxy = None
  /\ proxyRead = TRUE /\ proxyRoom = TRUE /\ proxyEvent = FALSE
  /\ real = [r \in Reals |-> "none"]
  /\ close = [r \in Reals |-> "no"]
  /\ realRead = [r \in Reals |-> FALSE]
  /\ realRoom = [r \in Reals |-> TRUE]
  /\ realEvent = [r \in Reals |-> FALSE]

-----------------------------------------------------------------------------
(* success(): a pooled or a newly dialled channel is bound to r, whose     *)
(* AUTO_READ was switched off when it was connected ...                    *)
Bind(r) ==
  /\ real[r] = "none"
  /\ \/ proxy = "pooled" /\ UNCHANGED <<proxyRead, proxyRoom, proxyEvent>>
     \/ /\ proxy \in {"none", "closed"} /\ NobodyLeft
        /\ proxyRead' = TRUE /\ proxyRoom' = TRUE /\ proxyEvent' = FALSE
  /\ proxy' = "bound"
  /\ nextOfProxy' = r
  /\ real' = [real EXCEPT ![r] = "binding"]
  /\ close' = [close EXCEPT ![r] = "no"]
  /\ realRead' = [realRead EXCEPT ![r] = FALSE]
  /\ realRoom' = [realRoom EXCEPT ![r] = TRUE]
  /\ UNCHANGED realEvent

(* ... and switched on after the CONNECT was written. *)
StartReading(r) ==
  /\ real[r] = "binding"
  /\ real' = [real EXCEPT ![r] = "serving"]
  /\ realRead' = [realRead EXCEPT ![r] = TRUE]
  /\ UNCHANGED <<proxyVars, close, realRoom, realEvent>>

(* handleDisconnectMessage and returnProxyChanel: the channel is bound to  *)
(* nobody, and readable and pooled, or closed when the pool is full; the   *)
(* local connection closes once what was written to it is flushed.         *)
HandleDisconnect ==
  LET r == nextOfProxy IN
  /\ proxy = "bound" /\ proxyRead
  /\ nextOfProxy' = None
  /\ \/ proxy' = "pooled" /\ proxyRead' = TRUE /\ UNCHANGED proxyRoom
     \/ proxy' = "closed" /\ proxyRoom' = FALSE /\ UNCHANGED proxyRead
  /\ close' = [close EXCEPT ![r] = IF real[r] = "dead" THEN @ ELSE "flush"]
  /\ UNCHANGED <<proxyEvent, real, realRead, realRoom, realEvent>>

-----------------------------------------------------------------------------
(* Send buffers.                                                           *)

(* A local connection that is read, old or new, fills the data channel. *)
ProxyFills ==
  /\ Open /\ proxyRoom
  /\ \E r \in Reals : real[r] = "serving" /\ realRead[r]
  /\ proxyRoom' = FALSE /\ proxyEvent' = TRUE
  /\ UNCHANGED <<proxy, nextOfProxy, proxyRead, realVars>>

ProxyDrains ==
  /\ Open /\ ~proxyRoom
  /\ proxyRoom' = TRUE /\ proxyEvent' = TRUE
  /\ UNCHANGED <<proxy, nextOfProxy, proxyRead, realVars>>

(* The data channel that is read fills the local connection it serves. *)
RealFills(r) ==
  /\ Open /\ proxyRead /\ nextOfProxy = r
  /\ real[r] # "dead" /\ realRoom[r]
  /\ realRoom' = [realRoom EXCEPT ![r] = FALSE]
  /\ realEvent' = [realEvent EXCEPT ![r] = TRUE]
  /\ UNCHANGED <<proxyVars, real, close, realRead>>

RealDrains(r) ==
  /\ real[r] \in {"binding", "serving"} /\ ~realRoom[r]
  /\ realRoom' = [realRoom EXCEPT ![r] = TRUE]
  /\ realEvent' = [realEvent EXCEPT ![r] = TRUE]
  /\ UNCHANGED <<proxyVars, real, close, realRead>>

(* Mutant: the pause is handed on, its end is not. *)
ProxyWritabilityPausesOnly ==
  LET r == nextOfProxy IN
  /\ proxyEvent
  /\ proxyEvent' = FALSE
  /\ realRead' = IF r = None \/ proxyRoom THEN realRead
                 ELSE [realRead EXCEPT ![r] = FALSE]
  /\ UNCHANGED <<proxy, nextOfProxy, proxyRead, proxyRoom, real, close,
                 realRoom, realEvent>>

(* ClientChannelHandler.channelWritabilityChanged: read what is bound to   *)
(* the data channel now as long as the channel has room now.               *)
ProxyWritabilityChanged ==
  LET r == nextOfProxy IN
  /\ proxyEvent
  /\ proxyEvent' = FALSE
  /\ realRead' = IF r = None THEN realRead
                 ELSE [realRead EXCEPT ![r] = proxyRoom]
  /\ UNCHANGED <<proxy, nextOfProxy, proxyRead, proxyRoom, real, close,
                 realRoom, realEvent>>

(* RealServerChannelHandler.channelWritabilityChanged: on the data channel *)
(* r once had, whoever has it now.                                         *)
RealWritabilityChanged(r) ==
  /\ realEvent[r] /\ real[r] # "binding"
  /\ realEvent' = [realEvent EXCEPT ![r] = FALSE]
  /\ proxyRead' = (real[r] # "dead" /\ realRoom[r])
  /\ UNCHANGED <<proxy, nextOfProxy, proxyRoom, proxyEvent, real, close,
                 realRead, realRoom>>

-----------------------------------------------------------------------------
(* Closing.                                                                *)

(* The local connection closes: on request, or because the local server or *)
(* the network ended it, which is noticed by reading or by writing.        *)
RealCloses(r) ==
  /\ real[r] = "serving"
  /\ \/ close[r] = "now"
     \/ close[r] = "flush" /\ realRoom[r]
     \/ realRead[r] \/ ~realRoom[r]
  /\ real' = [real EXCEPT ![r] = "dead"]
  /\ realRoom' = [realRoom EXCEPT ![r] = FALSE]
  /\ realRead' = [realRead EXCEPT ![r] = FALSE]
  /\ UNCHANGED <<proxyVars, close, realEvent>>

(* A dead connection is forgotten when nobody refers to it: an event that  *)
(* netty has not delivered by then is dropped with the channel.            *)
Forget(r) ==
  /\ real[r] = "dead" /\ (nextOfProxy # r \/ proxy = "closed")
  /\ real' = [real EXCEPT ![r] = "none"]
  /\ realEvent' = [realEvent EXCEPT ![r] = FALSE]
  /\ UNCHANGED <<proxyVars, close, realRead, realRoom>>

(* channelInactive of the data channel closes the connection it serves. *)
ProxyCloses ==
  /\ Open
  /\ proxy' = "closed"
  /\ proxyRoom' = FALSE
  /\ close' = [r \in Reals |-> IF r = nextOfProxy /\ real[r] # "dead"
                               THEN "now" ELSE close[r]]
  /\ UNCHANGED <<nextOfProxy, proxyRead, proxyEvent, real, realRead, realRoom,
                 realEvent>>

(* Mutant: the idle check sends heartbeats and never closes. *)
ReadIdleHeartbeat == Open /\ ~proxyRead /\ UNCHANGED vars

(* IdleCheckHandler.channelIdle: nothing was read for READ_IDLE_TIME. *)
ReadIdle == ~proxyRead /\ ProxyCloses

-----------------------------------------------------------------------------
RealStep(r) ==
  \/ Bind(r) \/ StartReading(r) \/ RealFills(r) \/ RealDrains(r)
  \/ RealWritabilityChanged(r) \/ RealCloses(r) \/ Forget(r)

Next ==
  \/ \E r \in Reals : RealStep(r)
  \/ HandleDisconnect \/ ProxyFills \/ ProxyDrains \/ ProxyWritabilityChanged
  \/ ProxyCloses \/ ReadIdle

(* The idle timer; callbacks once begun; the answer of the proxy server to *)
(* the DISCONNECT of a dead connection, once it can be read.  (A dead      *)
(* connection that sends no DISCONNECT is the subject of ProxyClient.)     *)
Fairness ==
  /\ WF_vars(ReadIdle)
  /\ \A r \in Reals :
       /\ WF_vars(StartReading(r)) /\ WF_vars(RealWritabilityChanged(r))
       /\ WF_vars(real[r] = "dead" /\ nextOfProxy = r /\ HandleDisconnect)

Spec == Init /\ [][Next]_vars /\ Fairness

-----------------------------------------------------------------------------
(* A local connection is left unread only behind a full data channel: when *)
(* the channel has room, or gets it, somebody will switch reading on       *)
(* again, although the channel was full of another connection's data when  *)
(* this one was bound to it.                                               *)
PausedBehindFullChannel ==
  \A r \in Reals :
    real[r] = "serving" /\ nextOfProxy = r /\ proxy = "bound" /\ ~realRead[r]
      => ~proxyRoom \/ proxyEvent

(* A data channel whose local connection died comes back to the pool or is *)
(* closed, although the dying connection, or one served earlier, may have  *)
(* switched its reading off for good.                                      *)
DeadConnectionFreesChannel ==
  \A r \in Reals :
    (real[r] = "dead" /\ nextOfProxy = r) ~> (nextOfProxy # r \/ ~Open)
=============================================================================
