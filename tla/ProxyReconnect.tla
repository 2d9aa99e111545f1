--------------------------- MODULE ProxyReconnect ---------------------------
(***************************************************************************)
(* Starting, stopping and reconnecting the remote proxy client:            *)
(* ContainerHelper (its start and stop threads), ProxyClientContainer (the *)
(* control connection and its back-off) and Utils.checkKey.                *)
(*                                                                         *)
(* Every call of ContainerHelper.start makes a thread and a container,     *)
(* both called by the name of the call.  The thread publishes a list of    *)
(* its container in the static cachedContainers and then starts what that  *)
(* list holds when it reads it again: of two calls both may start the      *)
(* later container.  From there on the call is a chain of callbacks, one   *)
(* at a time, on the container on[s]; chains of one container share its    *)
(* sleepTimeMill and its event loop group.  Times are in seconds (the      *)
(* code's milliseconds are all whole seconds).                             *)
(***************************************************************************)
EXTENDS Naturals

CONSTANTS
  Starts,    \* the calls of start()
  None,      \* "null"
  LongSleep  \* bound: stands for this many seconds and all its doubles

(* Every sleepTimeMill; the code tells those above 60 apart by nothing. *)
Powers == {1, 2, 4, 8, 16, 32, 64, 128}

ASSUME ReconnectAssumption == None \notin Starts /\ LongSleep \in Powers \ {1}

VARIABLES
  pc,         \* where the call's thread or callback is
  lost,       \* did the chain come to checkKey from a lost connection?
  on,         \* the container the call's chain runs on
  sleep,      \* a container's sleepTimeMill
  read,       \* the chain's copy of it: the value to double, the time waited
  groupUp,    \* is the container's workerGroup running (not shut down)?
  loop,       \* the event loop group of the chain's dial or channel
  running,    \* Utils.running
  cached,     \* cachedContainers
  cmdChannel, \* the chain whose channel ClientChannelMannager holds
  stopPc,     \* the thread of ContainerHelper.stop
  stopOf,     \* the container that thread has read
  server      \* the proxy server: down, or it refuses or accepts the key

vars == <<pc, lost, on, sleep, read, groupUp, loop, running, cached, cmdChannel,
          stopPc, stopOf, server>>
stopper == <<stopPc, stopOf>>
statics == <<running, cached, cmdChannel>>
group == <<groupUp, loop>>

Places == {"none", "starting", "flagged", "published", "query", "sleeping",
           "replacing", "dialing", "up", "clearing", "testing", "resetting",
           "locking", "storing", "timing", "waiting", "over"}

(* The proxy server as Utils.queryKey and a dial meet it. *)
Servers == {"down", "refuses", "accepts"}

(* "current" is the container's workerGroup, "left" a group that field does *)
(* not name any more, "down" one that was shut down.                        *)
Loops == {"none", "current", "left", "down"}

Init ==
  /\ pc = [s \in Starts |-> "none"]
  /\ lost = [s \in Starts |-> FALSE]
  /\ on = [s \in Starts |-> None]
  /\ sleep = [c \in Starts |-> 1]
  /\ read = [s \in Starts |-> 0]
  /\ groupUp = [c \in Starts |-> FALSE]
  /\ loop = [s \in Starts |-> "none"]
  /\ running = FALSE
  /\ cached = None
  /\ cmdChannel = None
  /\ stopPc = "idle" /\ stopOf = None
  /\ server \in Servers

Goto(s, from, to) == pc[s] = from /\ pc' = [pc EXCEPT ![s] = to]

(* The chains that use the workerGroup of container c. *)
Onto(c, from, to) ==
  [s \in Starts |-> IF on[s] = c /\ loop[s] = from THEN to ELSE loop[s]]

-----------------------------------------------------------------------------
(* ContainerHelper.start: spawns a thread ... *)
Start(s) ==
  /\ Goto(s, "none", "starting")
  /\ UNCHANGED <<lost, on, sleep, read, group, statics, stopper, server>>

(* ... which sets the flag, ... *)
StartFlag(s) ==
  /\ Goto(s, "starting", "flagged")
  /\ running' = TRUE
  /\ UNCHANGED <<lost, on, sleep, read, group, cached, cmdChannel, stopper, server>>

(* Mutant: the list is not published before it is started. *)
PublishForgotten(s) ==
  /\ Goto(s, "flagged", "published")
  /\ groupUp' = [groupUp EXCEPT ![s] = TRUE]
  /\ UNCHANGED <<lost, on, sleep, read, loop, statics, stopper, server>>

(* ... creates the container and publishes it, ... *)
Publish(s) ==
  /\ Goto(s, "flagged", "published")
  /\ groupUp' = [groupUp EXCEPT ![s] = TRUE]
  /\ cached' = s
  /\ UNCHANGED <<lost, on, sleep, read, loop, running, cmdChannel, stopper, server>>

(* ... and starts the container that is published by then. *)
StartContainer(s) ==
  /\ Goto(s, "published", "query")
  /\ on' = [on EXCEPT ![s] = cached]
  /\ UNCHANGED <<lost, sleep, read, group, statics, stopper, server>>

(* ContainerHelper.stop: spawns a thread ... *)
Stop ==
  /\ stopPc = "idle"
  /\ stopPc' = "begin"
  /\ UNCHANGED <<pc, lost, on, sleep, read, group, statics, stopOf, server>>

(* ... which reads the published container.  If nothing was ever started   *)
(* the thread dies of a null pointer here.                                 *)
StopReads ==
  /\ stopPc = "begin"
  /\ stopPc' = IF cached = None THEN "idle" ELSE "stopping"
  /\ stopOf' = cached
  /\ UNCHANGED <<pc, lost, on, sleep, read, group, statics, server>>

(* It shuts the container's event loop group down ... *)
StopContainers ==
  /\ stopPc = "stopping"
  /\ stopPc' = "flag" /\ stopOf' = None
  /\ groupUp' = [groupUp EXCEPT ![stopOf] = FALSE]
  /\ loop' = Onto(stopOf, "current", "down")
  /\ UNCHANGED <<pc, lost, on, sleep, read, statics, server>>

(* ... and then clears the flag. *)
StopFlag ==
  /\ stopPc = "flag"
  /\ stopPc' = "idle"
  /\ running' = FALSE
  /\ UNCHANGED <<pc, lost, on, sleep, read, group, cached, cmdChannel, stopOf, server>>

-----------------------------------------------------------------------------
(* Utils.checkKey: the server does not answer "1"; sleep ten seconds. *)
QueryRefused(s) ==
  /\ Goto(s, "query", "sleeping")
  /\ server # "accepts"
  /\ UNCHANGED <<lost, on, sleep, read, group, statics, stopper, server>>

(* Mutant: checkKey keeps polling without looking at Utils.running. *)
QueryAgainAlways(s) ==
  /\ Goto(s, "sleeping", "query")
  /\ UNCHANGED <<lost, on, sleep, read, group, statics, stopper, server>>

(* After the sleep checkKey looks at Utils.running, and only then. *)
QueryAgain(s) ==
  /\ Goto(s, "sleeping", IF running THEN "query" ELSE "over")
  /\ UNCHANGED <<lost, on, sleep, read, group, statics, stopper, server>>

(* The group that a dial of s uses now. *)
DialLoop(s) == IF groupUp[on[s]] THEN "current" ELSE "down"

(* The key is accepted: dial. *)
QueryAccepted(s) ==
  /\ Goto(s, "query", "dialing")
  /\ server = "accepts"
  /\ ~lost[s]
  /\ loop' = [loop EXCEPT ![s] = DialLoop(s)]
  /\ UNCHANGED <<lost, on, sleep, read, groupUp, statics, stopper, server>>

(* After a lost connection channelInactive first replaces the group: stop  *)
(* shuts the present one down, ...                                         *)
QueryReplaces(s) ==
  /\ Goto(s, "query", "replacing")
  /\ server = "accepts"
  /\ lost[s]
  /\ groupUp' = [groupUp EXCEPT ![on[s]] = FALSE]
  /\ loop' = Onto(on[s], "current", "down")
  /\ UNCHANGED <<lost, on, sleep, read, statics, stopper, server>>

(* ... init makes another, and connectProxyServer dials on it. *)
Replaced(s) ==
  /\ Goto(s, "replacing", "dialing")
  /\ groupUp' = [groupUp EXCEPT ![on[s]] = TRUE]
  /\ loop' = [Onto(on[s], "current", "left") EXCEPT ![s] = "current"]
  /\ lost' = [lost EXCEPT ![s] = FALSE]
  /\ UNCHANGED <<on, sleep, read, statics, stopper, server>>

Sharers(s) == {u \in Starts \ {s} : on[u] # None /\ on[u] = on[s]}

(* init fills the fields bootstrap and realServerBootstrap in steps: a     *)
(* chain that sets a group in the other's bootstrap, or dials on a half    *)
(* made one, ends with an IllegalStateException.                           *)
ReplaceClash(s) ==
  /\ \/ Goto(s, "replacing", "over")
     \/ Goto(s, "query", "over") /\ server = "accepts" /\ ~lost[s]
  /\ \E u \in Sharers(s) : pc[u] = "replacing"
  /\ UNCHANGED <<lost, on, sleep, read, group, statics, stopper, server>>

(* connectProxyServer succeeds: this channel becomes the control channel.  *)
(* The write of sleepTimeMill takes no lock.                               *)
DialDone(s) ==
  /\ Goto(s, "dialing", "up")
  /\ cmdChannel' = s
  /\ sleep' = [sleep EXCEPT ![on[s]] = 1]
  /\ UNCHANGED <<lost, on, read, group, running, cached, stopper, server>>

(* The dial or channel is gone. *)
Off(s) == [loop EXCEPT ![s] = "none"]

(* It fails: reconnectWait, then checkKey, on the same event loop group. *)
DialFailed(s) ==
  /\ Goto(s, "dialing", "testing")
  /\ server = "down" \/ loop[s] = "down"
  /\ loop' = Off(s)
  /\ UNCHANGED <<lost, on, sleep, read, groupUp, statics, stopper, server>>

(* A group that has terminated rejects the dial and the listener with it. *)
DialRejected(s) ==
  /\ Goto(s, "dialing", "over")
  /\ loop[s] = "down"
  /\ loop' = Off(s)
  /\ UNCHANGED <<lost, on, sleep, read, groupUp, statics, stopper, server>>

(* Mutant: a lost control channel is not followed by a reconnect. *)
ChannelLostForgotten(s) ==
  /\ Goto(s, "up", "over")
  /\ UNCHANGED <<lost, on, sleep, read, group, statics, stopper, server>>

(* The channel becomes inactive.  Only if it is the control channel does   *)
(* its container go on; a displaced one counts as a data channel.          *)
ChannelLost(s) ==
  /\ Goto(s, "up", IF cmdChannel = s THEN "clearing" ELSE "over")
  /\ loop' = Off(s)
  /\ UNCHANGED <<lost, on, sleep, read, groupUp, statics, stopper, server>>

(* setCmdChannel(null), possibly over a channel set since the test; then   *)
(* the listener's reconnectWait.                                           *)
ReleaseCmdChannel(s) ==
  /\ Goto(s, "clearing", "testing")
  /\ cmdChannel' = None
  /\ lost' = [lost EXCEPT ![s] = TRUE]
  /\ UNCHANGED <<on, sleep, read, group, running, cached, stopper, server>>

-----------------------------------------------------------------------------
(* ProxyClientContainer.reconnectWait.  Its first test and reset take no   *)
(* lock; the doubling does.                                                *)

(* Mutant: the reset test allows one doubling more. *)
TestSleepLate(s) ==
  /\ Goto(s, "testing", IF sleep[on[s]] > 64 THEN "resetting" ELSE "locking")
  /\ UNCHANGED <<lost, on, sleep, read, group, statics, stopper, server>>

TestSleep(s) ==
  /\ Goto(s, "testing", IF sleep[on[s]] > 60 THEN "resetting" ELSE "locking")
  /\ UNCHANGED <<lost, on, sleep, read, group, statics, stopper, server>>

ResetSleep(s) ==
  /\ Goto(s, "resetting", "locking")
  /\ sleep' = [sleep EXCEPT ![on[s]] = 1]
  /\ UNCHANGED <<lost, on, read, group, statics, stopper, server>>

(* The object's monitor is held from the reading of sleepTimeMill until    *)
(* wait() lets go of it, and taken again when wait() returns.              *)
MonitorFree(s) == \A u \in Sharers(s) : pc[u] \notin {"storing", "timing"}

LockAndRead(s) ==
  /\ Goto(s, "locking", "storing")
  /\ MonitorFree(s)
  /\ read' = [read EXCEPT ![s] = sleep[on[s]]]
  /\ UNCHANGED <<lost, on, sleep, group, statics, stopper, server>>

Double(n) == IF 2 * n > LongSleep THEN LongSleep ELSE 2 * n

StoreDouble(s) ==
  /\ Goto(s, "storing", "timing")
  /\ sleep' = [sleep EXCEPT ![on[s]] = Double(read[s])]
  /\ UNCHANGED <<lost, on, read, group, statics, stopper, server>>

(* wait(sleepTimeMill): the field is read once more. *)
BeginWait(s) ==
  /\ Goto(s, "timing", "waiting")
  /\ read' = [read EXCEPT ![s] = sleep[on[s]]]
  /\ UNCHANGED <<lost, on, sleep, group, statics, stopper, server>>

WaitOver(s) ==
  /\ Goto(s, "waiting", "query")
  /\ MonitorFree(s)
  /\ read' = [read EXCEPT ![s] = 0]
  /\ UNCHANGED <<lost, on, sleep, group, statics, stopper, server>>

ReconnectWait(s) ==
  \/ TestSleep(s) \/ ResetSleep(s) \/ LockAndRead(s)
  \/ StoreDouble(s) \/ BeginWait(s) \/ WaitOver(s)

-----------------------------------------------------------------------------
(* The proxy server and the network, outside the repository. *)
Environment ==
  /\ server' \in Servers
  /\ UNCHANGED <<pc, lost, on, sleep, read, group, statics, stopper>>

Callback(s) ==
  \/ StartFlag(s) \/ Publish(s) \/ StartContainer(s)
  \/ QueryRefused(s) \/ QueryAgain(s) \/ QueryAccepted(s) \/ QueryReplaces(s)
  \/ Replaced(s) \/ ReplaceClash(s)
  \/ DialDone(s) \/ DialFailed(s) \/ DialRejected(s)
  \/ ReleaseCmdChannel(s) \/ ReconnectWait(s)

Next ==
  \/ \E s \in Starts : Start(s) \/ Callback(s) \/ ChannelLost(s)
  \/ Stop \/ StopReads \/ StopContainers \/ StopFlag
  \/ Environment

Spec == Init /\ [][Next]_vars

(* A thread or callback that can go on does; a query, a dial and a wait    *)
(* end.  A shut-down group loses its channels.                             *)
Fairness ==
  \A s \in Starts :
    /\ WF_vars(Callback(s))
    /\ WF_vars(loop[s] = "down" /\ ChannelLost(s))

FairSpec == Spec /\ Fairness

-----------------------------------------------------------------------------
(* The fields and the places where they hold something. *)
TypeOK ==
  /\ pc \in [Starts -> Places]
  /\ lost \in [Starts -> BOOLEAN]
  /\ on \in [Starts -> Starts \cup {None}]
  /\ sleep \in [Starts -> Powers]
  /\ read \in [Starts -> {0} \cup Powers]
  /\ groupUp \in [Starts -> BOOLEAN]
  /\ loop \in [Starts -> Loops]
  /\ running \in BOOLEAN
  /\ cached \in Starts \cup {None}
  /\ cmdChannel \in Starts \cup {None}
  /\ stopPc \in {"idle", "begin", "stopping", "flag"}
  /\ stopOf \in Starts \cup {None}
  /\ server \in Servers
  /\ \A s \in Starts :
       /\ on[s] = None <=> pc[s] \in {"none", "starting", "flagged", "published"}
       /\ pc[s] \notin {"none", "starting", "flagged"} => cached # None
       /\ read[s] # 0 <=> pc[s] \in {"storing", "timing", "waiting"}
       /\ loop[s] # "none" <=> pc[s] \in {"dialing", "up"}
  /\ stopOf # None <=> stopPc = "stopping"

(* However many attempts fail, a chain that has its container to itself    *)
(* waits 2, 4, 8, 16, 32 or 64 seconds before the next one.  Chains that   *)
(* share a container may wait 1 second or 128 and more: the test of        *)
(* reconnectWait and the resets take no lock.                              *)
BackoffBounds ==
  \A s \in Starts :
    pc[s] = "waiting" /\ Sharers(s) = {} => read[s] \in {2, 4, 8, 16, 32, 64}

(* The invariant behind it.  A container of one chain: its sleepTimeMill   *)
(* stays within 64 seconds, and within 32 between the test and the         *)
(* doubling; one nobody was started on keeps its first second.             *)
AloneBounds ==
  \A s \in Starts :
    on[s] # None /\ Sharers(s) = {} =>
      /\ sleep[on[s]] <= 64
      /\ pc[s] \in {"locking", "storing"} => sleep[on[s]] <= 32
      /\ pc[s] = "storing" => read[s] <= 32
      /\ pc[s] = "timing" => sleep[on[s]] # 1
      /\ pc[s] = "waiting" => read[s] \in {2, 4, 8, 16, 32, 64}

UnusedSleeps ==
  \A c \in Starts : (\A s \in Starts : on[s] # c) => sleep[c] = 1

BackoffInv == TypeOK /\ AloneBounds /\ UnusedSleeps

(* Nobody calls stop, and from some time on the server is reachable and    *)
(* accepts the key: then a control channel is held again and again, even   *)
(* if start() was called twice and the containers displace each other or   *)
(* both calls started the same one.                                        *)
TunnelComesBack ==
  [](stopPc = "idle") /\ <>[](server = "accepts") =>
    ((\E s \in Starts : pc[s] # "none")
       ~> (\E s \in Starts : pc[s] = "up" /\ cmdChannel = s))

(* A chain whose container was shut down, while the key is not accepted    *)
(* any more, stops polling.  (If the key is accepted it reconnects,        *)
(* stopped or not.)  A chain already past the key goes on dialing; one on  *)
(* a group its container has lost track of is out of stop()'s reach.       *)
StopEndsWithoutKey ==
  \A s \in Starts :
    []((/\ on[s] # None /\ ~groupUp[on[s]]
        /\ pc[s] # "replacing" /\ loop[s] # "left"
        /\ [](server # "accepts" /\ ~running)) => <>(pc[s] = "over"))
=============================================================================
