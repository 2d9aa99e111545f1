------------------------- MODULE WebServerLifecycle -------------------------
(***************************************************************************)
(* The embedded web server's life: KeepAliveService opens, closes and      *)
(* recovers it, WebServer runs the accept loop on a thread of its own, and *)
(* WorkerThread serves the accepted connections.                           *)
(*                                                                         *)
(* Three kinds of threads meet here: one per WebServer, one per accepted   *)
(* connection, and the short-lived threads openWebServer spawns.  They     *)
(* share the static WebServer.isLoop and the service's webServer and       *)
(* errCount.  Only webServer is guarded, by mWebServerLock; onError runs   *)
(* on whichever thread failed.                                             *)
(***************************************************************************)
EXTENDS Naturals, FiniteSets

CONSTANTS
  Servers,      \* identities for WebServer objects; reused once ended
  Workers,      \* identities for WorkerThreads; reused once done
  None,         \* "null"
  RESUME_COUNT, \* recoveries the service attempts
  MaxOpens      \* bound on what onStartCommand and workers may reopen at once

(* Objects of two classes, and finitely many at any time. *)
ASSUME LifecycleAssumption ==
  /\ None \notin Servers \cup Workers
  /\ Servers \cap Workers = {}
  /\ IsFiniteSet(Servers) /\ IsFiniteSet(Workers)
  /\ RESUME_COUNT \in Nat /\ MaxOpens \in Nat

VARIABLES
  pc,        \* where each server or worker thread is
  socket,    \* serverSocket of each server: none, open, closed
  cause,     \* why accept() or the bind threw: none, close, io
  isLoop,    \* the static WebServer.isLoop
  webServer, \* the service's current server
  opens,     \* threads spawned by openWebServer, not yet run
  errCount,
  read,      \* the errCount a thread read in "errCount++"
  timer,     \* is a reset task scheduled?
  alive,     \* the service has not been destroyed
  orphans    \* history: servers whose close() came before their socket

service == <<webServer, opens, alive, orphans>>
errors  == <<errCount, read, timer>>
vars == <<pc, socket, cause, isLoop, service, errors>>

Threads == Servers \cup Workers
OnErrorPlaces == {"errClose", "errRead", "errWrite", "errDecide"}
Places == OnErrorPlaces \cup
          {"none", "fresh", "bound", "test", "accept", "caught", "clear",
           "finally", "ended", "serving"}

Init ==
  /\ pc = [t \in Threads |-> "none"]
  /\ socket = [s \in Servers |-> "none"]
  /\ cause = [s \in Servers |-> "none"]
  /\ isLoop = FALSE
  /\ webServer = None
  /\ opens = 0
  /\ errCount = 0
  /\ read = [t \in Threads |-> 0]
  /\ timer = FALSE
  /\ alive = TRUE
  /\ orphans = {}

Goto(t, from, to) == pc[t] = from /\ pc' = [pc EXCEPT ![t] = to]

-----------------------------------------------------------------------------
(* KeepAliveService.                                                       *)

(* An errCount above RESUME_COUNT is not told apart from the next one. *)
CountedUp(n) == IF n > RESUME_COUNT THEN n ELSE n + 1

Reopening == opens + Cardinality({t \in Threads : pc[t] \in OnErrorPlaces})

(* onStartCommand: no server yet, so spawn a thread that opens one. *)
OnStartCommand ==
  /\ alive /\ webServer = None /\ Reopening < MaxOpens
  /\ opens' = opens + 1
  /\ UNCHANGED <<pc, socket, cause, isLoop, webServer, alive, orphans, errors>>

(* The WebServer constructor clears isLoop, whoever is looping. *)
NewWebServer(s) ==
  /\ opens > 0 /\ pc[s] \in {"none", "ended"} /\ webServer # s
  /\ opens' = opens - 1
  /\ webServer' = s
  /\ isLoop' = FALSE
  /\ pc' = [pc EXCEPT ![s] = "fresh"]
  /\ socket' = [socket EXCEPT ![s] = "none"]
  /\ cause' = [cause EXCEPT ![s] = "none"]
  /\ orphans' = orphans \ {s}
  /\ UNCHANGED <<alive, errors>>

(* Mutant: openWebServer does not look whether a server exists. *)
OpenWebServerUnchecked(s) == NewWebServer(s)

(* The thread of openWebServer, under the lock. *)
OpenWebServer(s) == webServer = None /\ NewWebServer(s)

(* There is a server already. *)
OpenNothing ==
  /\ opens > 0 /\ webServer # None
  /\ opens' = opens - 1
  /\ UNCHANGED <<pc, socket, cause, isLoop, webServer, alive, orphans, errors>>

(* closeWebServer with WebServer.close: a server that has no socket yet    *)
(* only loses the flag, which it is going to set again.                    *)
CloseWebServer ==
  IF webServer = None
  THEN UNCHANGED <<webServer, isLoop, socket, orphans>>
  ELSE /\ webServer' = None
       /\ isLoop' = FALSE
       /\ IF socket[webServer] = "none"
          THEN orphans' = orphans \cup {webServer} /\ UNCHANGED socket
          ELSE socket' = [socket EXCEPT ![webServer] = "closed"] /\ UNCHANGED orphans

OnDestroy ==
  /\ alive
  /\ alive' = FALSE
  /\ CloseWebServer
  /\ UNCHANGED <<pc, cause, opens, errors>>

(* onError, on the failing thread: close the server, ... *)
ErrorClose(t) ==
  /\ Goto(t, "errClose", "errRead")
  /\ CloseWebServer
  /\ UNCHANGED <<cause, opens, alive, errors>>

(* ... errCount++, which is a read and a write, ... *)
ErrorRead(t) ==
  /\ Goto(t, "errRead", "errWrite")
  /\ read' = [read EXCEPT ![t] = errCount]
  /\ UNCHANGED <<socket, cause, isLoop, service, errCount, timer>>

ErrorWrite(t) ==
  /\ Goto(t, "errWrite", "errDecide")
  /\ errCount' = CountedUp(read[t])
  /\ read' = [read EXCEPT ![t] = 0]
  /\ UNCHANGED <<socket, cause, isLoop, service, timer>>

AfterError(t) == IF t \in Workers THEN "ended"
                 ELSE IF cause[t] = "none" THEN "finally" ELSE "clear"

(* Mutant: the error handler opens the server, and so does its caller. *)
ErrorDecideTwice(t) ==
  /\ Goto(t, "errDecide", AfterError(t))
  /\ opens' = opens + 2
  /\ UNCHANGED <<socket, cause, isLoop, webServer, alive, orphans, errors>>

(* ... then restart the reset timer and reopen, or give up (the module     *)
(* Recovery has the accesses to the timer's field one by one).             *)
ErrorDecide(t) ==
  /\ Goto(t, "errDecide", AfterError(t))
  /\ IF errCount <= RESUME_COUNT
     THEN /\ opens' = opens + 1
          /\ timer' = TRUE
          /\ UNCHANGED errCount
     ELSE /\ errCount' = 0
          /\ timer' = FALSE
          /\ UNCHANGED opens
  /\ UNCHANGED <<socket, cause, isLoop, webServer, alive, orphans, read>>

(* The reset task, RESET_INTERVAL after the last error. *)
ResetTask ==
  /\ timer
  /\ timer' = FALSE
  /\ errCount' = 0
  /\ UNCHANGED <<pc, socket, cause, isLoop, service, read>>

-----------------------------------------------------------------------------
(* WebServer.run.                                                          *)

PortInUse(s) ==
  /\ Goto(s, "fresh", "errClose")
  /\ UNCHANGED <<socket, cause, isLoop, service, errors>>

BindSocket(s) ==
  /\ Goto(s, "fresh", "bound")
  /\ socket' = [socket EXCEPT ![s] = "open"]
  /\ UNCHANGED <<cause, isLoop, service, errors>>

(* The port was taken between the check and the bind. *)
BindFails(s) ==
  /\ Goto(s, "fresh", "caught")
  /\ cause' = [cause EXCEPT ![s] = "io"]
  /\ UNCHANGED <<socket, isLoop, service, errors>>

SetLoop(s) ==
  /\ Goto(s, "bound", "test")
  /\ isLoop' = TRUE
  /\ UNCHANGED <<socket, cause, service, errors>>

TestLoop(s) ==
  /\ Goto(s, "test", IF isLoop THEN "accept" ELSE "finally")
  /\ UNCHANGED <<socket, cause, isLoop, service, errors>>

(* A client connects; worker w serves it. *)
Accept(s, w) ==
  /\ pc[s] = "accept" /\ socket[s] = "open"
  /\ pc[w] \in {"none", "ended"}
  /\ pc' = [pc EXCEPT ![s] = "test", ![w] = "serving"]
  /\ UNCHANGED <<socket, cause, isLoop, service, errors>>

(* Mutant: the exception is caught inside the loop. *)
AcceptFailsRetries(s) ==
  /\ Goto(s, "accept", "test")
  /\ UNCHANGED <<socket, cause, isLoop, service, errors>>

(* accept() throws. *)
AcceptFails(s) ==
  /\ Goto(s, "accept", "caught")
  /\ cause' = [cause EXCEPT ![s] = IF socket[s] = "closed" THEN "close" ELSE "io"]
  /\ UNCHANGED <<socket, isLoop, service, errors>>

(* The catch block: an error only if isLoop is (still, or again) set. *)
CatchIOException(s) ==
  /\ Goto(s, "caught", IF isLoop THEN "errClose" ELSE "finally")
  /\ UNCHANGED <<socket, cause, isLoop, service, errors>>

(* Last statement of the catch block, after onError has returned. *)
ClearLoop(s) ==
  /\ Goto(s, "clear", "finally")
  /\ isLoop' = FALSE
  /\ UNCHANGED <<socket, cause, service, errors>>

FinallyClose(s) ==
  /\ Goto(s, "finally", "ended")
  /\ socket' = [socket EXCEPT ![s] = IF @ = "open" THEN "closed" ELSE @]
  /\ cause' = [cause EXCEPT ![s] = "none"]
  /\ UNCHANGED <<isLoop, service, errors>>

(* WorkerThread.run: requests are served while isLoop; a missing template  *)
(* is reported to the service, everything else ends the connection.        *)
TemplateNotFound(w) ==
  /\ Goto(w, "serving", "errClose")
  /\ Reopening < MaxOpens
  /\ UNCHANGED <<socket, cause, isLoop, service, errors>>

ConnectionEnds(w) ==
  /\ Goto(w, "serving", "ended")
  /\ UNCHANGED <<socket, cause, isLoop, service, errors>>

-----------------------------------------------------------------------------
OnError(t) == ErrorClose(t) \/ ErrorRead(t) \/ ErrorWrite(t) \/ ErrorDecide(t)

Run(s) ==
  \/ BindSocket(s) \/ SetLoop(s) \/ TestLoop(s) \/ CatchIOException(s)
  \/ ClearLoop(s) \/ FinallyClose(s)

Next ==
  \/ OnStartCommand \/ OpenNothing \/ OnDestroy \/ ResetTask
  \/ \E t \in Threads : OnError(t)
  \/ \E s \in Servers : \/ OpenWebServer(s) \/ Run(s)
                        \/ PortInUse(s) \/ BindFails(s) \/ AcceptFails(s)
  \/ \E s \in Servers, w \in Workers : Accept(s, w)
  \/ \E w \in Workers : TemplateNotFound(w) \/ ConnectionEnds(w)

Spec == Init /\ [][Next]_vars

(* Threads are scheduled; accept() on a closed socket throws. *)
Fairness ==
  /\ \A s \in Servers : /\ WF_vars(Run(s) \/ PortInUse(s) \/ BindFails(s))
                        /\ WF_vars(socket[s] = "closed" /\ AcceptFails(s))
  /\ \A t \in Threads : WF_vars(OnError(t))
  /\ WF_vars(OpenNothing \/ \E s \in Servers : OpenWebServer(s))

FairSpec == Spec /\ Fairness

-----------------------------------------------------------------------------
TypeOK ==
  /\ pc \in [Threads -> Places]
  /\ socket \in [Servers -> {"none", "open", "closed"}]
  /\ cause \in [Servers -> {"none", "close", "io"}]
  /\ isLoop \in BOOLEAN
  /\ webServer \in Servers \cup {None}
  /\ opens \in 0..(MaxOpens + Cardinality(Servers))
  /\ errCount \in 0..(RESUME_COUNT + 1)
  /\ read \in [Threads -> 0..(RESUME_COUNT + 1)]
  /\ timer \in BOOLEAN /\ alive \in BOOLEAN
  /\ orphans \in SUBSET Servers

(* A server that listens although the service does not hold it any more is *)
(* one whose close() came before its socket existed: no other order of     *)
(* errors, restarts and destruction leaks a listening socket.              *)
OnlyLostCloseLeaks ==
  \A s \in Servers :
    socket[s] = "open" /\ pc[s] # "finally" /\ webServer # s => s \in orphans

(* An error is recovered from: the service never holds a server that has   *)
(* had its listening socket and has left its accept loop for good.         *)
HeldServerRuns ==
  webServer # None /\ socket[webServer] # "none" => pc[webServer] # "ended"

(* A server whose socket was closed leaves its accept loop. *)
ClosedServerEnds ==
  \A s \in Servers : socket[s] = "closed" ~> pc[s] = "ended"
=============================================================================
