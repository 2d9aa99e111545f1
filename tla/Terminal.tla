------------------------------ MODULE Terminal ------------------------------
(***************************************************************************)
(* The terminal: DatabaseHandler.openTerminalResponse and its              *)
(* WebSocketThread, the native TermWebSocket (websocket.c, tcp_server.c)   *)
(* and TerminalHelper with its reader and watcher threads.                 *)
(*                                                                         *)
(* A session is one "open terminal" request, the thread it starts and the  *)
(* page that connects to it.  All sessions share one TerminalHelper, whose *)
(* methods are synchronized but whose threads read mTermIn and mProcId     *)
(* without the lock, and the two C globals ser_fd and conn, which nothing  *)
(* guards: another session may change them between any two uses.           *)
(*                                                                         *)
(* A listening socket is named after the session that made it, a           *)
(* connection after the page at its other end: the reuse of descriptor     *)
(* numbers, the bytes and the frames are left out.                         *)
(***************************************************************************)
EXTENDS Naturals, FiniteSets

CONSTANTS
  Sessions,  \* requests to open a terminal
  Shells,    \* shell processes with their pseudo-terminals, each used once
  None,      \* ERROR_FD, mProcId = -999, "null"
  Failed     \* what a failed accept() returns

ASSUME TerminalAssumption ==
  /\ None \notin Sessions \cup Shells \cup {Failed}
  /\ Failed \notin Sessions
  /\ Sessions \cap Shells = {}

VARIABLES
  pc,       \* where each session's request or thread is
  arg,      \* what its native call was given: a socket, a page's connection
            \* or the shell whose terminal it writes to
  port,     \* the listening socket whose port the page was told
  listener, \* each listening socket: none, made, bound, listening, closed
  page,     \* each page: idle, queued, accepted, open, closed (here), gone
  ser_fd,
  conn,
  isRunning,
  mProcId,
  mTermFd,  \* the pseudo-terminal of mTermFd, mTermIn and mTermOut; the
            \* static TermWebSocket.mTermOut is open while this one is set
  proc,     \* each shell process: none, alive, dead, failed (never ran)
  reader,   \* each mReaderThread: none, loop, reading, exiting, ended
  stream,   \* the pseudo-terminal it is reading
  watcher,  \* each mWatcherThread: none, new, waiting, exiting, ended
  waitsFor, \* the process it waits for
  raced     \* history: two sessions were about to start() together

sockets == <<port, listener, page, ser_fd>>
helper  == <<isRunning, mProcId, mTermFd, proc>>
threads == <<reader, stream, watcher, waitsFor>>
vars == <<pc, arg, sockets, conn, helper, threads, raced>>

Places == {"idle", "made", "bind", "stuck", "listen", "accept", "accepting",
           "shake", "check", "start", "run", "recv", "payload", "write",
           "close", "unset", "closeServer", "unsetServer", "ended"}

Init ==
  /\ pc = [i \in Sessions |-> "idle"]
  /\ arg = [i \in Sessions |-> None]
  /\ port = [i \in Sessions |-> None]
  /\ listener = [i \in Sessions |-> "none"]
  /\ page = [i \in Sessions |-> "idle"]
  /\ ser_fd = None
  /\ conn = None
  /\ isRunning = FALSE
  /\ mProcId = None
  /\ mTermFd = None
  /\ proc = [s \in Shells |-> "none"]
  /\ reader = [s \in Shells |-> "none"]
  /\ stream = [s \in Shells |-> None]
  /\ watcher = [s \in Shells |-> "none"]
  /\ waitsFor = [s \in Shells |-> None]
  /\ raced = FALSE

Goto(i, from, to) == pc[i] = from /\ pc' = [pc EXCEPT ![i] = to]

-----------------------------------------------------------------------------
(* openTerminalResponse and TermWebSocket.socket.                          *)

(* ser_fd = socket(...) *)
Socket(i) ==
  /\ Goto(i, "idle", "made")
  /\ ser_fd' = i
  /\ listener' = [listener EXCEPT ![i] = "made"]
  /\ UNCHANGED <<arg, port, page, conn, helper, threads, raced>>

(* passive_server(ser_fd, 20), which is given ser_fd as it is now or as it *)
(* was assigned: the compiler may keep it in a register.  setsockopt fails *)
(* on a descriptor closed by another session, and the page is told so.     *)
SetOption(i) ==
  /\ \E fd \in {i, ser_fd} :
       \/ /\ Goto(i, "made", "ended")
          /\ listener' = [k \in Sessions |-> IF k = fd THEN "closed" ELSE listener[k]]
          /\ UNCHANGED arg
       \/ /\ Goto(i, "made", "bind")
          /\ fd # None /\ listener[fd] # "closed"
          /\ arg' = [arg EXCEPT ![i] = fd]
          /\ UNCHANGED listener
  /\ UNCHANGED <<port, page, ser_fd, conn, helper, threads, raced>>

(* bind, on one port after the other: a descriptor that has been bound or  *)
(* closed meanwhile makes the loop endless.                                *)
Bind(i) ==
  /\ pc[i] = "bind"
  /\ IF listener[arg[i]] = "made"
     THEN /\ Goto(i, "bind", "listen")
          /\ listener' = [listener EXCEPT ![arg[i]] = "bound"]
     ELSE Goto(i, "bind", "stuck") /\ UNCHANGED listener
  /\ UNCHANGED <<arg, port, page, ser_fd, conn, helper, threads, raced>>

(* listen; the page is told the port. *)
Listen(i) ==
  /\ Goto(i, "listen", "accept")
  /\ listener[arg[i]] = "bound"
  /\ listener' = [listener EXCEPT ![arg[i]] = "listening"]
  /\ port' = [port EXCEPT ![i] = arg[i]]
  /\ arg' = [arg EXCEPT ![i] = None]
  /\ UNCHANGED <<page, ser_fd, conn, helper, threads, raced>>

(* listen fails, on a descriptor closed meanwhile or because another socket *)
(* bound to the port listens first (SO_REUSEADDR lets both be bound).  The *)
(* page is told default_port, on which nobody listens any more than on the *)
(* closed socket; the session goes on.                                     *)
ListenFails(i) ==
  /\ Goto(i, "listen", "accept")
  /\ listener' = [listener EXCEPT ![arg[i]] = "closed"]
  /\ port' = [port EXCEPT ![i] = arg[i]]
  /\ arg' = [arg EXCEPT ![i] = None]
  /\ UNCHANGED <<page, ser_fd, conn, helper, threads, raced>>

PassiveServer(i) == SetOption(i) \/ Bind(i) \/ Listen(i) \/ ListenFails(i)

-----------------------------------------------------------------------------
(* The page (app_terminal.js), outside the process.                        *)

(* A socket closed while accept() waits on it goes on accepting. *)
Listens(fd) ==
  \/ listener[fd] = "listening"
  \/ \E j \in Sessions : pc[j] = "accepting" /\ arg[j] = fd

PageConnects(i) ==
  /\ port[i] # None /\ page[i] = "idle"
  /\ page' = [page EXCEPT ![i] = IF Listens(port[i]) THEN "queued" ELSE "gone"]
  /\ UNCHANGED <<pc, arg, port, listener, ser_fd, conn, helper, threads, raced>>

PageLeaves(i) ==
  /\ page[i] \in {"queued", "accepted", "open", "closed"}
  /\ page' = [page EXCEPT ![i] = "gone"]
  /\ UNCHANGED <<pc, arg, port, listener, ser_fd, conn, helper, threads, raced>>

-----------------------------------------------------------------------------
(* WebSocketThread: accept, start the terminal, run.                       *)

(* accept(ser_fd, ...), of whatever socket was made last. *)
AcceptCall(i) ==
  /\ IF ser_fd # None /\ listener[ser_fd] = "listening"
     THEN /\ Goto(i, "accept", "accepting")
          /\ arg' = [arg EXCEPT ![i] = ser_fd]
          /\ UNCHANGED conn
     ELSE /\ Goto(i, "accept", "shake")
          /\ arg' = [arg EXCEPT ![i] = None]
          /\ conn' = Failed
  /\ UNCHANGED <<sockets, helper, threads, raced>>

(* conn = accept(...) returns the connection of page k. *)
AcceptReturn(i, k) ==
  /\ Goto(i, "accepting", "shake")
  /\ page[k] = "queued" /\ port[k] = arg[i]
  /\ page' = [page EXCEPT ![k] = "accepted"]
  /\ conn' = k
  /\ arg' = [arg EXCEPT ![i] = k]
  /\ UNCHANGED <<port, listener, ser_fd, helper, threads, raced>>

(* shakehands(conn), which again may be another session's by now.          *)
Shakehands(i) ==
  /\ Goto(i, "shake", "check")
  /\ \E fd \in {arg[i], conn} :
       page' = [k \in Sessions |-> IF k = fd /\ page[k] = "accepted"
                                   THEN "open" ELSE page[k]]
  /\ arg' = [arg EXCEPT ![i] = None]
  /\ UNCHANGED <<port, listener, ser_fd, conn, helper, threads, raced>>

(* if (!mTerminalHelper.isRunning()) ... *)
CheckRunning(i) ==
  /\ Goto(i, "check", IF isRunning THEN "run" ELSE "start")
  /\ raced' = (raced \/ (~isRunning /\ \E j \in Sessions : pc[j] = "start"))
  /\ UNCHANGED <<arg, sockets, conn, helper, threads>>

(* Mutant: the watcher starts before createSubprocess has returned. *)
StartWatchesFirst(i, s) ==
  /\ Goto(i, "start", "run")
  /\ proc[s] = "none"
  /\ mTermFd' = s
  /\ mProcId' = s
  /\ isRunning' = TRUE
  /\ proc' = [proc EXCEPT ![s] = "alive"]
  /\ reader' = [reader EXCEPT ![s] = "loop"]
  /\ watcher' = [watcher EXCEPT ![s] = "waiting"]
  /\ waitsFor' = [waitsFor EXCEPT ![s] = mProcId]
  /\ UNCHANGED <<arg, sockets, conn, stream, raced>>

(* ... mTerminalHelper.start(): a new pseudo-terminal and shell, whatever  *)
(* there was before. *)
StartTerminal(i, s) ==
  /\ Goto(i, "start", "run")
  /\ proc[s] = "none"
  /\ mTermFd' = s
  /\ mProcId' = s
  /\ isRunning' = TRUE
  /\ proc' = [proc EXCEPT ![s] = "alive"]
  /\ reader' = [reader EXCEPT ![s] = "loop"]
  /\ watcher' = [watcher EXCEPT ![s] = "new"]
  /\ UNCHANGED <<arg, sockets, conn, stream, waitsFor, raced>>

(* createSubprocess throws: the pseudo-terminal is there, the shell is     *)
(* not, and the session goes on.                                           *)
StartFails(i, s) ==
  /\ Goto(i, "start", "run")
  /\ proc[s] = "none"
  /\ mTermFd' = s
  /\ proc' = [proc EXCEPT ![s] = "failed"]
  /\ UNCHANGED <<arg, sockets, conn, isRunning, mProcId, threads, raced>>

(* /dev/ptmx cannot be opened. *)
OpenFails(i) ==
  /\ Goto(i, "start", "run")
  /\ UNCHANGED <<arg, sockets, conn, helper, threads, raced>>

(* Whether a read of conn waits for the page, rather than fail at once. *)
Readable == conn \in Sessions /\ page[conn] # "closed"

(* recv_frame_head(conn, ...): conn is read anew for every frame. *)
RecvFrame(i) ==
  /\ Goto(i, "run", IF Readable THEN "recv" ELSE "close")
  /\ arg' = [arg EXCEPT ![i] = IF Readable THEN conn ELSE None]
  /\ UNCHANGED <<sockets, conn, helper, threads, raced>>

(* read(conn, payload_data, 1024), of what conn is by now; if that fails,  *)
(* the next frame is tried.                                                *)
ReadsPayload(i, from) ==
  /\ Goto(i, from, IF Readable THEN "payload" ELSE "run")
  /\ arg' = [arg EXCEPT ![i] = IF Readable THEN conn ELSE None]

(* There is more of the frame, or not. *)
ReadsOn(i, from) ==
  \/ ReadsPayload(i, from)
  \/ Goto(i, from, "run") /\ arg' = [arg EXCEPT ![i] = None]

(* The head of a frame arrives. *)
Receive(i) ==
  /\ ReadsPayload(i, "recv")
  /\ page[arg[i]] \in {"open", "closed"}
  /\ UNCHANGED <<sockets, conn, helper, threads, raced>>

(* Some of the payload arrives, and onReceiveData writes it to the terminal *)
(* or, if that has been closed or never opened, drops it.                  *)
ReceivePayload(i) ==
  /\ pc[i] = "payload" /\ page[arg[i]] \in {"open", "closed"}
  /\ IF mTermFd # None
     THEN Goto(i, "payload", "write") /\ arg' = [arg EXCEPT ![i] = mTermFd]
     ELSE ReadsOn(i, "payload")
  /\ UNCHANGED <<sockets, conn, helper, threads, raced>>

(* The page is gone in the middle of a frame: the next one is tried. *)
PayloadEnds(i) ==
  /\ Goto(i, "payload", "run")
  /\ page[arg[i]] = "gone"
  /\ arg' = [arg EXCEPT ![i] = None]
  /\ UNCHANGED <<sockets, conn, helper, threads, raced>>

(* mTermOut.write() returns, at once or when the shell has read enough. *)
WriteReturns(i) ==
  /\ ReadsOn(i, "write")
  /\ UNCHANGED <<sockets, conn, helper, threads, raced>>

(* The shell is gone, and the write fails. *)
WriteFails(i) == pc[i] = "write" /\ proc[arg[i]] = "dead" /\ WriteReturns(i)

(* Mutant: the end of the connection is taken for an empty frame. *)
RecvEndsRetries(i) ==
  /\ Goto(i, "recv", "run")
  /\ page[arg[i]] = "gone"
  /\ arg' = [arg EXCEPT ![i] = None]
  /\ UNCHANGED <<sockets, conn, helper, threads, raced>>

(* The page is gone: read() ends, and so does the loop. *)
RecvEnds(i) ==
  /\ Goto(i, "recv", "close")
  /\ page[arg[i]] = "gone"
  /\ arg' = [arg EXCEPT ![i] = None]
  /\ UNCHANGED <<sockets, conn, helper, threads, raced>>

Reads(j, k) == pc[j] \in {"recv", "payload"} /\ arg[j] = k

(* close(conn), which the page notices once no thread reads from it. *)
CloseConn(i) ==
  /\ Goto(i, "close", IF conn = None THEN "closeServer" ELSE "unset")
  /\ page' = [k \in Sessions |->
               IF k # conn \/ page[k] = "gone" THEN page[k]
               ELSE IF \E j \in Sessions : Reads(j, k) THEN "closed" ELSE "gone"]
  /\ UNCHANGED <<arg, port, listener, ser_fd, conn, helper, threads, raced>>

(* conn = ERROR_FD, whatever conn has become. *)
UnsetConn(i) ==
  /\ Goto(i, "unset", "closeServer")
  /\ conn' = None
  /\ UNCHANGED <<arg, sockets, helper, threads, raced>>

CloseServer(i) ==
  /\ Goto(i, "closeServer", IF ser_fd = None THEN "ended" ELSE "unsetServer")
  /\ listener' = [k \in Sessions |-> IF k = ser_fd THEN "closed" ELSE listener[k]]
  /\ UNCHANGED <<arg, port, page, ser_fd, conn, helper, threads, raced>>

UnsetServer(i) ==
  /\ Goto(i, "unsetServer", "ended")
  /\ ser_fd' = None
  /\ UNCHANGED <<arg, port, listener, page, conn, helper, threads, raced>>

-----------------------------------------------------------------------------
(* TerminalHelper: the shell, its reader and its watcher.                  *)

(* The shell ends by itself. *)
ShellExits(s) ==
  /\ proc[s] = "alive"
  /\ proc' = [proc EXCEPT ![s] = "dead"]
  /\ UNCHANGED <<pc, arg, sockets, conn, isRunning, mProcId, mTermFd, threads,
                 raced>>

(* Mutant: onExit does not hang the shell up. *)
OnExitNoSignal ==
  /\ isRunning' = FALSE
  /\ mProcId' = None
  /\ mTermFd' = None
  /\ UNCHANGED proc

(* Mutant: onExit keeps the process id. *)
OnExitKeepsId ==
  /\ isRunning' = FALSE
  /\ mTermFd' = None
  /\ UNCHANGED <<mProcId, proc>>

(* onExit, whoever calls it: hang up the current shell, close the current  *)
(* pseudo-terminal.                                                        *)
OnExit ==
  /\ isRunning' = FALSE
  /\ mProcId' = None
  /\ mTermFd' = None
  /\ proc' = [s \in Shells |-> IF s = mProcId THEN "dead" ELSE proc[s]]

(* Mutant: a null mTermIn goes unnoticed. *)
ReaderReadsNull(s) ==
  /\ reader[s] = "loop"
  /\ reader' = [reader EXCEPT ![s] = "reading"]
  /\ stream' = [stream EXCEPT ![s] = mTermFd]
  /\ UNCHANGED <<pc, arg, sockets, conn, helper, watcher, waitsFor, raced>>

(* mTermIn.read(): of the pseudo-terminal that is current now. *)
ReaderReads(s) ==
  /\ reader[s] = "loop"
  /\ reader' = [reader EXCEPT ![s] = IF mTermFd = None THEN "exiting" ELSE "reading"]
  /\ stream' = [stream EXCEPT ![s] = mTermFd]
  /\ UNCHANGED <<pc, arg, sockets, conn, helper, watcher, waitsFor, raced>>

(* Mutant: a send that fails ends the reader. *)
ReaderSendThrows(s) ==
  /\ reader[s] = "reading" /\ proc[stream[s]] = "alive"
  /\ reader' = [reader EXCEPT ![s] = IF conn = None THEN "exiting" ELSE "loop"]
  /\ stream' = [stream EXCEPT ![s] = None]
  /\ UNCHANGED <<pc, arg, sockets, conn, helper, watcher, waitsFor, raced>>

(* Output of the shell, sent to conn, if there is one.  That may take as   *)
(* long as the page likes: a reader in its loop may still be sending.      *)
ReaderSends(s) ==
  /\ reader[s] = "reading" /\ proc[stream[s]] = "alive"
  /\ reader' = [reader EXCEPT ![s] = "loop"]
  /\ stream' = [stream EXCEPT ![s] = None]
  /\ UNCHANGED <<pc, arg, sockets, conn, helper, watcher, waitsFor, raced>>

(* End of file or EIO: the shell at the other end is gone. *)
ReaderEnds(s) ==
  /\ reader[s] = "reading" /\ proc[stream[s]] = "dead"
  /\ reader' = [reader EXCEPT ![s] = "exiting"]
  /\ stream' = [stream EXCEPT ![s] = None]
  /\ UNCHANGED <<pc, arg, sockets, conn, helper, watcher, waitsFor, raced>>

(* A pseudo-terminal without a shell was closed. *)
ReaderFails(s) ==
  /\ reader[s] = "reading" /\ proc[stream[s]] = "failed" /\ mTermFd # stream[s]
  /\ reader' = [reader EXCEPT ![s] = "exiting"]
  /\ stream' = [stream EXCEPT ![s] = None]
  /\ UNCHANGED <<pc, arg, sockets, conn, helper, watcher, waitsFor, raced>>

ReaderExits(s) ==
  /\ reader[s] = "exiting"
  /\ reader' = [reader EXCEPT ![s] = "ended"]
  /\ OnExit
  /\ UNCHANGED <<pc, arg, sockets, conn, stream, watcher, waitsFor, raced>>

(* waitFor(mProcId), with the process id as it is when the thread runs. *)
WatcherWaits(s) ==
  /\ watcher[s] = "new"
  /\ watcher' = [watcher EXCEPT ![s] = "waiting"]
  /\ waitsFor' = [waitsFor EXCEPT ![s] = mProcId]
  /\ UNCHANGED <<pc, arg, sockets, conn, helper, reader, stream, raced>>

(* The process has ended, or there is none of that number. *)
WatcherReturns(s) ==
  /\ watcher[s] = "waiting"
  /\ waitsFor[s] # None => proc[waitsFor[s]] = "dead"
  /\ watcher' = [watcher EXCEPT ![s] = "exiting"]
  /\ waitsFor' = [waitsFor EXCEPT ![s] = None]
  /\ UNCHANGED <<pc, arg, sockets, conn, helper, reader, stream, raced>>

WatcherExits(s) ==
  /\ watcher[s] = "exiting"
  /\ watcher' = [watcher EXCEPT ![s] = "ended"]
  /\ OnExit
  /\ UNCHANGED <<pc, arg, sockets, conn, reader, stream, waitsFor, raced>>

-----------------------------------------------------------------------------
Start(i) == OpenFails(i) \/ \E s \in Shells : StartTerminal(i, s) \/ StartFails(i, s)

(* What a session's thread does without waiting for its page. *)
Session(i) ==
  \/ PassiveServer(i) \/ AcceptCall(i) \/ Shakehands(i) \/ CheckRunning(i)
  \/ Start(i) \/ RecvFrame(i) \/ RecvEnds(i) \/ PayloadEnds(i) \/ WriteFails(i)
  \/ CloseConn(i) \/ UnsetConn(i) \/ CloseServer(i) \/ UnsetServer(i)

(* What it does when the page types or the shell reads. *)
Input(i) == Receive(i) \/ ReceivePayload(i) \/ WriteReturns(i)

Page(i) == PageConnects(i) \/ PageLeaves(i)

Reader(s) ==
  \/ ReaderReads(s) \/ ReaderSends(s)
  \/ ReaderEnds(s) \/ ReaderFails(s) \/ ReaderExits(s)

Watcher(s) == WatcherWaits(s) \/ WatcherReturns(s) \/ WatcherExits(s)

Next ==
  \/ \E i \in Sessions : Socket(i) \/ Session(i) \/ Input(i) \/ Page(i)
  \/ \E i, k \in Sessions : AcceptReturn(i, k)
  \/ \E s \in Shells : ShellExits(s) \/ Reader(s) \/ Watcher(s)

Spec == Init /\ [][Next]_vars

(* Threads are scheduled; read(), write() to a terminal and waitpid()      *)
(* return when the connection or the process is gone.  Of the readers      *)
(* nothing is assumed: a page that does not read keeps them sending.       *)
Fairness ==
  /\ \A i \in Sessions : WF_vars(Session(i))
  /\ \A s \in Shells : WF_vars(Watcher(s))

FairSpec == Spec /\ Fairness

-----------------------------------------------------------------------------
TypeOK ==
  /\ pc \in [Sessions -> Places]
  /\ arg \in [Sessions -> Sessions \cup Shells \cup {None}]
  /\ port \in [Sessions -> Sessions \cup {None}]
  /\ listener \in [Sessions -> {"none", "made", "bound", "listening", "closed"}]
  /\ page \in [Sessions -> {"idle", "queued", "accepted", "open", "closed", "gone"}]
  /\ ser_fd \in Sessions \cup {None}
  /\ conn \in Sessions \cup {None, Failed}
  /\ isRunning \in BOOLEAN
  /\ mProcId \in Shells \cup {None}
  /\ mTermFd \in Shells \cup {None}
  /\ proc \in [Shells -> {"none", "alive", "dead", "failed"}]
  /\ reader \in [Shells -> {"none", "loop", "reading", "exiting", "ended"}]
  /\ stream \in [Shells -> Shells \cup {None}]
  /\ watcher \in [Shells -> {"none", "new", "waiting", "exiting", "ended"}]
  /\ waitsFor \in [Shells -> Shells \cup {None}]
  /\ raced \in BOOLEAN
  /\ \A i \in Sessions :
       /\ pc[i] \in {"bind", "listen", "accepting", "recv", "payload"} => arg[i] \in Sessions
       /\ pc[i] = "write" => arg[i] \in Shells
  /\ \A s \in Shells : reader[s] = "reading" => stream[s] # None

(* While isRunning() answers true there is a thread that will notice the   *)
(* end of the current shell: its own watcher has yet to start, waits for   *)
(* just this process, or has seen it end and is about to call onExit; no   *)
(* other thread's onExit, restart or failed start() leaves isRunning set   *)
(* for a shell that nobody watches.                                        *)
RunningIsWatched ==
  isRunning =>
    /\ mProcId # None /\ mTermFd # None
    /\ \/ watcher[mProcId] = "new"
       \/ watcher[mProcId] = "waiting" /\ waitsFor[mProcId] = mProcId
       \/ watcher[mProcId] = "exiting" /\ proc[mProcId] = "dead"

(* A shell that lives on although TerminalHelper has forgotten it was      *)
(* displaced by a second start(): two sessions asked isRunning() before    *)
(* either of them started.  Nothing else leaks a shell.                    *)
OnlyRacedStartsLeak ==
  \A s \in Shells : proc[s] = "alive" /\ mProcId # s => raced

(* What makes it inductive: a session that is to start() has seen that     *)
(* nothing runs, and nothing was started since, unless two raced.          *)
StarterSawNothing ==
  /\ \A i \in Sessions : pc[i] = "start" => ~isRunning \/ raced
  /\ \A i, j \in Sessions : pc[i] = "start" /\ pc[j] = "start" /\ i # j => raced

(* The end of the current shell is noticed, so that the next session finds *)
(* no dead shell running.                                                  *)
ShellEndIsNoticed ==
  \A s \in Shells : (mProcId = s /\ proc[s] = "dead") ~> (mProcId # s)

(* Once every page is gone, no session's thread is left reading: each has  *)
(* ended, still waits for a page that never connected, or still writes     *)
(* what was typed to a shell that lives and does not read it.              *)
NoSessionOutlivesPages ==
  <>[](\A k \in Sessions : page[k] \in {"idle", "gone"})
    => <>[](\A i \in Sessions :
              \/ pc[i] \in {"idle", "stuck", "accepting", "ended"}
              \/ pc[i] = "write" /\ proc[arg[i]] # "dead")

(* The threads of s call onExit. *)
ExitOf(s) ==
  \/ reader[s] = "exiting" /\ reader'[s] = "ended"
  \/ watcher[s] = "exiting" /\ watcher'[s] = "ended"

(* onExit hangs up whatever is current.  Unless two sessions raced to      *)
(* start(), the threads of a shell call it only after that shell has ended: *)
(* they never hang up their own, and the living shell they may hang up     *)
(* instead was started since.                                              *)
OnlyLateThreadsEndShells ==
  [][\A s, t \in Shells :
       ExitOf(s) /\ proc[t] = "alive" /\ proc'[t] = "dead"
         => raced \/ (s # t /\ proc[s] = "dead")]_vars
=============================================================================
