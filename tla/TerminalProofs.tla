--------------------------- MODULE TerminalProofs ---------------------------
(***************************************************************************)
(* Proofs about Terminal, for any sets of sessions and shells.             *)
(***************************************************************************)
EXTENDS Terminal, TLAPS

(* isRunning tells whether TerminalHelper holds a process; onExit runs two *)
(* times for every shell, from two threads, and start() may fail half way. *)
RunningHasShell ==
  /\ isRunning <=> mProcId # None
  /\ isRunning => mTermFd # None

(* Unless two sessions raced, the pseudo-terminal is the current shell's,  *)
(* and the shell's reader reads it until the shell ends.                   *)
CurrentIsRead ==
  mProcId # None /\ ~raced =>
    /\ mTermFd = mProcId
    /\ reader[mProcId] = "reading" => stream[mProcId] = mProcId
    /\ reader[mProcId] = "exiting" => proc[mProcId] = "dead"

ThreadsHaveShell ==
  \A s \in Shells :
    reader[s] # "none" \/ watcher[s] # "none" => proc[s] \in {"alive", "dead"}

(* The inductive invariant: OnlyRacedStartsLeak needs to know that whoever *)
(* is about to start() saw nothing running, and the actions of the threads *)
(* that what they wait for or read is their own shell while it is current. *)
HelperOK ==
  /\ RunningHasShell /\ RunningIsWatched /\ OnlyRacedStartsLeak
  /\ StarterSawNothing /\ CurrentIsRead /\ ThreadsHaveShell

HelperInv == TypeOK /\ HelperOK

-----------------------------------------------------------------------------
(* Moving one session's pc keeps the pcs typed. *)
LEMMA GotoPlaces ==
  ASSUME NEW i, NEW from, NEW to, to \in Places,
         pc \in [Sessions -> Places], Goto(i, from, to)
  PROVE  pc' \in [Sessions -> Places]
BY DEF Goto

(* At first nothing exists. *)
LEMMA HelperInit == Init => HelperInv
<1> SUFFICES ASSUME Init PROVE HelperInv
  OBVIOUS
<1>1. TypeOK
  BY DEF Init, TypeOK, Places
<1>2. RunningHasShell /\ RunningIsWatched /\ CurrentIsRead
  BY DEF Init, RunningHasShell, RunningIsWatched, CurrentIsRead
<1>3. OnlyRacedStartsLeak /\ ThreadsHaveShell
  BY DEF Init, OnlyRacedStartsLeak, ThreadsHaveShell
<1>4. StarterSawNothing
  BY DEF Init, StarterSawNothing
<1> QED
  BY <1>1, <1>2, <1>3, <1>4 DEF HelperInv, HelperOK

(* The sockets of a session's steps stay typed. *)
LEMMA SessionType ==
  ASSUME TypeOK, NEW i \in Sessions, Socket(i) \/ Session(i) \/ Input(i)
  PROVE  TypeOK'
<1> USE DEF Goto, TypeOK, sockets, helper, threads
<1>1. CASE Socket(i)
  BY <1>1 DEF Socket, Places
<1>2. CASE PassiveServer(i)
  <2>1. CASE SetOption(i)
    BY <2>1 DEF SetOption, Places
  <2>2. CASE Bind(i)
    BY <2>2 DEF Bind, Places
  <2>3. CASE Listen(i)
    BY <2>3 DEF Listen, Places
  <2>4. CASE ListenFails(i)
    BY <2>4 DEF ListenFails, Places
  <2> QED
    BY <1>2, <2>1, <2>2, <2>3, <2>4 DEF PassiveServer
<1>3. CASE AcceptCall(i)
  BY <1>3 DEF AcceptCall, Places
<1>4. CASE Shakehands(i)
  BY <1>4 DEF Shakehands, Places
<1>5. CASE CheckRunning(i)
  BY <1>5 DEF CheckRunning, Places
<1>6. ASSUME NEW s \in Shells, StartTerminal(i, s)
      PROVE  TypeOK'
  BY <1>6 DEF StartTerminal, Places
<1>7. ASSUME NEW s \in Shells, StartFails(i, s)
      PROVE  TypeOK'
  BY <1>7 DEF StartFails, Places
<1>8. CASE OpenFails(i)
  BY <1>8 DEF OpenFails, Places
<1>9. CASE RecvFrame(i)
  BY <1>9 DEF RecvFrame, Readable, Places
<1>10. CASE RecvEnds(i)
  BY <1>10 DEF RecvEnds, Places
<1>11. CASE CloseConn(i)
  BY <1>11 DEF CloseConn, Places
<1>12. CASE UnsetConn(i)
  BY <1>12 DEF UnsetConn, Places
<1>13. CASE CloseServer(i)
  BY <1>13 DEF CloseServer, Places
<1>14. CASE UnsetServer(i)
  BY <1>14 DEF UnsetServer, Places
<1>15. CASE Receive(i)
  BY <1>15 DEF Receive, ReadsPayload, Readable, Places
<1>16. CASE ReceivePayload(i)
  BY <1>16 DEF ReceivePayload, ReadsOn, ReadsPayload, Readable, Places
<1>17. CASE PayloadEnds(i)
  BY <1>17 DEF PayloadEnds, Places
<1>18. CASE WriteReturns(i)
  BY <1>18 DEF WriteReturns, ReadsOn, ReadsPayload, Readable, Places
<1> QED
  BY <1>1, <1>2, <1>3, <1>4, <1>5, <1>6, <1>7, <1>8, <1>9, <1>10, <1>11,
     <1>12, <1>13, <1>14, <1>15, <1>16, <1>17, <1>18
  DEF Session, Start, Input, WriteFails

(* The steps of the pages and of the helper's threads keep the types. *)
LEMMA OtherType ==
  ASSUME TypeOK,
         \/ \E i \in Sessions : Page(i)
         \/ \E i, k \in Sessions : AcceptReturn(i, k)
         \/ \E s \in Shells : ShellExits(s) \/ Reader(s) \/ Watcher(s)
  PROVE  TypeOK'
<1> USE DEF TypeOK, sockets, helper, threads
<1>1. ASSUME NEW i \in Sessions, Page(i)
      PROVE  TypeOK'
  BY <1>1 DEF Page, PageConnects, PageLeaves
<1>2. ASSUME NEW i \in Sessions, NEW k \in Sessions, AcceptReturn(i, k)
      PROVE  TypeOK'
  BY <1>2 DEF AcceptReturn, Goto, Places
<1>3. ASSUME NEW s \in Shells, ShellExits(s)
      PROVE  TypeOK'
  BY <1>3 DEF ShellExits
<1>4. ASSUME NEW s \in Shells, Reader(s)
      PROVE  TypeOK'
  <2>1. CASE ReaderReads(s)
    BY <2>1 DEF ReaderReads
  <2>2. CASE ReaderSends(s)
    BY <2>2 DEF ReaderSends
  <2>3. CASE ReaderEnds(s)
    BY <2>3 DEF ReaderEnds
  <2>4. CASE ReaderFails(s)
    BY <2>4 DEF ReaderFails
  <2>5. CASE ReaderExits(s)
    BY <2>5 DEF ReaderExits, OnExit
  <2> QED
    BY <1>4, <2>1, <2>2, <2>3, <2>4, <2>5 DEF Reader
<1>5. ASSUME NEW s \in Shells, Watcher(s)
      PROVE  TypeOK'
  <2>1. CASE WatcherWaits(s)
    BY <2>1 DEF WatcherWaits
  <2>2. CASE WatcherReturns(s)
    BY <2>2 DEF WatcherReturns
  <2>3. CASE WatcherExits(s)
    BY <2>3 DEF WatcherExits, OnExit
  <2> QED
    BY <1>5, <2>1, <2>2, <2>3 DEF Watcher
<1> QED
  BY <1>1, <1>2, <1>3, <1>4, <1>5

-----------------------------------------------------------------------------
(* What the helper's invariant says reads these variables only, and a      *)
(* session that does not come to start() does not disturb it.              *)
LEMMA HelperFrame ==
  ASSUME HelperOK, UNCHANGED <<helper, threads, raced>>,
         \A i \in Sessions : pc'[i] = "start" => pc[i] = "start"
  PROVE  HelperOK'
<1> USE DEF HelperOK, helper, threads
<1>1. RunningHasShell' /\ RunningIsWatched' /\ CurrentIsRead'
  BY DEF RunningHasShell, RunningIsWatched, CurrentIsRead
<1>2. OnlyRacedStartsLeak' /\ ThreadsHaveShell'
  BY DEF OnlyRacedStartsLeak, ThreadsHaveShell
<1>3. StarterSawNothing'
  BY DEF StarterSawNothing
<1> QED
  BY <1>1, <1>2, <1>3

(* CheckRunning sends a session to start() only when nothing runs. *)
LEMMA HelperCheckRunning ==
  ASSUME HelperInv, NEW i \in Sessions, CheckRunning(i)
  PROVE  HelperOK'
<1> USE DEF HelperInv, HelperOK, CheckRunning, helper, threads
<1>1. RunningHasShell' /\ RunningIsWatched'
  BY DEF RunningHasShell, RunningIsWatched
<1>2. OnlyRacedStartsLeak' /\ ThreadsHaveShell'
  BY DEF OnlyRacedStartsLeak, ThreadsHaveShell
<1>3. StarterSawNothing'
  BY DEF StarterSawNothing, Goto, TypeOK
<1>4. CurrentIsRead'
  BY DEF CurrentIsRead
<1> QED
  BY <1>1, <1>2, <1>3, <1>4

(* start() displaces a shell only if its session raced another. *)
LEMMA HelperStartTerminal ==
  ASSUME HelperInv, NEW i \in Sessions, NEW s \in Shells, StartTerminal(i, s)
  PROVE  HelperOK'
<1>1. TypeOK /\ HelperOK
  BY DEF HelperInv
<1>2. /\ mProcId' = s /\ mTermFd' = s /\ isRunning' = TRUE /\ s # None
      /\ reader'[s] = "loop" /\ watcher'[s] = "new" /\ proc'[s] = "alive"
      /\ \A t \in Shells : t # s => /\ reader'[t] = reader[t]
                                    /\ watcher'[t] = watcher[t]
                                    /\ proc'[t] = proc[t]
  BY <1>1, TerminalAssumption DEF StartTerminal, TypeOK
<1>3. RunningHasShell' /\ RunningIsWatched' /\ CurrentIsRead'
  BY <1>2 DEF RunningHasShell, RunningIsWatched, CurrentIsRead
<1>4. ASSUME NEW t \in Shells, proc'[t] = "alive", mProcId' # t
      PROVE  raced'
  <2>1. t # s /\ proc[t] = "alive"
    BY <1>2, <1>4
  <2>2. CASE mProcId = t
    <3>1. isRunning /\ pc[i] = "start"
      BY <1>1, <2>2, TerminalAssumption DEF HelperOK, RunningHasShell, StartTerminal, Goto
    <3> QED
      BY <1>1, <3>1 DEF HelperOK, StarterSawNothing, StartTerminal
  <2>3. CASE mProcId # t
    BY <1>1, <2>1, <2>3 DEF HelperOK, OnlyRacedStartsLeak, StartTerminal
  <2> QED
    BY <2>2, <2>3
<1>5. OnlyRacedStartsLeak'
  BY <1>4 DEF OnlyRacedStartsLeak
<1>6. StarterSawNothing'
  <2>1. pc[i] = "start" /\ raced' = raced
        /\ \A j \in Sessions : pc'[j] = "start" => pc[j] = "start" /\ j # i
    BY <1>1 DEF StartTerminal, Goto, TypeOK
  <2> QED
    BY <1>1, <2>1 DEF HelperOK, StarterSawNothing
<1>7. ThreadsHaveShell'
  BY <1>1, <1>2 DEF HelperOK, ThreadsHaveShell
<1> QED
  BY <1>3, <1>5, <1>6, <1>7 DEF HelperOK

(* A start() that fails half way changes neither mProcId nor isRunning;    *)
(* it replaces the pseudo-terminal of a current shell only after a race.   *)
LEMMA HelperStartFails ==
  ASSUME HelperInv, NEW i \in Sessions, NEW s \in Shells, StartFails(i, s)
  PROVE  HelperOK'
<1>1. TypeOK /\ HelperOK
  BY DEF HelperInv
<1>2. /\ mTermFd' = s /\ s # None /\ proc[s] = "none" /\ proc'[s] = "failed"
      /\ \A t \in Shells : t # s => proc'[t] = proc[t]
      /\ UNCHANGED <<isRunning, mProcId, reader, stream, watcher, waitsFor, raced>>
  BY <1>1, TerminalAssumption DEF StartFails, TypeOK, threads
<1>3. reader[s] = "none" /\ watcher[s] = "none"
  BY <1>1, <1>2 DEF HelperOK, ThreadsHaveShell
<1>4. RunningHasShell'
  BY <1>1, <1>2 DEF HelperOK, RunningHasShell
<1>5. RunningIsWatched'
  <2>1. mProcId \in Shells /\ isRunning => mProcId # s
    BY <1>1, <1>3 DEF HelperOK, RunningIsWatched
  <2> QED
    BY <1>1, <1>2, <2>1 DEF HelperOK, RunningIsWatched, TypeOK
<1>6. OnlyRacedStartsLeak'
  BY <1>1, <1>2 DEF HelperOK, OnlyRacedStartsLeak
<1>7. StarterSawNothing'
  BY <1>1 DEF HelperOK, StartFails, StarterSawNothing, Goto, TypeOK
<1>8. CurrentIsRead'
  <2>1. pc[i] = "start"
    BY DEF StartFails, Goto
  <2>2. raced \/ mProcId = None
    BY <1>1, <2>1 DEF HelperOK, StarterSawNothing, RunningHasShell
  <2> QED
    BY <1>2, <2>2 DEF CurrentIsRead
<1>9. ThreadsHaveShell'
  BY <1>1, <1>2, <1>3 DEF HelperOK, ThreadsHaveShell
<1> QED
  BY <1>4, <1>5, <1>6, <1>7, <1>8, <1>9 DEF HelperOK

(* onExit hangs up the shell it forgets. *)
LEMMA HelperOnExit ==
  ASSUME HelperInv, OnExit, UNCHANGED <<pc, raced>>,
         \A s \in Shells : /\ reader'[s] # "none" => reader[s] # "none"
                           /\ watcher'[s] # "none" => watcher[s] # "none"
  PROVE  HelperOK'
<1>1. TypeOK /\ HelperOK
  BY DEF HelperInv
<1>2. RunningHasShell' /\ RunningIsWatched' /\ CurrentIsRead'
  BY DEF OnExit, RunningHasShell, RunningIsWatched, CurrentIsRead
<1>3. OnlyRacedStartsLeak'
  BY <1>1 DEF HelperOK, OnExit, OnlyRacedStartsLeak
<1>4. StarterSawNothing'
  BY <1>1 DEF HelperOK, OnExit, StarterSawNothing
<1>5. ThreadsHaveShell'
  BY <1>1 DEF HelperOK, OnExit, ThreadsHaveShell
<1> QED
  BY <1>2, <1>3, <1>4, <1>5 DEF HelperOK

(* A shell that ends by itself is not alive any more. *)
LEMMA HelperShellExits ==
  ASSUME HelperInv, NEW s \in Shells, ShellExits(s)
  PROVE  HelperOK'
<1>1. TypeOK /\ HelperOK
  BY DEF HelperInv
<1>2. /\ proc'[s] = "dead" /\ proc[s] = "alive"
      /\ \A t \in Shells : t # s => proc'[t] = proc[t]
      /\ UNCHANGED <<pc, isRunning, mProcId, mTermFd, reader, stream, watcher,
                     waitsFor, raced>>
  BY <1>1 DEF ShellExits, TypeOK, threads
<1>3. mProcId \in Shells \cup {None}
  BY <1>1 DEF TypeOK
<1>4. RunningHasShell' /\ StarterSawNothing'
  BY <1>1, <1>2 DEF HelperOK, RunningHasShell, StarterSawNothing
<1>5. RunningIsWatched' /\ CurrentIsRead'
  BY <1>1, <1>2, <1>3 DEF HelperOK, RunningIsWatched, CurrentIsRead
<1>6. OnlyRacedStartsLeak' /\ ThreadsHaveShell'
  BY <1>1, <1>2 DEF HelperOK, OnlyRacedStartsLeak, ThreadsHaveShell
<1> QED
  BY <1>4, <1>5, <1>6 DEF HelperOK

(* A thread that goes on leaves the shells as they are.                    *)
LEMMA ThreadFrame ==
  ASSUME HelperOK, UNCHANGED <<helper, raced, pc>>,
         \A s \in Shells : /\ reader'[s] # "none" => reader[s] # "none"
                           /\ watcher'[s] # "none" => watcher[s] # "none"
  PROVE  /\ RunningHasShell' /\ OnlyRacedStartsLeak' /\ StarterSawNothing'
         /\ ThreadsHaveShell'
<1> USE DEF HelperOK, helper
<1>1. RunningHasShell' /\ StarterSawNothing'
  BY DEF RunningHasShell, StarterSawNothing
<1>2. OnlyRacedStartsLeak' /\ ThreadsHaveShell'
  BY DEF OnlyRacedStartsLeak, ThreadsHaveShell
<1> QED
  BY <1>1, <1>2

(* A reader stops reading the current shell only when that has ended. *)
LEMMA HelperReader ==
  ASSUME HelperInv, NEW s \in Shells, Reader(s)
  PROVE  HelperOK'
<1>1. TypeOK /\ HelperOK
  BY DEF HelperInv
<1>2. CASE ReaderExits(s)
  <2>1. \A t \in Shells : reader'[t] # "none" => reader[t] # "none"
    BY <1>1, <1>2 DEF ReaderExits, TypeOK
  <2> QED
    BY <1>2, <2>1, HelperOnExit DEF ReaderExits
<1>3. CASE ReaderReads(s) \/ ReaderSends(s) \/ ReaderEnds(s) \/ ReaderFails(s)
  <2>1. UNCHANGED <<helper, raced, pc, watcher, waitsFor>>
    BY <1>3 DEF ReaderReads, ReaderSends, ReaderEnds, ReaderFails
  <2>2. \A t \in Shells : /\ reader'[t] # "none" => reader[t] # "none"
                          /\ t # s => reader'[t] = reader[t] /\ stream'[t] = stream[t]
    BY <1>1, <1>3 DEF ReaderReads, ReaderSends, ReaderEnds, ReaderFails, TypeOK
  <2>3. RunningIsWatched'
    BY <1>1, <2>1 DEF HelperOK, RunningIsWatched, helper
  <2>4. ASSUME mProcId = s, ~raced
        PROVE  /\ reader'[s] = "reading" => stream'[s] = s
               /\ reader'[s] = "exiting" => proc[s] = "dead"
    <3>1. mTermFd = s /\ s # None
      BY <1>1, <2>4, TerminalAssumption DEF HelperOK, CurrentIsRead
    <3>2. reader[s] = "reading" => stream[s] = s
      BY <1>1, <2>4, <3>1 DEF HelperOK, CurrentIsRead
    <3>3. CASE ReaderReads(s)
      BY <1>1, <3>1, <3>3 DEF ReaderReads, TypeOK
    <3>4. CASE ReaderSends(s)
      BY <1>1, <3>4 DEF ReaderSends, TypeOK
    <3>5. CASE ReaderEnds(s)
      BY <1>1, <3>2, <3>5 DEF ReaderEnds, TypeOK
    <3>6. CASE ReaderFails(s)
      BY <3>1, <3>2, <3>6 DEF ReaderFails
    <3> QED
      BY <1>3, <3>3, <3>4, <3>5, <3>6
  <2>5. CurrentIsRead'
    BY <1>1, <2>1, <2>2, <2>4 DEF HelperOK, CurrentIsRead, helper, TypeOK
  <2> QED
    BY <1>1, <2>1, <2>2, <2>3, <2>5, ThreadFrame DEF HelperOK
<1> QED
  BY <1>2, <1>3 DEF Reader

(* The current shell's watcher waits for it and for nothing else. *)
LEMMA HelperWatcher ==
  ASSUME HelperInv, NEW s \in Shells, Watcher(s)
  PROVE  HelperOK'
<1>1. TypeOK /\ HelperOK
  BY DEF HelperInv
<1>2. CASE WatcherExits(s)
  <2>1. \A t \in Shells : watcher'[t] # "none" => watcher[t] # "none"
    BY <1>1, <1>2 DEF WatcherExits, TypeOK
  <2> QED
    BY <1>2, <2>1, HelperOnExit DEF WatcherExits
<1>3. CASE WatcherWaits(s) \/ WatcherReturns(s)
  <2>1. UNCHANGED <<helper, raced, pc, reader, stream>>
    BY <1>3 DEF WatcherWaits, WatcherReturns
  <2>2. \A t \in Shells : /\ watcher'[t] # "none" => watcher[t] # "none"
                          /\ t # s => watcher'[t] = watcher[t] /\ waitsFor'[t] = waitsFor[t]
    BY <1>1, <1>3 DEF WatcherWaits, WatcherReturns, TypeOK
  <2>3. CurrentIsRead'
    BY <1>1, <2>1 DEF HelperOK, CurrentIsRead, helper
  <2>4. ASSUME mProcId = s, isRunning
        PROVE  \/ watcher'[s] = "waiting" /\ waitsFor'[s] = s
               \/ watcher'[s] = "exiting" /\ proc[s] = "dead"
    <3>1. CASE WatcherWaits(s)
      BY <1>1, <2>4, <3>1 DEF WatcherWaits, TypeOK
    <3>2. CASE WatcherReturns(s)
      <4>1. waitsFor[s] = s /\ s # None
        BY <1>1, <2>4, <3>2 DEF HelperOK, RunningIsWatched, WatcherReturns
      <4> QED
        BY <1>1, <3>2, <4>1 DEF WatcherReturns, TypeOK
    <3> QED
      BY <1>3, <3>1, <3>2
  <2>5. RunningIsWatched'
    BY <1>1, <2>1, <2>2, <2>4 DEF HelperOK, RunningIsWatched, helper, TypeOK
  <2> QED
    BY <1>1, <2>1, <2>2, <2>3, <2>5, ThreadFrame DEF HelperOK
<1> QED
  BY <1>2, <1>3 DEF Watcher

(* A session's steps other than the check and start() leave the helper     *)
(* alone, and none of them leads to start().                               *)
LEMMA SessionFrame ==
  ASSUME TypeOK, NEW i \in Sessions,
         \/ Socket(i) \/ PassiveServer(i) \/ AcceptCall(i) \/ Shakehands(i)
         \/ OpenFails(i) \/ RecvFrame(i) \/ RecvEnds(i) \/ PayloadEnds(i)
         \/ CloseConn(i) \/ UnsetConn(i) \/ CloseServer(i) \/ UnsetServer(i)
         \/ Input(i) \/ \E k \in Sessions : AcceptReturn(i, k)
  PROVE  /\ UNCHANGED <<helper, threads, raced>>
         /\ \A j \in Sessions : pc'[j] = "start" => pc[j] = "start"
<1> USE DEF TypeOK, Goto
<1>1. CASE Socket(i) \/ PassiveServer(i)
  BY <1>1 DEF Socket, PassiveServer, SetOption, Bind, Listen, ListenFails
<1>2. CASE AcceptCall(i) \/ Shakehands(i) \/ OpenFails(i)
  BY <1>2 DEF AcceptCall, Shakehands, OpenFails
<1>3. CASE RecvFrame(i) \/ RecvEnds(i) \/ PayloadEnds(i)
  BY <1>3 DEF RecvFrame, RecvEnds, PayloadEnds
<1>4. CASE CloseConn(i) \/ UnsetConn(i) \/ CloseServer(i) \/ UnsetServer(i)
  BY <1>4 DEF CloseConn, UnsetConn, CloseServer, UnsetServer
<1>5. CASE Input(i)
  BY <1>5 DEF Input, Receive, ReceivePayload, WriteReturns, ReadsOn, ReadsPayload
<1>6. CASE \E k \in Sessions : AcceptReturn(i, k)
  BY <1>6 DEF AcceptReturn
<1> QED
  BY <1>1, <1>2, <1>3, <1>4, <1>5, <1>6

(* Every step preserves the inductive invariant. *)
LEMMA HelperNext == HelperInv /\ [Next]_vars => HelperInv'
<1> SUFFICES ASSUME HelperInv, [Next]_vars
             PROVE  HelperInv'
  OBVIOUS
<1>1. TypeOK /\ HelperOK
  BY DEF HelperInv
<1>2. ASSUME NEW i \in Sessions, Socket(i) \/ Session(i) \/ Input(i)
      PROVE  TypeOK' /\ HelperOK'
  <2>1. TypeOK'
    BY <1>1, <1>2, SessionType
  <2>2. CASE CheckRunning(i)
    BY <2>1, <2>2, HelperCheckRunning
  <2>3. ASSUME NEW s \in Shells, StartTerminal(i, s)
        PROVE  HelperOK'
    BY <2>3, HelperStartTerminal
  <2>4. ASSUME NEW s \in Shells, StartFails(i, s)
        PROVE  HelperOK'
    BY <2>4, HelperStartFails
  <2>5. CASE \/ Socket(i) \/ PassiveServer(i) \/ AcceptCall(i) \/ Shakehands(i)
             \/ OpenFails(i) \/ RecvFrame(i) \/ RecvEnds(i) \/ PayloadEnds(i)
             \/ CloseConn(i) \/ UnsetConn(i) \/ CloseServer(i) \/ UnsetServer(i)
             \/ Input(i)
    BY <1>1, <2>1, <2>5, SessionFrame, HelperFrame
  <2> QED
    BY <1>2, <2>1, <2>2, <2>3, <2>4, <2>5 DEF Session, Start, Input, WriteFails
<1>3. ASSUME NEW i \in Sessions, NEW k \in Sessions, AcceptReturn(i, k)
      PROVE  TypeOK' /\ HelperOK'
  <2>1. TypeOK'
    BY <1>1, <1>3, OtherType
  <2> QED
    BY <1>1, <1>3, <2>1, SessionFrame, HelperFrame
<1>4. ASSUME NEW i \in Sessions, Page(i)
      PROVE  TypeOK' /\ HelperOK'
  <2>1. TypeOK'
    BY <1>1, <1>4, OtherType
  <2>2. UNCHANGED <<helper, threads, raced, pc>>
    BY <1>4 DEF Page, PageConnects, PageLeaves
  <2> QED
    BY <1>1, <2>1, <2>2, HelperFrame
<1>5. ASSUME NEW s \in Shells, ShellExits(s)
      PROVE  TypeOK' /\ HelperOK'
  BY <1>1, <1>5, OtherType, HelperShellExits
<1>6. ASSUME NEW s \in Shells, Reader(s)
      PROVE  TypeOK' /\ HelperOK'
  BY <1>1, <1>6, OtherType, HelperReader
<1>7. ASSUME NEW s \in Shells, Watcher(s)
      PROVE  TypeOK' /\ HelperOK'
  BY <1>1, <1>7, OtherType, HelperWatcher
<1>8. CASE UNCHANGED vars
  <2>1. TypeOK'
    BY <1>1, <1>8 DEF TypeOK, vars, sockets, helper, threads
  <2>2. UNCHANGED <<helper, threads, raced, pc>>
    BY <1>8 DEF vars
  <2> QED
    BY <1>1, <2>1, <2>2, HelperFrame DEF HelperInv
<1> QED
  BY <1>2, <1>3, <1>4, <1>5, <1>6, <1>7, <1>8 DEF Next, HelperInv

(* HelperInv is an invariant of the specification. *)
LEMMA HelperInvariance == Spec => []HelperInv
BY HelperInit, HelperNext, PTL DEF Spec

(* Sessions, sockets and the terminal's threads always hold what their     *)
(* declarations say; a thread that reads reads something.                  *)
THEOREM TypeCorrect == Spec => []TypeOK
<1>1. HelperInv => TypeOK
  BY DEF HelperInv
<1> QED
  BY <1>1, HelperInvariance, PTL

(* While isRunning() answers true, the current shell's watcher is there to *)
(* notice its end (TerminalHelper.start, mWatcherThread, onExit).          *)
THEOREM RunningShellIsWatched == Spec => []RunningIsWatched
<1>1. HelperInv => RunningIsWatched
  BY DEF HelperInv, HelperOK
<1> QED
  BY <1>1, HelperInvariance, PTL

(* However many sessions open, fail and close terminals, only two sessions *)
(* that asked isRunning() before either started can leave a shell behind   *)
(* (WebSocketThread.run, TerminalHelper.start).                            *)
THEOREM ShellsDoNotLeak == Spec => []OnlyRacedStartsLeak
<1>1. HelperInv => OnlyRacedStartsLeak
  BY DEF HelperInv, HelperOK
<1> QED
  BY <1>1, HelperInvariance, PTL

(* A step in which a living shell ends although it did not exit by itself  *)
(* is an onExit, while that shell is current.                              *)
LEMMA OnlyOnExitHangsUp ==
  ASSUME TypeOK, Next, NEW s \in Shells, NEW t \in Shells,
         ExitOf(s), proc[t] = "alive", proc'[t] = "dead"
  PROVE  /\ mProcId = t
         /\ reader[s] = "exiting" \/ watcher[s] = "exiting"
<1>1. reader[s] = "exiting" \/ watcher[s] = "exiting"
  BY DEF ExitOf
<1>2. ~ UNCHANGED proc /\ ~ UNCHANGED <<reader, watcher>>
  BY DEF ExitOf
<1>3. ASSUME NEW i \in Sessions, Socket(i) \/ Session(i) \/ Input(i)
      PROVE  FALSE
  <2>1. CASE CheckRunning(i)
    BY <1>2, <2>1 DEF CheckRunning, helper
  <2>2. ASSUME NEW u \in Shells, StartTerminal(i, u)
        PROVE  FALSE
    BY <2>2 DEF StartTerminal, TypeOK
  <2>3. ASSUME NEW u \in Shells, StartFails(i, u)
        PROVE  FALSE
    BY <2>3 DEF StartFails, TypeOK
  <2>4. CASE \/ Socket(i) \/ PassiveServer(i) \/ AcceptCall(i) \/ Shakehands(i)
             \/ OpenFails(i) \/ RecvFrame(i) \/ RecvEnds(i) \/ PayloadEnds(i)
             \/ CloseConn(i) \/ UnsetConn(i) \/ CloseServer(i) \/ UnsetServer(i)
             \/ Input(i)
    BY <1>2, <2>4, SessionFrame DEF helper
  <2> QED
    BY <1>3, <2>1, <2>2, <2>3, <2>4 DEF Session, Start, Input, WriteFails
<1>4. ASSUME NEW i \in Sessions, NEW k \in Sessions, AcceptReturn(i, k)
      PROVE  FALSE
  BY <1>2, <1>4 DEF AcceptReturn, helper
<1>5. ASSUME NEW i \in Sessions, Page(i)
      PROVE  FALSE
  BY <1>2, <1>5 DEF Page, PageConnects, PageLeaves, helper
<1>6. ASSUME NEW u \in Shells, ShellExits(u)
      PROVE  FALSE
  BY <1>2, <1>6 DEF ShellExits, threads
<1>7. ASSUME NEW u \in Shells, Reader(u)
      PROVE  mProcId = t
  <2>1. CASE ReaderExits(u)
    BY <2>1 DEF ReaderExits, OnExit, TypeOK
  <2>2. CASE ReaderReads(u) \/ ReaderSends(u) \/ ReaderEnds(u) \/ ReaderFails(u)
    BY <1>2, <2>2 DEF ReaderReads, ReaderSends, ReaderEnds, ReaderFails, helper
  <2> QED
    BY <1>7, <2>1, <2>2 DEF Reader
<1>8. ASSUME NEW u \in Shells, Watcher(u)
      PROVE  mProcId = t
  <2>1. CASE WatcherExits(u)
    BY <2>1 DEF WatcherExits, OnExit, TypeOK
  <2>2. CASE WatcherWaits(u) \/ WatcherReturns(u)
    BY <1>2, <2>2 DEF WatcherWaits, WatcherReturns, helper
  <2> QED
    BY <1>8, <2>1, <2>2 DEF Watcher
<1> QED
  BY <1>1, <1>3, <1>4, <1>5, <1>6, <1>7, <1>8 DEF Next

(* Unless two sessions raced to start(), the threads of a shell call onExit *)
(* only after it has ended, so that the living shell they may hang up was  *)
(* started since (TerminalHelper.onExit).                                  *)
THEOREM LateThreadsOnly == Spec => OnlyLateThreadsEndShells
<1> DEFINE LateOnly ==
      \A s, t \in Shells :
        ExitOf(s) /\ proc[t] = "alive" /\ proc'[t] = "dead"
          => raced \/ (s # t /\ proc[s] = "dead")
<1>1. HelperInv /\ [Next]_vars => [LateOnly]_vars
  <2> SUFFICES ASSUME HelperInv, Next, NEW s \in Shells, NEW t \in Shells,
                      ExitOf(s), proc[t] = "alive", proc'[t] = "dead", ~raced
               PROVE  s # t /\ proc[s] = "dead"
    OBVIOUS
  <2>1. TypeOK /\ HelperOK
    BY DEF HelperInv
  <2>2. mProcId = t /\ (reader[s] = "exiting" \/ watcher[s] = "exiting")
    BY <2>1, OnlyOnExitHangsUp
  <2>3. isRunning /\ t # None
    BY <2>1, <2>2, TerminalAssumption DEF HelperOK, RunningHasShell
  <2>4. s # t
    <3>1. reader[t] # "exiting"
      BY <2>1, <2>2, <2>3 DEF HelperOK, CurrentIsRead
    <3>2. watcher[t] # "exiting"
      BY <2>1, <2>2, <2>3 DEF HelperOK, RunningIsWatched
    <3> QED
      BY <2>2, <3>1, <3>2
  <2>5. proc[s] \in {"alive", "dead"}
    BY <2>1, <2>2 DEF HelperOK, ThreadsHaveShell
  <2>6. proc[s] # "alive"
    BY <2>1, <2>2, <2>4 DEF HelperOK, OnlyRacedStartsLeak
  <2> QED
    BY <2>4, <2>5, <2>6
<1> QED
  BY <1>1, HelperInvariance, PTL DEF Spec, OnlyLateThreadsEndShells
=============================================================================
