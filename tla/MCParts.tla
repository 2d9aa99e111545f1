------------------------------ MODULE MCParts ------------------------------
(***************************************************************************)
(* The small parts for TLC in one run.  They share no state: a behaviour   *)
(* is one of one part, and the others stay as they begin.                  *)
(***************************************************************************)
EXTENDS Integers, FiniteSets

CONSTANTS
  Reals, Loops, MaxPoolSize, UriLengths, DataLengths, MaxMessages,
  Ids, MaxUploads, Times, Threads, Files, Own,
  Lengths, Buffer, Short, MaxFrames, Senders, Conns, SendLengths,
  Chunks, MaxVersion, MaxPending, RESUME_COUNT, MaxTasks, Garbage, None, Failed

(* There are finitely many event loops; a file has a first chunk; "null"   *)
(* is nothing else: no connection, reset task, database file or content of *)
(* a file.                                                                 *)
ASSUME PartsAssumption ==
  /\ IsFiniteSet(Loops) /\ MaxPoolSize \in Nat
  /\ MaxUploads \in Nat /\ Times \in Nat
  /\ Chunks \in Nat \ {0} /\ MaxVersion \in Nat \ {0}
  /\ RESUME_COUNT \in Nat /\ MaxTasks \in Nat
  /\ Failed \notin Conns \cup {None}
  /\ None \notin Reals \cup Conns \cup Files \cup 1..MaxTasks
  /\ None \notin [1..Chunks -> [file: Files, version: 1..MaxVersion, at: 1..Chunks]]

(* Lengths in bytes. *)
ASSUME CodecAssumption == UriLengths \subseteq Nat /\ DataLengths \subseteq Nat

(* Longer payloads have a length of eight bytes, which WsFrame leaves out; *)
(* payload_data has room for a byte at least.                              *)
ASSUME FrameAssumption ==
  /\ \A n \in Lengths : n \in Nat /\ n < 65536
  /\ Buffer \in Nat \ {0} /\ Short \in Nat

(* TerminalHelper reads 4096 bytes of a shell's output at most. *)
ASSUME SendLengthsAssumption == SendLengths \subseteq 0..4096

VARIABLES
  part, \* whose behaviour it is
  \* FlowControl
  proxy, nextOfProxy, proxyRead, proxyRoom, proxyEvent,
  real, close, realRead, realRoom, realEvent,
  \* ProxyPool
  pooled, poolPc, missed,
  \* ProxyCodec
  sent, codecWire, held, decoded,
  \* UploadProgress
  progress, upload, state, percent, poll, short,
  \* DbList
  maps, current, listPc, file, map, key, alone, added,
  \* FileCache
  version, cache, cachePc, want, at, length, body, disturbed, responses,
  \* WsFrame
  frames, wire, arrived, gone, recvPc, head, size, got, aligned,
  \* WsOutput
  spc, slen, conn, life, shaking, unsetting, expects, garbled, mixed,
  \* Availability
  network, mounted, pending, servicePc,
  isNetworkAvailable, isStorageMounted, isWebServAvailable, told,
  \* Recovery
  errCount, resetTask, task, onErrorPc, after, read, crashed, overlapped, met

Flow    == INSTANCE FlowControl
Pool    == INSTANCE ProxyPool WITH pc <- poolPc
Codec   == INSTANCE ProxyCodec WITH wire <- codecWire, got <- decoded
Upload  == INSTANCE UploadProgress
List    == INSTANCE DbList WITH pc <- listPc
Cache   == INSTANCE FileCache WITH pc <- cachePc
Frame   == INSTANCE WsFrame WITH pc <- recvPc
Output  == INSTANCE WsOutput
Service == INSTANCE Availability WITH pc <- servicePc
Errors  == INSTANCE Recovery WITH pc <- onErrorPc

flowVars == <<proxy, nextOfProxy, proxyRead, proxyRoom, proxyEvent,
    real, close, realRead, realRoom, realEvent>>
poolVars == <<pooled, poolPc, missed>>
codecVars == <<sent, codecWire, held, decoded>>
uploadVars == <<progress, upload, state, percent, poll, short>>
listVars == <<maps, current, listPc, file, map, key, alone, added>>
cacheVars == <<version, cache, cachePc, want, at, length, body, disturbed,
    responses>>
frameVars == <<frames, wire, arrived, gone, recvPc, head, size, got, aligned>>
outputVars == <<spc, slen, conn, life, shaking, unsetting, expects, garbled,
    mixed>>
serviceVars == <<network, mounted, pending, servicePc,
    isNetworkAvailable, isStorageMounted, isWebServAvailable, told>>
errorVars == <<errCount, resetTask, task, onErrorPc, after, read, crashed,
    overlapped, met>>
vars == <<part, flowVars, poolVars, codecVars, uploadVars, listVars,
          cacheVars, frameVars, outputVars, serviceVars, errorVars>>

(* The device of the availability service is at rest in the other parts. *)
Init ==
  /\ part \in {"flow", "pool", "codec", "upload",
              "list", "cache", "frame", "output", "service", "errors"}
  /\ Flow!Init /\ Pool!Init /\ Codec!Init /\ Upload!Init
  /\ List!Init /\ Cache!Init /\ Frame!Init /\ Output!Init /\ Service!Init
  /\ Errors!Init
  /\ part # "service" => network /\ mounted

Next ==
  \/ /\ part = "flow" /\ Flow!Next
     /\ UNCHANGED <<part, poolVars, codecVars, uploadVars, listVars,
                   cacheVars, frameVars, outputVars, serviceVars, errorVars>>
  \/ /\ part = "pool" /\ Pool!Next
     /\ UNCHANGED <<part, flowVars, codecVars, uploadVars, listVars,
                   cacheVars, frameVars, outputVars, serviceVars, errorVars>>
  \/ /\ part = "codec" /\ Codec!Next
     /\ UNCHANGED <<part, flowVars, poolVars, uploadVars, listVars,
                   cacheVars, frameVars, outputVars, serviceVars, errorVars>>
  \/ /\ part = "upload" /\ Upload!Next
     /\ UNCHANGED <<part, flowVars, poolVars, codecVars, listVars,
                   cacheVars, frameVars, outputVars, serviceVars, errorVars>>
  \/ /\ part = "list" /\ List!Next
     /\ UNCHANGED <<part, flowVars, poolVars, codecVars, uploadVars,
                   cacheVars, frameVars, outputVars, serviceVars, errorVars>>
  \/ /\ part = "cache" /\ Cache!Next
     /\ UNCHANGED <<part, flowVars, poolVars, codecVars, uploadVars,
                   listVars, frameVars, outputVars, serviceVars, errorVars>>
  \/ /\ part = "frame" /\ Frame!Next
     /\ UNCHANGED <<part, flowVars, poolVars, codecVars, uploadVars,
                   listVars, cacheVars, outputVars, serviceVars, errorVars>>
  \/ /\ part = "output" /\ Output!Next
     /\ UNCHANGED <<part, flowVars, poolVars, codecVars, uploadVars,
                   listVars, cacheVars, frameVars, serviceVars, errorVars>>
  \/ /\ part = "service" /\ Service!Next
     /\ UNCHANGED <<part, flowVars, poolVars, codecVars, uploadVars,
                   listVars, cacheVars, frameVars, outputVars, errorVars>>
  \/ /\ part = "errors" /\ Errors!Next
     /\ UNCHANGED <<part, flowVars, poolVars, codecVars, uploadVars,
                   listVars, cacheVars, frameVars, outputVars, serviceVars>>

(* The fairness of the parts that have some: where another part runs, it   *)
(* asks for nothing, as all that it asks for is disabled.                  *)
Spec == Init /\ [][Next]_vars /\ Flow!Fairness /\ Upload!Fairness

-----------------------------------------------------------------------------
(* A local connection is left unread only behind a full data channel       *)
(* (ClientChannelHandler.channelWritabilityChanged).                       *)
PausedBehindFullChannel == Flow!PausedBehindFullChannel

(* A data channel whose local connection died is pooled or closed, though  *)
(* its reading was switched off (RealServerChannelHandler, IdleCheckHandler). *)
DeadConnectionFreesChannel == Flow!DeadConnectionFreesChannel

(* The pool exceeds MAX_POOL_SIZE by one channel for each event loop at    *)
(* most (returnProxyChanel).                                               *)
PoolBounded == Pool!PoolBounded

(* Messages with a short uri arrive as sent, in order and once, whatever   *)
(* else arrives (ProxyMessageEncoder, ProxyMessageDecoder).                *)
ShortUriArrives == Codec!ShortUriArrives

(* A poll is not told the progress of an earlier upload that came to 100   *)
(* (Progress.update).                                                      *)
ProgressIsNotOutdated == Upload!ProgressIsNotOutdated

(* The polls of an upload that came to 100 end (app.js, Progress).         *)
PollingEnds == Upload!PollingEnds

(* A database added by a request that ran alone stays in the list          *)
(* (DatabaseHandler.addDBResponse).                                        *)
AddedIsListed == List!AddedIsListed

(* Responses from the cache are one whole file, and the same one, unless   *)
(* something came between while it was filled (FileView, GzipUtil).        *)
ServedWhole == Cache!ServedWhole

(* What is typed arrives intact while no read() crosses a frame or cuts a  *)
(* turn of the key (websocket.c).                                          *)
TypedArrivesIntact == Frame!TypedArrivesIntact

(* A shell's output is framed on a connection no threads met on            *)
(* (websocket.c, the global conn).                                         *)
OutputIsFramed == Output!OutputIsFramed

(* With no broadcast under way the service and its listeners know whether  *)
(* the web server is available (WSService).                                *)
SettledIsTrue == Service!SettledIsTrue

(* A counted error has a reset to come, unless two threads were in onError *)
(* at once (KeepAliveService.onError, restartResetTask).                   *)
CountedErrorIsForgotten == Errors!CountedErrorIsForgotten

(* onError throws only when it meets another one, or the reset task        *)
(* (KeepAliveService.cancelResetTask, restartResetTask).                   *)
OnlyRacesCrash == Errors!OnlyRacesCrash
=============================================================================
