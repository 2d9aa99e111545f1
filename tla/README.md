# AndroidDebug: TLA+ specifications, model checking and proofs

AndroidDebug embeds a web server in an Android application: a browser on the
same network sees its files, databases, preferences, logs and a shell.
`libremoteproxy` adds a tunnel to a proxy server, so that the web server can be
reached from outside.  This directory holds TLA+ models of the parts whose
correctness depends on the order in which threads, event loops and messages
act, the TLC configurations that check them and TLAPS proofs about them.

Paths below are relative to the repository: `RP` is
`src/libremoteproxy/src/main/java/com/snailstudio/xsdk/remoteproxy`, `LD` is
`src/libdebug/src/main/java/com/snailstudio/xsdk/debug`, `JNI` is
`src/libdebug/src/main/jni`, `JS` is `src/libdebug/src/main/assets/ws/js`.

## The system

| Component | State | Operations | Modelled by |
|---|---|---|---|
| Channel manager and handlers (`RP/client`) | pool of data channels, map of local connections by user id, control channel, attributes `NEXT_CHANNEL` and `USER_ID`, `AUTO_READ` | `handleConnectMessage`, `borrowProxyChanel`, `returnProxyChanel`, `success`/`error`, `handleTransferMessage`, `handleDisconnectMessage`, `channelWritabilityChanged`, the inactive events of three kinds of channel | `ProxyClient`, `Tunnel`, `FlowControl`, `ProxyPool` |
| Start, stop, reconnect (`RP/ContainerHelper`, `ProxyClientContainer`, `protocol/Utils`) | static list of containers, `isStart`, `running`, `sleepTimeMill`, event loop group, control channel | `start`, `stop`, `checkKey`, `connectProxyServer`, `channelInactive` listener, `reconnectWait` | `ProxyReconnect` |
| Message codec and idle check (`RP/protocol`) | the decoder's cumulation; read and write idle timers | `encode`, `decode`, `channelIdle` | `ProxyCodec`, `FlowControl` |
| Keep-alive service and web server (`LD/service/KeepAliveService`, `LD/serv/WebServer`, `WorkerThread`) | `webServer`, `errCount`, `resetTask`, the static `isLoop`, the listening sockets | `onStartCommand`, `onDestroy`, `openWebServer`, `closeWebServer`, `run`, `close`, `onError`, the reset task | `WebServerLifecycle`, `Recovery` |
| Availability receivers, `LD/service/WSService` | flags for network, storage and their conjunction | `onCreate`, `onDestroy`, the receivers, `notifyWebServAvailableChanged` | `Availability` |
| Terminal (`LD/serv/terminal`, `JNI/websocket`, `JNI/terminal`) | C globals `ser_fd` and `conn`; `isRunning`, `mProcId`, `mTermFd`, `mTermIn`; the frame being read | `openTerminalResponse`, `accept`, `run`, `send`, `start`, `onExit`, reader and watcher threads; `recv_frame_head`, `umask`, `send_frame_length` | `Terminal`, `WsFrame`, `WsOutput` |
| Database and preferences (`LD/serv/req/DatabaseHandler`, `database`) | `mDatabase`, `isDbOpened`, `mSelectedDatabase`, `mDatabaseFiles` in one shared object | list tables, data, query, add, update, delete, download; list and add databases | `DbSession`, `DbList` |
| HTTP file handlers, `LD/ui/view/FileView`, `GzipUtil` | files, the cache of compressed files | `render`, `gzip`, `getContentLength`, `writeTo` | `FileCache` |
| Upload progress (`LD/serv/support/Progress`, `HttpUpHandler`, `HttpProgressHandler`, `JS/app.js`) | static map from upload id to percentage | `update`, `get`, `clear`, the page's polls | `UploadProgress` |
| Page scripts (`JS`) | what a page clicked and shows, its uploads and polls | the requests of the page | as clients in `DbSession`, `UploadProgress`, `Terminal` |
| Start-up, crash logging, vendored code | | | not modelled |

How they interact:

- The proxy server sends CONNECT, TRANSFER and DISCONNECT messages.  Each user
  has a *real* channel to a local server (usually the embedded web server) and a
  *data* channel to the proxy server; the two point to each other through
  `NEXT_CHANNEL`.  Data channels are pooled and given to the next user.  The
  loss of the *control* channel closes all local connections, and the container
  builds a new event loop group and reconnects, with exponential back-off and a
  blocking HTTP request for its key.  Two calls of `start` may both start the
  container that was published last, and then share its back-off and its group.
- `KeepAliveService` opens a `WebServer` thread.  Its failure calls `onError` on
  the thread that failed, which closes, counts and reopens on a thread of its own,
  or gives up after `RESUME_COUNT` errors; a timer clears the count
  `RESET_INTERVAL` after the last one.  Worker threads report their errors to it
  too.
- `openTerminalResponse` makes a listening socket and a thread that waits for
  the page, starts a shell if none is running and forwards frames.  The shell's
  reader thread sends header and data to whatever `conn` is at each of the two
  writes; what a page types is written to the shell by its session's thread, which
  waits if the shell does not read; reader and watcher both report the shell's end
  with `onExit`.
- Every page's requests run on worker threads and meet in one `DatabaseHandler`,
  one `Progress` map and one cache directory; what a page shows and what the
  server has selected agree only as long as nobody else has asked for something.
- A full send buffer on one side of a tunnel switches reading off on the other
  side, through the same `NEXT_CHANNEL` the data takes.

What is hard here: event loops that share the pool, the map and each other's
attributes without locks; handlers that read an attribute and act on it several
steps later; statics and C globals shared by successive and by concurrent
sessions; threads that outlive what they belong to and then clean up after
their successor; losses of any channel at any step; recovery that must not leak
and must not stop.  `PROJECT.json` lists the hazards at their lines.

What makes each component correct:

- a pooled channel has one owner and no leftover bindings, no user receives
  another user's data, losing one channel of a tunnel takes the other down, the
  pool stays bounded, and a tunnel that was paused is read again or given up;
- the tunnel comes back; messages are decoded as they were encoded;
- the service never leaves behind a server it does not know, a closed server
  ends, and an error that was counted is forgotten in time; listeners end up
  knowing whether the web server is available;
- a shell is known to `TerminalHelper` as long as it lives, the thread that will
  notice its end is there, only late threads of an ended shell hang up another
  one, and no session outlives its page; what is typed and what is printed
  arrives intact;
- a row is changed in the database the page shows, or not at all; a database that
  was added stays in the list;
- a response from the cache is one whole file;
- a poll shows the progress of its own upload, and polling ends.

Several of these fail in the code under races, and the properties then say under
which races *only*: the exception is written into the property as a history
variable (`raced`, `mixed`, `aligned`, `disturbed`, `alone`, `overlapped`, `met`,
`short`, `orphans`), and what is checked is that no other schedule gets there.

## The modules

### ProxyClient (channel manager and handlers)

One identity per channel; identities are reused once nothing in the client can
reach the old channel.  `stage[r]` is the program counter of
`handleConnectMessage` and its callbacks for the local connection `r`; `lease[r]`
is the data channel that `success` was called with; `pooled[r]` tells whether
`success` runs on the local connection's loop (a channel from the pool) or on
the data channel's (a dialled one), which decides which inactive event can
overtake it.  `toClose[p]` is the second half of `handleDisconnectMessage`, which
runs after the channel was returned to the pool.  An action is the longest piece
of a callback whose intermediate states no other loop can tell apart; every
channel has a loop of its own, so all interleavings of a shared loop are there
too.  `closing` are the channels whose close was requested.  Many closes of a
local connection are `writeAndFlush(EMPTY_BUFFER).addListener(CLOSE)`, which waits
until the send buffer has drained, that is, until the local server has read;
`urgent` are the local connections that something closes without waiting.
`up`, `down` and `bound` are the wire and the proxy server, which is not in
the repository: the `Server` actions bind a data channel on CONNECT, send
DISCONNECT once per binding, and forward data only for bound users.  Left out:
payloads and heartbeats; reading switched on and off is `FlowControl`, how many
channels the pool can hold is `ProxyPool`.

### ProxyReconnect (start, stop, back-off)

One program counter per call of `ContainerHelper.start`: first its thread
(`Start`, `StartFlag`, `Publish`, `StartContainer`), then the chain of callbacks
that begins with the container's `start`, one at a time.  The thread publishes its container in
the static `cachedContainers` and starts whatever that names when it is read again,
so `on[s]`, the container of the chain, may be another call's.  Chains of one
container share its `sleepTimeMill` (`sleep`) and its event loop group (`groupUp`,
`loop`); `Sharers` are a chain's others.  `QueryRefused`, `QueryAgain` and
`QueryAccepted` are `checkKey`'s HTTP request and its polling, `ChannelLost` and
`ReleaseCmdChannel` the two halves of `channelInactive` (the test against the control
channel and `setCmdChannel(null)`).  `reconnectWait` is taken apart where two chains
can meet: the test and the reset, which take no lock (`TestSleep`, `ResetSleep`), and,
under the monitor that `wait` lets go of, the doubling and the second reading
(`LockAndRead`, `StoreDouble`, `BeginWait`, `WaitOver`).  After a lost connection the
old group is stopped and another one made (`QueryReplaces`, `Replaced`); a chain that
meets the other's half-made bootstrap ends with an exception (`ReplaceClash`), and
what the other chain has on a group that was replaced stays behind on it (`"left"`).
`stop` has a thread of its own (`stopPc`).  `Environment` switches the server's
acceptance of the key and the network on and off.

### WebServerLifecycle (keep-alive service and web server)

A program counter per server thread for `WebServer.run`, statement by statement
around the shared `isLoop`, and one per worker that may meet a missing template;
the failing thread itself runs `onError` (`ErrorClose` .. `ErrorDecide`, with
`errCount++` as its read and its write), then goes on after the callback.
The threads `openWebServer` spawns are counted (`opens`), since only how many are
outstanding matters.  `timer` says whether the reset task is scheduled; how the
threads race for its field is `Recovery`.
`orphans` is a history variable: the servers whose `close()` came before their
socket.

### Terminal (sessions, descriptors, shell)

A session is one request, the thread it starts and the page it is for.  A
listening socket is named after the session that made it, a connection after the
page at its other end; `ser_fd` and `conn` are variables any session may change
between any two uses, and where the compiler may keep the value or read it again
(`SetOption`, `Shakehands`) both are allowed.  `passive_server` is its three system
calls, `SetOption`, `Bind` and `Listen` or `ListenFails`, the last of which tells the
page a port as if it had succeeded.  `run` reads `conn` anew for each frame and for
each piece of its payload (`RecvFrame`, `ReadsPayload`), and writes each piece to the
current pseudo-terminal, which blocks as long as the shell does not read
(`ReceivePayload`, `WriteReturns`, `WriteFails`); the static `TermWebSocket.mTermOut` is
open exactly while `mTermFd` is set.  `Failed` is the -1 that a failed `accept` leaves
in `conn`, which is not `ERROR_FD`.  Each shell has a reader and a watcher thread with
the streams and ids they picked up when they ran.  `raced` is a history variable: two
sessions were between `isRunning()` and `start()` at once.

### Tunnel (what the data plane promises)

The abstract specification: a local connection waits for a data channel, is
served by one or refused; a data channel has one owner and must be given up
before another can have it; what a local connection is sent is of its own user.
There is no pool, no attribute and no event loop.  `ProxyClient` implements it
under the mapping `Owner` and `Life`: a data channel belongs to the local
connection whose callback holds it (`lease`), or else to the one its `NEXT_CHANNEL`
names, while its socket is not gone.  `ImplementsTunnel` is checked by the `reuse`
run.

### FlowControl (`channelWritabilityChanged`, reading, the idle timer)

One data channel and the local connections it serves in turn: who may be read
(`proxyRead`, `realRead`), who has room in the send buffer, and whether the event
that announces a change of it has still to run.  A local connection's
`NEXT_CHANNEL` is never cleared, so `RealWritabilityChanged` of a connection that is
over can pause a channel that serves the next one; `ReadIdle` closes a channel
that has not been read.

### ProxyPool (`returnProxyChanel`, `borrowProxyChanel`, `removeProxyChanel`)

Counts only: how many channels are pooled, and where each event loop is between
`size()` and `offer()`.  `ConcurrentLinkedQueue.size()` counts node by node, so a
loop's count may include channels that others took out meanwhile (`missed`).

### ProxyCodec (`ProxyMessageEncoder`, `ProxyMessageDecoder`)

A frame is its length and the byte that carries the uri's length, which is
written modulo 256 and read with a sign.  A read brings any number of frames; an
exception drops the frame it met and leaves those after it in the cumulation
until the next read.  `ShortUriArrives` speaks of positions in what was sent: each
message with a short uri up to the first one still held is among those decoded,
and what is decoded is in the order sent.

### Recovery (`onError`, `cancelResetTask`, `restartResetTask`)

One action per access to `errCount` and `resetTask`, by any number of failing
threads and the timer's thread.  A task has an identity; the timer may run one
that is no longer in the field.  An exception ends the process, as `CrashHandler`
does.  `overlapped` and `met` are history variables that start anew whenever
`onError` is entered while no other thread is in it.

### DbSession and DbList (`DatabaseHandler` and the page)

`DbSession` has one action per access to a shared field or SQLite call of the
requests for tables, data, changes, queries and downloads; a page remembers what
it clicked last and whose tables it shows.  `sole` and `fresh` are history
variables: the page that listed tables alone and has not been interfered with,
and whether one of its requests has failed since.  `DbList` is the list of
databases: read lazily into a new map by each request that finds none, and added
to under the first free name.

### UploadProgress (`Progress`, its handlers, `app.js`)

`Put` and `Remove` are the two steps of `update`; `Get` is the handler's answer and
`Show` the page's callback, so an answer may be late.  A page polls a limited
number of times for an upload to begin and then until the progress ends.

### FileCache (`FileView`, `GzipUtil`, `GzipFileEntity`)

The cached file is a sequence of chunks; compressing it truncates it and writes
at the thread's own position, `Content-Length` is read before the body is copied.
The files of the model are those that share one name, since the cache knows them
by nothing else.

### WsFrame and WsOutput (`websocket.c`)

`WsFrame` is the stream from the page: a byte is which frame, which part and which
place it is for, TCP cuts anywhere, and `Read(n)` returns what there is.  `RecvData`
unmasks each piece as the code does, with the key from its start and the
accumulated size.  `TypedArrivesIntact` says of what reached the shell that it is of
what was typed, in its order, without a gap, and complete when all is read.

`WsOutput` is the other direction.  The test of `conn`, the header and the data are
three steps of each thread that reads a shell, and each names the connection that
the global `conn` names then.  The sessions' threads change it under them: `Accept`
and `AcceptFails` set it, `ShakeHands` answers the handshake on whatever it is,
`CloseConn` and `UnsetConn` end it.  What a page is sent before its handshake, without
the header it expects, or as a header where it expects data, garbles its connection
for good.  `mixed[c]` says that threads met on connection `c`; the comment of
`OutputIsFramed` lists how.

### Availability (`WSService`)

The device changes and broadcasts; what it broadcast is under way in `pending`
until the main thread receives it.  The service registers for one, then for the
other, then reads both.

### MCParts

`FlowControl`, `ProxyPool`, `ProxyCodec`, `Recovery`, `DbList`, `UploadProgress`,
`FileCache`, `WsFrame`, `WsOutput` and `Availability` run in one TLC run.  They share
no variable; `part` says which one a behaviour is of, and the others stay in their
initial states, so the states of the run are the sum, not the product, of theirs.
`MCParts` repeats their properties under the same names.

## The runs

| Run | Instance | Checks | Result |
|---|---|---|---|
| `reuse` | 2 local connections, 1 data channel, 2 users, ids reused, one TRANSFER queued towards the client | `TypeOK`, `ReceivedOwnUser`, `PooledPathCleansUp`, `ImplementsTunnel` | hold |
| `pool` | 2 local connections, 2 data channels, 1 user who comes and goes, ids reused | `PoolDetached`, `DetachedRealIsClosing` | hold |
| `loss` | 1 local connection, 2 data channels, 2 users, fresh ids, one TRANSFER queued towards the server, fairness | `EstablishedIsMapped`, `DataLossClosesReal`, `CmdLossClosesMapped`, `StrandedOnlyByBinding` | hold |
| `halfopen` | 2 local connections, 1 data channel, 2 users | `NoHalfOpen` | violated, see Findings |
| `reconnect` | 2 calls of `start`, waits up to 128 s told apart | `TypeOK`, `BackoffBounds` | hold |
| `reconnect_live` | 2 calls of `start`, waits of 1 s and more, fairness | `TunnelComesBack`, `StopEndsWithoutKey` | hold |
| `webserver` | 2 servers, 1 worker, fairness | `TypeOK`, `OnlyLostCloseLeaks`, `ClosedServerEnds` | hold |
| `held` | 2 servers | `HeldServerRuns` | violated, see Findings |
| `terminal` | 2 sessions, 2 shells | `TypeOK`, `RunningIsWatched`, `OnlyRacedStartsLeak`, `OnlyLateThreadsEndShells` | hold |
| `terminal_end` | 2 sessions, 1 shell, fairness | `ShellEndIsNoticed`, `NoSessionOutlivesPages` | hold |
| `session` | 2 pages, 2 worker threads, 2 databases and the preferences | `WorksOnShownStore`, `DataFromShownStore` | hold |
| `parts` | the ten small parts, fairness | `PausedBehindFullChannel`, `DeadConnectionFreesChannel`, `PoolBounded`, `ShortUriArrives`, `CountedErrorIsForgotten`, `OnlyRacesCrash`, `ProgressIsNotOutdated`, `PollingEnds`, `AddedIsListed`, `ServedWhole`, `TypedArrivesIntact`, `OutputIsFramed`, `SettledIsTrue` | hold |

Bounds, and why they are enough:

- `MaxPoolSize = 0`: with the code's test (`size() > MAX_POOL_SIZE`) this pools
  one channel and closes the next one, so both branches are taken.  The pool then
  never holds two; that a channel is in it only once is shown for every size by
  the theorem `PoolIsDetached`.
- `MaxUp` and `MaxDown` only bound TRANSFER messages; CONNECT and DISCONNECT are
  never dropped.  One TRANSFER on the wire is enough to be late.  `reuse` needs
  them towards the client (`MaxDown = 1`), where data can reach the wrong user;
  `loss` uses `MaxUp = 1`, so that a dead channel is also written to; `pool` asks
  nothing about data.
- Two local connections and two data channels: each hazard is between a channel
  and its previous or next owner.  Identities are reused, so there are unboundedly
  many connections in sequence.  In `pool` the one user leaves and returns, so the
  old connection is being torn down while the new one is set up, and with both
  data channels back the second one finds the pool full.  `loss` needs one tunnel
  at a time, whose data channel is replaced; local connections with different
  ids share nothing in the map but the walk that closes and clears it.
- `FreshIds = TRUE` says the proxy server does not reuse a user id the client
  still holds; `EstablishedIsMapped` needs it (`removeRealServerChannel` removes by
  id), `ReceivedOwnUser` does not.
- `RESUME_COUNT = 1` and `MaxOpens = 1`: one recovery, then giving up; one
  recovery outstanding.  Two servers: the closed one and its successor (a server
  that ended is created anew).
- `reconnect`: two calls, since the first one can only start its own container or the
  second's.  `LongSleep = 128` stands for 128 seconds and all its doubles, which the
  code tells apart by nothing (all are above 60 seconds): the bound is above the 64
  that a chain alone reaches, so chains that share do pass it.  `reconnect_live` asks
  nothing about the length of a wait, only that it ends, and has `LongSleep = 2`; the
  reset of a long wait is then not reached there, but in `reconnect`.
- `session`: every race is between two requests, so two threads; one page can be
  disturbed by one other; two databases and the preferences give each request a
  wrong store of either kind to fall into.
- `parts`.  Two local connections on a data channel: the present and the last.
  Three event loops and `MaxPoolSize = 2`: the pool reaches 5.  Uri lengths 0, 127,
  128 and 300 are the ends of the three ranges the decoder tells apart, data
  lengths 0 and 7, three messages: one behind and one before an undecodable one.
  Two failing threads, `RESUME_COUNT = 1` instead of 3 (the second error in a row
  gives up), two reset tasks at once (the one in the field and one astray).
  One file input with two uploads, and pages that poll twice instead of five times
  for an upload to begin.  Two worker threads and two files of one name; two
  chunks to a file and two versions.  Payloads of 0 and 6 bytes, a buffer of 8
  bytes for 1024 and short headers up to 3 bytes for 125: 6 needs an extended
  length and is not a multiple of the key's 4 bytes, and two frames do not fit the
  buffer together.  No single payload is longer than the buffer there, so for the
  instance the last conjunct of `TypedArrivesIntact` says that an aligned stream
  never leaves it.  Output of 126 and 4096 bytes, the least and the
  greatest that need the longer header; the theorem covers all lengths from 0 to
  4096.  Two readers and two connections, one after or under the other.  `MaxPending = 3` broadcasts
  under way.
- Each shell is started once; two are needed for a stale thread to meet a newer
  shell.  A session is one request, two share the globals.  `terminal_end` has one
  shell, with which its states can still be searched for cycles; that a watcher waits
  for its own shell and not for the one started after it, which takes two, is
  `RunningIsWatched` in `terminal` and its theorem.

Deadlock is checked in the proxy runs and `session`.  It is not in `webserver`, `held`,
`terminal` or `terminal_end`: there the threads and the pages may all have ended,
and a destroyed service may have nothing left to do.  Nor is it in `parts`, whose
codec, uploads and frames stop when the bounded input is used up, and whose
process may have crashed.

Symmetry is used only in runs without liveness properties, and only over sets
whose members the properties do not tell apart.

### Fairness

- `ProxyClient`: an event loop runs what was submitted to it (a close that does not
  wait, the inactive event after it, the rest of a callback once begun).  Nothing is
  assumed of the network, the local server or the proxy server.  In particular a
  close that waits for the send buffer need not happen, since a local server that
  stops reading can hold it up for ever.  The loss of the control channel requests
  only such closes, so `CmdLossClosesMapped` has a hypothesis: either the local server
  reads (`Drains`), or the container gets to the point where it shuts the old event
  loop group down, which closes without waiting (`Reconnect`).
- `ProxyReconnect`: the threads and callbacks of each call of `start` are scheduled, a
  blocking request, a dial and a wait end, and an event loop group that was shut
  down loses its channels.  Of `stop` nothing is assumed.  `TunnelComesBack` has as
  hypotheses that nobody calls `stop` and that from some moment on the key is
  accepted and the network is up.
- `WebServerLifecycle`: threads are scheduled, and `accept` on a closed socket
  throws, as `java.net.ServerSocket` documents.
- `FlowControl`: the reader idle timer fires, callbacks once begun go on, and the
  proxy server answers the DISCONNECT of a dead local connection once its answer
  can be read.  Nothing is assumed of buffers: they need never drain.
- `UploadProgress`: a poll that was sent is answered and shown.  Uploads need not
  progress or end.
- `Terminal`: the sessions' and the watchers' threads are scheduled; `read` returns
  when the page at the other end is gone, a write to a pseudo-terminal when the shell
  is, `waitpid` when the process has ended.  Of the readers nothing is assumed: a page
  that does not read keeps one in `send`, and `ShellEndIsNoticed` holds by the
  watcher alone.  A living shell need not read: `NoSessionOutlivesPages` excepts the
  thread that is writing to it.  A page need not
  connect, and `accept` on a descriptor closed by another thread is *not* assumed
  to return; that is why `NoSessionOutlivesPages` excepts sessions still waiting
  for a page.

## Findings

- `halfopen`: `success()` switches reading on before it sets `USER_ID`.  If the
  local server closes in between and the data channel was just dialled,
  `channelInactive` calls `ConcurrentHashMap.remove(null)`, which throws, and no
  DISCONNECT is sent; the user hangs on a half-open tunnel.  With a pooled channel
  the same steps run on one loop, and `PooledPathCleansUp` shows that this path is
  clean.
- `held`: when `accept` fails, `onError` runs on the failing thread, and a thread of
  its own opens the next server.  The failing thread then goes on to its last
  statement, which clears the static `isLoop`.  If the new server has set it by then, it
  leaves its loop at its next test of the flag and closes its socket while the
  service still holds it, and nothing reopens it.

The models also show behaviour for which the repository states no intention, so
no property is claimed: chains that share a container may wait 1 second or 128
and more between attempts, since the test and the resets of `sleepTimeMill` take no
lock; a stopped container whose key is accepted reconnects
(`channelInactive` rebuilds the event loop group); a recovery thread that has
not run yet opens a server after `onDestroy`; a server that cannot bind its port ends
without the service being told (`BindFails`); a failing `listen` tells the page
`default_port` as if it had succeeded; the threads of a shell that has ended report
its end twice, and the later report hangs up the shell started in between; a
session's thread stays behind its page while a shell does not read what was typed; a second `openTerminal` between the first one's `socket`
and `passive_server` leaves the second in an endless loop over the ports
(`"stuck"` in `Terminal`); a failed dial leaves the local connection open with
reading switched off; the pool may hand out a data channel that has died, and the
local connection bound to it then waits for nothing (`StrandedOnlyByBinding` says
that this is the only way to be left like that).

Of the other modules: a file that changed, or another one of the same name, is
answered from the cache with the old content, and one whose compression failed
half way with that half, for good (`FileCache`); an upload that ends below 100
leaves its entry in the map, which the next upload of the same input is shown at
first (`UploadProgress`); a page that asks for data after one of its own requests
failed may get that of another database (`DbSession`); two first requests each
make a list of databases, and what was added to the first one is lost (`DbList`); a
uri of 128 to 255 bytes throws in the decoder and one of 256 or more is cut, and
the frames behind an exception wait for the next read (`ProxyCodec`); frames that
arrive in one piece, or in pieces that are not a multiple of four bytes, are
misread, and everything after them is (`WsFrame`); output of two shells can mix, and
that of one loses its header or comes before the handshake when another session
changes `conn` between the writes (`WsOutput`); a thread that gives up can cancel the reset another one has just
scheduled, and the reset task can clear its field while `onError` uses it, which
is a null pointer there (`Recovery`).

## The proofs

Every safety invariant that a passing run checks, the action properties
`StrandedOnlyByBinding` and `OnlyLateThreadsEndShells`, and the refinement of `Tunnel` are theorems, checked by
TLAPS for every value of the constants.  Sets of channels, users, containers,
sessions, shells, pages, databases, files and threads are arbitrary, infinite ones
included; only `Servers` and `Workers` of `WebServerLifecycle` and the event `Loops` of
`ProxyPool` are finite, because they are counted.  What is assumed of the constants
are the named `ASSUME`s, which TLC evaluates on each instance:

- `ProxyClientAssumption`, `ReconnectAssumption`, `TerminalAssumption`,
  `LifecycleAssumption`, `DbSessionAssumption`, `PartsAssumption`: `None` is none of the
  identities, different kinds of identity are disjoint, bounds are natural numbers;
- `CodecAssumption`: lengths are natural numbers;
- `SendLengthsAssumption`: a shell's output is sent in pieces of at most 4096 bytes,
  the size of `TerminalHelper`'s buffer;
- `FrameAssumption`: a page's frames are shorter than 64 KiB, beyond which a length
  has eight bytes, which `WsFrame` leaves out; the buffer has a byte.

One theorem has a hypothesis of its own, `FreshIds` of `EstablishedStaysMapped`.  The
proofs follow the actions: one step per action, with a frame lemma for those that
leave alone what the invariant speaks of.

### ProxyClientProofs and TunnelProofs

- `TypeOK` is inductive by itself (`TypeCorrect`).  `PoolDetached` (`PoolIsDetached`)
  is not: a callback takes a channel from the pool in one step and binds it in a
  later one, and `returnProxyChanel` may run in between.  `PoolInv` adds
  `LeaseDetached`: the channel a callback holds is as detached as a pooled one, and
  no two callbacks hold the same.  `DetachedRealIsClosing` (`DetachedIsClosing`) needs
  in addition that a data channel something points to was opened and that a
  connecting channel points to nothing (`DetachInv`).  `IInv` is their conjunction.
  Lemmas about `Append`, `Tail` and `RemoveFirst` on a sequence without duplicates
  carry the pool.
- `StageInv` relates a local connection's stage to its lease, user, `USER_ID` and
  `NEXT_CHANNEL` (`RealInv`), and a data channel to the connection behind it
  (`BehindInv`).
- `NoForeignData` (`ReceivedOwnUser`) is about the wire.  `WireInv` says of each data
  channel: one that is not open carries nothing; one that belongs to nobody carries
  no CONNECT, and nothing is bound to it or comes back on it; for an owner there is
  at most one CONNECT on its way, what is bound is its user, and whatever comes back
  is for that user with nothing behind a DISCONNECT.
  Old messages can therefore not meet a new owner, although the channel is the same.
- `TunnelImplemented` (`ImplementsTunnel`) takes the abstract owner from the lease and
  the attributes.  `OwnerOf` is the mapping as a function of the variables it reads,
  with a CHOOSE over the leases; `OwnedAs` says what it is without one, since no two
  callbacks hold the same channel (`LeaseDetached`).  Each action is then a step of `Tunnel` or leaves
  `Owner` and `Life` as they are.
- `PooledPathIsClean` (`PooledPathCleansUp`) adds `MapInv`, that an entry of the map is
  a bound connection of that user and not a dead one with a pooled channel, and
  `CleanInv`: if a dead connection with a pooled channel is still bound at the server,
  or its CONNECT is on the way there, a DISCONNECT is on the way behind it.
- `EstablishedStaysMapped` (`EstablishedIsMapped`) has the hypothesis `FreshIds`, and needs
  it: `removeRealServerChannel` removes by id.  Under it two connections in use have
  different users (`FreshInv`), so nobody removes another one's entry (`MappedInv`).
- `OnlyBindingStrands` (`StrandedOnlyByBinding`) is an action property: each action other
  than the binding one leaves nobody behind a dead channel who was not there
  before.

### ProxyReconnectProofs

`BackoffIsBounded` speaks of a chain that has its container to itself, and is not
inductive.  `BackoffInv` adds to the types what such a chain's `sleepTimeMill` is at each
step of `reconnectWait` (`AloneBounds`: at most 64, and at most 32 between the test and
the doubling), and that a container nobody was started on still has its first second
(`UnusedSleeps`), which is what a chain finds when it comes to be alone: chains join
a container but never leave it.  The callbacks that wait do nothing to another's
container, so each action of `reconnectWait` has one case for the chain that acts and
one for the rest.  How long chains of one container wait is not bounded, and no
theorem says so.

### TerminalProofs

All four theorems follow from `HelperInv`: `TypeOK` and `HelperOK`, which is
`RunningIsWatched`, `OnlyRacedStartsLeak` and

- `RunningHasShell`: `isRunning` and `mProcId` are set and cleared together;
- `StarterSawNothing`: a session about to call `start()` has seen that nothing runs and
  nothing was started since, or two sessions have raced;
- `CurrentIsRead`: unless they have, the current shell's reader reads the shell's own
  pseudo-terminal, and reports an end only after it;
- `ThreadsHaveShell`: a shell with a reader or a watcher was started.

The conjuncts need each other: that a reader about to call `onExit` has seen its own
shell end rests on nobody having displaced that shell, that is on `StarterSawNothing`.
The actions of sessions, sockets and pages leave `HelperOK` alone by one frame lemma.

### WebServerLifecycleProofs

- `TypeOK` bounds the recoveries outstanding (`opens`), which is not inductive: a
  thread that is in `onError` will ask for another.  (The ranges of `opens` and `errCount`
  are the model's own bounds, `MaxOpens` and the saturation in `CountedUp`; they say
  nothing of bounds in the code.)  `BudgetInv` counts what may still
  ask: `opens + Cardinality(Pending) <= MaxOpens + Cardinality(Servers)`, where
  `Pending` are the threads in `onError` and the servers that may still get there.
- `NoOtherLeak` (`OnlyLostCloseLeaks`) follows from `LeakInv`: a server whose thread has
  not run yet has no socket and is held or an orphan (`FreshFor`); one that listens,
  and is not about to close its socket itself, is held or an orphan (`ListensFor`).

### DbSessionProofs

`ChangesHitTheShownStore` and `DataIsOfTheShownStore` share one invariant.  `AloneInv`:
while a request that is alone is under way no other is.  `OpeningInv`: such a request
has, at each of its steps, opened or left closed what the code before that step
prepares.  `SoleInv`: while there is a `sole` page every request under way is its
own and alone, and what is selected is what it shows.  `FreshInv`: then, unless one of its
requests has failed, the fields agree with what it shows.

### PartsProofs

`MCParts` runs the small parts side by side, so a step of it is a step of a part or
leaves the part alone (`PartSteps`); each part has an inductive invariant over its
own variables.

- `ShellOutputIsFramed`: `OutputInv`.  A connection that is not `mixed` is not garbled
  (`Unmixed`): while it is `conn` at most one reader is between its test and its last
  write, and none before the handshake, which only its own session answers
  (`OneWriter`); and its page expects exactly the data whose header it was sent and
  which is still to be written (`PageExpects`).
- `SettledServiceKnows`: `ServiceInv`.  What the service knows of a kind is wrong only
  while a broadcast of that kind is under way, and the last one of them is right
  (`Informed`, `LastSays`); a running service's conjunction is that of its flags, and
  was told.
- `PoolStaysBounded`: `PoolBounded` is not inductive, as a loop that has passed the test
  is going to add a channel.  `PoolInv` counts the loops between test and `offer` too:
  `pooled + Cardinality(Offering) <= MaxPoolSize + Cardinality(Loops)`; a loop that
  passes the test has counted at least the `pooled` channels and at most
  `MaxPoolSize`, and it is one of the `Loops` that is not yet offering.
- `PausedOnlyBehindFullChannel`: `PausedBehindFullChannel` is inductive together with the
  types (`FlowInv`).
- `NoProgressIsOutdated`: `UploadInv` says whose value each entry of the map
  (`EntryKept`) and each answer under way (`PollTold`) is.
- `CountedErrorsAreForgotten` and `CrashesAreRaces`: `ErrorInv`.  Unless threads
  overlapped, one thread at a time is in `onError` (`OneAtATime`), it finds the task in
  the field that it tested (`FindsItsTask`), and a count above zero has a task that is
  due or a thread about to schedule one (`CountHasTask`).
- `AddedStaysListed`: `ListInv`.  A request that runs alone has the list in the field
  (`RunsAlone`, `HasList`), the list in the field keeps what was added
  (`ListedForGood`), and no request is about to put a file under the name of one that
  was added (`SparesAdded`).
- `ResponsesAreWhole`: `CacheInv`.  Undisturbed, the thread that fills the cache has
  written a prefix of the file (`FillsAlone`), and one that serves has read the length
  and a prefix of the content of a whole file (`ServesWhole`).
- `ShortUrisArrive`: `CodecInv`.  The held frames and those on the wire are the last of
  what was sent (`FramesOfSent`); what was decoded has rising numbers (`InOrder`) and
  includes every message with a short uri up to there (`AllShort`).  `RoundTrip` is
  the arithmetic of one length byte.

### WsFrameProofs

`TypedBytesArrive` (`TypedArrivesIntact`) is the longest argument.  `FrameInv`: the bytes
on the wire are, one by one, the end of what was sent (`Contiguous`); and as long as
the stream is aligned there is a frame `c` such that the reader stands at a known
place of it, has its length and key right, and has delivered exactly the payload
bytes before that place (`Reads`, `Delivered`).  `Place` numbers the bytes of a frame;
from it `PlaceTells`, `NextByte` and `Rest` say which byte comes next, so that a read
of `n` bytes returns the `n` bytes expected.  `UnmaskedIs` is the step where the code's
keys restart at each piece: a piece that begins at a multiple of four meets the
same bytes of the key as if the whole payload were unmasked at once.

### What is only model-checked

- Liveness under fairness: `DataLossClosesReal`, `CmdLossClosesMapped`, `TunnelComesBack`,
  `StopEndsWithoutKey`, `ClosedServerEnds`, `ShellEndIsNoticed`, `NoSessionOutlivesPages`,
  `DeadConnectionFreesChannel`, `PollingEnds`.  They need ENABLED, which is beyond the
  prover.
- That `NoHalfOpen` and `HeldServerRuns` are violated: a
  counterexample of one instance is all there is to show.

## Not modelled

- Sequential file I/O without state of its own: directory listings, the zip,
  recursive deletion; `TempView`, whose cache is `FileView`'s for content that never
  changes.
- The content of tables: rows, SQL, type conversion; the layout of pages and the
  DOM code of the scripts.
- The digest of the WebSocket handshake.  Opcodes are not looked at by the code.
- The writer idle timer: it writes a heartbeat, which its receiver ignores.
- Blocking an event loop in `checkKey` and `reconnectWait`: every channel has a loop
  of its own in the models, so delays by another callback of the same loop are
  covered, but not that everything on the loop waits.
- Configuration, templates, crash logging, start-up; the vendored libraries
  (commons-fileupload, jangod, jQuery, OpenSSL's headers) and the demo.  They are
  most of the repository's lines; the models cover the program's own concurrent
  logic.
- In `Terminal` a closed descriptor's number is not given to a new file, so a late
  `close(conn)` hits nothing else; in the code it may.

## Plan

Every component whose correctness depends on concurrency has its module, and no
safety property is without its theorem.  What is left is depth:

1. what the proofs found worth knowing by itself, as properties of a run: that a
   data channel carries nothing for anyone but its owner (`WireInv`), that a request
   of `DbSession` which runs alone leaves the fields as its kind says (`OpeningInv`);
2. safety halves of the liveness properties, such as that a wait of `reconnectWait`
   is always followed by an attempt (an action property), which the prover reaches;
3. that `Recovery`, with its field and its tasks, implements the one `timer` of
   `WebServerLifecycle` as long as no two threads are in `onError` at once.
