CONSTANTS
  Reals = {r1, r2}
  Loops = {l1, l2, l3}
  MaxPoolSize = 2
  UriLengths = {0, 127, 128, 300}
  DataLengths = {0, 7}
  MaxMessages = 3
  Ids = {i1}
  MaxUploads = 2
  Times = 2
  Threads = {t1, t2}
  Files = {f1, f2}
  Own = Own
  Lengths = {0, 6}
  Buffer = 8
  Short = 3
  MaxFrames = 2
  Senders = {s1, s2}
  Conns = {n1, n2}
  SendLengths = {126, 4096}
  Chunks = 2
  MaxVersion = 2
  MaxPending = 3
  RESUME_COUNT = 1
  MaxTasks = 2
  Garbage = Garbage
  None = None
  Failed = Failed
SPECIFICATION Spec
CHECK_DEADLOCK FALSE
INVARIANTS PausedBehindFullChannel PoolBounded ShortUriArrives ProgressIsNotOutdated AddedIsListed ServedWhole TypedArrivesIntact OutputIsFramed SettledIsTrue CountedErrorIsForgotten OnlyRacesCrash
PROPERTIES DeadConnectionFreesChannel PollingEnds
