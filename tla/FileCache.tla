------------------------------ MODULE FileCache ------------------------------
(***************************************************************************)
(* The cache of compressed files: FileView with GzipUtil and               *)
(* GzipFileEntity.  A file is looked for in the cache by its name alone,   *)
(* whatever its directory, compressed into it when it is not there, and    *)
(* from then on served from it.  Requests run on worker threads and look   *)
(* at nothing but whether the cached file exists; a compression that fails *)
(* leaves what it has written.  Nobody deletes or renews a cached file:    *)
(* HttpDelHandler spares the application's own directory.                  *)
(***************************************************************************)
EXTENDS Naturals, Sequences

CONSTANTS
  Threads,    \* worker threads
  Files,      \* files of one name, in different directories
  Chunks,     \* how many writes the compression of a file takes
  MaxVersion, \* how often a file is written
  None        \* "does not exist"

VARIABLES
  version,    \* of the content of each file
  cache,      \* the cached file: what was written to it, or None
  pc, want,   \* each thread's next step and the file it was asked for
  at,         \* chunks it has written or sent
  length,     \* Content-Length of its response
  body,       \* what it has sent
  disturbed,  \* something came between a file and its copy in the cache
  responses   \* the bodies of the complete responses until then

threadVars == <<pc, want, at, length, body>>
vars == <<version, cache, threadVars, responses, disturbed>>

Init ==
  /\ version = [f \in Files |-> 1]
  /\ cache = None
  /\ pc = [t \in Threads |-> "idle"]
  /\ want = [t \in Threads |-> None]
  /\ at = [t \in Threads |-> 0]
  /\ length = [t \in Threads |-> 0]
  /\ body = [t \in Threads |-> <<>>]
  /\ responses = {} /\ disturbed = FALSE

Caching(t) == pc[t] \in {"create", "open", "write"}

Chunk(f, v, i) == [file |-> f, version |-> v, at |-> i]
Hole == Chunk(None, 0, 0)

-----------------------------------------------------------------------------
Request(t, f) ==
  /\ pc[t] = "idle"
  /\ pc' = [pc EXCEPT ![t] = "check"]
  /\ want' = [want EXCEPT ![t] = f]
  /\ body' = [body EXCEPT ![t] = <<>>]
  /\ UNCHANGED <<version, cache, at, length, responses, disturbed>>

(* Mutant: every request compresses the file anew. *)
CheckCacheNever(t) ==
  /\ pc[t] = "check"
  /\ pc' = [pc EXCEPT ![t] = "create"]
  /\ disturbed' = (disturbed \/ \E s \in Threads : Caching(s))
  /\ UNCHANGED <<version, cache, want, at, length, body, responses>>

(* FileView.render: is there a cached file of that name?  It may be one    *)
(* that another thread has only begun, or is about to begin.               *)
CheckCache(t) ==
  /\ pc[t] = "check"
  /\ pc' = [pc EXCEPT ![t] = IF cache = None THEN "create" ELSE "length"]
  /\ disturbed' = (disturbed \/ \E s \in Threads : Caching(s))
  /\ UNCHANGED <<version, cache, want, at, length, body, responses>>

(* GzipUtil.gzip: createNewFile leaves a file that exists as it is ... *)
CreateFile(t) ==
  /\ pc[t] = "create"
  /\ cache' = IF cache = None THEN <<>> ELSE cache
  /\ pc' = [pc EXCEPT ![t] = "open"]
  /\ UNCHANGED <<version, want, at, length, body, responses, disturbed>>

(* ... the FileOutputStream empties it ... *)
OpenFile(t) ==
  /\ pc[t] = "open"
  /\ cache' = <<>>
  /\ at' = [at EXCEPT ![t] = 0]
  /\ pc' = [pc EXCEPT ![t] = "write"]
  /\ UNCHANGED <<version, want, length, body, responses, disturbed>>

(* ... and writes at its own position, past the end if need be. *)
Written(chunk, n) ==
  [i \in 1..(IF n > Len(cache) THEN n ELSE Len(cache)) |->
     IF i = n THEN chunk ELSE IF i <= Len(cache) THEN cache[i] ELSE Hole]

WriteChunk(t) ==
  LET n == at[t] + 1
      f == want[t]
  IN
  /\ pc[t] = "write"
  /\ cache' = Written(Chunk(f, version[f], n), n)
  /\ at' = [at EXCEPT ![t] = n]
  /\ pc' = [pc EXCEPT ![t] = IF n = Chunks THEN "length" ELSE "write"]
  /\ UNCHANGED <<version, want, length, body, responses, disturbed>>

(* An IOException: the streams are closed and the connection is, too; but  *)
(* one from finish(), which writes the end of the file, is only logged.    *)
GzipFails(t) ==
  /\ Caching(t)
  /\ \/ pc' = [pc EXCEPT ![t] = "idle"]
     \/ /\ pc[t] = "write" /\ at[t] + 1 = Chunks
        /\ pc' = [pc EXCEPT ![t] = "length"]
  /\ disturbed' = TRUE
  /\ UNCHANGED <<version, cache, want, at, length, body, responses>>

(* GzipFileEntity.getContentLength, when the head of the response is made. *)
GetLength(t) ==
  /\ pc[t] = "length"
  /\ length' = [length EXCEPT ![t] = Len(cache)]
  /\ at' = [at EXCEPT ![t] = 0]
  /\ pc' = [pc EXCEPT ![t] = "copy"]
  /\ UNCHANGED <<version, cache, want, body, responses, disturbed>>

(* writeTo: what the cached file holds by now, but not beyond the length. *)
Copy(t) ==
  LET n == at[t] + 1 IN
  /\ pc[t] = "copy"
  /\ IF n <= length[t] /\ n <= Len(cache)
     THEN /\ body' = [body EXCEPT ![t] = Append(@, cache[n])]
          /\ at' = [at EXCEPT ![t] = n]
          /\ UNCHANGED <<pc, responses>>
     ELSE /\ pc' = [pc EXCEPT ![t] = "idle"]
          /\ responses' = IF disturbed THEN responses ELSE responses \cup {body[t]}
          /\ UNCHANGED <<body, at>>
  /\ UNCHANGED <<version, cache, want, length, disturbed>>

(* A file is edited or uploaded again. *)
Change(f) ==
  /\ version[f] < MaxVersion
  /\ version' = [version EXCEPT ![f] = @ + 1]
  /\ disturbed' = (disturbed \/ \E t \in Threads :
                     pc[t] = "write" /\ want[t] = f /\ at[t] > 0)
  /\ UNCHANGED <<cache, threadVars, responses>>

-----------------------------------------------------------------------------
Step(t) ==
  \/ \E f \in Files : Request(t, f)
  \/ CheckCache(t) \/ CreateFile(t) \/ OpenFile(t) \/ WriteChunk(t)
  \/ GzipFails(t) \/ GetLength(t) \/ Copy(t)

Next ==
  \/ \E t \in Threads : Step(t)
  \/ \E f \in Files : Change(f)

Spec == Init /\ [][Next]_vars

-----------------------------------------------------------------------------
Whole(r) == \E f \in Files, v \in 1..MaxVersion :
              r = [i \in 1..Chunks |-> Chunk(f, v, i)]

(* Unless a request looked in the cache while another one was filling it,  *)
(* the compression failed or the file changed under it, every response is  *)
(* one file as it was at one time, from its first byte to its last; and    *)
(* the same one for all, also for later requests, which overlap each other *)
(* and changes of the files freely, and for other files of the same name.  *)
ServedWhole ==
  ~disturbed => \A r, s \in responses : Whole(r) /\ r = s
=============================================================================
