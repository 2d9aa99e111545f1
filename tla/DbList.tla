------------------------------- MODULE DbList -------------------------------
(***************************************************************************)
(* The list of databases DatabaseHandler keeps: read from the application  *)
(* when it is first needed, and added to when a page edits a database file *)
(* from somewhere else.  Files may share a name; the list gives each a key *)
(* of its own.  The list is a plain HashMap in a plain field, and requests *)
(* run on worker threads: two first readings each make a map.              *)
(***************************************************************************)
EXTENDS Naturals, Sequences, Functions

CONSTANTS
  Threads,   \* worker threads
  Files,     \* files a page may add, all with the same name
  Own,       \* the application's database, which has that name too
  None       \* "null"

(* The keys "name", "name-1", "name-2", ...: the bound is as many as two    *)
(* files need, and nothing is added when all of them are taken.            *)
Keys == 0..3

VARIABLES
  maps,      \* the maps made so far, each from keys to files
  current,   \* mDatabaseFiles: the number of the map, 0 for null
  pc, file,  \* each thread's next step and the file it adds
  map, key,  \* the map it works on, the key it chose
  alone,     \* no other request was under way while this one was
  added      \* files whose addition was confirmed, by a request alone

vars == <<maps, current, pc, file, map, key, alone, added>>

Init ==
  /\ maps = <<>> /\ current = 0
  /\ pc = [t \in Threads |-> "idle"]
  /\ file = [t \in Threads |-> None]
  /\ map = [t \in Threads |-> 0]
  /\ key = [t \in Threads |-> 0]
  /\ alone = [t \in Threads |-> TRUE]
  /\ added = {}

Busy == {t \in Threads : pc[t] # "idle"}

(* A request for the list (f = None) or to add the file f. *)
Request(t, f) ==
  /\ pc[t] = "idle"
  /\ pc' = [pc EXCEPT ![t] = "check"]
  /\ file' = [file EXCEPT ![t] = f]
  /\ alone' = [s \in Threads |-> Busy = {} \/ s \notin Busy \cup {t}]
  /\ UNCHANGED <<maps, current, map, key, added>>

(* getDBList: is there a list? *)
CheckList(t) ==
  /\ pc[t] = "check"
  /\ pc' = [pc EXCEPT ![t] = IF current = 0 THEN "read" ELSE "get"]
  /\ UNCHANGED <<maps, current, file, map, key, alone, added>>

OwnDatabases == [k \in Keys |-> IF k = 0 THEN Own ELSE None]

(* readDBList: a new map, whether or not there is one by now. *)
ReadDBList(t) ==
  /\ pc[t] = "read"
  /\ maps' = Append(maps, OwnDatabases)
  /\ current' = Len(maps')
  /\ pc' = [pc EXCEPT ![t] = "get"]
  /\ UNCHANGED <<file, map, key, alone, added>>

(* The end of getDBList: whatever map is current. *)
GetList(t) ==
  /\ pc[t] = "get"
  /\ map' = [map EXCEPT ![t] = current]
  /\ pc' = [pc EXCEPT ![t] = IF file[t] = None THEN "idle" ELSE "choose"]
  /\ UNCHANGED <<maps, current, file, key, alone, added>>

(* Mutant: "-1" is appended once, whether or not that key is taken. *)
FreeKeyOnce(m) == IF m[0] = None THEN 0 ELSE 1

(* The name, or the name with the first number that is not taken. *)
FreeKey(m) == CHOOSE k \in Keys : m[k] = None /\ \A j \in 0..k - 1 : m[j] # None

(* addDBResponse: a file that is listed is refused. *)
ChooseKey(t) ==
  LET m == maps[map[t]] IN
  /\ pc[t] = "choose"
  /\ IF file[t] \in Range(m)
     THEN pc' = [pc EXCEPT ![t] = "idle"] /\ UNCHANGED key
     ELSE /\ \E k \in Keys : m[k] = None
          /\ pc' = [pc EXCEPT ![t] = "put"]
          /\ key' = [key EXCEPT ![t] = FreeKey(m)]
  /\ UNCHANGED <<maps, current, file, map, alone, added>>

PutFile(t) ==
  /\ pc[t] = "put"
  /\ maps' = [maps EXCEPT ![map[t]][key[t]] = file[t]]
  /\ added' = IF alone[t] THEN added \cup {file[t]} ELSE added
  /\ pc' = [pc EXCEPT ![t] = "idle"]
  /\ UNCHANGED <<current, file, map, key, alone>>

Step(t) ==
  \/ CheckList(t) \/ ReadDBList(t) \/ GetList(t)
  \/ ChooseKey(t) \/ PutFile(t)

Next == \E t \in Threads :
  Step(t) \/ \E f \in Files \cup {None} : Request(t, f)

Spec == Init /\ [][Next]_vars

-----------------------------------------------------------------------------
(* A file whose addition was confirmed to a request that ran alone stays   *)
(* in the list, whatever requests race afterwards: those that read the     *)
(* list for the first time or add files at once can only lose one another. *)
AddedIsListed == \A f \in added : f \in Range(maps[current])
=============================================================================
