------------------------------ MODULE DbSession ------------------------------
(***************************************************************************)
(* Databases and shared preferences in the browser: DatabaseHandler with   *)
(* the requests of app.js.  One DatabaseHandler serves every page: it      *)
(* keeps one open database and one selection, in plain fields, and each    *)
(* request runs on a worker thread of its own.  A page keeps which tables  *)
(* it shows.  A request to list tables sets the selection; row changes     *)
(* name their database but follow the selection to tell a preferences file *)
(* from a database; and requests for data name no database at all.         *)
(*                                                                         *)
(* An action is a step no other thread can observe half done: one access   *)
(* to a shared field, or one SQLite call.  Left out: rows, SQL and         *)
(* formatting; the list of databases is the module DbList.                 *)
(***************************************************************************)
CONSTANTS
  Threads,  \* worker threads
  Pages,    \* browser pages
  Dbs,      \* names of databases, each its own file
  Prefs,    \* APP_SHARED_PREFERENCES
  None      \* "null"; of what was clicked: neither of these

(* APP_SHARED_PREFERENCES is no database's name. *)
ASSUME DbSessionAssumption ==
  /\ Prefs \notin Dbs
  /\ None \notin Pages \cup Dbs \cup {Prefs}

VARIABLES
  database,   \* mDatabase
  isOpen,     \* mDatabase.isOpen()
  isDbOpened,
  selected,   \* mSelectedDatabase
  dbOrPath,   \* what each page last clicked
  tables,     \* the database whose tables each page shows
  pc, req,    \* each thread's next step and request
  alone,      \* no other request was under way while this one was
  sole,       \* the page that last listed tables, if nobody interfered since
  fresh       \* and no request has failed since then

handlerVars == <<database, isOpen, isDbOpened, selected>>
pageVars    == <<dbOrPath, tables>>
threadVars  == <<pc, req, alone>>
history     == <<sole, fresh>>
vars == <<handlerVars, pageVars, threadVars, history>>

Init ==
  /\ database = None /\ isOpen = FALSE /\ isDbOpened = FALSE
  /\ selected = None
  /\ dbOrPath = [p \in Pages |-> None]
  /\ tables = [p \in Pages |-> None]
  /\ pc = [t \in Threads |-> "idle"]
  /\ req = [t \in Threads |-> None]
  /\ alone = [t \in Threads |-> TRUE]
  /\ sole = None /\ fresh = FALSE

Busy == {t \in Threads : pc[t] # "idle"}

-----------------------------------------------------------------------------
(* What a page asks for.                                                   *)

(* A request of page p reaches a worker thread. *)
Send(t, p, kind, name, step) ==
  /\ pc[t] = "idle"
  /\ pc' = [pc EXCEPT ![t] = step]
  /\ req' = [req EXCEPT ![t] = [page |-> p, kind |-> kind, name |-> name]]
  /\ alone' = [s \in Threads |-> Busy = {} \/ s \notin Busy \cup {t}]
  /\ sole' = IF Busy = {} /\ p = sole THEN sole ELSE None
  /\ fresh' = (fresh /\ sole' # None)
  /\ UNCHANGED <<handlerVars, tables>>

(* openDatabaseAndGetTableList *)
ClickDatabase(t, p, n) ==
  /\ dbOrPath' = [dbOrPath EXCEPT ![p] = n]
  /\ Send(t, p, "list", n, "check")

(* The page shows the storage and asks DatabaseHandler for nothing. *)
ClickStorage(p) ==
  /\ dbOrPath' = [dbOrPath EXCEPT ![p] = None]
  /\ UNCHANGED <<handlerVars, tables, threadVars, history>>

(* getData: on the tables shown, of which the request names one. *)
AskData(t, p) ==
  /\ tables[p] # None
  /\ Send(t, p, "data", tables[p], "data")
  /\ UNCHANGED dbOrPath

(* add-, update- and deleteTableData *)
AskChange(t, p) ==
  /\ tables[p] # None
  /\ Send(t, p, "change", tables[p], "branch")
  /\ UNCHANGED dbOrPath

(* downloadDb: only when a database was clicked last. *)
AskDownload(t, p) ==
  /\ tables[p] # None /\ dbOrPath[p] \in Dbs
  /\ Send(t, p, "download", tables[p], "file")
  /\ UNCHANGED dbOrPath

(* queryFunction: on what was clicked last. *)
Query(t, p) ==
  /\ Send(t, p, "query", dbOrPath[p], "check")
  /\ UNCHANGED dbOrPath

-----------------------------------------------------------------------------
(* How a request goes on and ends.                                         *)

Goto(t, step) ==
  /\ pc' = [pc EXCEPT ![t] = step]
  /\ UNCHANGED <<req, alone, pageVars, history>>

End(t) ==
  /\ pc' = [pc EXCEPT ![t] = "idle"]
  /\ req' = [req EXCEPT ![t] = None]
  /\ alone' = [alone EXCEPT ![t] = TRUE]

(* An exception, answered by isSuccessful = false or by a server error. *)
Fails(t) == End(t) /\ fresh' = FALSE /\ UNCHANGED <<pageVars, sole>>

Finishes(t) == End(t) /\ UNCHANGED <<pageVars, history>>

(* closeDatabase reads mDatabase twice before it closes it ... *)
CheckOpen(t) ==
  /\ pc[t] = "check"
  /\ Goto(t, IF database # None /\ isOpen THEN "close" ELSE "null")
  /\ UNCHANGED handlerVars

(* ... and once more to close it. *)
CloseIt(t) ==
  /\ pc[t] = "close"
  /\ \/ database = None /\ Fails(t) /\ UNCHANGED isOpen
     \/ database # None /\ Goto(t, "null") /\ isOpen' = FALSE
  /\ UNCHANGED <<database, isDbOpened, selected>>

ForgetIt(t) ==
  /\ pc[t] = "null"
  /\ database' = None /\ isOpen' = FALSE
  /\ Goto(t, "flag")
  /\ UNCHANGED <<isDbOpened, selected>>

AfterClose(t) ==
  IF req[t].kind = "list" /\ req[t].name = Prefs THEN "select" ELSE "open"

(* Mutant: the selection is changed before the database is opened. *)
ClearFlagSelects(t) ==
  /\ pc[t] = "flag"
  /\ isDbOpened' = FALSE
  /\ selected' = IF req[t].kind = "list" THEN req[t].name ELSE selected
  /\ Goto(t, AfterClose(t))
  /\ UNCHANGED <<database, isOpen>>

(* Mutant: closeDatabase leaves the flag alone. *)
ClearFlagNot(t) ==
  /\ pc[t] = "flag"
  /\ Goto(t, AfterClose(t))
  /\ UNCHANGED handlerVars

(* The last statement of closeDatabase. *)
ClearFlag(t) ==
  /\ pc[t] = "flag"
  /\ isDbOpened' = FALSE
  /\ Goto(t, AfterClose(t))
  /\ UNCHANGED <<database, isOpen, selected>>

(* openDatabase: a name that is not in the list, or a file that cannot be  *)
(* opened, throws.                                                         *)
OpenIt(t) ==
  /\ pc[t] = "open"
  /\ \/ Fails(t) /\ UNCHANGED <<database, isOpen>>
     \/ /\ req[t].name \in Dbs
        /\ database' = req[t].name /\ isOpen' = TRUE
        /\ Goto(t, "opened")
  /\ UNCHANGED <<isDbOpened, selected>>

SetFlag(t) ==
  /\ pc[t] = "opened"
  /\ isDbOpened' = TRUE
  /\ Goto(t, "use")
  /\ UNCHANGED <<database, isOpen, selected>>

(* The database a SQLite call works on; a null or closed one throws. *)
Used == IF isOpen THEN database ELSE None

(* getTableListResponse reads the tables, which may fail even though       *)
(* opening did not ...                                                     *)
ListTables(t) ==
  /\ pc[t] = "use" /\ req[t].kind = "list"
  /\ Fails(t) \/ (Used # None /\ Goto(t, "select"))
  /\ UNCHANGED handlerVars

(* ... and selects the database; the page shows the tables of the reply.   *)
Select(t) ==
  LET p == req[t].page IN
  /\ pc[t] = "select"
  /\ selected' = req[t].name
  /\ tables' = [tables EXCEPT ![p] = req[t].name]
  /\ sole' = IF alone[t] THEN p ELSE None
  /\ fresh' = alone[t]
  /\ End(t)
  /\ UNCHANGED <<database, isOpen, isDbOpened, dbOrPath>>

(* add-, update- and deleteTableDataAndGetResponse: the selection decides  *)
(* between a preferences file and the database that is named.              *)
Branch(t) ==
  /\ pc[t] = "branch"
  /\ IF selected = Prefs THEN Finishes(t) ELSE Goto(t, "check")
  /\ UNCHANGED handlerVars

(* A row change or a query on the open database. *)
Execute(t) ==
  /\ pc[t] = "use" /\ req[t].kind \in {"change", "query"}
  /\ IF Used = None THEN Fails(t) ELSE Finishes(t)
  /\ UNCHANGED handlerVars

(* getAllDataFromTheTableResponse: the flag decides. *)
GetData(t) ==
  /\ pc[t] = "data"
  /\ IF isDbOpened THEN Goto(t, "rows") ELSE Finishes(t)
  /\ UNCHANGED handlerVars

GetRows(t) ==
  /\ pc[t] = "rows"
  /\ IF Used = None THEN Fails(t) ELSE Finishes(t)
  /\ UNCHANGED handlerVars

(* getSelectedDBFile *)
Download(t) ==
  /\ pc[t] = "file"
  /\ Finishes(t)
  /\ UNCHANGED handlerVars

-----------------------------------------------------------------------------
ThreadStep(t) ==
  \/ CheckOpen(t) \/ CloseIt(t) \/ ForgetIt(t) \/ ClearFlag(t)
  \/ OpenIt(t) \/ SetFlag(t) \/ ListTables(t) \/ Select(t)
  \/ Branch(t) \/ Execute(t) \/ GetData(t) \/ GetRows(t) \/ Download(t)

Request(t, p) ==
  \/ \E n \in Dbs \cup {Prefs} : ClickDatabase(t, p, n)
  \/ AskData(t, p) \/ AskChange(t, p) \/ AskDownload(t, p) \/ Query(t, p)

Next ==
  \/ \E t \in Threads : ThreadStep(t)
  \/ \E t \in Threads, p \in Pages : Request(t, p)
  \/ \E p \in Pages : ClickStorage(p)

Spec == Init /\ [][Next]_vars

-----------------------------------------------------------------------------
(* A request of the page that listed tables alone, not interfered with. *)
Mine(t) == pc[t] # "idle" /\ alone[t] /\ req[t].page = sole

(* Whatever races there were before, once a page has listed tables with no *)
(* other request under way, and until another page or an overlapping       *)
(* request interferes, a change of a row is made in the database or the    *)
(* preferences whose tables the page shows, or not at all, and a download  *)
(* is of that database, although databases that cannot be opened are       *)
(* clicked and queried in between.                                         *)
WorksOnShownStore ==
  \A t \in Threads : Mine(t) =>
    /\ pc[t] = "branch" /\ selected = Prefs => req[t].name = Prefs
    /\ pc[t] = "use" /\ req[t].kind = "change" => Used \in {req[t].name, None}
    /\ pc[t] = "file" => selected = req[t].name

(* The data such a page is given, which it asks for without naming a       *)
(* database, is from the database whose tables it shows, unless one of its *)
(* requests has failed since it listed them.                               *)
DataFromShownStore ==
  \A t \in Threads : Mine(t) /\ fresh =>
    /\ pc[t] = "data" /\ ~isDbOpened => req[t].name = Prefs
    /\ pc[t] = "rows" => Used = req[t].name
=============================================================================
