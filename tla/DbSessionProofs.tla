--------------------------- MODULE DbSessionProofs ---------------------------
(***************************************************************************)
(* Proofs about DbSession, for any sets of worker threads, pages and       *)
(* databases: what an undisturbed page works on is what it shows.          *)
(***************************************************************************)
EXTENDS DbSession, TLAPS

-----------------------------------------------------------------------------
(* Types.                                                                  *)

Names == Dbs \cup {Prefs, None}
Kinds == {"list", "data", "change", "download", "query"}
Requests == [page : Pages, kind : Kinds, name : Names]

(* The steps of closeDatabase and openDatabase, and what follows them. *)
Opening == {"check", "close", "null", "flag", "open", "opened", "use"}

(* The steps a request of each kind may be at. *)
StepsOf(kind) ==
  CASE kind = "list" -> Opening \cup {"select"}
    [] kind = "data" -> {"data", "rows"}
    [] kind = "change" -> Opening \cup {"branch"}
    [] kind = "download" -> {"file"}
    [] kind = "query" -> Opening

TypeOK ==
  /\ database \in Dbs \cup {None} /\ isOpen \in BOOLEAN /\ isDbOpened \in BOOLEAN
  /\ selected \in Names
  /\ dbOrPath \in [Pages -> Names]
  /\ tables \in [Pages -> Names]
  /\ pc = [t \in Threads |-> pc[t]]
  /\ req = [t \in Threads |-> req[t]]
  /\ alone \in [Threads -> BOOLEAN]
  /\ sole \in Pages \cup {None} /\ fresh \in BOOLEAN
  /\ \A t \in Threads : pc[t] # "idle" =>
       /\ req[t] \in Requests /\ pc[t] \in StepsOf(req[t].kind)
       /\ req[t].kind = "list" => req[t].name \in Dbs \cup {Prefs}

(* Which kind of request a step belongs to. *)
LEMMA Steps ==
  /\ \A k \in Kinds : "idle" \notin StepsOf(k)
  /\ \A k \in {"list", "change", "query"} : Opening \subseteq StepsOf(k)
  /\ \A k \in Kinds :
       /\ "select" \in StepsOf(k) <=> k = "list"
       /\ "branch" \in StepsOf(k) <=> k = "change"
       /\ "file" \in StepsOf(k) <=> k = "download"
       /\ "data" \in StepsOf(k) <=> k = "data"
       /\ "rows" \in StepsOf(k) <=> k = "data"
       /\ \A s \in Opening : s \in StepsOf(k) <=> k \in {"list", "change", "query"}
BY DEF StepsOf, Kinds, Opening

(* What the pages' requests have in common. *)
LEMMA RequestFacts ==
  ASSUME TypeOK, NEW t \in Threads, NEW p \in Pages, Request(t, p)
  PROVE  \E kind \in Kinds, name \in Names, step \in {"check", "data", "branch", "file"} :
           /\ step \in StepsOf(kind) /\ Send(t, p, kind, name, step)
           /\ \/ /\ kind = "list" /\ name \in Dbs \cup {Prefs}
                 /\ dbOrPath' = [dbOrPath EXCEPT ![p] = name]
              \/ /\ kind = "query" /\ name = dbOrPath[p] /\ dbOrPath' = dbOrPath
              \/ /\ kind \in {"data", "change", "download"} /\ name = tables[p]
                 /\ dbOrPath' = dbOrPath
<1> USE DbSessionAssumption DEF Names, Kinds
<1>1. ASSUME NEW n \in Dbs \cup {Prefs}, ClickDatabase(t, p, n)
      PROVE  /\ Send(t, p, "list", n, "check") /\ "check" \in StepsOf("list")
             /\ dbOrPath' = [dbOrPath EXCEPT ![p] = n]
  BY <1>1, Steps DEF ClickDatabase, Opening
<1>2. CASE AskData(t, p)
  BY <1>2, Steps DEF AskData, TypeOK
<1>3. CASE AskChange(t, p)
  BY <1>3, Steps DEF AskChange, TypeOK
<1>4. CASE AskDownload(t, p)
  BY <1>4, Steps DEF AskDownload, TypeOK
<1>5. CASE Query(t, p)
  BY <1>5, Steps DEF Query, TypeOK, Opening
<1> QED
  BY <1>1, <1>2, <1>3, <1>4, <1>5 DEF Request

(* A step of thread t leaves the other threads where they are. *)
LEMMA ThreadFacts ==
  ASSUME TypeOK, NEW t \in Threads, ThreadStep(t)
  PROVE  /\ pc[t] # "idle"
         /\ pc' = [s \in Threads |-> pc'[s]] /\ req' = [s \in Threads |-> req'[s]]
         /\ alone' \in [Threads -> BOOLEAN]
         /\ \A s \in Threads : s # t =>
              pc'[s] = pc[s] /\ req'[s] = req[s] /\ alone'[s] = alone[s]
         /\ pc'[t] # "idle" => req'[t] = req[t] /\ alone'[t] = alone[t]
         /\ dbOrPath' = dbOrPath
<1> USE DEF Goto, Finishes, Fails, End, handlerVars, pageVars, TypeOK
<1>1. CASE CheckOpen(t)
  BY <1>1 DEF CheckOpen
<1>2. CASE CloseIt(t)
  BY <1>2 DEF CloseIt
<1>3. CASE ForgetIt(t)
  BY <1>3 DEF ForgetIt
<1>4. CASE ClearFlag(t)
  BY <1>4 DEF ClearFlag
<1>5. CASE OpenIt(t)
  BY <1>5 DEF OpenIt
<1>6. CASE SetFlag(t)
  BY <1>6 DEF SetFlag
<1>7. CASE ListTables(t)
  BY <1>7 DEF ListTables
<1>8. CASE Select(t)
  BY <1>8 DEF Select
<1>9. CASE Branch(t)
  BY <1>9 DEF Branch
<1>10. CASE Execute(t)
  BY <1>10 DEF Execute
<1>11. CASE GetData(t)
  BY <1>11 DEF GetData
<1>12. CASE GetRows(t)
  BY <1>12 DEF GetRows
<1>13. CASE Download(t)
  BY <1>13 DEF Download
<1> QED
  BY <1>1, <1>2, <1>3, <1>4, <1>5, <1>6, <1>7, <1>8, <1>9, <1>10, <1>11, <1>12, <1>13
     DEF ThreadStep

(* What the steps leave alone altogether. *)
LEMMA StorageFacts ==
  ASSUME NEW p \in Pages, ClickStorage(p)
  PROVE  /\ dbOrPath' = [dbOrPath EXCEPT ![p] = None]
         /\ UNCHANGED <<database, isOpen, isDbOpened, selected, tables, pc, req,
                        alone, sole, fresh>>
BY DEF ClickStorage, handlerVars, threadVars, history

(* A step that does not end a request takes it where requests of its kind go. *)
LEMMA StaysInKind ==
  ASSUME TypeOK, NEW t \in Threads, ThreadStep(t), pc'[t] # "idle"
  PROVE  pc'[t] \in StepsOf(req[t].kind)
<1> USE DEF Goto, Finishes, Fails, End, TypeOK, Requests
<1>a. req[t].kind \in Kinds /\ pc[t] \in StepsOf(req[t].kind)
  BY ThreadFacts
<1>b. pc[t] \in Opening => Opening \subseteq StepsOf(req[t].kind)
  BY <1>a, Steps
<1>1. CASE CheckOpen(t)
  BY <1>1, <1>b DEF CheckOpen, Opening
<1>2. CASE CloseIt(t)
  BY <1>2, <1>b DEF CloseIt, Opening
<1>3. CASE ForgetIt(t)
  BY <1>3, <1>b DEF ForgetIt, Opening
<1>4. CASE ClearFlag(t)
  BY <1>4, <1>a, <1>b, Steps DEF ClearFlag, Opening, AfterClose
<1>5. CASE OpenIt(t)
  BY <1>5, <1>b DEF OpenIt, Opening
<1>6. CASE SetFlag(t)
  BY <1>6, <1>b DEF SetFlag, Opening
<1>7. CASE ListTables(t)
  BY <1>7, <1>a, Steps DEF ListTables
<1>8. CASE Select(t)
  BY <1>8 DEF Select
<1>9. CASE Branch(t)
  <2>1. Opening \subseteq StepsOf(req[t].kind)
    BY <1>9, <1>a, Steps DEF Branch
  <2> QED
    BY <1>9, <2>1 DEF Branch, Opening
<1>10. CASE Execute(t)
  BY <1>10 DEF Execute
<1>11. CASE GetData(t)
  BY <1>11, <1>a, Steps DEF GetData
<1>12. CASE GetRows(t)
  BY <1>12 DEF GetRows
<1>13. CASE Download(t)
  BY <1>13 DEF Download
<1> QED
  BY <1>1, <1>2, <1>3, <1>4, <1>5, <1>6, <1>7, <1>8, <1>9, <1>10, <1>11, <1>12, <1>13
     DEF ThreadStep

(* The handler's fields, what the pages show and the history keep types. *)
LEMMA StepTypes ==
  ASSUME TypeOK, NEW t \in Threads, ThreadStep(t)
  PROVE  /\ database' \in Dbs \cup {None} /\ isOpen' \in BOOLEAN /\ isDbOpened' \in BOOLEAN
         /\ selected' \in Names /\ tables' \in [Pages -> Names]
         /\ sole' \in Pages \cup {None} /\ fresh' \in BOOLEAN
<1> USE DEF Goto, Finishes, Fails, End, TypeOK, Requests, handlerVars, pageVars, history
<1>a. req[t] \in Requests
  BY ThreadFacts
<1>1. CASE CheckOpen(t)
  BY <1>1 DEF CheckOpen
<1>2. CASE CloseIt(t)
  BY <1>2 DEF CloseIt
<1>3. CASE ForgetIt(t)
  BY <1>3 DEF ForgetIt
<1>4. CASE ClearFlag(t)
  BY <1>4 DEF ClearFlag
<1>5. CASE OpenIt(t)
  BY <1>5 DEF OpenIt
<1>6. CASE SetFlag(t)
  BY <1>6 DEF SetFlag
<1>7. CASE ListTables(t)
  BY <1>7 DEF ListTables
<1>8. CASE Select(t)
  BY <1>8, <1>a DEF Select
<1>9. CASE Branch(t)
  BY <1>9 DEF Branch
<1>10. CASE Execute(t)
  BY <1>10 DEF Execute
<1>11. CASE GetData(t)
  BY <1>11 DEF GetData
<1>12. CASE GetRows(t)
  BY <1>12 DEF GetRows
<1>13. CASE Download(t)
  BY <1>13 DEF Download
<1> QED
  BY <1>1, <1>2, <1>3, <1>4, <1>5, <1>6, <1>7, <1>8, <1>9, <1>10, <1>11, <1>12, <1>13
     DEF ThreadStep

(* Nobody has asked for anything at first ... *)
LEMMA TypeInit == Init => TypeOK
BY DEF Init, TypeOK, Names

(* ... and no step leaves the types. *)
LEMMA TypeNext == TypeOK /\ [Next]_vars => TypeOK'
<1> SUFFICES ASSUME TypeOK, [Next]_vars PROVE TypeOK'
  OBVIOUS
<1>1. ASSUME NEW t \in Threads, ThreadStep(t) PROVE TypeOK'
  <2>1. \A s \in Threads : pc'[s] # "idle" =>
          /\ req'[s] \in Requests /\ pc'[s] \in StepsOf(req'[s].kind)
          /\ req'[s].kind = "list" => req'[s].name \in Dbs \cup {Prefs}
    BY <1>1, ThreadFacts, StaysInKind DEF TypeOK
  <2> QED
    BY <1>1, <2>1, ThreadFacts, StepTypes DEF TypeOK
<1>2. ASSUME NEW t \in Threads, NEW p \in Pages, Request(t, p) PROVE TypeOK'
  <2>1. PICK kind \in Kinds, name \in Names, step \in {"check", "data", "branch", "file"} :
          /\ step \in StepsOf(kind) /\ Send(t, p, kind, name, step)
          /\ dbOrPath' = dbOrPath \/ dbOrPath' = [dbOrPath EXCEPT ![p] = name]
          /\ kind = "list" => name \in Dbs \cup {Prefs}
    BY <1>2, RequestFacts
  <2>a. /\ pc'[t] = step /\ req'[t].kind = kind /\ req'[t] \in Requests
        /\ kind = "list" => req'[t].name \in Dbs \cup {Prefs}
        /\ \A s \in Threads : s # t => pc'[s] = pc[s] /\ req'[s] = req[s]
        /\ pc' = [s \in Threads |-> pc'[s]] /\ req' = [s \in Threads |-> req'[s]]
    BY <2>1 DEF TypeOK, Requests, Send
  <2>b. pc'[t] \in StepsOf(req'[t].kind)
    BY <2>1, <2>a
  <2>2. \A s \in Threads : pc'[s] # "idle" =>
          /\ req'[s] \in Requests /\ pc'[s] \in StepsOf(req'[s].kind)
          /\ req'[s].kind = "list" => req'[s].name \in Dbs \cup {Prefs}
    BY <2>a, <2>b DEF TypeOK
  <2>3. /\ alone' \in [Threads -> BOOLEAN] /\ sole' \in Pages \cup {None}
        /\ fresh' \in BOOLEAN
    BY <2>1 DEF TypeOK, Send
  <2>4. dbOrPath' \in [Pages -> Names]
    BY <2>1 DEF TypeOK, Send
  <2> QED
    BY <2>1, <2>a, <2>2, <2>3, <2>4 DEF TypeOK, Send, handlerVars
<1>3. ASSUME NEW p \in Pages, ClickStorage(p) PROVE TypeOK'
  BY <1>3, StorageFacts DEF TypeOK, Names
<1>4. CASE UNCHANGED vars
  BY <1>4 DEF vars, handlerVars, pageVars, threadVars, history, TypeOK
<1> QED
  BY <1>1, <1>2, <1>3, <1>4 DEF Next

-----------------------------------------------------------------------------
(* A request that overlaps no other is the only one.                       *)

Alone(t) == pc[t] # "idle" /\ alone[t]

AloneInv == \A s, t \in Threads : Alone(t) /\ pc[s] # "idle" => s = t

(* A request that nobody overlaps after a step of thread t is that of t.   *)
LEMMA AloneStep ==
  ASSUME TypeOK, AloneInv, NEW t \in Threads, ThreadStep(t),
         NEW s \in Threads, Alone(s)'
  PROVE  s = t /\ Alone(t) /\ req'[t] = req[t]
BY ThreadFacts DEF Alone, AloneInv

(* Every step keeps it so. *)
LEMMA AloneNext == TypeOK /\ AloneInv /\ [Next]_vars => AloneInv'
<1> SUFFICES ASSUME TypeOK, AloneInv, [Next]_vars PROVE AloneInv'
  OBVIOUS
<1>1. ASSUME NEW t \in Threads, ThreadStep(t) PROVE AloneInv'
  BY <1>1, ThreadFacts DEF AloneInv, Alone
<1>2. ASSUME NEW t \in Threads, NEW p \in Pages, Request(t, p) PROVE AloneInv'
  <2>1. PICK kind \in Kinds, name \in Names, step \in {"check", "data", "branch", "file"} :
          Send(t, p, kind, name, step)
    BY <1>2, RequestFacts
  <2> QED
    BY <2>1 DEF Send, AloneInv, Alone, Busy, TypeOK
<1>3. ASSUME NEW p \in Pages, ClickStorage(p) PROVE AloneInv'
  BY <1>3, StorageFacts DEF AloneInv, Alone
<1>4. CASE UNCHANGED vars
  BY <1>4 DEF vars, threadVars, AloneInv, Alone
<1> QED
  BY <1>1, <1>2, <1>3, <1>4 DEF Next

-----------------------------------------------------------------------------
(* How far a request that overlaps no other has opened its database.       *)

Open(n) == n \in Dbs /\ database = n /\ isOpen

ListsPrefs(t) == req[t].kind = "list" /\ req[t].name = Prefs

OpeningFor(t) ==
  /\ pc[t] \in {"open", "opened"} => ~isDbOpened
  /\ pc[t] = "select" /\ ListsPrefs(t) => ~isDbOpened
  /\ pc[t] \in {"opened", "use"} => Open(req[t].name)
  /\ pc[t] = "select" /\ ~ListsPrefs(t) => Open(req[t].name)
  /\ pc[t] = "use" \/ (pc[t] = "select" /\ ~ListsPrefs(t)) \/ pc[t] = "rows" => isDbOpened
  /\ req[t].kind = "list" => dbOrPath[req[t].page] \in {req[t].name, None}

OpeningInv == \A t \in Threads : Alone(t) => OpeningFor(t)

(* One step further. *)
LEMMA OpeningStep ==
  ASSUME TypeOK, NEW t \in Threads, ThreadStep(t), OpeningFor(t), pc'[t] # "idle"
  PROVE  OpeningFor(t)'
<1> USE DbSessionAssumption, ThreadFacts DEF Goto, Finishes, Fails, End, TypeOK, Requests,
        handlerVars, OpeningFor, Open, ListsPrefs
<1>a. /\ req[t] \in Requests /\ req[t].kind \in Kinds /\ pc[t] \in StepsOf(req[t].kind)
      /\ req[t].kind = "list" => req[t].name \in Dbs \cup {Prefs}
  OBVIOUS
<1>1. CASE CheckOpen(t)
  BY <1>1 DEF CheckOpen
<1>2. CASE CloseIt(t)
  BY <1>2 DEF CloseIt
<1>3. CASE ForgetIt(t)
  BY <1>3 DEF ForgetIt
<1>4. CASE ClearFlag(t)
  BY <1>4 DEF ClearFlag, AfterClose
<1>5. CASE OpenIt(t)
  BY <1>5 DEF OpenIt
<1>6. CASE SetFlag(t)
  BY <1>6 DEF SetFlag
<1>7. CASE ListTables(t)
  BY <1>7 DEF ListTables
<1>8. CASE Select(t)
  BY <1>8 DEF Select
<1>9. CASE Branch(t)
  BY <1>9 DEF Branch
<1>10. CASE Execute(t)
  BY <1>10 DEF Execute
<1>11. CASE GetData(t)
  BY <1>11 DEF GetData
<1>12. CASE GetRows(t)
  BY <1>12 DEF GetRows
<1>13. CASE Download(t)
  BY <1>13 DEF Download
<1> QED
  BY <1>1, <1>2, <1>3, <1>4, <1>5, <1>6, <1>7, <1>8, <1>9, <1>10, <1>11, <1>12, <1>13
     DEF ThreadStep

(* Of the request that overlaps no other, after any step. *)
LEMMA OpeningNext == TypeOK /\ AloneInv /\ OpeningInv /\ [Next]_vars => OpeningInv'
<1> SUFFICES ASSUME TypeOK, AloneInv, OpeningInv, [Next]_vars, NEW s \in Threads, Alone(s)'
             PROVE  OpeningFor(s)'
  BY DEF OpeningInv
<1>1. ASSUME NEW t \in Threads, ThreadStep(t) PROVE OpeningFor(s)'
  BY <1>1, AloneStep, OpeningStep DEF OpeningInv, Alone
<1>2. ASSUME NEW t \in Threads, NEW p \in Pages, Request(t, p) PROVE OpeningFor(s)'
  <2>1. PICK kind \in Kinds, name \in Names, step \in {"check", "data", "branch", "file"} :
          /\ Send(t, p, kind, name, step)
          /\ kind = "list" => dbOrPath' = [dbOrPath EXCEPT ![p] = name]
    BY <1>2, RequestFacts
  <2>2. s = t
    BY <2>1 DEF Alone, Send, Busy, TypeOK
  <2>3. /\ pc'[t] \in {"check", "data", "branch", "file"}
        /\ req'[t].kind = "list" => dbOrPath'[req'[t].page] = req'[t].name
    BY <2>1 DEF Send, TypeOK
  <2> QED
    BY <2>2, <2>3 DEF OpeningFor
<1>3. ASSUME NEW p \in Pages, ClickStorage(p) PROVE OpeningFor(s)'
  BY <1>3, StorageFacts DEF OpeningInv, OpeningFor, Alone, Open, ListsPrefs, TypeOK, Requests
<1>4. CASE UNCHANGED vars
  BY <1>4 DEF vars, handlerVars, pageVars, threadVars, OpeningInv, OpeningFor, Alone, Open,
              ListsPrefs
<1> QED
  BY <1>1, <1>2, <1>3, <1>4 DEF Next

-----------------------------------------------------------------------------
(* While one page has the handler to itself, the selection is what it      *)
(* shows, and every request under way is its own.                          *)

SoleInv ==
  sole # None =>
    /\ selected = tables[sole] /\ selected \in Dbs \cup {Prefs}
    /\ \A t \in Threads : pc[t] # "idle" =>
         /\ alone[t] /\ req[t].page = sole
         /\ req[t].kind \in {"data", "change", "download"} => req[t].name = tables[sole]

(* Only Select changes what is selected or shown, or the history; a failed *)
(* request clears fresh.                                                   *)
LEMMA HistoryFacts ==
  ASSUME TypeOK, NEW t \in Threads, ThreadStep(t)
  PROVE  \/ Select(t)
         \/ /\ UNCHANGED <<selected, tables, sole>> /\ fresh' \in {fresh, FALSE}
            /\ pc'[t] = "idle" /\ fresh' => req[t].kind # "list"
<1> USE DEF Goto, Finishes, Fails, End, handlerVars, pageVars, history
<1>1. CASE CheckOpen(t)
  BY <1>1 DEF CheckOpen, TypeOK
<1>2. CASE CloseIt(t)
  BY <1>2 DEF CloseIt, TypeOK
<1>3. CASE ForgetIt(t)
  BY <1>3 DEF ForgetIt, TypeOK
<1>4. CASE ClearFlag(t)
  BY <1>4 DEF ClearFlag, AfterClose, TypeOK
<1>5. CASE OpenIt(t)
  BY <1>5 DEF OpenIt, TypeOK
<1>6. CASE SetFlag(t)
  BY <1>6 DEF SetFlag, TypeOK
<1>7. CASE ListTables(t)
  BY <1>7 DEF ListTables, TypeOK
<1>9. CASE Branch(t)
  <2>1. req[t].kind # "list"
    BY <1>9, Steps DEF Branch, TypeOK, Requests
  <2> QED
    BY <1>9, <2>1 DEF Branch
<1>10. CASE Execute(t)
  BY <1>10 DEF Execute, TypeOK
<1>11. CASE GetData(t)
  <2>1. req[t].kind # "list"
    BY <1>11, Steps DEF GetData, TypeOK, Requests
  <2> QED
    BY <1>11, <2>1 DEF GetData
<1>12. CASE GetRows(t)
  <2>1. req[t].kind # "list"
    BY <1>12, Steps DEF GetRows, TypeOK, Requests
  <2> QED
    BY <1>12, <2>1 DEF GetRows
<1>13. CASE Download(t)
  <2>1. req[t].kind # "list"
    BY <1>13, Steps DEF Download, TypeOK, Requests
  <2> QED
    BY <1>13, <2>1 DEF Download
<1> QED
  BY <1>1, <1>2, <1>3, <1>4, <1>5, <1>6, <1>7, <1>9, <1>10, <1>11, <1>12, <1>13
     DEF ThreadStep

(* A page that has listed its tables alone has the handler to itself. *)
LEMMA SelectFacts ==
  ASSUME TypeOK, AloneInv, NEW t \in Threads, Select(t), sole' # None
  PROVE  /\ Alone(t) /\ req[t].kind = "list" /\ req[t].name \in Dbs \cup {Prefs}
         /\ sole' = req[t].page /\ sole' \in Pages /\ fresh' = TRUE
         /\ tables'[sole'] = req[t].name /\ selected' = req[t].name
         /\ UNCHANGED <<database, isOpen, isDbOpened, dbOrPath>>
         /\ \A s \in Threads : pc'[s] = "idle"
<1>1. req[t].kind = "list" /\ req[t] \in Requests /\ req[t].name \in Dbs \cup {Prefs}
  BY Steps DEF Select, TypeOK, Requests
<1> QED
  BY <1>1 DEF Select, End, Alone, AloneInv, TypeOK, Requests

(* What Select establishes lasts until the history says otherwise. *)
LEMMA SoleNext == TypeOK /\ AloneInv /\ SoleInv /\ [Next]_vars => SoleInv'
<1> SUFFICES ASSUME TypeOK, AloneInv, SoleInv, [Next]_vars, sole' # None PROVE SoleInv'
  BY DEF SoleInv
<1>1. ASSUME NEW t \in Threads, ThreadStep(t) PROVE SoleInv'
  <2>1. CASE Select(t)
    BY <2>1, SelectFacts DEF SoleInv
  <2>2. CASE UNCHANGED <<selected, tables, sole>>
    BY <1>1, <2>2, ThreadFacts DEF SoleInv
  <2> QED
    BY <1>1, <2>1, <2>2, HistoryFacts
<1>2. ASSUME NEW t \in Threads, NEW p \in Pages, Request(t, p) PROVE SoleInv'
  <2>1. PICK kind \in Kinds, name \in Names, step \in {"check", "data", "branch", "file"} :
          /\ Send(t, p, kind, name, step)
          /\ kind \in {"data", "change", "download"} => name = tables[p]
    BY <1>2, RequestFacts DEF Kinds
  <2> QED
    BY <2>1 DEF Send, SoleInv, Busy, TypeOK, handlerVars
<1>3. ASSUME NEW p \in Pages, ClickStorage(p) PROVE SoleInv'
  BY <1>3, StorageFacts DEF SoleInv
<1>4. CASE UNCHANGED vars
  BY <1>4 DEF vars, handlerVars, pageVars, threadVars, history, SoleInv
<1> QED
  BY <1>1, <1>2, <1>3, <1>4 DEF Next

-----------------------------------------------------------------------------
(* If moreover no request has failed, then whenever none is on its way to  *)
(* open a database, the one whose tables the page shows is open.           *)

Settled == IF tables[sole] = Prefs THEN ~isDbOpened ELSE isDbOpened /\ Open(tables[sole])

FreshInv ==
  fresh =>
    /\ sole # None
    /\ \A t \in Threads : pc[t] # "idle" /\ req[t].kind = "query" =>
         req[t].name \in {tables[sole], None}
    /\ (\A t \in Threads : pc[t] \notin Opening \cup {"select"}) => Settled
    /\ (\A t \in Threads : pc[t] # "idle" => req[t].kind # "list") =>
         dbOrPath[sole] \in {tables[sole], None}

(* A request that has opened the database leaves it open when it ends, and *)
(* one that needs it open does not touch it.                               *)
LEMMA SettledStep ==
  ASSUME TypeOK, OpeningInv, SoleInv, FreshInv, NEW t \in Threads, ThreadStep(t), ~Select(t),
         fresh, fresh', \A s \in Threads : s # t => pc[s] = "idle",
         pc'[t] \notin Opening \cup {"select"}, UNCHANGED <<selected, tables, sole>>
  PROVE  Settled'
<1> USE DbSessionAssumption DEF Goto, Finishes, Fails, End, handlerVars, pageVars, history, Opening
<1>a. /\ req[t] \in Requests /\ req[t].kind \in Kinds /\ pc[t] \in StepsOf(req[t].kind)
      /\ pc[t] # "idle" /\ sole # None /\ sole \in Pages
  BY ThreadFacts DEF TypeOK, Requests, FreshInv
<1>b. pc[t] \notin Opening \cup {"select"} => Settled
  BY DEF FreshInv
<1>c. UNCHANGED <<database, isOpen, isDbOpened>> /\ Settled => Settled'
  BY DEF Settled, Open
<1>1. CASE CheckOpen(t)
  BY <1>1 DEF CheckOpen, TypeOK
<1>2. CASE CloseIt(t)
  BY <1>2 DEF CloseIt, TypeOK
<1>3. CASE ForgetIt(t)
  BY <1>3 DEF ForgetIt, TypeOK
<1>4. CASE ClearFlag(t)
  BY <1>4 DEF ClearFlag, AfterClose, TypeOK
<1>5. CASE OpenIt(t)
  BY <1>5 DEF OpenIt, TypeOK
<1>6. CASE SetFlag(t)
  BY <1>6 DEF SetFlag, TypeOK
<1>7. CASE ListTables(t)
  BY <1>7 DEF ListTables, TypeOK
<1>9. CASE Branch(t)
  BY <1>9, <1>b, <1>c DEF Branch
<1>10. CASE Execute(t)
  <2>1. req[t].name = tables[sole] /\ Open(req[t].name) /\ isDbOpened
    BY <1>10, <1>a DEF Execute, OpeningInv, OpeningFor, Alone, SoleInv, FreshInv, Open
  <2>2. tables[sole] # Prefs
    BY <2>1 DEF Open
  <2> QED
    BY <1>10, <2>1, <2>2 DEF Execute, Settled, Open
<1>11. CASE GetData(t)
  BY <1>11, <1>b, <1>c DEF GetData
<1>12. CASE GetRows(t)
  BY <1>12, <1>b, <1>c DEF GetRows
<1>13. CASE Download(t)
  BY <1>13, <1>b, <1>c DEF Download
<1> QED
  BY <1>1, <1>2, <1>3, <1>4, <1>5, <1>6, <1>7, <1>9, <1>10, <1>11, <1>12, <1>13
     DEF ThreadStep

(* And so does the open database, until a request fails. *)
LEMMA FreshNext ==
  TypeOK /\ AloneInv /\ OpeningInv /\ SoleInv /\ FreshInv /\ [Next]_vars => FreshInv'
<1> SUFFICES ASSUME TypeOK, AloneInv, OpeningInv, SoleInv, FreshInv, [Next]_vars, fresh'
             PROVE  FreshInv'
  BY DEF FreshInv
<1>1. ASSUME NEW t \in Threads, ThreadStep(t) PROVE FreshInv'
  <2>1. CASE Select(t)
    <3>1. sole' # None
      BY <2>1, DbSessionAssumption, ThreadFacts, <1>1 DEF Select, TypeOK, Requests
    <3>2. OpeningFor(t)
      BY <2>1, <3>1, SelectFacts DEF OpeningInv
    <3>3. Settled' /\ dbOrPath'[sole'] \in {tables'[sole'], None}
      BY <2>1, <3>1, <3>2, SelectFacts
         DEF OpeningFor, ListsPrefs, Open, Settled, Select
    <3> QED
      BY <2>1, <3>1, <3>3, SelectFacts DEF FreshInv
  <2>2. CASE /\ ~Select(t) /\ UNCHANGED <<selected, tables, sole>> /\ fresh
             /\ pc'[t] = "idle" => req[t].kind # "list"
    <3>1. pc[t] # "idle" /\ \A s \in Threads : s # t => pc[s] = "idle" /\ pc'[s] = "idle"
      BY <1>1, <2>2, ThreadFacts DEF FreshInv, SoleInv, AloneInv, Alone
    <3>2. pc'[t] # "idle" => req'[t] = req[t]
      BY <1>1, ThreadFacts
    <3>3. pc'[t] \notin Opening \cup {"select"} => Settled'
      BY <1>1, <2>2, <3>1, SettledStep
    <3>4. \A s \in Threads : pc'[s] # "idle" /\ req'[s].kind = "query" =>
            req'[s].name \in {tables[sole], None}
      BY <2>2, <3>1, <3>2 DEF FreshInv
    <3>5. (\A s \in Threads : pc'[s] # "idle" => req'[s].kind # "list") =>
            dbOrPath[sole] \in {tables[sole], None}
      BY <2>2, <3>1, <3>2 DEF FreshInv
    <3>6. sole # None /\ dbOrPath' = dbOrPath
      BY <1>1, <2>2, ThreadFacts DEF FreshInv
    <3> QED
      BY <2>2, <3>1, <3>3, <3>4, <3>5, <3>6 DEF FreshInv
  <2> QED
    BY <1>1, <2>1, <2>2, HistoryFacts
<1>2. ASSUME NEW t \in Threads, NEW p \in Pages, Request(t, p) PROVE FreshInv'
  <2>1. PICK kind \in Kinds, name \in Names, step \in {"check", "data", "branch", "file"} :
          /\ Send(t, p, kind, name, step)
          /\ kind # "list" => dbOrPath' = dbOrPath
          /\ kind = "query" => name = dbOrPath[p]
    BY <1>2, RequestFacts
  <2>2. /\ fresh /\ sole' = sole /\ p = sole /\ sole # None
        /\ \A s \in Threads : pc[s] = "idle"
        /\ UNCHANGED <<database, isOpen, isDbOpened, tables>>
        /\ pc'[t] = step /\ req'[t].kind = kind /\ req'[t].name = name
        /\ \A s \in Threads : s # t => pc'[s] = "idle"
    BY <2>1 DEF Send, Busy, TypeOK, handlerVars
  <2>3. Settled /\ dbOrPath[sole] \in {tables[sole], None}
    BY <2>2 DEF FreshInv, Opening
  <2>4. Settled'
    BY <2>2, <2>3 DEF Settled, Open
  <2>5. pc'[t] # "idle"
    BY <2>2
  <2> QED
    BY <2>1, <2>2, <2>3, <2>4, <2>5 DEF FreshInv
<1>3. ASSUME NEW p \in Pages, ClickStorage(p) PROVE FreshInv'
  <2>1. /\ UNCHANGED <<database, isOpen, isDbOpened, tables, pc, req, sole, fresh>>
        /\ sole # None => dbOrPath'[sole] \in {dbOrPath[sole], None}
    BY <1>3, StorageFacts DEF TypeOK
  <2>2. Settled' <=> Settled
    BY <2>1 DEF Settled, Open
  <2> QED
    BY <2>1, <2>2 DEF FreshInv
<1>4. CASE UNCHANGED vars
  BY <1>4 DEF vars, handlerVars, pageVars, threadVars, history, FreshInv, Settled, Open
<1> QED
  BY <1>1, <1>2, <1>3, <1>4 DEF Next

-----------------------------------------------------------------------------
Inv == TypeOK /\ AloneInv /\ OpeningInv /\ SoleInv /\ FreshInv

(* All of it holds at first ... *)
LEMMA InvInit == Init => Inv
BY TypeInit DEF Init, Inv, AloneInv, Alone, OpeningInv, SoleInv, FreshInv

(* ... and after every step. *)
LEMMA Invariance == Spec => []Inv
<1>1. Inv /\ [Next]_vars => Inv'
  BY TypeNext, AloneNext, OpeningNext, SoleNext, FreshNext DEF Inv
<1> QED
  BY InvInit, <1>1, PTL DEF Spec

(* A request of the page that has the handler to itself. *)
LEMMA MineFacts ==
  ASSUME Inv, NEW t \in Threads, Mine(t)
  PROVE  /\ sole # None /\ sole \in Pages /\ OpeningFor(t)
         /\ pc[t] \in StepsOf(req[t].kind) /\ req[t].kind \in Kinds
         /\ req[t].kind \in {"data", "change", "download"} => req[t].name = tables[sole]
         /\ selected = tables[sole]
         /\ \A s \in Threads : s # t => pc[s] = "idle"
BY DbSessionAssumption
   DEF Inv, Mine, TypeOK, Requests, OpeningInv, SoleInv, AloneInv, Alone

(* Whatever races there were before, once a page has listed tables alone   *)
(* its row changes and downloads work on the database or preferences it    *)
(* shows, or on nothing, until another page or request interferes, however *)
(* many worker threads, pages and databases there are.                     *)
THEOREM ChangesHitTheShownStore == Spec => []WorksOnShownStore
<1>1. Inv => WorksOnShownStore
  <2> SUFFICES ASSUME Inv, NEW t \in Threads, Mine(t)
               PROVE  /\ pc[t] = "branch" /\ selected = Prefs => req[t].name = Prefs
                      /\ pc[t] = "use" /\ req[t].kind = "change" => Used \in {req[t].name, None}
                      /\ pc[t] = "file" => selected = req[t].name
    BY DEF WorksOnShownStore
  <2>1. CASE pc[t] \in {"branch", "file"}
    BY <2>1, MineFacts, Steps
  <2>2. CASE pc[t] = "use"
    BY <2>2, MineFacts DEF OpeningFor, Open, Used
  <2> QED
    BY <2>1, <2>2
<1> QED
  BY <1>1, Invariance, PTL

(* The data such a page is given is from the database whose tables it      *)
(* shows, unless one of its requests has failed since it listed them.      *)
THEOREM DataIsOfTheShownStore == Spec => []DataFromShownStore
<1>1. Inv => DataFromShownStore
  <2> SUFFICES ASSUME Inv, NEW t \in Threads, Mine(t), fresh
               PROVE  /\ pc[t] = "data" /\ ~isDbOpened => req[t].name = Prefs
                      /\ pc[t] = "rows" => Used = req[t].name
    BY DEF DataFromShownStore
  <2>1. CASE pc[t] \in {"data", "rows"}
    <3>1. req[t].kind = "data" /\ req[t].name = tables[sole]
      BY <2>1, MineFacts, Steps
    <3>2. \A s \in Threads : pc[s] \notin Opening \cup {"select"}
      BY <2>1, MineFacts DEF Opening
    <3>3. Settled
      BY <3>2 DEF Inv, FreshInv
    <3>4. pc[t] = "rows" => isDbOpened
      BY MineFacts DEF OpeningFor
    <3> QED
      BY <3>1, <3>3, <3>4 DEF Settled, Open, Used
  <2> QED
    BY <2>1
<1> QED
  BY <1>1, Invariance, PTL
===============================================================================
