--------------------------- MODULE UploadProgress ---------------------------
(***************************************************************************)
(* The progress of uploads: Progress, a map all requests share, between    *)
(* HttpUpHandler, which updates it, HttpProgressHandler, which the page    *)
(* polls, and the handlers that clear it when any page is loaded.  A file  *)
(* input of a page (its id is its own) starts one upload at a time, but    *)
(* the polls of an earlier one may still go on when the next one starts,   *)
(* with an answer already under way.                                       *)
(***************************************************************************)
EXTENDS Integers

CONSTANTS
  Ids,        \* file inputs
  MaxUploads, \* how many uploads each starts
  Times,      \* how often a page polls for an upload to begin (5)
  None        \* no entry, "-1"

(* Progress is told apart as far as the code does. *)
Percent == {0, 50, 100}

VARIABLES
  progress, \* progressMap: the value and, for the properties, whose it is
  upload,   \* how many uploads each input has started
  state,    \* of the current one: "none", "running", "put" or "over"
  percent,  \* what it last updated
  poll,     \* the polls of each input's uploads
  short     \* the uploads that ended without having come to 100

vars == <<progress, upload, state, percent, poll, short>>

NoPoll == [step |-> "off", kind |-> "wait", times |-> 0, value |-> None]

Init ==
  /\ progress = [i \in Ids |-> None]
  /\ upload = [i \in Ids |-> 0]
  /\ state = [i \in Ids |-> "none"]
  /\ percent = [i \in Ids |-> 0]
  /\ poll = [i \in Ids |-> [u \in 1..MaxUploads |-> NoPoll]]
  /\ short = [i \in Ids |-> {}]

-----------------------------------------------------------------------------
(* onFileChanged, which the input calls again after the last answer. *)
Choose(i) ==
  /\ state[i] \notin {"running", "put"} /\ upload[i] < MaxUploads
  /\ upload' = [upload EXCEPT ![i] = @ + 1]
  /\ state' = [state EXCEPT ![i] = "running"]
  /\ percent' = [percent EXCEPT ![i] = 0]
  /\ poll' = [poll EXCEPT ![i][upload'[i]] =
                [NoPoll EXCEPT !.step = "ask", !.times = Times]]
  /\ UNCHANGED <<progress, short>>

(* Progress.update: put ... *)
Put(i) ==
  /\ state[i] = "running"
  /\ \E p \in Percent :
       /\ p >= percent[i]
       /\ progress' = [progress EXCEPT ![i] = [upload |-> upload[i], value |-> p]]
       /\ percent' = [percent EXCEPT ![i] = p]
       /\ state' = [state EXCEPT ![i] = IF p = 100 THEN "put" ELSE @]
  /\ UNCHANGED <<upload, poll, short>>

(* Mutant: the entry of a finished upload stays. *)
RemoveNot(i) ==
  /\ state[i] = "put"
  /\ state' = [state EXCEPT ![i] = "running"]
  /\ UNCHANGED <<progress, upload, percent, poll, short>>

(* ... and, at 100, remove. *)
Remove(i) ==
  /\ state[i] = "put"
  /\ progress' = [progress EXCEPT ![i] = None]
  /\ state' = [state EXCEPT ![i] = "running"]
  /\ UNCHANGED <<upload, percent, poll, short>>

(* The upload is answered, done or failed: it may end before its last byte *)
(* was counted, even when it is done, and then leaves its entry as it is.  *)
Answer(i) ==
  /\ state[i] = "running"
  /\ state' = [state EXCEPT ![i] = "over"]
  /\ short' = [short EXCEPT ![i] = IF percent[i] = 100 THEN @
                                   ELSE @ \cup {upload[i]}]
  /\ UNCHANGED <<progress, upload, percent, poll>>

(* HttpFBHandler and HttpTerminalHandler: some page is loaded. *)
Clear ==
  /\ progress' = [i \in Ids |-> None]
  /\ UNCHANGED <<upload, state, percent, poll, short>>

-----------------------------------------------------------------------------
(* HttpProgressHandler: the answer to a poll. *)
Get(i, u) ==
  /\ poll[i][u].step = "ask"
  /\ poll' = [poll EXCEPT ![i][u] =
                [@ EXCEPT !.step = "answered", !.value = progress[i]]]
  /\ UNCHANGED <<progress, upload, state, percent, short>>

(* reqProgress: from the first progress on the page polls with update,     *)
(* unless it has polled too often already.                                 *)
Waits(q) ==
  IF q.times = 0 THEN NoPoll
  ELSE [q EXCEPT !.step = "ask", !.times = @ - 1, !.value = None,
                 !.kind = IF q.value = None THEN "wait" ELSE "update"]

(* Mutant: the page polls on when there is no progress. *)
UpdatesAlways(q) ==
  IF q.value # None /\ q.value.value = 100 THEN NoPoll
  ELSE [q EXCEPT !.step = "ask", !.value = None]

(* Progress.prototype.update: to the end of the progress, or 100. *)
Updates(q) ==
  IF q.value = None \/ q.value.value = 100 THEN NoPoll
  ELSE [q EXCEPT !.step = "ask", !.value = None]

Show(i, u) ==
  LET q == poll[i][u] IN
  /\ q.step = "answered"
  /\ poll' = [poll EXCEPT ![i][u] = IF q.kind = "wait" THEN Waits(q)
                                    ELSE Updates(q)]
  /\ UNCHANGED <<progress, upload, state, percent, short>>

-----------------------------------------------------------------------------
Next ==
  \/ \E i \in Ids :
       \/ Choose(i) \/ Put(i) \/ Remove(i) \/ Answer(i)
       \/ \E u \in 1..MaxUploads : Get(i, u) \/ Show(i, u)
  \/ Clear

(* Polls are sent and answered. *)
Fairness == \A i \in Ids, u \in 1..MaxUploads : WF_vars(Get(i, u)) /\ WF_vars(Show(i, u))

Spec == Init /\ [][Next]_vars /\ Fairness

-----------------------------------------------------------------------------
(* What a poll is told is the progress of the input's present upload, or   *)
(* of its own one when the answer was late; or else of an earlier one that *)
(* never came to 100: one that did leaves nothing that could be taken for  *)
(* the progress of the next, whatever is cleared in between.               *)
ProgressIsNotOutdated ==
  \A i \in Ids, u \in 1..MaxUploads :
    LET q == poll[i][u] IN
    q.value # None /\ q.value.upload < u => q.value.upload \in short[i]

Complete(i) == state[i] = "over" /\ upload[i] \notin short[i]

(* When an upload is over that came to 100, the polls of the input end,    *)
(* those of earlier uploads too, unless the next one starts: also if the   *)
(* entry was cleared, or the polls never met the end of it.                *)
PollingEnds ==
  \A i \in Ids :
    Complete(i) ~>
      (~Complete(i) \/ \A u \in 1..MaxUploads : poll[i][u].step = "off")
=============================================================================
