------------------------------- MODULE Recovery -------------------------------
(***************************************************************************)
(* How KeepAliveService counts errors: onError with its reset task, on any *)
(* number of threads and without a lock.  The server's thread and every    *)
(* worker that misses a template run it, and the timer's thread runs the   *)
(* reset task RESET_INTERVAL after the last error, which clears the count  *)
(* and the field the task is in.  An exception in onError ends the process *)
(* (CrashHandler).  What opening and closing the server does is the module *)
(* WebServerLifecycle.                                                     *)
(***************************************************************************)
EXTENDS Naturals

CONSTANTS
  Threads,      \* threads that meet errors
  RESUME_COUNT, \* recoveries the service attempts
  MaxTasks,     \* bound on the reset tasks there are at once
  None          \* "null"

Tasks == 1..MaxTasks

VARIABLES
  errCount,
  resetTask,  \* the field
  task,       \* what became of each task
  pc,         \* each thread's next step in onError
  after,      \* where it goes on after cancelResetTask
  read,       \* the errCount it read in "errCount++"
  crashed,    \* the process has ended
  overlapped, \* two threads were in onError at once since it was last idle
  met         \* the reset task cleared its field during onError, likewise

timerVars == <<resetTask, task>>
history   == <<crashed, overlapped, met>>
vars == <<errCount, timerVars, pc, after, read, history>>

Init ==
  /\ errCount = 0
  /\ resetTask = None
  /\ task = [k \in Tasks |-> "none"]
  /\ pc = [t \in Threads |-> "idle"]
  /\ after = [t \in Threads |-> "idle"]
  /\ read = [t \in Threads |-> 0]
  /\ crashed = FALSE /\ overlapped = FALSE /\ met = FALSE

Busy == {t \in Threads : pc[t] # "idle"}

Goto(t, from, to) == pc[t] = from /\ pc' = [pc EXCEPT ![t] = to]

(* A task nobody can schedule or run any more leaves its identity free. *)
Free(k) == task[k] \in {"none", "new", "done"} /\ resetTask # k

-----------------------------------------------------------------------------
(* onError: errCount++ is a read ... *)
OnError(t) ==
  /\ Goto(t, "idle", "write")
  /\ read' = [read EXCEPT ![t] = errCount]
  /\ overlapped' = (Busy # {})
  /\ met' = (met /\ Busy # {})
  /\ UNCHANGED <<errCount, timerVars, after, crashed>>

(* ... and a write; counts above RESUME_COUNT are not told apart. *)
CountError(t) ==
  /\ Goto(t, "write", "check")
  /\ errCount' = IF read[t] > RESUME_COUNT THEN read[t] ELSE read[t] + 1
  /\ read' = [read EXCEPT ![t] = 0]
  /\ after' = [after EXCEPT ![t] = "new"]
  /\ UNCHANGED <<timerVars, history>>

(* Mutant: nobody asks whether there is a task. *)
CheckTaskNot(t) ==
  /\ Goto(t, "check", "cancel")
  /\ UNCHANGED <<errCount, timerVars, after, read, history>>

(* cancelResetTask: is there one ... *)
CheckTask(t) ==
  /\ pc[t] = "check"
  /\ pc' = [pc EXCEPT ![t] = IF resetTask = None THEN after[t] ELSE "cancel"]
  /\ UNCHANGED <<errCount, timerVars, after, read, history>>

(* A null field, or a task that was scheduled or cancelled before. *)
Throws(t) ==
  /\ crashed' = TRUE
  /\ UNCHANGED <<errCount, timerVars, pc, after, read, overlapped, met>>

(* ... cancel it, which a task that runs does not notice ... *)
CancelTask(t) ==
  /\ pc[t] = "cancel"
  /\ \/ resetTask = None /\ Throws(t)
     \/ /\ resetTask # None
        /\ task' = [task EXCEPT ![resetTask] =
                      IF @ \in {"new", "scheduled"} THEN "done" ELSE @]
        /\ pc' = [pc EXCEPT ![t] = "null"]
        /\ UNCHANGED <<errCount, resetTask, after, read, history>>

(* ... and forget it. *)
ForgetTask(t) ==
  /\ Goto(t, "null", after[t])
  /\ resetTask' = None
  /\ UNCHANGED <<errCount, task, after, read, history>>

(* restartResetTask: a new task in the field ... *)
NewTask(t) ==
  /\ Goto(t, "new", "schedule")
  /\ \E k \in Tasks :
       /\ Free(k) /\ \A j \in 1..k - 1 : ~Free(j)
       /\ task' = [task EXCEPT ![k] = "new"]
       /\ resetTask' = k
  /\ UNCHANGED <<errCount, after, read, history>>

(* ... and whatever is in the field by now is scheduled. *)
Fresh == {k \in Tasks : task[k] = "new"}

Schedule(t) ==
  /\ pc[t] = "schedule"
  /\ \/ resetTask \notin Fresh /\ Throws(t)
     \/ /\ resetTask \in Fresh
        /\ task' = [task EXCEPT ![resetTask] = "scheduled"]
        /\ pc' = [pc EXCEPT ![t] = "decide"]
        /\ UNCHANGED <<errCount, resetTask, after, read, history>>

(* openWebServer, or no more. *)
Decide(t) ==
  /\ Goto(t, "decide", IF errCount <= RESUME_COUNT THEN "idle" ELSE "zero")
  /\ UNCHANGED <<errCount, timerVars, after, read, history>>

(* Mutant: giving up leaves the count as it is. *)
GiveUpKeepsCount(t) ==
  /\ Goto(t, "zero", "check")
  /\ after' = [after EXCEPT ![t] = "idle"]
  /\ UNCHANGED <<errCount, timerVars, read, history>>

GiveUp(t) ==
  /\ Goto(t, "zero", "check")
  /\ errCount' = 0
  /\ after' = [after EXCEPT ![t] = "idle"]
  /\ UNCHANGED <<timerVars, read, history>>

-----------------------------------------------------------------------------
(* The timer's one thread takes a task whose time has come ... *)
Fire(k) ==
  /\ task[k] = "scheduled"
  /\ \A j \in Tasks : task[j] \notin {"running", "cleared"}
  /\ task' = [task EXCEPT ![k] = "running"]
  /\ UNCHANGED <<errCount, resetTask, pc, after, read, history>>

(* ... and runs it. *)
ResetCount(k) ==
  /\ task[k] = "running"
  /\ task' = [task EXCEPT ![k] = "cleared"]
  /\ errCount' = 0
  /\ UNCHANGED <<resetTask, pc, after, read, history>>

ResetField(k) ==
  /\ task[k] = "cleared"
  /\ task' = [task EXCEPT ![k] = "done"]
  /\ resetTask' = None
  /\ met' = (met \/ Busy # {})
  /\ UNCHANGED <<errCount, pc, after, read, crashed, overlapped>>

-----------------------------------------------------------------------------
ErrorStep(t) ==
  \/ OnError(t) \/ CountError(t) \/ CheckTask(t) \/ CancelTask(t)
  \/ ForgetTask(t) \/ NewTask(t) \/ Schedule(t) \/ Decide(t) \/ GiveUp(t)

Next ==
  /\ ~crashed
  /\ \/ \E t \in Threads : ErrorStep(t)
     \/ \E k \in Tasks : Fire(k) \/ ResetCount(k) \/ ResetField(k)

Spec == Init /\ [][Next]_vars

-----------------------------------------------------------------------------
Due(k) == task[k] \in {"scheduled", "running"}

(* An error that was counted is going to be forgotten: unless two threads  *)
(* were in onError at once the last time, a count above zero always has a  *)
(* reset task that is still to clear it, whatever older tasks do and       *)
(* whatever overlapped before that.                                        *)
CountedErrorIsForgotten ==
  ~overlapped /\ Busy = {} /\ errCount > 0 => \E k \in Tasks : Due(k)

(* Handling an error throws only if another thread handled one at the same *)
(* time, or the reset task cleared its field in the middle.                *)
OnlyRacesCrash == crashed => overlapped \/ met
=============================================================================
