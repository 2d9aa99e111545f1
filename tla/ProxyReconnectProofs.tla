------------------------ MODULE ProxyReconnectProofs ------------------------
(***************************************************************************)
(* Proofs about ProxyReconnect, for any set of calls of start().           *)
(* BackoffInv is inductive: that a chain alone on its container never      *)
(* waits longer than 64 seconds needs what it has read of sleepTimeMill at *)
(* each step of reconnectWait, and that a container nobody was started on  *)
(* still has its first second.                                             *)
(***************************************************************************)
EXTENDS ProxyReconnect, TLAPS

Waits == {2, 4, 8, 16, 32, 64}

(* reconnectWait's arithmetic: a power of two up to 32 becomes one of 2 to *)
(* 64, any other stays a power of two.                                     *)
LEMMA DoublePowers ==
  ASSUME NEW n \in Powers
  PROVE  /\ Double(n) \in Powers \ {1}
         /\ n <= 32 => Double(n) \in Waits
BY ReconnectAssumption DEF Powers, Waits, Double

(* A program counter moves within the places. *)
LEMMA GotoPlaces ==
  ASSUME pc \in [Starts -> Places], NEW s \in Starts,
         NEW from \in Places, NEW to \in Places, Goto(s, from, to)
  PROVE  /\ pc[s] = from
         /\ pc' = [pc EXCEPT ![s] = to]
         /\ pc' \in [Starts -> Places]
BY DEF Goto

(* Turning the chains of a container onto another group keeps the type. *)
LEMMA OntoLoops ==
  ASSUME TypeOK, NEW c, NEW from \in Loops \ {"none"}, NEW to \in Loops \ {"none"}
  PROVE  /\ Onto(c, from, to) \in [Starts -> Loops]
         /\ \A s \in Starts : Onto(c, from, to)[s] = "none" <=> loop[s] = "none"
BY DEF Onto, TypeOK

(* The first state: one second everywhere, nobody started. *)
LEMMA BackoffInit == Init => BackoffInv
<1> SUFFICES ASSUME Init
             PROVE  BackoffInv
  OBVIOUS
<1>1. TypeOK
  BY DEF Init, TypeOK, Places, Loops, Powers, Servers
<1>2. AloneBounds /\ UnusedSleeps
  BY DEF Init, AloneBounds, UnusedSleeps
<1> QED
  BY <1>1, <1>2 DEF BackoffInv

(* Every step keeps every field within its type. *)
LEMMA TypeNext == TypeOK /\ [Next]_vars => TypeOK'
<1> SUFFICES ASSUME TypeOK, [Next]_vars
             PROVE  TypeOK'
  OBVIOUS
<1> USE ReconnectAssumption DEF TypeOK, Places, Loops, Powers, Servers
<1>1. ASSUME NEW s \in Starts, Start(s)
      PROVE  TypeOK'
  BY <1>1 DEF Start, Goto, statics, stopper, group
<1>2. ASSUME NEW s \in Starts, StartFlag(s)
      PROVE  TypeOK'
  BY <1>2 DEF StartFlag, Goto, statics, stopper, group
<1>3. ASSUME NEW s \in Starts, Publish(s)
      PROVE  TypeOK'
  BY <1>3 DEF Publish, Goto, statics, stopper, group
<1>4. ASSUME NEW s \in Starts, StartContainer(s)
      PROVE  TypeOK'
  BY <1>4 DEF StartContainer, Goto, statics, stopper, group
<1>5. ASSUME NEW s \in Starts, QueryRefused(s)
      PROVE  TypeOK'
  BY <1>5 DEF QueryRefused, Goto, statics, stopper, group
<1>6. ASSUME NEW s \in Starts, QueryAgain(s)
      PROVE  TypeOK'
  BY <1>6 DEF QueryAgain, Goto, statics, stopper, group
<1>7. ASSUME NEW s \in Starts, QueryAccepted(s)
      PROVE  TypeOK'
  BY <1>7 DEF QueryAccepted, Goto, statics, stopper, group, DialLoop
<1>8. ASSUME NEW s \in Starts, QueryReplaces(s)
      PROVE  TypeOK'
  <2>1. Onto(on[s], "current", "down") \in [Starts -> Loops]
        /\ \A u \in Starts : Onto(on[s], "current", "down")[u] = "none"
                               <=> loop[u] = "none"
    BY OntoLoops DEF Loops
  <2> QED
    BY <1>8, <2>1 DEF QueryReplaces, Goto, statics, stopper, group
<1>9. ASSUME NEW s \in Starts, Replaced(s)
      PROVE  TypeOK'
  <2>1. Onto(on[s], "current", "left") \in [Starts -> Loops]
        /\ \A u \in Starts : Onto(on[s], "current", "left")[u] = "none"
                               <=> loop[u] = "none"
    BY OntoLoops DEF Loops
  <2> QED
    BY <1>9, <2>1 DEF Replaced, Goto, statics, stopper, group
<1>10. ASSUME NEW s \in Starts, ReplaceClash(s)
      PROVE  TypeOK'
  BY <1>10 DEF ReplaceClash, Goto, statics, stopper, group
<1>11. ASSUME NEW s \in Starts, DialDone(s)
      PROVE  TypeOK'
  BY <1>11 DEF DialDone, Goto, statics, stopper, group
<1>12. ASSUME NEW s \in Starts, DialFailed(s)
      PROVE  TypeOK'
  BY <1>12 DEF DialFailed, Goto, statics, stopper, group, Off
<1>13. ASSUME NEW s \in Starts, DialRejected(s)
      PROVE  TypeOK'
  BY <1>13 DEF DialRejected, Goto, statics, stopper, group, Off
<1>14. ASSUME NEW s \in Starts, ChannelLost(s)
      PROVE  TypeOK'
  BY <1>14 DEF ChannelLost, Goto, statics, stopper, group, Off
<1>15. ASSUME NEW s \in Starts, ReleaseCmdChannel(s)
      PROVE  TypeOK'
  BY <1>15 DEF ReleaseCmdChannel, Goto, statics, stopper, group
<1>16. ASSUME NEW s \in Starts, TestSleep(s)
      PROVE  TypeOK'
  BY <1>16 DEF TestSleep, Goto, statics, stopper, group
<1>17. ASSUME NEW s \in Starts, ResetSleep(s)
      PROVE  TypeOK'
  BY <1>17 DEF ResetSleep, Goto, statics, stopper, group
<1>18. ASSUME NEW s \in Starts, LockAndRead(s)
      PROVE  TypeOK'
  BY <1>18 DEF LockAndRead, Goto, statics, stopper, group
<1>19. ASSUME NEW s \in Starts, StoreDouble(s)
      PROVE  TypeOK'
  <2>1. Double(read[s]) \in Powers
    BY <1>19, DoublePowers DEF StoreDouble, Goto
  <2> QED
    BY <1>19, <2>1 DEF StoreDouble, Goto, statics, stopper, group
<1>20. ASSUME NEW s \in Starts, BeginWait(s)
      PROVE  TypeOK'
  BY <1>20 DEF BeginWait, Goto, statics, stopper, group
<1>21. ASSUME NEW s \in Starts, WaitOver(s)
      PROVE  TypeOK'
  BY <1>21 DEF WaitOver, Goto, statics, stopper, group
<1>22. CASE Stop
  BY <1>22 DEF Stop, statics, stopper, group
<1>23. CASE StopReads
  BY <1>23 DEF StopReads, statics, stopper, group
<1>24. CASE StopContainers
  <2>1. Onto(stopOf, "current", "down") \in [Starts -> Loops]
        /\ \A u \in Starts : Onto(stopOf, "current", "down")[u] = "none"
                               <=> loop[u] = "none"
    BY OntoLoops DEF Loops
  <2> QED
    BY <1>24, <2>1 DEF StopContainers, statics, stopper, group
<1>25. CASE StopFlag
  BY <1>25 DEF StopFlag, statics, stopper, group
<1>26. CASE Environment
  BY <1>26 DEF Environment, statics, stopper, group
<1>27. CASE UNCHANGED vars
  BY <1>27 DEF vars
<1> QED
  BY <1>1, <1>2, <1>3, <1>4, <1>5, <1>6, <1>7, <1>8, <1>9, <1>10, <1>11,
     <1>12, <1>13, <1>14, <1>15, <1>16, <1>17, <1>18, <1>19, <1>20,
     <1>21, <1>22, <1>23, <1>24, <1>25, <1>26, <1>27
     DEF Next, Callback, ReconnectWait

(* A step that leaves every sleepTimeMill, every copy of it and every      *)
(* chain's container alone, and takes one chain to a place where nothing   *)
(* is asked of them, disturbs neither part of the invariant.               *)
LEMMA Elsewhere ==
  ASSUME TypeOK, AloneBounds, UnusedSleeps, NEW s \in Starts,
         NEW to \in Places \ {"locking", "storing", "timing", "waiting"},
         pc' = [pc EXCEPT ![s] = to], UNCHANGED <<on, sleep, read>>
  PROVE  AloneBounds' /\ UnusedSleeps'
<1> USE DEF TypeOK
<1>1. UnusedSleeps'
  BY DEF UnusedSleeps
<1>2. \A u \in Starts : Sharers(u)' = Sharers(u)
  BY DEF Sharers
<1>3. ASSUME NEW u \in Starts, on[u] # None, Sharers(u) = {}
      PROVE  /\ sleep[on[u]] <= 64
             /\ pc'[u] \in {"locking", "storing"} => sleep[on[u]] <= 32
             /\ pc'[u] = "storing" => read[u] <= 32
             /\ pc'[u] = "timing" => sleep[on[u]] # 1
             /\ pc'[u] = "waiting" => read[u] \in {2, 4, 8, 16, 32, 64}
  BY <1>3 DEF AloneBounds
<1> QED
  BY <1>1, <1>2, <1>3 DEF AloneBounds

(* The same for a step of nobody's chain. *)
LEMMA NoChain ==
  ASSUME AloneBounds, UnusedSleeps, UNCHANGED <<pc, on, sleep, read>>
  PROVE  AloneBounds' /\ UnusedSleeps'
BY DEF AloneBounds, UnusedSleeps, Sharers

(* A step of chain s that changes only its own container's sleepTimeMill   *)
(* and its own copy: what it must show is about s alone, since a chain     *)
(* without sharers is on another container.                                *)
LEMMA OwnStep ==
  ASSUME TypeOK, TypeOK', AloneBounds, UnusedSleeps,
         NEW s \in Starts, on[s] # None, NEW to \in Places,
         pc' = [pc EXCEPT ![s] = to], UNCHANGED on,
         \A c \in Starts : c # on[s] => sleep'[c] = sleep[c],
         \A u \in Starts : u # s => read'[u] = read[u],
         Sharers(s) = {} =>
           /\ sleep'[on[s]] <= 64
           /\ to \in {"locking", "storing"} => sleep'[on[s]] <= 32
           /\ to = "storing" => read'[s] <= 32
           /\ to = "timing" => sleep'[on[s]] # 1
           /\ to = "waiting" => read'[s] \in {2, 4, 8, 16, 32, 64}
  PROVE  AloneBounds' /\ UnusedSleeps'
<1>1. UnusedSleeps'
  BY DEF UnusedSleeps, TypeOK
<1>2. \A u \in Starts : Sharers(u)' = Sharers(u)
  BY DEF Sharers
<1>3. ASSUME NEW u \in Starts, on[u] # None, Sharers(u) = {}
      PROVE  /\ sleep'[on[u]] <= 64
             /\ pc'[u] \in {"locking", "storing"} => sleep'[on[u]] <= 32
             /\ pc'[u] = "storing" => read'[u] <= 32
             /\ pc'[u] = "timing" => sleep'[on[u]] # 1
             /\ pc'[u] = "waiting" => read'[u] \in {2, 4, 8, 16, 32, 64}
  <2>1. CASE u = s
    BY <1>3, <2>1 DEF TypeOK
  <2>2. CASE u # s
    <3>1. on[u] # on[s] /\ on[u] \in Starts
      BY <1>3, <2>2 DEF Sharers, TypeOK
    <3>2. sleep'[on[u]] = sleep[on[u]] /\ read'[u] = read[u] /\ pc'[u] = pc[u]
      BY <2>2, <3>1 DEF TypeOK
    <3> QED
      BY <1>3, <3>1, <3>2 DEF AloneBounds
  <2> QED
    BY <2>1, <2>2
<1> QED
  BY <1>1, <1>2, <1>3 DEF AloneBounds

(* Every step keeps the bounds of a chain alone on its container. *)
LEMMA BackoffNext ==
  ASSUME TypeOK, TypeOK', AloneBounds, UnusedSleeps, [Next]_vars
  PROVE  AloneBounds' /\ UnusedSleeps'
<1>1. ASSUME NEW s \in Starts, Start(s)
      PROVE  AloneBounds' /\ UnusedSleeps'
  <2>1. pc' = [pc EXCEPT ![s] = "starting"] /\ UNCHANGED <<on, sleep, read>>
    BY <1>1 DEF Start, Goto
  <2> QED
    BY <2>1, Elsewhere DEF Places
<1>2. ASSUME NEW s \in Starts, StartFlag(s)
      PROVE  AloneBounds' /\ UnusedSleeps'
  <2>1. pc' = [pc EXCEPT ![s] = "flagged"] /\ UNCHANGED <<on, sleep, read>>
    BY <1>2 DEF StartFlag, Goto
  <2> QED
    BY <2>1, Elsewhere DEF Places
<1>3. ASSUME NEW s \in Starts, Publish(s)
      PROVE  AloneBounds' /\ UnusedSleeps'
  <2>1. pc' = [pc EXCEPT ![s] = "published"] /\ UNCHANGED <<on, sleep, read>>
    BY <1>3 DEF Publish, Goto
  <2> QED
    BY <2>1, Elsewhere DEF Places
<1>4. ASSUME NEW s \in Starts, StartContainer(s)
      PROVE  AloneBounds' /\ UnusedSleeps'
  <2>1. /\ pc[s] = "published" /\ cached \in Starts /\ on[s] = None
        /\ pc' = [pc EXCEPT ![s] = "query"] /\ on' = [on EXCEPT ![s] = cached]
        /\ UNCHANGED <<sleep, read>>
    BY <1>4 DEF StartContainer, Goto, TypeOK
  <2>2. UnusedSleeps'
    <3> SUFFICES ASSUME NEW c \in Starts, \A v \in Starts : on'[v] # c
                 PROVE  sleep'[c] = 1
      BY DEF UnusedSleeps
    <3>1. \A v \in Starts : on[v] # c
      BY <2>1, ReconnectAssumption DEF TypeOK
    <3> QED
      BY <2>1, <3>1 DEF UnusedSleeps
  <2>3. ASSUME NEW v \in Starts, on'[v] # None, Sharers(v)' = {}
        PROVE  /\ sleep[on'[v]] <= 64
               /\ pc'[v] \in {"locking", "storing"} => sleep[on'[v]] <= 32
               /\ pc'[v] = "storing" => read[v] <= 32
               /\ pc'[v] = "timing" => sleep[on'[v]] # 1
               /\ pc'[v] = "waiting" => read[v] \in {2, 4, 8, 16, 32, 64}
    <3>1. CASE v = s
      <4>1. \A w \in Starts \ {s} : on[w] # cached
        BY <2>1, <2>3, <3>1 DEF Sharers, TypeOK
      <4>2. sleep[cached] = 1
        BY <2>1, <4>1, ReconnectAssumption DEF UnusedSleeps
      <4> QED
        BY <2>1, <3>1, <4>2 DEF TypeOK
    <3>2. CASE v # s
      <4>1. on'[v] = on[v] /\ pc'[v] = pc[v]
        BY <2>1, <3>2 DEF TypeOK
      <4>2. Sharers(v) = {}
        BY <2>1, <2>3, <4>1, ReconnectAssumption DEF Sharers, TypeOK
      <4> QED
        BY <2>3, <4>1, <4>2 DEF AloneBounds
    <3> QED
      BY <3>1, <3>2
  <2> QED
    BY <2>1, <2>2, <2>3 DEF AloneBounds
<1>5. ASSUME NEW s \in Starts, QueryRefused(s)
      PROVE  AloneBounds' /\ UnusedSleeps'
  <2>1. pc' = [pc EXCEPT ![s] = "sleeping"] /\ UNCHANGED <<on, sleep, read>>
    BY <1>5 DEF QueryRefused, Goto
  <2> QED
    BY <2>1, Elsewhere DEF Places
<1>6. ASSUME NEW s \in Starts, QueryAgain(s)
      PROVE  AloneBounds' /\ UnusedSleeps'
  <2>1. /\ \/ pc' = [pc EXCEPT ![s] = "query"]
           \/ pc' = [pc EXCEPT ![s] = "over"]
        /\ UNCHANGED <<on, sleep, read>>
    BY <1>6 DEF QueryAgain, Goto
  <2> QED
    BY <2>1, Elsewhere DEF Places
<1>7. ASSUME NEW s \in Starts, QueryAccepted(s)
      PROVE  AloneBounds' /\ UnusedSleeps'
  <2>1. pc' = [pc EXCEPT ![s] = "dialing"] /\ UNCHANGED <<on, sleep, read>>
    BY <1>7 DEF QueryAccepted, Goto
  <2> QED
    BY <2>1, Elsewhere DEF Places
<1>8. ASSUME NEW s \in Starts, QueryReplaces(s)
      PROVE  AloneBounds' /\ UnusedSleeps'
  <2>1. pc' = [pc EXCEPT ![s] = "replacing"] /\ UNCHANGED <<on, sleep, read>>
    BY <1>8 DEF QueryReplaces, Goto
  <2> QED
    BY <2>1, Elsewhere DEF Places
<1>9. ASSUME NEW s \in Starts, Replaced(s)
      PROVE  AloneBounds' /\ UnusedSleeps'
  <2>1. pc' = [pc EXCEPT ![s] = "dialing"] /\ UNCHANGED <<on, sleep, read>>
    BY <1>9 DEF Replaced, Goto
  <2> QED
    BY <2>1, Elsewhere DEF Places
<1>10. ASSUME NEW s \in Starts, ReplaceClash(s)
      PROVE  AloneBounds' /\ UnusedSleeps'
  <2>1. pc' = [pc EXCEPT ![s] = "over"] /\ UNCHANGED <<on, sleep, read>>
    BY <1>10 DEF ReplaceClash, Goto
  <2> QED
    BY <2>1, Elsewhere DEF Places
<1>11. ASSUME NEW s \in Starts, DialDone(s)
      PROVE  AloneBounds' /\ UnusedSleeps'
  <2>1. /\ on[s] # None /\ on[s] \in Starts /\ UNCHANGED on
        /\ pc[s] = "dialing" /\ pc' = [pc EXCEPT ![s] = "up"]
    BY <1>11 DEF DialDone, Goto, TypeOK
  <2>2. sleep' = [sleep EXCEPT ![on[s]] = 1] /\ UNCHANGED read
    BY <1>11 DEF DialDone
  <2>3. /\ \A c \in Starts : c # on[s] => sleep'[c] = sleep[c]
        /\ \A u \in Starts : u # s => read'[u] = read[u]
        /\ Sharers(s) = {} => sleep'[on[s]] <= 64
    BY <2>1, <2>2 DEF TypeOK
  <2> QED
    BY <2>1, <2>3, OwnStep DEF Places
<1>12. ASSUME NEW s \in Starts, DialFailed(s)
      PROVE  AloneBounds' /\ UnusedSleeps'
  <2>1. pc' = [pc EXCEPT ![s] = "testing"] /\ UNCHANGED <<on, sleep, read>>
    BY <1>12 DEF DialFailed, Goto
  <2> QED
    BY <2>1, Elsewhere DEF Places
<1>13. ASSUME NEW s \in Starts, DialRejected(s)
      PROVE  AloneBounds' /\ UnusedSleeps'
  <2>1. pc' = [pc EXCEPT ![s] = "over"] /\ UNCHANGED <<on, sleep, read>>
    BY <1>13 DEF DialRejected, Goto
  <2> QED
    BY <2>1, Elsewhere DEF Places
<1>14. ASSUME NEW s \in Starts, ChannelLost(s)
      PROVE  AloneBounds' /\ UnusedSleeps'
  <2>1. /\ \/ pc' = [pc EXCEPT ![s] = "clearing"]
           \/ pc' = [pc EXCEPT ![s] = "over"]
        /\ UNCHANGED <<on, sleep, read>>
    BY <1>14 DEF ChannelLost, Goto
  <2> QED
    BY <2>1, Elsewhere DEF Places
<1>15. ASSUME NEW s \in Starts, ReleaseCmdChannel(s)
      PROVE  AloneBounds' /\ UnusedSleeps'
  <2>1. pc' = [pc EXCEPT ![s] = "testing"] /\ UNCHANGED <<on, sleep, read>>
    BY <1>15 DEF ReleaseCmdChannel, Goto
  <2> QED
    BY <2>1, Elsewhere DEF Places
<1>16. ASSUME NEW s \in Starts, TestSleep(s)
      PROVE  AloneBounds' /\ UnusedSleeps'
  <2>1. on[s] # None /\ on[s] \in Starts /\ UNCHANGED <<on, sleep, read>>
    BY <1>16 DEF TestSleep, Goto, TypeOK
  <2>2. CASE sleep[on[s]] > 60
    BY <1>16, <2>1, <2>2, Elsewhere DEF TestSleep, Goto, Places
  <2>3. CASE ~(sleep[on[s]] > 60)
    <3>1. sleep[on[s]] <= 32
      BY <2>1, <2>3 DEF TypeOK, Powers
    <3>2. pc' = [pc EXCEPT ![s] = "locking"]
      BY <1>16, <2>3 DEF TestSleep, Goto
    <3>3. sleep'[on[s]] <= 64 /\ sleep'[on[s]] <= 32
      BY <2>1, <3>1 DEF TypeOK, Powers
    <3>4. on' = on /\ sleep' = sleep /\ read' = read
      BY <2>1
    <3> QED
      BY <2>1, <3>2, <3>3, <3>4, OwnStep DEF Places
  <2> QED
    BY <2>2, <2>3
<1>17. ASSUME NEW s \in Starts, ResetSleep(s)
      PROVE  AloneBounds' /\ UnusedSleeps'
  <2>1. /\ on[s] # None /\ on[s] \in Starts /\ UNCHANGED on
        /\ pc[s] = "resetting" /\ pc' = [pc EXCEPT ![s] = "locking"]
    BY <1>17 DEF ResetSleep, Goto, TypeOK
  <2>2. sleep' = [sleep EXCEPT ![on[s]] = 1] /\ UNCHANGED read
    BY <1>17 DEF ResetSleep
  <2>3. /\ \A c \in Starts : c # on[s] => sleep'[c] = sleep[c]
        /\ \A u \in Starts : u # s => read'[u] = read[u]
        /\ Sharers(s) = {} => sleep'[on[s]] <= 32
    BY <2>1, <2>2 DEF TypeOK
  <2>4. Sharers(s) = {} => sleep'[on[s]] <= 64
    BY <2>1, <2>3, TypeOK' DEF TypeOK, Powers
  <2> QED
    BY <2>1, <2>3, <2>4, OwnStep DEF Places
<1>18. ASSUME NEW s \in Starts, LockAndRead(s)
      PROVE  AloneBounds' /\ UnusedSleeps'
  <2>1. /\ on[s] # None /\ on[s] \in Starts /\ UNCHANGED on
        /\ pc[s] = "locking" /\ pc' = [pc EXCEPT ![s] = "storing"]
    BY <1>18 DEF LockAndRead, Goto, TypeOK
  <2>2. read' = [read EXCEPT ![s] = sleep[on[s]]] /\ UNCHANGED sleep
    BY <1>18 DEF LockAndRead
  <2>3. Sharers(s) = {} => sleep[on[s]] <= 32
    BY <2>1 DEF AloneBounds
  <2>4. /\ \A c \in Starts : c # on[s] => sleep'[c] = sleep[c]
        /\ \A u \in Starts : u # s => read'[u] = read[u]
        /\ Sharers(s) = {} => sleep'[on[s]] <= 32 /\ read'[s] <= 32
    BY <2>1, <2>2, <2>3 DEF TypeOK
  <2>5. Sharers(s) = {} => sleep'[on[s]] <= 64
    BY <2>1, <2>4, TypeOK' DEF TypeOK, Powers
  <2> QED
    BY <2>1, <2>4, <2>5, OwnStep DEF Places
<1>19. ASSUME NEW s \in Starts, StoreDouble(s)
      PROVE  AloneBounds' /\ UnusedSleeps'
  <2>1. /\ on[s] # None /\ on[s] \in Starts /\ UNCHANGED on
        /\ pc[s] = "storing" /\ pc' = [pc EXCEPT ![s] = "timing"]
    BY <1>19 DEF StoreDouble, Goto, TypeOK
  <2>2. sleep' = [sleep EXCEPT ![on[s]] = Double(read[s])] /\ UNCHANGED read
    BY <1>19 DEF StoreDouble
  <2>3. Sharers(s) = {} => Double(read[s]) \in {2, 4, 8, 16, 32, 64}
    <3>1. read[s] \in Powers /\ (Sharers(s) = {} => read[s] <= 32)
      BY <2>1 DEF AloneBounds, TypeOK
    <3> QED
      BY <3>1, DoublePowers DEF Waits
  <2>4. /\ \A c \in Starts : c # on[s] => sleep'[c] = sleep[c]
        /\ \A u \in Starts : u # s => read'[u] = read[u]
        /\ Sharers(s) = {} => sleep'[on[s]] <= 64 /\ sleep'[on[s]] # 1
    BY <2>1, <2>2, <2>3 DEF TypeOK
  <2> QED
    BY <2>1, <2>4, OwnStep DEF Places
<1>20. ASSUME NEW s \in Starts, BeginWait(s)
      PROVE  AloneBounds' /\ UnusedSleeps'
  <2>1. /\ on[s] # None /\ on[s] \in Starts /\ UNCHANGED on
        /\ pc[s] = "timing" /\ pc' = [pc EXCEPT ![s] = "waiting"]
    BY <1>20 DEF BeginWait, Goto, TypeOK
  <2>2. read' = [read EXCEPT ![s] = sleep[on[s]]] /\ UNCHANGED sleep
    BY <1>20 DEF BeginWait
  <2>3. Sharers(s) = {} => sleep[on[s]] \in {2, 4, 8, 16, 32, 64}
    BY <2>1 DEF AloneBounds, TypeOK, Powers
  <2>4. /\ \A c \in Starts : c # on[s] => sleep'[c] = sleep[c]
        /\ \A u \in Starts : u # s => read'[u] = read[u]
        /\ Sharers(s) = {} => sleep'[on[s]] <= 64 /\ read'[s] \in {2, 4, 8, 16, 32, 64}
    BY <2>1, <2>2, <2>3 DEF TypeOK
  <2> QED
    BY <2>1, <2>4, OwnStep DEF Places
<1>21. ASSUME NEW s \in Starts, WaitOver(s)
      PROVE  AloneBounds' /\ UnusedSleeps'
  <2>1. /\ on[s] # None /\ on[s] \in Starts /\ UNCHANGED on
        /\ pc[s] = "waiting" /\ pc' = [pc EXCEPT ![s] = "query"]
    BY <1>21 DEF WaitOver, Goto, TypeOK
  <2>2. read' = [read EXCEPT ![s] = 0] /\ UNCHANGED sleep
    BY <1>21 DEF WaitOver
  <2>3. Sharers(s) = {} => sleep[on[s]] <= 64
    BY <2>1 DEF AloneBounds
  <2>4. /\ \A c \in Starts : c # on[s] => sleep'[c] = sleep[c]
        /\ \A u \in Starts : u # s => read'[u] = read[u]
        /\ Sharers(s) = {} => sleep'[on[s]] <= 64
    BY <2>1, <2>2, <2>3 DEF TypeOK
  <2> QED
    BY <2>1, <2>4, OwnStep DEF Places
<1>22. CASE Stop
  BY <1>22, NoChain DEF Stop
<1>23. CASE StopReads
  BY <1>23, NoChain DEF StopReads
<1>24. CASE StopContainers
  BY <1>24, NoChain DEF StopContainers
<1>25. CASE StopFlag
  BY <1>25, NoChain DEF StopFlag
<1>26. CASE Environment
  BY <1>26, NoChain DEF Environment
<1>27. CASE UNCHANGED vars
  BY <1>27, NoChain DEF vars
<1> QED
  BY <1>1, <1>2, <1>3, <1>4, <1>5, <1>6, <1>7, <1>8, <1>9, <1>10, <1>11,
     <1>12, <1>13, <1>14, <1>15, <1>16, <1>17, <1>18, <1>19, <1>20,
     <1>21, <1>22, <1>23, <1>24, <1>25, <1>26, <1>27
     DEF Next, Callback, ReconnectWait

(* The inductive invariant holds in every reachable state. *)
THEOREM BackoffInvariance == Spec => []BackoffInv
<1>1. BackoffInv /\ [Next]_vars => BackoffInv'
  BY TypeNext, BackoffNext DEF BackoffInv
<1> QED
  BY <1>1, BackoffInit, PTL DEF Spec

(* Type correctness of ContainerHelper, ProxyClientContainer and checkKey: *)
(* every field, and which of them holds something at which place.          *)
THEOREM TypeCorrect == Spec => []TypeOK
<1>1. BackoffInv => TypeOK
  BY DEF BackoffInv
<1> QED
  BY <1>1, BackoffInvariance, PTL

(* Whatever the order of starts, stops, failures and lost channels, a      *)
(* chain alone on its container waits 2, 4, 8, 16, 32 or 64 seconds before *)
(* a new attempt.                                                          *)
THEOREM BackoffIsBounded == Spec => []BackoffBounds
<1>1. BackoffInv => BackoffBounds
  BY DEF BackoffInv, TypeOK, AloneBounds, BackoffBounds
<1> QED
  BY <1>1, BackoffInvariance, PTL
=============================================================================
