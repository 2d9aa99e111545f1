---------------------- MODULE WebServerLifecycleProofs ----------------------
(***************************************************************************)
(* Proofs about WebServerLifecycle, for any finite numbers of servers and  *)
(* workers and any limits: how many servers may be asked for at once, and  *)
(* which of them may be left listening.                                    *)
(***************************************************************************)
EXTENDS WebServerLifecycle, FiniteSetTheorems, TLAPS

-----------------------------------------------------------------------------
(* Types, but for the bound on opens.                                      *)

TypeInv ==
  /\ pc \in [Threads -> Places]
  /\ socket \in [Servers -> {"none", "open", "closed"}]
  /\ cause \in [Servers -> {"none", "close", "io"}]
  /\ isLoop \in BOOLEAN
  /\ webServer \in Servers \cup {None}
  /\ opens \in Nat
  /\ errCount \in 0..(RESUME_COUNT + 1)
  /\ read \in [Threads -> 0..(RESUME_COUNT + 1)]
  /\ timer \in BOOLEAN /\ alive \in BOOLEAN
  /\ orphans \in SUBSET Servers

(* Closing the server, by whoever calls it. *)
LEMMA CloseFacts ==
  ASSUME TypeInv, CloseWebServer
  PROVE  /\ webServer' = None /\ isLoop' \in BOOLEAN /\ orphans \subseteq orphans'
         /\ orphans' \in SUBSET Servers
         /\ socket' \in [Servers -> {"none", "open", "closed"}]
         /\ \A s \in Servers :
              /\ webServer # s => socket'[s] = socket[s]
              /\ webServer = s => IF socket[s] = "none"
                                  THEN s \in orphans' /\ socket'[s] = "none"
                                  ELSE socket'[s] = "closed"
BY LifecycleAssumption DEF CloseWebServer, TypeInv

(* Nothing has been started at first ... *)
LEMMA TypeInit == Init => TypeInv
<1> SUFFICES ASSUME Init PROVE TypeInv
  OBVIOUS
<1>1. 0 \in 0..(RESUME_COUNT + 1) /\ 0 \in Nat
  BY LifecycleAssumption
<1>2. pc \in [Threads -> Places] /\ read \in [Threads -> 0..(RESUME_COUNT + 1)]
  BY <1>1 DEF Init, Places
<1>3. /\ socket \in [Servers -> {"none", "open", "closed"}]
      /\ cause \in [Servers -> {"none", "close", "io"}]
  BY DEF Init
<1> QED
  BY <1>1, <1>2, <1>3 DEF Init, TypeInv

(* ... and no step leaves the types. *)
LEMMA TypeNext == TypeInv /\ [Next]_vars => TypeInv'
<1> SUFFICES ASSUME TypeInv, [Next]_vars PROVE TypeInv'
  OBVIOUS
<1> USE LifecycleAssumption DEF TypeInv, Threads, Places, OnErrorPlaces, service, errors, Goto
<1>a. 0 \in 0..(RESUME_COUNT + 1)
  OBVIOUS
<1>1. CASE OnStartCommand
  BY <1>1 DEF OnStartCommand
<1>2. CASE OpenNothing
  BY <1>2 DEF OpenNothing
<1>3. CASE OnDestroy
  BY <1>3, CloseFacts DEF OnDestroy
<1>4. CASE ResetTask
  BY <1>4, <1>a DEF ResetTask
<1>5. ASSUME NEW t \in Threads, ErrorClose(t) PROVE TypeInv'
  BY <1>5, CloseFacts DEF ErrorClose
<1>6. ASSUME NEW t \in Threads, ErrorRead(t) PROVE TypeInv'
  BY <1>6 DEF ErrorRead
<1>7. ASSUME NEW t \in Threads, ErrorWrite(t) PROVE TypeInv'
  <2>1. CountedUp(read[t]) \in 0..(RESUME_COUNT + 1)
    BY DEF CountedUp
  <2> QED
    BY <1>7, <2>1 DEF ErrorWrite
<1>8. ASSUME NEW t \in Threads, ErrorDecide(t) PROVE TypeInv'
  <2>1. AfterError(t) \in Places
    BY DEF AfterError
  <2> QED
    <3>1. pc' \in [Threads -> Places]
      BY <1>8, <2>1 DEF ErrorDecide
    <3>2. opens' \in Nat
      BY <1>8 DEF ErrorDecide
    <3>3. errCount' \in 0..(RESUME_COUNT + 1)
      BY <1>8, <1>a DEF ErrorDecide
    <3>4. timer' \in BOOLEAN
      BY <1>8 DEF ErrorDecide
    <3> QED
      BY <1>8, <3>1, <3>2, <3>3, <3>4 DEF ErrorDecide
<1>9. ASSUME NEW s \in Servers, OpenWebServer(s) PROVE TypeInv'
  <2>1. opens' \in Nat /\ orphans' \in SUBSET Servers
    BY <1>9 DEF OpenWebServer, NewWebServer
  <2>2. pc' \in [Threads -> Places]
    BY <1>9 DEF OpenWebServer, NewWebServer
  <2> QED
    BY <1>9, <2>1, <2>2 DEF OpenWebServer, NewWebServer
<1>10. ASSUME NEW s \in Servers, PortInUse(s) PROVE TypeInv'
  BY <1>10 DEF PortInUse
<1>11. ASSUME NEW s \in Servers, BindSocket(s) PROVE TypeInv'
  BY <1>11 DEF BindSocket
<1>12. ASSUME NEW s \in Servers, BindFails(s) PROVE TypeInv'
  BY <1>12 DEF BindFails
<1>13. ASSUME NEW s \in Servers, SetLoop(s) PROVE TypeInv'
  BY <1>13 DEF SetLoop
<1>14. ASSUME NEW s \in Servers, TestLoop(s) PROVE TypeInv'
  BY <1>14 DEF TestLoop
<1>15. ASSUME NEW s \in Servers, NEW w \in Workers, Accept(s, w) PROVE TypeInv'
  BY <1>15 DEF Accept
<1>16. ASSUME NEW s \in Servers, AcceptFails(s) PROVE TypeInv'
  BY <1>16 DEF AcceptFails
<1>17. ASSUME NEW s \in Servers, CatchIOException(s) PROVE TypeInv'
  BY <1>17 DEF CatchIOException
<1>18. ASSUME NEW s \in Servers, ClearLoop(s) PROVE TypeInv'
  BY <1>18 DEF ClearLoop
<1>19. ASSUME NEW s \in Servers, FinallyClose(s) PROVE TypeInv'
  BY <1>19 DEF FinallyClose
<1>20. ASSUME NEW w \in Workers, TemplateNotFound(w) PROVE TypeInv'
  BY <1>20 DEF TemplateNotFound
<1>21. ASSUME NEW w \in Workers, ConnectionEnds(w) PROVE TypeInv'
  BY <1>21 DEF ConnectionEnds
<1>22. CASE UNCHANGED vars
  BY <1>22 DEF vars
<1> QED
  BY <1>1, <1>2, <1>3, <1>4, <1>5, <1>6, <1>7, <1>8, <1>9, <1>10, <1>11, <1>12, <1>13, <1>14,
     <1>15, <1>16, <1>17, <1>18, <1>19, <1>20, <1>21, <1>22 DEF Next, OnError, Run

-----------------------------------------------------------------------------
(* A server that listens and is not held lost its close().                 *)

(* A server without a socket was closed before it could have one, unless   *)
(* the service still holds it.                                             *)
FreshFor(s) ==
  pc[s] = "fresh" => socket[s] = "none" /\ (webServer = s \/ s \in orphans)

ListensFor(s) ==
  socket[s] = "open" /\ pc[s] # "finally" /\ webServer # s => s \in orphans

LeakInv == \A s \in Servers : FreshFor(s) /\ ListensFor(s)

(* Steps that let go of no server and bind none. *)
LEMMA LeakFrame ==
  ASSUME LeakInv, UNCHANGED <<webServer, orphans>>, socket' = socket,
         \A s \in Servers : /\ pc'[s] = "fresh" => pc[s] = "fresh"
                            /\ pc'[s] # "finally" => pc[s] # "finally"
  PROVE  LeakInv'
BY DEF LeakInv, FreshFor, ListensFor

(* Letting go of the server closes it or makes it an orphan. *)
LEMMA LeakClose ==
  ASSUME TypeInv, LeakInv, CloseWebServer,
         \A s \in Servers : /\ pc'[s] = "fresh" => pc[s] = "fresh"
                            /\ pc'[s] # "finally" => pc[s] # "finally"
  PROVE  LeakInv'
BY CloseFacts, LifecycleAssumption DEF LeakInv, FreshFor, ListensFor

(* No step makes a leak but the one that loses a close(). *)
LEMMA LeakNext == TypeInv /\ LeakInv /\ [Next]_vars => LeakInv'
<1> SUFFICES ASSUME TypeInv, LeakInv, [Next]_vars PROVE LeakInv'
  OBVIOUS
<1> USE LifecycleAssumption DEF Threads, service, errors, Goto
<1>a. pc \in [Threads -> Places] /\ socket \in [Servers -> {"none", "open", "closed"}]
  BY DEF TypeInv
<1>1. CASE OnStartCommand
  BY <1>1, LeakFrame DEF OnStartCommand
<1>2. CASE OpenNothing
  BY <1>2, LeakFrame DEF OpenNothing
<1>3. CASE OnDestroy
  BY <1>3, LeakClose DEF OnDestroy
<1>4. CASE ResetTask
  BY <1>4, LeakFrame DEF ResetTask
<1>5. ASSUME NEW t \in Threads, ErrorClose(t) PROVE LeakInv'
  BY <1>a, <1>5, LeakClose DEF ErrorClose
<1>6. ASSUME NEW t \in Threads, ErrorRead(t) PROVE LeakInv'
  BY <1>a, <1>6, LeakFrame DEF ErrorRead
<1>7. ASSUME NEW t \in Threads, ErrorWrite(t) PROVE LeakInv'
  BY <1>a, <1>7, LeakFrame DEF ErrorWrite
<1>8. ASSUME NEW t \in Threads, ErrorDecide(t) PROVE LeakInv'
  BY <1>a, <1>8, LeakFrame DEF ErrorDecide, AfterError
<1>9. ASSUME NEW s \in Servers, OpenWebServer(s) PROVE LeakInv'
  BY <1>a, <1>9 DEF OpenWebServer, NewWebServer, LeakInv, FreshFor, ListensFor
<1>10. ASSUME NEW s \in Servers, PortInUse(s) PROVE LeakInv'
  BY <1>a, <1>10, LeakFrame DEF PortInUse
<1>11. ASSUME NEW s \in Servers, BindSocket(s) PROVE LeakInv'
  BY <1>a, <1>11 DEF BindSocket, LeakInv, FreshFor, ListensFor
<1>12. ASSUME NEW s \in Servers, BindFails(s) PROVE LeakInv'
  BY <1>a, <1>12, LeakFrame DEF BindFails
<1>13. ASSUME NEW s \in Servers, SetLoop(s) PROVE LeakInv'
  BY <1>a, <1>13, LeakFrame DEF SetLoop
<1>14. ASSUME NEW s \in Servers, TestLoop(s) PROVE LeakInv'
  BY <1>a, <1>14, LeakFrame DEF TestLoop
<1>15. ASSUME NEW s \in Servers, NEW w \in Workers, Accept(s, w) PROVE LeakInv'
  BY <1>a, <1>15, LeakFrame DEF Accept
<1>16. ASSUME NEW s \in Servers, AcceptFails(s) PROVE LeakInv'
  BY <1>a, <1>16, LeakFrame DEF AcceptFails
<1>17. ASSUME NEW s \in Servers, CatchIOException(s) PROVE LeakInv'
  BY <1>a, <1>17, LeakFrame DEF CatchIOException
<1>18. ASSUME NEW s \in Servers, ClearLoop(s) PROVE LeakInv'
  BY <1>a, <1>18, LeakFrame DEF ClearLoop
<1>19. ASSUME NEW s \in Servers, FinallyClose(s) PROVE LeakInv'
  BY <1>a, <1>19 DEF FinallyClose, LeakInv, FreshFor, ListensFor
<1>20. ASSUME NEW w \in Workers, TemplateNotFound(w) PROVE LeakInv'
  BY <1>a, <1>20, LeakFrame DEF TemplateNotFound
<1>21. ASSUME NEW w \in Workers, ConnectionEnds(w) PROVE LeakInv'
  BY <1>a, <1>21, LeakFrame DEF ConnectionEnds
<1>22. CASE UNCHANGED vars
  BY <1>22, LeakFrame DEF vars
<1> QED
  BY <1>1, <1>2, <1>3, <1>4, <1>5, <1>6, <1>7, <1>8, <1>9, <1>10, <1>11, <1>12, <1>13, <1>14,
     <1>15, <1>16, <1>17, <1>18, <1>19, <1>20, <1>21, <1>22 DEF Next, OnError, Run

(* Whatever the order of errors, restarts and destruction, and whatever    *)
(* the number of servers and workers, a listening server the service does  *)
(* not hold is one whose close() came before its socket existed.           *)
THEOREM NoOtherLeak == Spec => []OnlyLostCloseLeaks
<1>1. Init => TypeInv /\ LeakInv
  BY TypeInit, LifecycleAssumption DEF Init, LeakInv, FreshFor, ListensFor, Threads
<1>2. TypeInv /\ LeakInv /\ [Next]_vars => (TypeInv /\ LeakInv)'
  BY TypeNext, LeakNext
<1>3. TypeInv /\ LeakInv => OnlyLostCloseLeaks
  BY DEF LeakInv, ListensFor, OnlyLostCloseLeaks
<1> QED
  BY <1>1, <1>2, <1>3, PTL DEF Spec

-----------------------------------------------------------------------------
(* How many servers may be asked for at once.                              *)

(* Who handles an error, and who may yet come to: every server that has    *)
(* not reached its end.                                                    *)
Failing == {t \in Threads : pc[t] \in OnErrorPlaces}
Running == {s \in Servers : pc[s] \in {"fresh", "bound", "test", "accept", "caught"}}
Pending == Failing \cup Running

(* Each of them may ask for one server more: opening one only moves it     *)
(* from opens to Pending.  That, not opens alone, is inductive.            *)
BudgetInv == opens + Cardinality(Pending) <= MaxOpens + Cardinality(Servers)

(* Finitely many, and no more than fail now and all servers together. *)
LEMMA PendingIsCounted ==
  /\ IsFiniteSet(Pending) /\ Cardinality(Pending) \in Nat
  /\ IsFiniteSet(Failing) /\ Cardinality(Failing) \in Nat
  /\ Cardinality(Servers) \in Nat
  /\ Cardinality(Pending) <= Cardinality(Failing) + Cardinality(Servers)
<1>1. IsFiniteSet(Threads)
  BY LifecycleAssumption, FS_Union DEF Threads
<1>2. Failing \in SUBSET Threads /\ Running \in SUBSET Servers
  BY DEF Failing, Running
<1>3. /\ IsFiniteSet(Failing) /\ IsFiniteSet(Running)
      /\ Cardinality(Running) <= Cardinality(Servers)
  BY <1>1, <1>2, FS_Subset, LifecycleAssumption
<1>4. /\ IsFiniteSet(Pending)
      /\ Cardinality(Pending) =
           Cardinality(Failing) + Cardinality(Running) - Cardinality(Failing \cap Running)
  BY <1>3, FS_Union DEF Pending
<1>5. IsFiniteSet(Failing \cap Running)
  <2>1. Failing \cap Running \in SUBSET Running
    OBVIOUS
  <2> QED
    BY <1>3, <2>1, FS_Subset
<1>6. /\ Cardinality(Pending) \in Nat /\ Cardinality(Failing) \in Nat
      /\ Cardinality(Running) \in Nat /\ Cardinality(Servers) \in Nat
      /\ Cardinality(Failing \cap Running) \in Nat
  BY <1>3, <1>4, <1>5, LifecycleAssumption, FS_CardinalityType
<1> QED
  BY <1>3, <1>4, <1>6

(* Nothing more is asked for and nobody starts. *)
LEMMA BudgetFrame ==
  ASSUME BudgetInv, TypeInv, TypeInv', opens' <= opens, Pending' \subseteq Pending
  PROVE  BudgetInv'
<1>1. Pending' \in SUBSET Pending /\ IsFiniteSet(Pending) /\ Cardinality(Pending) \in Nat
  BY PendingIsCounted
<1>2. Cardinality(Pending') <= Cardinality(Pending) /\ IsFiniteSet(Pending')
  BY <1>1, FS_Subset
<1>3. Cardinality(Pending') \in Nat
  BY <1>2, FS_CardinalityType
<1> QED
  BY <1>1, <1>2, <1>3, PendingIsCounted, LifecycleAssumption DEF BudgetInv, TypeInv

(* Thread t is done, and asks for one server at most. *)
LEMMA BudgetDone ==
  ASSUME BudgetInv, TypeInv, TypeInv', NEW t \in Pending, opens' <= opens + 1,
         Pending' = Pending \ {t}
  PROVE  BudgetInv'
<1>1. Cardinality(Pending') = Cardinality(Pending) - 1
  BY PendingIsCounted, FS_RemoveElement
<1> QED
  BY <1>1, PendingIsCounted, LifecycleAssumption DEF BudgetInv, TypeInv

(* A server that was asked for begins. *)
LEMMA BudgetBegun ==
  ASSUME BudgetInv, TypeInv, NEW s, s \notin Pending, opens' = opens - 1,
         Pending' = Pending \cup {s}
  PROVE  BudgetInv'
<1>1. Cardinality(Pending') = Cardinality(Pending) + 1
  BY PendingIsCounted, FS_AddElement
<1> QED
  BY <1>1, PendingIsCounted, LifecycleAssumption DEF BudgetInv, TypeInv

(* Within MaxOpens, one more server is asked for ... *)
LEMMA BudgetMore ==
  ASSUME BudgetInv, TypeInv, Reopening < MaxOpens, opens' = opens + 1, Pending' = Pending
  PROVE  BudgetInv'
<1>1. Reopening = opens + Cardinality(Failing)
  BY DEF Reopening, Failing
<1> QED
  BY <1>1, PendingIsCounted, LifecycleAssumption DEF BudgetInv, TypeInv

(* ... or a worker is about to. *)
LEMMA BudgetError ==
  ASSUME BudgetInv, TypeInv, Reopening < MaxOpens, opens' = opens, NEW w,
         Pending' = Pending \cup {w}
  PROVE  BudgetInv'
<1>1. Reopening = opens + Cardinality(Failing)
  BY DEF Reopening, Failing
<1>2. /\ Cardinality(Pending') <= Cardinality(Pending) + 1
      /\ Cardinality(Pending') \in Nat
  <2>1. /\ Cardinality(Pending') =
             IF w \in Pending THEN Cardinality(Pending) ELSE Cardinality(Pending) + 1
    BY PendingIsCounted, FS_AddElement
  <2> QED
    BY <2>1, PendingIsCounted
<1> QED
  BY <1>1, <1>2, PendingIsCounted, LifecycleAssumption DEF BudgetInv, TypeInv

(* No step asks for more than there is room for. *)
LEMMA BudgetNext == TypeInv /\ TypeInv' /\ BudgetInv /\ [Next]_vars => BudgetInv'
<1> SUFFICES ASSUME TypeInv, TypeInv', BudgetInv, [Next]_vars PROVE BudgetInv'
  OBVIOUS
<1> DEFINE Same == UNCHANGED opens /\ Pending' = Pending
<1>a. opens \in Nat /\ opens' \in Nat /\ pc \in [Threads -> Places]
  BY DEF TypeInv
<1>b. Same => BudgetInv'
  BY <1>a, BudgetFrame
<1>c. UNCHANGED <<opens, pc>> => Same
  BY DEF Pending, Failing, Running
<1> HIDE DEF Same
<1> USE LifecycleAssumption DEF Threads, service, errors, Goto, Pending, Failing, Running,
        OnErrorPlaces
<1>1. CASE OnStartCommand
  BY <1>1, <1>c, BudgetMore DEF OnStartCommand, Same
<1>2. CASE OpenNothing
  BY <1>a, <1>2, BudgetFrame DEF OpenNothing
<1>3. CASE OnDestroy
  BY <1>3, <1>b, <1>c DEF OnDestroy
<1>4. CASE ResetTask
  BY <1>4, <1>b, <1>c DEF ResetTask
<1>5. ASSUME NEW t \in Threads, ErrorClose(t) PROVE BudgetInv'
  BY <1>a, <1>b, <1>5 DEF ErrorClose, Same
<1>6. ASSUME NEW t \in Threads, ErrorRead(t) PROVE BudgetInv'
  BY <1>a, <1>b, <1>6 DEF ErrorRead, Same
<1>7. ASSUME NEW t \in Threads, ErrorWrite(t) PROVE BudgetInv'
  BY <1>a, <1>b, <1>7 DEF ErrorWrite, Same
<1>8. ASSUME NEW t \in Threads, ErrorDecide(t) PROVE BudgetInv'
  <2>1. AfterError(t) \in {"ended", "finally", "clear"}
    BY DEF AfterError
  <2>2. t \in Pending /\ Pending' = Pending \ {t}
    BY <1>a, <1>8, <2>1 DEF ErrorDecide
  <2>3. opens' <= opens + 1
    BY <1>a, <1>8 DEF ErrorDecide
  <2> QED
    BY <2>2, <2>3, BudgetDone
<1>9. ASSUME NEW s \in Servers, OpenWebServer(s) PROVE BudgetInv'
  <2>1. s \notin Pending /\ Pending' = Pending \cup {s}
    BY <1>a, <1>9 DEF OpenWebServer, NewWebServer
  <2>2. opens' = opens - 1
    BY <1>9 DEF OpenWebServer, NewWebServer
  <2> QED
    BY <2>1, <2>2, BudgetBegun
<1>10. ASSUME NEW s \in Servers, PortInUse(s) PROVE BudgetInv'
  BY <1>a, <1>b, <1>10 DEF PortInUse, Same
<1>11. ASSUME NEW s \in Servers, BindSocket(s) PROVE BudgetInv'
  BY <1>a, <1>b, <1>11 DEF BindSocket, Same
<1>12. ASSUME NEW s \in Servers, BindFails(s) PROVE BudgetInv'
  BY <1>a, <1>b, <1>12 DEF BindFails, Same
<1>13. ASSUME NEW s \in Servers, SetLoop(s) PROVE BudgetInv'
  BY <1>a, <1>b, <1>13 DEF SetLoop, Same
<1>14. ASSUME NEW s \in Servers, TestLoop(s) PROVE BudgetInv'
  <2>1. Pending' \subseteq Pending /\ opens' = opens
    BY <1>a, <1>14 DEF TestLoop
  <2> QED
    BY <1>a, <2>1, BudgetFrame
<1>15. ASSUME NEW s \in Servers, NEW w \in Workers, Accept(s, w) PROVE BudgetInv'
  BY <1>a, <1>b, <1>15 DEF Accept, Same
<1>16. ASSUME NEW s \in Servers, AcceptFails(s) PROVE BudgetInv'
  BY <1>a, <1>b, <1>16 DEF AcceptFails, Same
<1>17. ASSUME NEW s \in Servers, CatchIOException(s) PROVE BudgetInv'
  <2>1. Pending' \subseteq Pending /\ opens' = opens
    BY <1>a, <1>17 DEF CatchIOException
  <2> QED
    BY <1>a, <2>1, BudgetFrame
<1>18. ASSUME NEW s \in Servers, ClearLoop(s) PROVE BudgetInv'
  BY <1>a, <1>b, <1>18 DEF ClearLoop, Same
<1>19. ASSUME NEW s \in Servers, FinallyClose(s) PROVE BudgetInv'
  BY <1>a, <1>b, <1>19 DEF FinallyClose, Same
<1>20. ASSUME NEW w \in Workers, TemplateNotFound(w) PROVE BudgetInv'
  <2>1. Pending' = Pending \cup {w} /\ opens' = opens /\ Reopening < MaxOpens
    BY <1>a, <1>20 DEF TemplateNotFound
  <2> QED
    BY <2>1, BudgetError
<1>21. ASSUME NEW w \in Workers, ConnectionEnds(w) PROVE BudgetInv'
  BY <1>a, <1>b, <1>21 DEF ConnectionEnds, Same
<1>22. CASE UNCHANGED vars
  BY <1>22, <1>b, <1>c DEF vars
<1> QED
  BY <1>1, <1>2, <1>3, <1>4, <1>5, <1>6, <1>7, <1>8, <1>9, <1>10, <1>11, <1>12, <1>13, <1>14,
     <1>15, <1>16, <1>17, <1>18, <1>19, <1>20, <1>21, <1>22 DEF Next, OnError, Run

(* Variables keep their types.  opens stays within its bound because what  *)
(* is still to be asked for is counted with it: at most MaxOpens recoveries *)
(* are begun at once, and each server fails once (MaxOpens is the model's  *)
(* bound).  The range of errCount is the one CountedUp gives it and says   *)
(* nothing of how far the code's own counter can go.                       *)
THEOREM TypeCorrect == Spec => []TypeOK
<1>1. Init => TypeInv /\ BudgetInv
  <2> SUFFICES ASSUME Init PROVE BudgetInv
    BY TypeInit
  <2>1. Pending = {}
    BY LifecycleAssumption DEF Init, Pending, Failing, Running, OnErrorPlaces, Threads
  <2>2. Cardinality(Pending) = 0
    BY <2>1, FS_EmptySet
  <2> QED
    BY <2>2, PendingIsCounted, LifecycleAssumption DEF Init, BudgetInv
<1>2. TypeInv /\ BudgetInv /\ [Next]_vars => (TypeInv /\ BudgetInv)'
  BY TypeNext, BudgetNext
<1>3. TypeInv /\ BudgetInv => TypeOK
  <2> SUFFICES ASSUME TypeInv, BudgetInv PROVE TypeOK
    OBVIOUS
  <2>1. opens \in 0..(MaxOpens + Cardinality(Servers))
    BY PendingIsCounted, LifecycleAssumption DEF TypeInv, BudgetInv
  <2> QED
    BY <2>1 DEF TypeInv, TypeOK
<1> QED
  BY <1>1, <1>2, <1>3, PTL DEF Spec
===============================================================================
