------------------------------ MODULE ProxyPool ------------------------------
(***************************************************************************)
(* How large the pool of data channels can grow (ClientChannelMannager).   *)
(* returnProxyChanel asks the queue for its size and offers the channel in *)
(* two steps, on as many event loops as return channels at once; the size  *)
(* is counted node by node, and can count channels that another loop takes *)
(* out while it counts.  Which channel is which is the module ProxyClient. *)
(***************************************************************************)
EXTENDS Integers, FiniteSets

CONSTANTS
  Loops,       \* event loops that return a data channel
  MaxPoolSize  \* MAX_POOL_SIZE

VARIABLES
  pooled, \* channels in the pool
  pc,     \* each loop's next step in returnProxyChanel
  missed  \* channels taken out that its count may hold all the same

vars == <<pooled, pc, missed>>

Init ==
  /\ pooled = 0
  /\ pc = [l \in Loops |-> "idle"]
  /\ missed = [l \in Loops |-> 0]

(* A local connection has ended on the data channel of loop l. *)
Return(l) ==
  /\ pc[l] = "idle"
  /\ pc' = [pc EXCEPT ![l] = "count"]
  /\ missed' = [missed EXCEPT ![l] = 0]
  /\ UNCHANGED pooled

(* Mutant: the size is not looked at. *)
SizeIgnored(l) ==
  /\ pc[l] = "count"
  /\ pc' = [pc EXCEPT ![l] = "offer"]
  /\ UNCHANGED <<pooled, missed>>

(* size() > MAX_POOL_SIZE closes the channel. *)
Size(l) ==
  /\ pc[l] = "count"
  /\ \E n \in pooled..pooled + missed[l] :
       pc' = [pc EXCEPT ![l] = IF n > MaxPoolSize THEN "idle" ELSE "offer"]
  /\ UNCHANGED <<pooled, missed>>

Offer(l) ==
  /\ pc[l] = "offer"
  /\ pooled' = pooled + 1
  /\ pc' = [pc EXCEPT ![l] = "idle"]
  /\ UNCHANGED missed

(* A channel leaves the pool: borrowProxyChanel polls it, or it dies and   *)
(* removeProxyChanel takes it out.  More than MaxPoolSize + 1 missed       *)
(* channels make no difference to Size.                                    *)
TakeOut ==
  /\ pooled > 0
  /\ pooled' = pooled - 1
  /\ missed' = [l \in Loops |-> IF pc[l] = "count" /\ missed[l] <= MaxPoolSize
                                THEN missed[l] + 1 ELSE missed[l]]
  /\ UNCHANGED pc

Next == TakeOut \/ \E l \in Loops : Return(l) \/ Size(l) \/ Offer(l)

Spec == Init /\ [][Next]_vars

-----------------------------------------------------------------------------
(* The pool exceeds MAX_POOL_SIZE by one channel for each event loop at    *)
(* most, however the loops that return and take channels interleave        *)
(* between size() and offer(): a loop holds one channel when it has passed *)
(* the test, and no loop passes it while there are too many.               *)
PoolBounded == pooled <= MaxPoolSize + Cardinality(Loops)
=============================================================================
