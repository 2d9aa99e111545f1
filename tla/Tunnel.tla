-------------------------------- MODULE Tunnel --------------------------------
(***************************************************************************)
(* What the data plane of the remote proxy client promises, whatever the   *)
(* pool, the event loops and the losses do.  A local connection serves one *)
(* user and is given at most one data channel in its life; a data channel  *)
(* serves one local connection at a time and must be given up by it before *)
(* another one can have it; and a local connection is sent data only over  *)
(* the channel it has, and only data of its own user.                      *)
(***************************************************************************)
CONSTANTS
  Reals,    \* local connections
  Proxies,  \* data channels
  Users,    \* user ids
  None      \* "null"

VARIABLES
  life,     \* what became of each local connection
  user,     \* the user it serves
  owner,    \* the local connection that has each data channel
  received  \* the users whose data each local connection was sent

vars == <<life, user, owner, received>>

(* refused: no data channel, and none to come.  served: had one. *)
Lives == {"unused", "waiting", "served", "refused"}

Init ==
  /\ life = [r \in Reals |-> "unused"]
  /\ user = [r \in Reals |-> None]
  /\ owner = [p \in Proxies |-> None]
  /\ received = [r \in Reals |-> {}]

HasNone(r) == \A p \in Proxies : owner[p] # r

(* A user asks for a local connection. *)
Open(r, u) ==
  /\ life[r] # "waiting" /\ HasNone(r)
  /\ life' = [life EXCEPT ![r] = "waiting"]
  /\ user' = [user EXCEPT ![r] = u]
  /\ received' = [received EXCEPT ![r] = {}]
  /\ UNCHANGED owner

(* The local server cannot be reached: nothing is left of the attempt. *)
Fail(r) ==
  /\ life[r] = "waiting"
  /\ life' = [life EXCEPT ![r] = "unused"]
  /\ user' = [user EXCEPT ![r] = None]
  /\ UNCHANGED <<owner, received>>

(* There is a local connection but no data channel for it. *)
Refuse(r) ==
  /\ life[r] = "waiting"
  /\ life' = [life EXCEPT ![r] = "refused"]
  /\ UNCHANGED <<user, owner, received>>

(* A data channel nobody has is given to a waiting local connection. *)
Take(r, p) ==
  /\ life[r] = "waiting" /\ owner[p] = None
  /\ life' = [life EXCEPT ![r] = "served"]
  /\ owner' = [owner EXCEPT ![p] = r]
  /\ UNCHANGED <<user, received>>

(* The data channel is given back or lost. *)
GiveUp(p) ==
  /\ owner[p] # None
  /\ owner' = [owner EXCEPT ![p] = None]
  /\ UNCHANGED <<life, user, received>>

Deliver(r) ==
  /\ ~HasNone(r)
  /\ received' = [received EXCEPT ![r] = @ \cup {user[r]}]
  /\ UNCHANGED <<life, user, owner>>

(* Most of what an implementation does cannot be told at this level. *)
Internal == UNCHANGED vars

Next ==
  \/ Internal
  \/ \E r \in Reals, u \in Users : Open(r, u)
  \/ \E r \in Reals : Fail(r) \/ Refuse(r) \/ Deliver(r)
  \/ \E r \in Reals, p \in Proxies : Take(r, p)
  \/ \E p \in Proxies : GiveUp(p)

Spec == Init /\ [][Next]_vars
=============================================================================
