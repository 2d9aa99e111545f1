---------------------------- MODULE Availability ----------------------------
(***************************************************************************)
(* WSService: the web server is available when there is a network and the  *)
(* storage is mounted.  The service registers two receivers, reads the     *)
(* present state, and from then on follows the broadcasts of the system,   *)
(* which reach its main thread later than the changes they announce: the   *)
(* one on the network tells to look, the one on the storage says what it   *)
(* was then.  It announces every change of the conjunction to WSReceivers. *)
(* The network the device has is taken to be an available one.             *)
(***************************************************************************)
EXTENDS Naturals, Sequences

CONSTANT MaxPending  \* bound on the broadcasts that are under way

VARIABLES
  network, mounted,  \* the device
  pending,           \* broadcasts under way to the registered receivers
  pc,                \* where the service's main thread is
  isNetworkAvailable, isStorageMounted, isWebServAvailable,
  told               \* the last thing the WSReceivers were told

device == <<network, mounted>>
fields == <<isNetworkAvailable, isStorageMounted, isWebServAvailable, told>>
vars == <<device, pending, pc, fields>>

Init ==
  /\ network \in BOOLEAN /\ mounted \in BOOLEAN
  /\ pending = <<>>
  /\ pc = "none"
  /\ isNetworkAvailable = FALSE /\ isStorageMounted = FALSE
  /\ isWebServAvailable = FALSE /\ told = FALSE

-----------------------------------------------------------------------------
StorageRegistered == pc \in {"readNetwork", "readStorage", "running"}
NetworkRegistered == pc = "storage" \/ StorageRegistered

(* The device changes and tells those who are registered. *)
NetworkChanges ==
  /\ Len(pending) < MaxPending
  /\ network' = ~network
  /\ pending' = IF NetworkRegistered THEN Append(pending, "network")
                ELSE pending
  /\ UNCHANGED <<mounted, pc, fields>>

StorageChanges ==
  /\ Len(pending) < MaxPending
  /\ mounted' = ~mounted
  /\ pending' = IF ~StorageRegistered THEN pending
                ELSE Append(pending, IF mounted' THEN "mounted" ELSE "unmounted")
  /\ UNCHANGED <<network, pc, fields>>

-----------------------------------------------------------------------------
(* onCreate: the fields are those of a new object; then, in this order ... *)
Create ==
  /\ pc = "none"
  /\ pc' = "network"
  /\ isNetworkAvailable' = FALSE /\ isStorageMounted' = FALSE
  /\ isWebServAvailable' = FALSE
  /\ UNCHANGED <<device, pending, told>>

RegisterNetwork ==
  /\ pc = "network" /\ pc' = "storage"
  /\ UNCHANGED <<device, pending, fields>>

RegisterStorage ==
  /\ pc = "storage" /\ pc' = "readNetwork"
  /\ UNCHANGED <<device, pending, fields>>

ReadNetwork ==
  /\ pc = "readNetwork" /\ pc' = "readStorage"
  /\ isNetworkAvailable' = network
  /\ UNCHANGED <<device, pending, isStorageMounted, isWebServAvailable, told>>

(* ... and notifyWebServAvailable. *)
ReadStorage ==
  /\ pc = "readStorage" /\ pc' = "running"
  /\ isStorageMounted' = mounted
  /\ isWebServAvailable' = (isNetworkAvailable /\ mounted)
  /\ told' = isWebServAvailable'
  /\ UNCHANGED <<device, pending, isNetworkAvailable>>

(* Mutant: what was announced is not kept. *)
NotifyChangedForgets ==
  LET isAvailable == isNetworkAvailable' /\ isStorageMounted' IN
  /\ told' = IF isAvailable # isWebServAvailable THEN isAvailable ELSE told
  /\ UNCHANGED isWebServAvailable

(* notifyWebServAvailableChanged *)
NotifyChanged ==
  LET isAvailable == isNetworkAvailable' /\ isStorageMounted' IN
  /\ told' = IF isAvailable # isWebServAvailable THEN isAvailable ELSE told
  /\ isWebServAvailable' = isAvailable

(* onReceive: the network is looked at now, the storage is as it was said. *)
Receive ==
  /\ pc = "running" /\ pending # <<>>
  /\ pending' = Tail(pending)
  /\ isNetworkAvailable' = IF Head(pending) = "network" THEN network
                           ELSE isNetworkAvailable
  /\ isStorageMounted' = IF Head(pending) = "network" THEN isStorageMounted
                         ELSE Head(pending) = "mounted"
  /\ NotifyChanged
  /\ UNCHANGED <<device, pc>>

(* onDestroy unregisters both; what was under way does not arrive. *)
Destroy ==
  /\ pc = "running" /\ pc' = "none"
  /\ pending' = <<>>
  /\ UNCHANGED <<device, fields>>

-----------------------------------------------------------------------------
Next ==
  \/ NetworkChanges \/ StorageChanges
  \/ Create \/ RegisterNetwork \/ RegisterStorage \/ ReadNetwork \/ ReadStorage
  \/ Receive \/ Destroy

Spec == Init /\ [][Next]_vars

-----------------------------------------------------------------------------
(* Whenever no broadcast is under way the service and those it told know   *)
(* the truth: no change falls between registering and reading, and a stale *)
(* broadcast is always followed by the one that corrects it.               *)
SettledIsTrue ==
  pc = "running" /\ pending = <<>> =>
    isWebServAvailable = (network /\ mounted) /\ told = isWebServAvailable
=============================================================================
