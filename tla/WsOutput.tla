------------------------------ MODULE WsOutput ------------------------------
(***************************************************************************)
(* The other direction of WsFrame: the threads that read the shells write  *)
(* a header and the data in two writes to the connection the global conn   *)
(* names at each of them.  The sessions' threads set conn (accept), answer *)
(* the handshake on whatever it names then, and close and unset it (run).  *)
(*                                                                         *)
(* A write of at most 4096 bytes to a blocking socket is complete, or the  *)
(* connection is gone; one to a closed descriptor is lost.                 *)
(***************************************************************************)
EXTENDS Integers, Sequences

CONSTANTS
  Senders,     \* threads that read from a shell
  Conns,       \* connections of pages
  SendLengths, \* how much a shell's output gives them at once
  Garbage,
  None,        \* ERROR_FD
  Failed       \* what a failed accept() returns

VARIABLES
  spc, slen,       \* each sender's next step and the length it sends
  conn,            \* the global conn
  life,            \* each connection: new, accepted, open (shaken), closed
  shaking,         \* accepted connections whose thread has yet to shake hands
  unsetting,       \* what was closed by a thread that has yet to unset conn
  expects,         \* the data each page expects after a header
  garbled,         \* history: the page met something else
  mixed            \* history: threads met on the connection, see below

vars == <<spc, slen, conn, life, shaking, unsetting, expects, garbled, mixed>>
session == <<conn, life, shaking, unsetting>>

Init ==
  /\ spc = [s \in Senders |-> "idle"] /\ slen = [s \in Senders |-> 0]
  /\ conn = None
  /\ life = [c \in Conns |-> "new"]
  /\ shaking = {} /\ unsetting = {}
  /\ expects = [c \in Conns |-> 0]
  /\ garbled = [c \in Conns |-> FALSE] /\ mixed = [c \in Conns |-> FALSE]

Busy == {s \in Senders : spc[s] # "idle"}

-----------------------------------------------------------------------------
(* The sessions' threads. *)

(* conn = accept(...), perhaps under a sender's writes. *)
Accept(c) ==
  /\ life[c] = "new"
  /\ life' = [life EXCEPT ![c] = "accepted"]
  /\ conn' = c
  /\ shaking' = shaking \cup {c}
  /\ mixed' = [mixed EXCEPT ![c] = @ \/ Busy # {}]
  /\ UNCHANGED <<spc, slen, unsetting, expects, garbled>>

AcceptFails ==
  /\ conn' = Failed
  /\ UNCHANGED <<spc, slen, life, shaking, unsetting, expects, garbled, mixed>>

(* shakehands(conn), by the thread that accepted c; conn may be another    *)
(* session's by now, and have been answered already.                       *)
ShakeHands(c) ==
  /\ c \in shaking
  /\ shaking' = shaking \ {c}
  /\ IF conn \notin Conns THEN UNCHANGED <<life, garbled, mixed>>
     ELSE /\ life' = [life EXCEPT ![conn] = IF @ = "accepted" THEN "open" ELSE @]
          /\ garbled' = [garbled EXCEPT ![conn] = @ \/ life[conn] = "open"]
          /\ mixed' = [mixed EXCEPT ![conn] = @ \/ conn # c]
  /\ UNCHANGED <<spc, slen, conn, unsetting, expects>>

(* run leaves its loop: close(conn), maybe not the first to do so, ...     *)
(* The page is gone and expects nothing more.                              *)
CloseConn ==
  /\ conn # None
  /\ life' = [c \in Conns |-> IF c = conn THEN "closed" ELSE life[c]]
  /\ unsetting' = unsetting \cup {conn}
  /\ expects' = [c \in Conns |-> IF c = conn THEN 0 ELSE expects[c]]
  /\ UNCHANGED <<spc, slen, conn, shaking, garbled, mixed>>

(* ... and conn = ERROR_FD, whatever it is by now. *)
UnsetConn(c) ==
  /\ c \in unsetting
  /\ unsetting' = unsetting \ {c}
  /\ conn' = None
  /\ UNCHANGED <<spc, slen, life, shaking, expects, garbled, mixed>>

-----------------------------------------------------------------------------
(* Mutant: one length too many for the short header. *)
HeadOfWide(n) ==
  IF n <= 126 THEN <<129, n>>
  ELSE IF n < 65535 THEN <<129, 126, n \div 256, n % 256>>
  ELSE [i \in 1..12 |-> Garbage]

(* send_frame_length *)
HeadOf(n) ==
  IF n < 126 THEN <<129, n>>
  ELSE IF n < 65535 THEN <<129, 126, n \div 256, n % 256>>
  ELSE [i \in 1..12 |-> Garbage]

(* What the page takes a header for; -1 if it is none. *)
LengthIn(h) ==
  CASE Len(h) = 2 /\ h[2] < 126 -> h[2]
    [] Len(h) = 4 /\ h[2] = 126 -> h[3] * 256 + h[4]
    [] OTHER -> -1

(* The test of conn: without a connection the output is dropped.  A failed *)
(* accept's -1 passes it, and the writes fail.                             *)
SendBegins(s, n) ==
  /\ spc[s] = "idle"
  /\ conn # None
  /\ spc' = [spc EXCEPT ![s] = "head"]
  /\ slen' = [slen EXCEPT ![s] = n]
  /\ mixed' = [c \in Conns |->
                mixed[c] \/ (c = conn /\ (Busy # {} \/ life[c] = "accepted"))]
  /\ UNCHANGED <<session, expects, garbled>>

(* Nothing reaches a page over a connection that is closed or gone. *)
Reaches == conn \in Conns /\ life[conn] # "closed"

(* The page of conn is sent something that is in its place or is not, and  *)
(* expects n bytes of data after it.                                       *)
Sends(inPlace, n) ==
  IF Reaches
  THEN /\ expects' = [expects EXCEPT ![conn] = n]
       /\ garbled' = [garbled EXCEPT ![conn] =
                        @ \/ ~inPlace \/ life[conn] = "accepted"]
  ELSE UNCHANGED <<expects, garbled>>

SendHead(s) ==
  LET n == LengthIn(HeadOf(slen[s])) IN
  /\ spc[s] = "head"
  /\ spc' = [spc EXCEPT ![s] = "data"]
  /\ Sends(Reaches => expects[conn] = 0 /\ n # -1, n)
  /\ UNCHANGED <<session, slen, mixed>>

SendData(s) ==
  /\ spc[s] = "data"
  /\ spc' = [spc EXCEPT ![s] = "idle"]
  /\ slen' = [slen EXCEPT ![s] = 0]
  /\ Sends(Reaches => expects[conn] = slen[s], 0)
  /\ UNCHANGED <<session, mixed>>

-----------------------------------------------------------------------------
Send(s) ==
  \/ \E n \in SendLengths : SendBegins(s, n)
  \/ SendHead(s) \/ SendData(s)

Next ==
  \/ \E s \in Senders : Send(s)
  \/ \E c \in Conns : Accept(c) \/ ShakeHands(c)
  \/ AcceptFails \/ CloseConn
  \/ \E c \in Conns \cup {Failed} : UnsetConn(c)

Spec == Init /\ [][Next]_vars

-----------------------------------------------------------------------------
(* What a shell writes reaches the page as one frame each, at the sizes    *)
(* where the header changes too, on every connection that threads did not  *)
(* meet on.  They meet where a sender began to write while another one was *)
(* writing or before the handshake, where the connection was accepted      *)
(* under a sender's writes, and where another session's thread shook hands *)
(* on it.  A close or a failed accept between header and data does no harm *)
(* by itself: what follows is lost.                                        *)
(* (SendLengths stays within what TerminalHelper reads at once, 4096.)     *)
OutputIsFramed == \A c \in Conns : garbled[c] => mixed[c]
=============================================================================
