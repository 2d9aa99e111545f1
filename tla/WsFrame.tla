------------------------------- MODULE WsFrame -------------------------------
(***************************************************************************)
(* WebSocket frames on a terminal's connection, as websocket.c reads them. *)
(* A page's frames arrive as a stream of bytes that TCP cuts anywhere;     *)
(* run() takes what one read() returns for the next piece of the frame it  *)
(* is in, and unmasks each piece with the key from its start.              *)
(*                                                                         *)
(* A byte of a frame is what it is for: its frame, its part and its place  *)
(* there.  Bytes that are read as something they are not are Garbage.      *)
(* Sessions and descriptors are the module Terminal, the other direction   *)
(* is WsOutput.                                                            *)
(***************************************************************************)
EXTENDS Integers, Sequences, SequencesExt

CONSTANTS
  Lengths,     \* payload lengths of a page's frames
  Buffer,      \* size of payload_data (1024)
  Short,       \* the longest payload with a header of two bytes (125)
  MaxFrames,   \* how many frames a page sends
  Garbage

VARIABLES
  frames,  \* the payload lengths of the frames the page has sent
  wire,    \* the bytes sent and not read
  arrived, \* how many of them read() can return
  gone,    \* the page has left
  pc,      \* what run() reads next
  head,    \* frame_head: payload_length, and the bytes of masking_key
  size,    \* bytes of the payload read
  got,     \* what was handed to onReceiveData
  aligned  \* every read() ended where the frame's part or a key's turn ends

vars == <<frames, wire, arrived, gone, pc, head, size, got, aligned>>

NoHead == [length |-> 0, key |-> <<>>]

Init ==
  /\ frames = <<>> /\ wire = <<>> /\ arrived = 0 /\ gone = FALSE
  /\ pc = "op" /\ head = NoHead /\ size = 0 /\ got = <<>> /\ aligned = TRUE

-----------------------------------------------------------------------------
(* The page and the network.                                               *)

Bytes(f, part, n) == [i \in 1..n |-> [frame |-> f, part |-> part, at |-> i]]

(* Bytes of the extended length; longer frames would have eight. *)
Ext(n) == IF n <= Short THEN 0 ELSE 2

Frame(f, n) ==
  Bytes(f, "op", 1) \o Bytes(f, "len", 1) \o Bytes(f, "ext", Ext(n))
    \o Bytes(f, "key", 4) \o Bytes(f, "data", n)

PageSends(n) ==
  /\ ~gone /\ Len(frames) < MaxFrames
  /\ frames' = Append(frames, n)
  /\ wire' = wire \o Frame(Len(frames'), n)
  /\ UNCHANGED <<arrived, gone, pc, head, size, got, aligned>>

Arrive ==
  /\ \E n \in arrived + 1..Len(wire) : arrived' = n
  /\ UNCHANGED <<frames, wire, gone, pc, head, size, got, aligned>>

PageLeaves ==
  /\ ~gone
  /\ gone' = TRUE
  /\ UNCHANGED <<frames, wire, arrived, pc, head, size, got, aligned>>

-----------------------------------------------------------------------------
(* Receiving.  read(fd, buf, n) returns what has arrived, n bytes at most; *)
(* it blocks when there is nothing, and returns 0 when the page has left.  *)

Takes(n) == IF n <= arrived THEN n ELSE arrived

Read(n) ==
  /\ arrived > 0
  /\ wire' = SubSeq(wire, Takes(n) + 1, Len(wire))
  /\ arrived' = arrived - Takes(n)

Taken(n) == SubSeq(wire, 1, Takes(n))

(* The next n bytes are the n bytes of this part of a frame. *)
IsPart(part, n) ==
  Takes(n) = n /\ Taken(n) = Bytes(wire[1].frame, part, n)

(* Mutant: size is not reset for a new frame. *)
RecvOpKeepsSize ==
  /\ pc = "op" /\ Read(1)
  /\ pc' = "len"
  /\ head' = NoHead
  /\ UNCHANGED <<frames, gone, size, got, aligned>>

(* recv_frame_head: the first byte, whose opcode is not looked at. *)
RecvOp ==
  /\ pc = "op" /\ Read(1)
  /\ pc' = "len"
  /\ head' = NoHead /\ size' = 0
  /\ UNCHANGED <<frames, gone, got, aligned>>

(* The length, or the size of the length that follows; whatever it is when *)
(* the byte is not a length.                                               *)
RecvLen ==
  /\ pc = "len" /\ Read(1)
  /\ \E n \in Lengths :
       /\ IsPart("len", 1) => n = frames[wire[1].frame]
       /\ head' = [head EXCEPT !.length = n]
       /\ pc' = IF Ext(n) > 0 THEN "ext" ELSE "key"
  /\ UNCHANGED <<frames, gone, size, got, aligned>>

(* A read() that returns one of the two bytes leaves the other undefined. *)
RecvExt ==
  /\ pc = "ext" /\ Read(2)
  /\ pc' = "key"
  /\ \E n \in Lengths :
       /\ Ext(n) > 0
       /\ IsPart("ext", 2) => n = head.length
       /\ head' = [head EXCEPT !.length = n]
  /\ aligned' = (aligned /\ Takes(2) = 2)
  /\ UNCHANGED <<frames, gone, size, got>>

RecvKey ==
  /\ pc = "key" /\ Read(4)
  /\ pc' = "data"
  /\ head' = [head EXCEPT !.key = Taken(4)]
  /\ aligned' = (aligned /\ Takes(4) = 4)
  /\ UNCHANGED <<frames, gone, size, got>>

(* umask: the i-th byte of the piece with the key's byte i % 4. *)
Unmasked(byte, i) ==
  LET k == ((i - 1) % 4) + 1 IN
  IF /\ k <= Len(head.key) /\ byte.part = "data"
     /\ head.key[k] = [frame |-> byte.frame, part |-> "key",
                       at |-> ((byte.at - 1) % 4) + 1]
  THEN byte ELSE Garbage

umask(data) == [i \in DOMAIN data |-> Unmasked(data[i], i)]

(* while (size < head.payload_length) *)
GoesOn(n) == n < head.length

(* The bytes are of one payload, and end where it does or at the end of    *)
(* one of the key's turns.                                                 *)
IsPiece(data) ==
  LET last == data[Len(data)] IN
  /\ \A i \in DOMAIN data :
       data[i].part = "data" /\ data[i].frame = last.frame
  /\ last.at % 4 = 0 \/ last.at = frames[last.frame]

(* One round of the loop.  It reads whatever there is, the beginning of    *)
(* the next frame too, and unmasks as many bytes of payload_data as were   *)
(* read since the head, not as the piece has: past the end of the buffer   *)
(* what follows is undefined.                                              *)
RecvData ==
  LET data == Taken(Buffer)
      n    == Len(data) IN
  /\ pc = "data" /\ Read(Buffer)
  /\ size' = size + n
  /\ aligned' = (aligned /\ IsPiece(data))
  /\ IF size' > Buffer
     THEN pc' = "undefined" /\ UNCHANGED got
     ELSE /\ got' = got \o umask(data)
          /\ pc' = IF GoesOn(size') THEN "data" ELSE "op"
  /\ UNCHANGED <<frames, gone, head>>

(* The end of the stream leaves the loop, wherever it is met. *)
RecvEnds ==
  /\ pc \notin {"end", "undefined"}
  /\ gone /\ wire = <<>>
  /\ pc' = "end"
  /\ UNCHANGED <<frames, wire, arrived, gone, head, size, got, aligned>>

-----------------------------------------------------------------------------
Recv == RecvOp \/ RecvLen \/ RecvExt \/ RecvKey \/ RecvData \/ RecvEnds

Next ==
  \/ \E n \in Lengths : PageSends(n)
  \/ Arrive \/ PageLeaves \/ Recv

Spec == Init /\ [][Next]_vars

-----------------------------------------------------------------------------
(* The bytes of everything the page has typed, and which is typed first.   *)
Typed(f, k) == [frame |-> f, part |-> "data", at |-> k]

TypedBytes == UNION {{Typed(f, k) : k \in 1..frames[f]} : f \in DOMAIN frames}

Before(a, b) == a.frame < b.frame \/ (a.frame = b.frame /\ a.at < b.at)

(* What a page types reaches the shell unchanged, in order and without a   *)
(* gap, and all of it once everything is read, as long as no read() ran    *)
(* into the next frame, cut the extended length or the key, or cut a       *)
(* payload elsewhere than after a multiple of four bytes; and then         *)
(* unmasking each piece as if it were all that was read stays in the       *)
(* buffer, but for frames that are longer than that.                       *)
TypedArrivesIntact ==
  aligned =>
    /\ Range(got) \subseteq TypedBytes
    /\ \A i, j \in DOMAIN got : i < j => Before(got[i], got[j])
    /\ \A b \in TypedBytes, i \in DOMAIN got : Before(b, got[i]) => b \in Range(got)
    /\ wire = <<>> /\ pc \in {"op", "end"} => TypedBytes \subseteq Range(got)
    /\ pc = "undefined" => \E f \in DOMAIN frames : frames[f] > Buffer
=============================================================================
