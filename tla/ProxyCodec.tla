----------------------------- MODULE ProxyCodec -----------------------------
(***************************************************************************)
(* ProxyMessageEncoder and ProxyMessageDecoder on the two ends of a        *)
(* channel.  The length of the uri travels in one byte, which the decoder  *)
(* reads with a sign; a frame it cannot decode raises an exception in the  *)
(* middle of what one read brought, and nothing closes the channel then.   *)
(*                                                                         *)
(* A message is its number and the bytes of its uri and data; type and     *)
(* serial number have fixed sizes.  Frames beyond MAX_FRAME_LENGTH, which  *)
(* nobody writes, are left out; a null uri or data arrives as an empty one.*)
(***************************************************************************)
EXTENDS Integers, Sequences, SequencesExt

CONSTANTS
  UriLengths, DataLengths,  \* in bytes
  MaxMessages               \* how many messages are sent

VARIABLES
  sent, \* the messages written to the channel
  wire, \* their frames, as far as they have not arrived
  held, \* frames in the decoder's cumulation
  got   \* the messages decoded

vars == <<sent, wire, held, got>>

Init == sent = <<>> /\ wire = <<>> /\ held = <<>> /\ got = <<>>

-----------------------------------------------------------------------------
(* TYPE_SIZE + SERIAL_NUMBER_SIZE + URI_LENGTH_SIZE *)
Fixed == 1 + 8 + 1

(* Mutant: the length of the frame leaves the uri out. *)
EncodeNoUri(m) ==
  [id |-> m.id, length |-> Fixed + m.data, uriByte |-> m.uri % 256]

(* encode: the frame's length, (byte) uriBytes.length, then uri and data. *)
Encode(m) ==
  [id |-> m.id, length |-> Fixed + m.uri + m.data, uriByte |-> m.uri % 256]

(* byte uriLength = in.readByte() *)
UriLength(f) == IF f.uriByte < 128 THEN f.uriByte ELSE f.uriByte - 256

(* new byte[] of a negative size throws. *)
Decodable(f) == UriLength(f) >= 0 /\ f.length - Fixed - UriLength(f) >= 0

(* decode: the uri is what its length says, the data what is left. *)
Decode(f) ==
  [id |-> f.id, uri |-> UriLength(f), data |-> f.length - Fixed - UriLength(f)]

-----------------------------------------------------------------------------
Write(u, d) ==
  LET m == [id |-> Len(sent) + 1, uri |-> u, data |-> d] IN
  /\ Len(sent) < MaxMessages
  /\ sent' = Append(sent, m)
  /\ wire' = Append(wire, Encode(m))
  /\ UNCHANGED <<held, got>>

(* A read brings n frames to what is held.  Frames are decoded in turn; an *)
(* exception drops its frame and leaves the others for the next read.      *)
Read(n) ==
  LET all   == held \o SubSeq(wire, 1, n)
      first == SelectInSeq(all, LAMBDA f : ~Decodable(f))
      good  == IF first = 0 THEN Len(all) ELSE first - 1
  IN
  /\ wire' = SubSeq(wire, n + 1, Len(wire))
  /\ got' = got \o [i \in 1..good |-> Decode(all[i])]
  /\ held' = IF first = 0 THEN <<>> ELSE SubSeq(all, first + 1, Len(all))
  /\ UNCHANGED sent

Next ==
  \/ \E u \in UriLengths, d \in DataLengths : Write(u, d)
  \/ \E n \in 1..Len(wire) : Read(n)

Spec == Init /\ [][Next]_vars

-----------------------------------------------------------------------------
HasShortUri(m) == m.uri < 128

(* Messages with a uri of less than 128 bytes are decoded as they were     *)
(* sent, in order and each once, whatever cannot be decoded before them or *)
(* is decoded wrongly between them (a uri of 256 bytes or more): only the  *)
(* frames still held behind an exception are missing.                      *)
ShortUriArrives ==
  LET decoded == Len(sent) - Len(wire) - Len(held) IN
  /\ \A i \in DOMAIN got :
       /\ got[i].id \in 1..decoded
       /\ i > 1 => got[i - 1].id < got[i].id
  /\ \A k \in 1..decoded :
       HasShortUri(sent[k]) => \E i \in DOMAIN got : got[i] = sent[k]
=============================================================================
