---------------------------- MODULE WsFrameProofs ----------------------------
(***************************************************************************)
(* What a page types reaches the shell (WsFrame, as MCParts runs it), for  *)
(* any number of frames of lengths below 64 KiB, for any size of           *)
(* payload_data, and however the stream is cut into reads, within what the *)
(* property allows.                                                        *)
(*                                                                         *)
(* The state is related byte by byte to the frames sent: what is on the    *)
(* wire is their end, with no byte missing (Contiguous), and as long as    *)
(* the reads were aligned the reader is at a known place of a known frame, *)
(* has read that frame's head for what it is and has handed over what was  *)
(* typed up to there (Reads).                                              *)
(***************************************************************************)
EXTENDS MCParts, SequenceTheorems, TLAPS

(* A step of the whole is a step of the frames, or leaves them alone.      *)
LEMMA FrameSteps == ASSUME [Next]_vars PROVE [Frame!Next]_frameVars
BY DEF Next, vars

(* What is known of the constants. *)
LEMMA LengthsAreNumbers == Lengths \subseteq Nat /\ Buffer \in Nat \ {0}
BY FrameAssumption

(* An interval tells its length. *)
LEMMA SameInterval ==
  ASSUME NEW m \in Nat, NEW n \in Nat, 1..m = 1..n
  PROVE  m = n
<1>1. ~ m < n
  <2> SUFFICES ASSUME m < n PROVE FALSE
    OBVIOUS
  <2> n \in 1..n /\ n \notin 1..m
    OBVIOUS
  <2> QED
    OBVIOUS
<1>2. ~ n < m
  <2> SUFFICES ASSUME n < m PROVE FALSE
    OBVIOUS
  <2> m \in 1..m /\ m \notin 1..n
    OBVIOUS
  <2> QED
    OBVIOUS
<1> QED
  BY <1>1, <1>2

-----------------------------------------------------------------------------
(* What a page's frames are made of, and what is known of them.            *)

(* What a page's frame of n payload bytes is made of.                      *)
FrameParts == {"op", "len", "ext", "key", "data"}

StreamBytes == [frame: Nat, part: FrameParts, at: Nat]

PartSize(n, p) ==
  IF p \in {"op", "len"} THEN 1 ELSE IF p = "ext" THEN Frame!Ext(n)
  ELSE IF p = "key" THEN 4 ELSE n

PartStart(n, p) ==
  IF p = "op" THEN 0 ELSE IF p = "len" THEN 1 ELSE IF p = "ext" THEN 2
  ELSE IF p = "key" THEN 2 + Frame!Ext(n) ELSE 6 + Frame!Ext(n)

FrameSize(n) == 6 + Frame!Ext(n) + n

(* The place of a byte in its frame. *)
Place(b) == PartStart(frames[b.frame], b.part) + b.at

OfAFrame(b) ==
  /\ b \in StreamBytes /\ b.frame \in 1..Len(frames)
  /\ b.at \in 1..PartSize(frames[b.frame], b.part)

Follows(a, b) ==
  \/ b.frame = a.frame /\ Place(b) = Place(a) + 1
  \/ b.frame = a.frame + 1 /\ Place(b) = 1 /\ Place(a) = FrameSize(frames[a.frame])

(* What is on the wire is the end of what the page has sent, byte by byte. *)
Contiguous ==
  /\ \A i \in 1..Len(wire) : OfAFrame(wire[i])
  /\ \A i \in 1..Len(wire) - 1 : Follows(wire[i], wire[i + 1])
  /\ \A i, j \in 1..Len(wire) :
       wire[i].frame = wire[j].frame => Place(wire[j]) - Place(wire[i]) = j - i
  /\ Len(wire) > 0 =>
       /\ wire[Len(wire)].frame = Len(frames)
       /\ Place(wire[Len(wire)]) = FrameSize(frames[Len(frames)])

(* The next byte is the one at place o of frame c. *)
Expects(c, o) ==
  IF Len(wire) = 0 THEN c = Len(frames) + 1 /\ o = 1
  ELSE wire[1].frame = c /\ Place(wire[1]) = o

(* What was handed over is all that was typed up to byte k of frame c. *)
UpTo(c, k, f, j) == f < c \/ (f = c /\ j <= k)

Delivered(c, k) ==
  /\ got \in Seq(StreamBytes)
  /\ \A i \in 1..Len(got) : \E f \in 1..Len(frames) : \E j \in 1..frames[f] :
       got[i] = Frame!Typed(f, j) /\ UpTo(c, k, f, j)
  /\ \A i, j \in 1..Len(got) : i < j => Frame!Before(got[i], got[j])
  /\ \A f \in 1..Len(frames) : \A j \in 1..frames[f] :
       UpTo(c, k, f, j) => \E i \in 1..Len(got) : got[i] = Frame!Typed(f, j)

KeyByte(c, k) == [frame |-> c, part |-> "key", at |-> k]

(* Reading is in frame c: what was read of it is known for what it is.     *)
HeadIs(c) == c \in 1..Len(frames) /\ head.length = frames[c]

Reads(c) ==
  /\ c \in 1..Len(frames) + 1
  /\ recvPc \in {"op", "len", "ext", "key"} => Delivered(c, 0)
  /\ recvPc \in {"len", "ext", "key"} => size = 0
  /\ recvPc = "op" => Expects(c, 1)
  /\ recvPc = "len" => Expects(c, 2)
  /\ recvPc = "ext" => Expects(c, 3) /\ HeadIs(c) /\ Frame!Ext(frames[c]) = 2
  /\ recvPc = "key" => Expects(c, 3 + Frame!Ext(frames[c])) /\ HeadIs(c)
  /\ recvPc = "data" =>
       /\ HeadIs(c) /\ Delivered(c, size)
       /\ Len(head.key) = 4 /\ \A k \in 1..4 : head.key[k] = KeyByte(c, k)
       /\ size % 4 = 0
       /\ \/ size < frames[c] /\ Expects(c, 7 + Frame!Ext(frames[c]) + size)
          \/ size = 0 /\ frames[c] = 0 /\ Expects(c + 1, 1)
  /\ recvPc = "end" => c = Len(frames) + 1 /\ gone /\ Delivered(c, 0)
  /\ recvPc = "undefined" =>
       /\ c <= Len(frames) /\ \E k \in Nat : Delivered(c, k)
       /\ \E f \in 1..Len(frames) : frames[f] > Buffer

FrameTypes ==
  /\ frames \in Seq(Nat) /\ size \in Nat
  /\ head \in [length: Nat, key: Seq(StreamBytes)]
  /\ wire \in Seq(StreamBytes) /\ arrived \in 0..Len(wire)
  /\ recvPc \in {"op", "len", "ext", "key", "data", "end", "undefined"}

FrameInv ==
  FrameTypes /\ (aligned => Contiguous /\ \E c \in 1..Len(frames) + 1 : Reads(c))

-----------------------------------------------------------------------------
(* A frame, byte by byte.                                                  *)

(* An extended length has two bytes or is not there. *)
LEMMA ExtIs == \A n \in Nat : Frame!Ext(n) \in {0, 2}
BY DEF Frame!Ext

(* The sizes of the parts, and where they start. *)
LEMMA PartsAre ==
  ASSUME NEW n
  PROVE  /\ PartSize(n, "op") = 1 /\ PartStart(n, "op") = 0
         /\ PartSize(n, "len") = 1 /\ PartStart(n, "len") = 1
         /\ PartSize(n, "ext") = Frame!Ext(n) /\ PartStart(n, "ext") = 2
         /\ PartSize(n, "key") = 4 /\ PartStart(n, "key") = 2 + Frame!Ext(n)
         /\ PartSize(n, "data") = n /\ PartStart(n, "data") = 6 + Frame!Ext(n)
         /\ FrameParts = {"op", "len", "ext", "key", "data"}
BY DEF PartSize, PartStart, FrameParts

(* The places in the last three of them. *)
LEMMA PlacesFit ==
  ASSUME NEW n \in Nat, NEW e \in {0, 2}
  PROVE  /\ \A a \in 1..2 : e = 2 => 2 + a \in 1..6 + e + n
         /\ \A a \in 1..4 : 2 + e + a \in 1..6 + e + n
         /\ \A a \in 1..n : 6 + e + a \in 1..6 + e + n
OBVIOUS

(* A byte's place tells its part, and where in it the byte is. *)
LEMMA PlaceTells ==
  ASSUME frames \in Seq(Nat), NEW b, OfAFrame(b),
         NEW n, n = frames[b.frame], NEW e, e = Frame!Ext(n), NEW o, o = Place(b)
  PROVE  /\ n \in Nat /\ e \in {0, 2} /\ b.at \in Nat /\ b.frame \in 1..Len(frames)
         /\ o \in 1..FrameSize(n) /\ FrameSize(n) = 6 + e + n
         /\ \/ b.part = "op" /\ o = 1 /\ b.at = 1
            \/ b.part = "len" /\ o = 2 /\ b.at = 1
            \/ b.part = "ext" /\ e = 2 /\ b.at \in 1..2 /\ o = 2 + b.at
            \/ b.part = "key" /\ b.at \in 1..4 /\ o = 2 + e + b.at
            \/ b.part = "data" /\ b.at \in 1..n /\ o = 6 + e + b.at
<1>1. n \in Nat /\ b.frame \in 1..Len(frames) /\ b.part \in FrameParts /\ b.at \in Nat
  BY DEF OfAFrame, StreamBytes
<1>2. e \in {0, 2}
  BY <1>1, ExtIs
<1>3. b.at \in 1..PartSize(n, b.part) /\ o = PartStart(n, b.part) + b.at
  BY DEF OfAFrame, Place
<1>4. FrameSize(n) = 6 + e + n
  BY DEF FrameSize
<1> DEFINE Told ==
  \/ b.part = "op" /\ o = 1 /\ b.at = 1
  \/ b.part = "len" /\ o = 2 /\ b.at = 1
  \/ b.part = "ext" /\ e = 2 /\ b.at \in 1..2 /\ o = 2 + b.at
  \/ b.part = "key" /\ b.at \in 1..4 /\ o = 2 + e + b.at
  \/ b.part = "data" /\ b.at \in 1..n /\ o = 6 + e + b.at
<1> DEFINE Fits == o \in 1..6 + e + n
<1>5. ASSUME b.part = "op" PROVE Fits /\ Told
  <2>1. PartSize(n, b.part) = 1 /\ PartStart(n, b.part) = 0
    BY <1>5, PartsAre
  <2>2. b.at \in 1..1 /\ o = 0 + b.at
    BY <1>3, <2>1
  <2>3. o = 1 /\ b.at = 1
    BY <1>1, <1>2, <2>2
  <2>4. Fits
    BY <1>1, <1>2, <2>3
  <2> QED
    BY <1>5, <2>3, <2>4, Zenon
<1>6. ASSUME b.part = "len" PROVE Fits /\ Told
  <2>1. PartSize(n, b.part) = 1 /\ PartStart(n, b.part) = 1
    BY <1>6, PartsAre
  <2>2. b.at \in 1..1 /\ o = 1 + b.at
    BY <1>3, <2>1
  <2>3. o = 2 /\ b.at = 1
    BY <1>1, <1>2, <2>2
  <2>4. Fits
    BY <1>1, <1>2, <2>3
  <2> QED
    BY <1>6, <2>3, <2>4, Zenon
<1>7. ASSUME b.part = "ext" PROVE Fits /\ Told
  <2>1. PartSize(n, b.part) = e /\ PartStart(n, b.part) = 2
    BY <1>7, PartsAre
  <2>2. b.at \in 1..e /\ o = 2 + b.at
    BY <1>3, <2>1
  <2>3. e = 2 /\ b.at \in 1..2 /\ o = 2 + b.at
    BY <1>1, <1>2, <2>2
  <2>4. Fits
    BY <1>1, <1>2, <2>3, PlacesFit
  <2> QED
    BY <1>7, <2>3, <2>4, Zenon
<1>8. ASSUME b.part = "key" PROVE Fits /\ Told
  <2>1. PartSize(n, b.part) = 4 /\ PartStart(n, b.part) = 2 + e
    BY <1>8, PartsAre
  <2>2. b.at \in 1..4 /\ o = 2 + e + b.at
    BY <1>3, <2>1
  <2>3. b.at \in 1..4 /\ o = 2 + e + b.at
    BY <1>1, <1>2, <2>2
  <2>4. Fits
    BY <1>1, <1>2, <2>3, PlacesFit
  <2> QED
    BY <1>8, <2>3, <2>4, Zenon
<1>9. ASSUME b.part = "data" PROVE Fits /\ Told
  <2>1. PartSize(n, b.part) = n /\ PartStart(n, b.part) = 6 + e
    BY <1>9, PartsAre
  <2>2. b.at \in 1..n /\ o = 6 + e + b.at
    BY <1>3, <2>1
  <2>3. b.at \in 1..n /\ o = 6 + e + b.at
    BY <1>1, <1>2, <2>2
  <2>4. Fits
    BY <1>1, <1>2, <2>3, PlacesFit
  <2> QED
    BY <1>9, <2>3, <2>4, Zenon
<1>10. Fits /\ Told
  BY <1>1, <1>5, <1>6, <1>7, <1>8, <1>9 DEF FrameParts
<1> QED
  BY <1>1, <1>2, <1>4, <1>10

(* s are the first m bytes of the frame f with a payload of n bytes. *)
Begins(s, f, n, m) ==
  /\ s \in Seq(StreamBytes) /\ Len(s) = m
  /\ \A i \in 1..m : /\ s[i].frame = f /\ s[i].at \in 1..PartSize(n, s[i].part)
                     /\ PartStart(n, s[i].part) + s[i].at = i

(* A part of a frame. *)
LEMMA BytesAre ==
  ASSUME NEW f \in Nat, NEW p \in FrameParts, NEW k \in Nat
  PROVE  /\ Frame!Bytes(f, p, k) \in Seq(StreamBytes)
         /\ Len(Frame!Bytes(f, p, k)) = k
         /\ \A i \in 1..k : Frame!Bytes(f, p, k)[i] = [frame |-> f, part |-> p, at |-> i]
<1> DEFINE s == Frame!Bytes(f, p, k)
<1>1. s = [i \in 1..k |-> [frame |-> f, part |-> p, at |-> i]]
  BY DEF Frame!Bytes
<1> HIDE DEF s
<1>2. ASSUME NEW i \in 1..k PROVE [frame |-> f, part |-> p, at |-> i] \in StreamBytes
  BY DEF StreamBytes
<1>3. s \in [1..k -> StreamBytes]
  BY <1>1, <1>2
<1>4. s \in Seq(StreamBytes) /\ DOMAIN s = 1..k
  BY <1>3, SeqDef
<1>5. Len(s) = k
  <2>1. DOMAIN s = 1..Len(s) /\ Len(s) \in Nat
    BY <1>4, LenProperties
  <2> QED
    BY <1>4, <2>1, SameInterval
<1> QED
  BY <1>1, <1>4, <1>5 DEF s

(* The next part put to the bytes before it. *)
LEMMA NextPart ==
  ASSUME NEW s, NEW f \in Nat, NEW n \in Nat, NEW m \in Nat, Begins(s, f, n, m),
         NEW p \in FrameParts, PartStart(n, p) = m, NEW k \in Nat, PartSize(n, p) = k
  PROVE  Begins(s \o Frame!Bytes(f, p, k), f, n, m + k)
<1> DEFINE t == Frame!Bytes(f, p, k)
           u == s \o t
<1>1. /\ t \in Seq(StreamBytes) /\ Len(t) = k
      /\ \A i \in 1..k : t[i] = [frame |-> f, part |-> p, at |-> i]
  BY BytesAre
<1>2. s \in Seq(StreamBytes) /\ Len(s) = m
  BY DEF Begins
<1> HIDE DEF t
<1>3. /\ u \in Seq(StreamBytes) /\ Len(u) = m + k
      /\ \A i \in 1..m + k : u[i] = IF i <= m THEN s[i] ELSE t[i - m]
  <2>1. /\ u \in Seq(StreamBytes) /\ Len(u) = Len(s) + Len(t)
        /\ \A i \in 1..Len(s) + Len(t) :
             u[i] = IF i <= Len(s) THEN s[i] ELSE t[i - Len(s)]
    BY <1>1, <1>2, ConcatProperties
  <2> HIDE DEF u
  <2>2. Len(s) = m /\ Len(t) = k
    BY <1>1, <1>2
  <2> QED
    BY <2>1, <2>2
<1> HIDE DEF u
<1>4. ASSUME NEW i \in 1..m + k
      PROVE  /\ u[i].frame = f /\ u[i].at \in 1..PartSize(n, u[i].part)
             /\ PartStart(n, u[i].part) + u[i].at = i
  <2>1. CASE i <= m
    <3>1. i \in 1..m /\ u[i] = s[i]
      BY <1>3, <2>1
    <3> QED
      BY <3>1 DEF Begins
  <2>2. CASE i > m
    <3>1. i - m \in 1..k
      BY <2>2
    <3>2. u[i] = [frame |-> f, part |-> p, at |-> i - m]
      BY <1>1, <1>3, <2>2, <3>1
    <3> QED
      BY <3>1, <3>2
  <2> QED
    BY <2>1, <2>2
<1> QED
  BY <1>3, <1>4 DEF Begins, u, t

(* Five of them make the frame. *)
LEMMA FrameIs ==
  ASSUME NEW f \in Nat, NEW n \in Nat
  PROVE  Begins(Frame!Frame(f, n), f, n, FrameSize(n))
<1> DEFINE e == Frame!Ext(n)
           s1 == Frame!Bytes(f, "op", 1)
           s2 == s1 \o Frame!Bytes(f, "len", 1)
           s3 == s2 \o Frame!Bytes(f, "ext", e)
           s4 == s3 \o Frame!Bytes(f, "key", 4)
           s5 == s4 \o Frame!Bytes(f, "data", n)
<1>0. e \in {0, 2}
  BY ExtIs
<1>p. /\ "op" \in FrameParts /\ "len" \in FrameParts /\ "ext" \in FrameParts
      /\ "key" \in FrameParts /\ "data" \in FrameParts
  BY DEF FrameParts
<1>s. /\ PartSize(n, "op") = 1 /\ PartStart(n, "op") = 0
      /\ PartSize(n, "len") = 1 /\ PartStart(n, "len") = 1
      /\ PartSize(n, "ext") = e /\ PartStart(n, "ext") = 2
      /\ PartSize(n, "key") = 4 /\ PartStart(n, "key") = 2 + e
      /\ PartSize(n, "data") = n /\ PartStart(n, "data") = 6 + e
  BY PartsAre
<1>1. Begins(s1, f, n, 1)
  <2>1. ASSUME NEW k \in Nat, k = 1 PROVE Begins(Frame!Bytes(f, "op", k), f, n, k)
    <3> DEFINE s == Frame!Bytes(f, "op", k)
    <3>1. /\ s \in Seq(StreamBytes) /\ Len(s) = k
          /\ \A i \in 1..k : s[i] = [frame |-> f, part |-> "op", at |-> i]
      BY <1>p, BytesAre
    <3> HIDE DEF s
    <3> QED
      BY <1>s, <2>1, <3>1 DEF Begins, s
  <2> QED
    BY <2>1
<1> HIDE DEF s1
<1>2. Begins(s2, f, n, 2)
  BY <1>p, <1>s, <1>1, NextPart, 1 + 1 = 2
<1> HIDE DEF s2
<1> HIDE DEF e
<1>3. Begins(s3, f, n, 2 + e)
  BY <1>0, <1>p, <1>s, <1>2, NextPart
<1> HIDE DEF s3
<1>4. Begins(s4, f, n, 6 + e)
  <2>1. 2 + e \in Nat /\ (2 + e) + 4 = 6 + e
    BY <1>0
  <2>2. Begins(s4, f, n, (2 + e) + 4)
    BY <1>p, <1>s, <1>3, <2>1, NextPart
  <2> QED
    BY <2>1, <2>2
<1> HIDE DEF s4
<1>5. Begins(s5, f, n, 6 + e + n)
  BY <1>0, <1>p, <1>s, <1>4, NextPart
<1>6. Frame!Frame(f, n) = s5
  BY DEF Frame!Frame, s5, s4, s3, s2, s1, e
<1> QED
  BY <1>5, <1>6 DEF FrameSize, e

-----------------------------------------------------------------------------
(* The wire, when it is read and when more is sent.                        *)

(* What follows within the frame is the next place, and after its end the  *)
(* first place of the next frame.                                          *)
LEMMA NextByte ==
  ASSUME FrameTypes, Contiguous, NEW i \in 1..Len(wire) - 1
  PROVE  /\ i \in 1..Len(wire) /\ i + 1 \in 1..Len(wire)
         /\ Place(wire[i]) = FrameSize(frames[wire[i].frame]) =>
              wire[i + 1].frame = wire[i].frame + 1 /\ Place(wire[i + 1]) = 1
         /\ Place(wire[i]) # FrameSize(frames[wire[i].frame]) =>
              wire[i + 1].frame = wire[i].frame /\ Place(wire[i + 1]) = Place(wire[i]) + 1
<1>0. Len(wire) \in Nat /\ frames \in Seq(Nat)
  BY DEF FrameTypes
<1>1. i \in 1..Len(wire) /\ i + 1 \in 1..Len(wire)
  BY <1>0
<1>2. OfAFrame(wire[i]) /\ OfAFrame(wire[i + 1]) /\ Follows(wire[i], wire[i + 1])
  BY <1>1 DEF Contiguous
<1> DEFINE a == wire[i]
           b == wire[i + 1]
<1>3. Place(a) \in 1..FrameSize(frames[a.frame]) /\ FrameSize(frames[a.frame]) \in Nat
  <2>1. /\ frames[a.frame] \in Nat /\ Frame!Ext(frames[a.frame]) \in {0, 2}
        /\ Place(a) \in 1..FrameSize(frames[a.frame])
        /\ FrameSize(frames[a.frame]) = 6 + Frame!Ext(frames[a.frame]) + frames[a.frame]
    BY <1>0, <1>2, PlaceTells
  <2> QED
    BY <2>1
<1>4. Place(b) \in 1..FrameSize(frames[b.frame]) /\ FrameSize(frames[b.frame]) \in Nat
  <2>1. /\ frames[b.frame] \in Nat /\ Frame!Ext(frames[b.frame]) \in {0, 2}
        /\ Place(b) \in 1..FrameSize(frames[b.frame])
        /\ FrameSize(frames[b.frame]) = 6 + Frame!Ext(frames[b.frame]) + frames[b.frame]
    BY <1>0, <1>2, PlaceTells
  <2> QED
    BY <2>1
<1>5. \/ b.frame = a.frame /\ Place(b) = Place(a) + 1
      \/ b.frame = a.frame + 1 /\ Place(b) = 1 /\ Place(a) = FrameSize(frames[a.frame])
  BY <1>2 DEF Follows
<1>6. ASSUME b.frame = a.frame, Place(b) = Place(a) + 1
      PROVE  Place(a) # FrameSize(frames[a.frame])
  BY <1>3, <1>4, <1>6
<1> HIDE DEF a, b
<1>7. /\ Place(a) = FrameSize(frames[a.frame]) => b.frame = a.frame + 1 /\ Place(b) = 1
      /\ Place(a) # FrameSize(frames[a.frame]) => b.frame = a.frame /\ Place(b) = Place(a) + 1
  BY <1>5, <1>6
<1> QED
  BY <1>1, <1>7 DEF a, b

(* What is on the wire after k bytes were read ...                         *)
LEMMA Rest ==
  ASSUME FrameTypes, NEW k \in 1..arrived,
         wire' = SubSeq(wire, k + 1, Len(wire)), arrived' = arrived - k
  PROVE  /\ k \in 1..Len(wire) /\ Len(wire') = Len(wire) - k
         /\ wire' \in Seq(StreamBytes) /\ arrived' \in 0..Len(wire')
         /\ \A i \in 1..Len(wire) - k : wire'[i] = wire[k + i]
<1>0. /\ wire \in Seq(StreamBytes) /\ Len(wire) \in Nat /\ arrived \in 0..Len(wire)
      /\ k \in 1..Len(wire) /\ k \in Nat
  BY DEF FrameTypes
<1>1. /\ wire' \in Seq(StreamBytes) /\ Len(wire') = Len(wire) - k
      /\ \A i \in 1..Len(wire) - k : wire'[i] = wire[k + i]
  <2>1. \A i \in k + 1..Len(wire) : wire[i] \in StreamBytes
    BY <1>0
  <2> DEFINE w == SubSeq(wire, k + 1, Len(wire))
  <2>2. /\ w \in Seq(StreamBytes)
        /\ Len(w) = IF k + 1 <= Len(wire) THEN Len(wire) - (k + 1) + 1 ELSE 0
        /\ \A i \in 1..Len(wire) - (k + 1) + 1 : w[i] = wire[k + 1 + i - 1]
    BY <1>0, <2>1, SubSeqProperties
  <2> HIDE DEF w
  <2>3. wire' = w
    BY DEF w
  <2>4. /\ Len(wire) - (k + 1) + 1 = Len(wire) - k
        /\ \A i \in 1..Len(wire) - k : k + 1 + i - 1 = k + i
    BY <1>0
  <2>5. Len(w) = Len(wire) - k
    <3>1. CASE k < Len(wire)
      <4>1. k + 1 <= Len(wire)
        BY <1>0, <3>1
      <4> QED
        BY <2>2, <2>4, <4>1
    <3>2. CASE k = Len(wire)
      <4>1. ~(k + 1 <= Len(wire)) /\ Len(wire) - k = 0
        BY <1>0, <3>2
      <4> QED
        BY <2>2, <4>1
    <3> QED
      BY <1>0, <3>1, <3>2
  <2>6. ASSUME NEW i \in 1..Len(wire) - k PROVE w[i] = wire[k + i]
    <3>1. i \in 1..Len(wire) - (k + 1) + 1 /\ k + 1 + i - 1 = k + i
      BY <2>4
    <3>2. w[i] = wire[k + 1 + i - 1]
      BY <2>2, <3>1
    <3> QED
      BY <3>1, <3>2
  <2> QED
    BY <2>2, <2>3, <2>5, <2>6
<1>2. arrived' \in 0..Len(wire')
  BY <1>0, <1>1
<1> QED
  BY <1>0, <1>1, <1>2

(* ... is still the end of what the page has sent. *)
LEMMA Remaining ==
  ASSUME FrameTypes, Contiguous, NEW k \in 1..arrived,
         frames' = frames, wire' = SubSeq(wire, k + 1, Len(wire)), arrived' = arrived - k
  PROVE  Contiguous'
<1>0. /\ Len(wire) \in Nat /\ k \in 1..Len(wire) /\ k \in Nat
  BY DEF FrameTypes
<1>1. /\ Len(wire') = Len(wire) - k
      /\ \A i \in 1..Len(wire) - k : wire'[i] = wire[k + i]
  BY Rest
<1>3. \A i \in 1..Len(wire') : k + i \in 1..Len(wire) /\ wire'[i] = wire[k + i]
  BY <1>0, <1>1
<1>4. Contiguous'
  <2>2. ASSUME NEW i \in 1..Len(wire') PROVE OfAFrame(wire[i])'
    <3>1. OfAFrame(wire[k + i])
      BY <1>3 DEF Contiguous
    <3> QED
      BY <1>3, <3>1 DEF OfAFrame
  <2>3. ASSUME NEW i \in 1..Len(wire') - 1
        PROVE  (wire'[i + 1].frame = wire'[i].frame /\ Place(wire[i + 1])' = Place(wire[i])' + 1)
               \/ (/\ wire'[i + 1].frame = wire'[i].frame + 1 /\ Place(wire[i + 1])' = 1
                   /\ Place(wire[i])' = FrameSize(frames[wire[i].frame])')
    <3> DEFINE W == Len(wire)
               V == Len(wire')
    <3>0. W \in Nat /\ k \in Nat /\ k \in 1..W /\ V = W - k /\ i \in 1..V - 1
      BY <1>0, <1>1
    <3> HIDE DEF W, V
    <3>a. k + i \in 1..W - 1 /\ i \in 1..V /\ i + 1 \in 1..V /\ k + (i + 1) = (k + i) + 1
      BY <3>0
    <3>1. /\ k + i \in 1..Len(wire) - 1 /\ i \in 1..Len(wire') /\ i + 1 \in 1..Len(wire')
          /\ k + (i + 1) = (k + i) + 1
      BY <3>a DEF W, V
    <3>2. wire'[i] = wire[k + i] /\ wire'[i + 1] = wire[(k + i) + 1]
      BY <1>3, <3>1
    <3>3. Follows(wire[k + i], wire[(k + i) + 1])
      BY <3>1 DEF Contiguous
    <3> QED
      BY <3>2, <3>3 DEF Follows, Place
  <2>4. ASSUME NEW i \in 1..Len(wire'), NEW j \in 1..Len(wire'),
               wire'[i].frame = wire'[j].frame
        PROVE  Place(wire[j])' - Place(wire[i])' = j - i
    <3>1. /\ k + i \in 1..Len(wire) /\ wire'[i] = wire[k + i]
          /\ k + j \in 1..Len(wire) /\ wire'[j] = wire[k + j]
      BY <1>3
    <3>2. Place(wire[k + j]) - Place(wire[k + i]) = (k + j) - (k + i)
      BY <2>4, <3>1 DEF Contiguous
    <3>3. (k + j) - (k + i) = j - i
      BY <1>0, <1>1
    <3> QED
      BY <3>1, <3>2, <3>3 DEF Place
  <2>5. ASSUME Len(wire') > 0
        PROVE  /\ wire'[Len(wire')].frame = Len(frames')
               /\ Place(wire[Len(wire)])' = FrameSize(frames[Len(frames)])'
    <3>1. Len(wire') \in 1..Len(wire') /\ k + Len(wire') = Len(wire) /\ Len(wire) > 0
      <4> DEFINE W == Len(wire)
                 V == Len(wire')
      <4>1. W \in Nat /\ k \in Nat /\ k \in 1..W /\ V = W - k /\ V > 0
        BY <1>0, <1>1, <2>5
      <4> HIDE DEF W, V
      <4>2. V \in 1..V /\ k + V = W /\ W > 0
        BY <4>1
      <4> QED
        BY <4>2 DEF W, V
    <3>2. wire'[Len(wire')] = wire[Len(wire)]
      BY <1>3, <3>1
    <3> QED
      BY <3>1, <3>2 DEF Contiguous, Place
  <2> QED
    BY <2>2, <2>3, <2>4, <2>5 DEF Contiguous, Follows
<1> QED
  BY <1>4

(* What is expected next when reading stopped at place o of frame c. *)
LEMMA ExpectsNext ==
  ASSUME FrameTypes, Contiguous, NEW k \in 1..arrived,
         frames' = frames, wire' = SubSeq(wire, k + 1, Len(wire)), arrived' = arrived - k,
         NEW c, wire[k].frame = c, NEW o, Place(wire[k]) = o,
         NEW d, d = c + 1, NEW q, q = o + 1
  PROVE  IF o = FrameSize(frames[c]) THEN Expects(d, 1)' ELSE Expects(c, q)'
<1>1. /\ k \in 1..Len(wire) /\ Len(wire') = Len(wire) - k
      /\ \A i \in 1..Len(wire) - k : wire'[i] = wire[k + i]
  BY Rest
<1>2. Len(wire) \in Nat
  BY DEF FrameTypes
<1>3. CASE k = Len(wire)
  <2>1. c = Len(frames) /\ o = FrameSize(frames[Len(frames)]) /\ Len(wire') = 0
    BY <1>1, <1>2, <1>3 DEF Contiguous
  <2> QED
    BY <2>1 DEF Expects
<1>4. CASE k # Len(wire)
  <2>1. k \in 1..Len(wire) - 1 /\ Len(wire') # 0 /\ 1 \in 1..Len(wire) - k
    BY <1>1, <1>2, <1>4
  <2>2. wire'[1] = wire[k + 1]
    BY <1>1, <2>1
  <2>3. /\ o = FrameSize(frames[c]) => wire[k + 1].frame = c + 1 /\ Place(wire[k + 1]) = 1
        /\ o # FrameSize(frames[c]) => wire[k + 1].frame = c /\ Place(wire[k + 1]) = o + 1
    BY <2>1, NextByte
  <2> QED
    BY <2>1, <2>2, <2>3 DEF Expects, Place
<1> QED
  BY <1>3, <1>4

(* A frame more goes to the end of the wire. *)
LEMMA Sending ==
  ASSUME FrameTypes, Contiguous, NEW n \in Nat,
         frames' = Append(frames, n),
         wire' = wire \o Frame!Frame(Len(frames'), n)
  PROVE  /\ frames' \in Seq(Nat) /\ Len(frames') = Len(frames) + 1
         /\ \A f \in 1..Len(frames) : frames'[f] = frames[f]
         /\ wire' \in Seq(StreamBytes) /\ Len(wire) <= Len(wire') /\ Contiguous'
         /\ \A c, o : Expects(c, o) => Expects(c, o)'
<1> DEFINE L == Len(frames)
           W == Len(wire)
           m == FrameSize(n)
           s == Frame!Frame(L + 1, n)
<1>1. /\ frames \in Seq(Nat) /\ L \in Nat
      /\ wire \in Seq(StreamBytes) /\ W \in Nat
  BY DEF FrameTypes
<1>2. /\ frames' \in Seq(Nat) /\ Len(frames') = L + 1 /\ frames'[L + 1] = n
      /\ \A f \in 1..L : frames'[f] = frames[f]
  BY <1>1, AppendProperties
<1>3. Begins(s, L + 1, n, m)
  BY <1>1, FrameIs
<1>4. m \in Nat /\ m >= 6
  BY ExtIs DEF FrameSize
<1>w. wire' = wire \o s
  BY <1>2
<1> HIDE DEF L, m, s
<1>5. /\ wire' \in Seq(StreamBytes) /\ Len(wire') = W + m
      /\ \A i \in 1..W + m : wire'[i] = IF i <= W THEN wire[i] ELSE s[i - W]
  <2>1. s \in Seq(StreamBytes) /\ Len(s) = m
    BY <1>3 DEF Begins
  <2>2. /\ wire' \in Seq(StreamBytes) /\ Len(wire') = W + Len(s)
        /\ \A i \in 1..W + Len(s) : wire'[i] = IF i <= W THEN wire[i] ELSE s[i - W]
    BY <1>1, <1>w, <2>1, ConcatProperties
  <2> QED
    BY <2>1, <2>2
<1> HIDE DEF W
<1>6. ASSUME NEW i \in 1..W
      PROVE  /\ i \in 1..W + m /\ wire'[i] = wire[i] /\ wire[i].frame \in 1..L
             /\ OfAFrame(wire[i]) /\ OfAFrame(wire[i])'
             /\ Place(wire[i])' = Place(wire[i])
             /\ FrameSize(frames[wire[i].frame])' = FrameSize(frames[wire[i].frame])
  <2>1. i \in 1..W + m /\ i <= W
    BY <1>1, <1>4
  <2>2. wire'[i] = wire[i]
    BY <1>5, <2>1
  <2>3. OfAFrame(wire[i])
    BY DEF Contiguous, W
  <2>4. wire[i].frame \in 1..L /\ wire[i].frame \in 1..Len(frames')
    BY <1>1, <1>2, <2>3 DEF OfAFrame, L
  <2>5. frames'[wire[i].frame] = frames[wire[i].frame]
    BY <1>2, <2>4
  <2> QED
    BY <2>1, <2>2, <2>3, <2>4, <2>5 DEF OfAFrame, Place, FrameSize
<1>7. ASSUME NEW i \in 1..W + m, i > W
      PROVE  /\ i - W \in 1..m /\ wire'[i].frame = L + 1 /\ OfAFrame(wire[i])'
             /\ Place(wire[i])' = i - W
             /\ FrameSize(frames[wire[i].frame])' = m
  <2>1. i - W \in 1..m
    BY <1>1, <1>4, <1>7
  <2>2. wire'[i] = s[i - W]
    BY <1>1, <1>5, <1>7
  <2>3. /\ wire'[i].frame = L + 1 /\ wire'[i].at \in 1..PartSize(n, wire'[i].part)
        /\ PartStart(n, wire'[i].part) + wire'[i].at = i - W
    BY <1>3, <2>1, <2>2 DEF Begins
  <2>4. wire'[i] \in StreamBytes
    BY <1>5
  <2>5. L + 1 \in 1..L + 1
    BY <1>1 DEF L
  <2> QED
    BY <1>2, <2>1, <2>3, <2>4, <2>5 DEF OfAFrame, Place, FrameSize, m
<1>8. \A i \in 1..W + m : i \in 1..W \/ i > W
  BY <1>1, <1>4
<1>9. \A i \in 1..Len(wire') : OfAFrame(wire[i])'
  BY <1>5, <1>6, <1>7, <1>8
<1>10. ASSUME NEW i \in 1..Len(wire') - 1
       PROVE  \/ wire'[i + 1].frame = wire'[i].frame /\ Place(wire[i + 1])' = Place(wire[i])' + 1
              \/ /\ wire'[i + 1].frame = wire'[i].frame + 1 /\ Place(wire[i + 1])' = 1
                 /\ Place(wire[i])' = FrameSize(frames[wire[i].frame])'
  <2>0. i \in 1..W + m /\ i + 1 \in 1..W + m /\ i \in Nat
    BY <1>1, <1>4, <1>5
  <2>1. CASE i < W
    <3>1. i \in 1..W /\ i + 1 \in 1..W /\ i \in 1..W - 1
      BY <1>1, <2>0, <2>1
    <3>2. Follows(wire[i], wire[i + 1])
      BY <3>1 DEF Contiguous, W
    <3>3. /\ wire'[i] = wire[i] /\ Place(wire[i])' = Place(wire[i])
          /\ FrameSize(frames[wire[i].frame])' = FrameSize(frames[wire[i].frame])
      BY <1>6, <3>1
    <3>4. wire'[i + 1] = wire[i + 1] /\ Place(wire[i + 1])' = Place(wire[i + 1])
      BY <1>6, <3>1
    <3> QED
      BY <3>2, <3>3, <3>4 DEF Follows
  <2>2. CASE i = W
    <3>1. i \in 1..W /\ i + 1 > W /\ (i + 1) - W = 1 /\ W > 0
      BY <1>1, <2>0, <2>2
    <3>2. wire[i].frame = L /\ Place(wire[i]) = FrameSize(frames[L])
      BY <2>2, <3>1 DEF Contiguous, W, L
    <3>3. /\ wire'[i] = wire[i] /\ Place(wire[i])' = Place(wire[i])
          /\ FrameSize(frames[wire[i].frame])' = FrameSize(frames[wire[i].frame])
      BY <1>6, <3>1
    <3>4. wire'[i + 1].frame = L + 1 /\ Place(wire[i + 1])' = (i + 1) - W
      BY <1>7, <2>0, <3>1
    <3> QED
      BY <3>1, <3>2, <3>3, <3>4
  <2>3. CASE i > W
    <3>1. i + 1 > W /\ (i + 1) - W = (i - W) + 1
      BY <1>1, <2>0, <2>3
    <3>2. wire'[i].frame = L + 1 /\ Place(wire[i])' = i - W
      BY <1>7, <2>0, <2>3
    <3>3. wire'[i + 1].frame = L + 1 /\ Place(wire[i + 1])' = (i + 1) - W
      BY <1>7, <2>0, <3>1
    <3> QED
      BY <3>1, <3>2, <3>3
  <2> QED
    <3>1. i < W \/ i = W \/ i > W
      BY <1>1, <2>0
    <3> QED
      BY <2>1, <2>2, <2>3, <3>1
<1>11. ASSUME NEW i \in 1..Len(wire'), NEW j \in 1..Len(wire'), wire'[i].frame = wire'[j].frame
       PROVE  Place(wire[j])' - Place(wire[i])' = j - i
  <2>0. i \in 1..W + m /\ j \in 1..W + m
    BY <1>5
  <2>1. CASE i \in 1..W /\ j \in 1..W
    <3>1. wire'[i] = wire[i] /\ Place(wire[i])' = Place(wire[i])
      BY <1>6, <2>1
    <3>2. wire'[j] = wire[j] /\ Place(wire[j])' = Place(wire[j])
      BY <1>6, <2>1
    <3>3. wire[i].frame = wire[j].frame => Place(wire[j]) - Place(wire[i]) = j - i
      BY <2>1 DEF Contiguous, W
    <3> QED
      BY <1>11, <3>1, <3>2, <3>3
  <2>2. CASE i > W /\ j > W
    <3>1. Place(wire[i])' = i - W
      BY <1>7, <2>0, <2>2
    <3>2. Place(wire[j])' = j - W
      BY <1>7, <2>0, <2>2
    <3>3. (j - W) - (i - W) = j - i
      BY <1>1, <1>4, <2>0
    <3> QED
      BY <3>1, <3>2, <3>3
  <2>3. CASE i \in 1..W /\ j > W
    <3>1. wire'[i].frame \in 1..L
      BY <1>6, <2>3
    <3>2. wire'[j].frame = L + 1
      BY <1>7, <2>0, <2>3
    <3> QED
      BY <1>1, <1>11, <3>1, <3>2 DEF L
  <2>4. CASE j \in 1..W /\ i > W
    <3>1. wire'[j].frame \in 1..L
      BY <1>6, <2>4
    <3>2. wire'[i].frame = L + 1
      BY <1>7, <2>0, <2>4
    <3> QED
      BY <1>1, <1>11, <3>1, <3>2 DEF L
  <2> QED
    BY <1>8, <2>0, <2>1, <2>2, <2>3, <2>4
<1>12. /\ wire'[Len(wire')].frame = Len(frames')
       /\ Place(wire[Len(wire)])' = FrameSize(frames[Len(frames)])'
  <2>1. W + m \in 1..W + m /\ W + m > W /\ (W + m) - W = m
    BY <1>1, <1>4
  <2>2. wire'[W + m].frame = L + 1
    BY <1>7, <2>1
  <2>3. /\ PartStart(frames'[wire'[W + m].frame], wire'[W + m].part) + wire'[W + m].at = m
        /\ FrameSize(frames'[L + 1]) = m
    BY <1>2, <1>7, <2>1 DEF Place, m
  <2> QED
    BY <1>2, <1>5, <2>2, <2>3 DEF Place
<1>13. Contiguous'
  BY <1>9, <1>10, <1>11, <1>12 DEF Contiguous, Follows
<1>14. ASSUME NEW c, NEW o, Expects(c, o) PROVE Expects(c, o)'
  <2>0. Len(wire') # 0 /\ 1 \in 1..W + m
    BY <1>1, <1>4, <1>5
  <2>1. CASE W = 0
    <3>1. c = L + 1 /\ o = 1
      BY <1>14, <2>1 DEF Expects, W, L
    <3>2. wire'[1].frame = L + 1 /\ Place(wire[1])' = 1 - W
      BY <1>7, <2>0, <2>1
    <3> QED
      BY <2>0, <2>1, <3>1, <3>2 DEF Expects
  <2>2. CASE W # 0
    <3>1. 1 \in 1..W
      BY <1>1, <2>2 DEF W
    <3>2. wire'[1] = wire[1] /\ Place(wire[1])' = Place(wire[1])
      BY <1>6, <3>1
    <3>3. wire[1].frame = c /\ Place(wire[1]) = o
      BY <1>14, <2>2 DEF Expects, W
    <3> QED
      BY <2>0, <3>2, <3>3 DEF Expects
  <2> QED
    BY <2>1, <2>2
<1> QED
  <2>1. Len(wire) <= Len(wire')
    BY <1>1, <1>4, <1>5 DEF W
  <2> QED
    BY <1>2, <1>5, <1>13, <1>14, <2>1 DEF L

-----------------------------------------------------------------------------
(* What was handed over.                                                   *)

(* What was handed over stays what was typed so far when more is sent. *)
LEMMA DeliveredStays ==
  ASSUME frames \in Seq(Nat), NEW c \in 1..Len(frames) + 1, NEW k \in Nat, Delivered(c, k),
         c \in 1..Len(frames) \/ k = 0,
         got' = got, frames' \in Seq(Nat), Len(frames) <= Len(frames'),
         \A f \in 1..Len(frames) : frames'[f] = frames[f]
  PROVE  Delivered(c, k)'
<1>0. Len(frames) \in Nat /\ Len(frames') \in Nat
  OBVIOUS
<1>1. ASSUME NEW i \in 1..Len(got)
      PROVE  \E f \in 1..Len(frames') : \E j \in 1..frames'[f] :
               got[i] = Frame!Typed(f, j) /\ UpTo(c, k, f, j)
  <2>1. PICK f \in 1..Len(frames) : \E j \in 1..frames[f] :
          got[i] = Frame!Typed(f, j) /\ UpTo(c, k, f, j)
    BY DEF Delivered
  <2>2. f \in 1..Len(frames') /\ frames'[f] = frames[f]
    BY <1>0
  <2> QED
    BY <2>1, <2>2
<1>2. ASSUME NEW f \in 1..Len(frames'), NEW j \in 1..frames'[f], UpTo(c, k, f, j)
      PROVE  \E i \in 1..Len(got) : got[i] = Frame!Typed(f, j)
  <2>0. frames'[f] \in Nat
    OBVIOUS
  <2>1. f \in 1..Len(frames)
    <3>1. CASE f < c
      BY <1>0, <3>1
    <3>2. CASE f = c /\ j <= k
      BY <2>0, <3>2
    <3> QED
      BY <1>2, <3>1, <3>2 DEF UpTo
  <2>2. frames'[f] = frames[f]
    BY <2>1
  <2> QED
    BY <1>2, <2>1, <2>2 DEF Delivered
<1> QED
  BY <1>1, <1>2 DEF Delivered, UpTo

(* A whole frame, and nothing of the next one. *)
LEMMA UpToTheEnd ==
  ASSUME frames \in Seq(Nat), NEW c \in 1..Len(frames), NEW k, k = frames[c],
         NEW d, d = c + 1, NEW f \in 1..Len(frames), NEW j \in 1..frames[f]
  PROVE  UpTo(c, k, f, j) <=> UpTo(d, 0, f, j)
<1>1. f \in Nat /\ c \in Nat /\ j \in Nat /\ j >= 1 /\ frames[f] \in Nat /\ j <= frames[f]
  OBVIOUS
<1> QED
  BY <1>1 DEF UpTo

(* So it is with what was handed over before a step and after it. *)
LEMMA DeliveredFrame ==
  ASSUME frames \in Seq(Nat), frames' = frames, NEW c \in 1..Len(frames),
         NEW k, k = frames[c], NEW d, d = c + 1
  PROVE  /\ Delivered(c, k) => Delivered(d, 0)
         /\ Delivered(c, k)' => Delivered(d, 0)'
<1>1. \A f \in 1..Len(frames) : \A j \in 1..frames[f] :
        UpTo(c, k, f, j) <=> UpTo(d, 0, f, j)
  BY UpToTheEnd
<1>2. ASSUME Delivered(c, k) PROVE Delivered(d, 0)
  BY <1>1, <1>2 DEF Delivered
<1>3. ASSUME Delivered(c, k)' PROVE Delivered(d, 0)'
  BY <1>1, <1>3 DEF Delivered, UpTo
<1> QED
  BY <1>2, <1>3

(* m bytes more of frame c. *)
LEMMA DeliveredMore ==
  ASSUME frames \in Seq(Nat), frames' = frames, NEW c \in 1..Len(frames),
         NEW k \in Nat, Delivered(c, k), NEW m \in Nat, k + m <= frames[c],
         NEW t \in Seq(StreamBytes), Len(t) = m,
         \A i \in 1..m : t[i] = Frame!Typed(c, k + i), got' = got \o t
  PROVE  Delivered(c, k + m)'
<1>0. /\ got \in Seq(StreamBytes) /\ Len(got) \in Nat /\ Len(frames) \in Nat /\ c \in Nat
      /\ frames[c] \in Nat
  BY DEF Delivered
<1> DEFINE G == Len(got)
<1>1. /\ got' \in Seq(StreamBytes) /\ Len(got') = G + m
      /\ \A i \in 1..G + m : got'[i] = IF i <= G THEN got[i] ELSE t[i - G]
  <2>1. /\ got' \in Seq(StreamBytes) /\ Len(got') = G + Len(t)
        /\ \A i \in 1..G + Len(t) : got'[i] = IF i <= G THEN got[i] ELSE t[i - G]
    BY <1>0, ConcatProperties
  <2> QED
    BY <2>1
<1>2. ASSUME NEW i \in 1..G
      PROVE  i \in 1..G + m /\ got'[i] = got[i]
  <2>1. i \in 1..G + m /\ i <= G
    BY <1>0
  <2> QED
    BY <1>1, <2>1
<1>8. ASSUME NEW i \in 1..G + m, i > G
      PROVE  i - G \in 1..m /\ got'[i] = Frame!Typed(c, k + (i - G))
  <2>1. i - G \in 1..m /\ ~(i <= G)
    BY <1>0, <1>8
  <2>2. got'[i] = t[i - G]
    BY <1>1, <2>1
  <2> QED
    BY <2>1, <2>2
<1>9. \A i \in 1..G + m : i \in 1..G \/ i > G
  BY <1>0
<1>10. G \in Nat
  BY <1>0
<1> HIDE DEF G
<1>3. ASSUME NEW i \in 1..G
      PROVE  \E f \in 1..Len(frames) : \E j \in 1..frames[f] :
               got[i] = Frame!Typed(f, j) /\ UpTo(c, k, f, j)
  BY DEF Delivered, G
<1>4. ASSUME NEW i \in 1..G + m
      PROVE  \E f \in 1..Len(frames) : \E j \in 1..frames[f] :
               got'[i] = Frame!Typed(f, j) /\ UpTo(c, k + m, f, j)
  <2>1. CASE i \in 1..G
    <3>0. PICK f \in 1..Len(frames) : \E j \in 1..frames[f] :
            got[i] = Frame!Typed(f, j) /\ UpTo(c, k, f, j)
      BY <1>3, <2>1
    <3>1. PICK j \in 1..frames[f] :
            got[i] = Frame!Typed(f, j) /\ UpTo(c, k, f, j)
      BY <3>0
    <3>2. UpTo(c, k + m, f, j)
      <4>1. f \in Nat /\ j \in Nat
        BY <1>0
      <4> QED
        BY <3>1, <4>1 DEF UpTo
    <3> QED
      BY <1>2, <2>1, <3>1, <3>2
  <2>2. CASE i > G
    <3>0. i - G \in 1..m /\ got'[i] = Frame!Typed(c, k + (i - G))
      BY <1>8, <2>2
    <3>1. k + (i - G) \in 1..frames[c] /\ k + (i - G) <= k + m
      <4>1. \A d \in 1..m : k + d \in 1..frames[c] /\ k + d <= k + m
        BY <1>0
      <4> QED
        BY <3>0, <4>1
    <3> QED
      BY <3>0, <3>1 DEF UpTo
  <2> QED
    BY <1>9, <2>1, <2>2
<1>5. ASSUME NEW i \in 1..G + m, NEW j \in 1..G + m, i < j
      PROVE  Frame!Before(got'[i], got'[j])
  <2>0. i \in Nat /\ j \in Nat /\ G \in Nat
    BY <1>0 DEF G
  <2>1. CASE i \in 1..G /\ j \in 1..G
    <3>1. got'[i] = got[i] /\ got'[j] = got[j]
      BY <1>2, <2>1
    <3>2. Frame!Before(got[i], got[j])
      BY <1>5, <2>1 DEF Delivered, G
    <3> QED
      BY <3>1, <3>2
  <2>2. CASE i \in 1..G /\ j > G
    <3>0. PICK f \in 1..Len(frames) : \E l \in 1..frames[f] :
            got[i] = Frame!Typed(f, l) /\ UpTo(c, k, f, l)
      BY <1>3, <2>2
    <3>1. PICK l \in 1..frames[f] :
            got[i] = Frame!Typed(f, l) /\ UpTo(c, k, f, l)
      BY <3>0
    <3>2. got'[i] = Frame!Typed(f, l)
      BY <1>2, <2>2, <3>1
    <3>3. j - G \in 1..m /\ got'[j] = Frame!Typed(c, k + (j - G))
      BY <1>8, <2>2
    <3>4. f < c \/ (f = c /\ l < k + (j - G))
      <4>1. l \in Nat
        BY <1>0
      <4> QED
        BY <2>0, <3>1, <3>3, <4>1 DEF UpTo
    <3> QED
      BY <3>2, <3>3, <3>4 DEF Frame!Before, Frame!Typed
  <2>3. CASE i > G /\ j > G
    <3>1. i - G \in 1..m /\ got'[i] = Frame!Typed(c, k + (i - G))
      BY <1>8, <2>3
    <3>2. j - G \in 1..m /\ got'[j] = Frame!Typed(c, k + (j - G))
      BY <1>8, <2>3
    <3>3. k + (i - G) < k + (j - G)
      BY <1>5, <2>0
    <3> QED
      BY <3>1, <3>2, <3>3 DEF Frame!Before, Frame!Typed
  <2> QED
    <3>1. \/ i \in 1..G /\ j \in 1..G
          \/ i \in 1..G /\ j > G
          \/ i > G /\ j > G
      BY <1>5, <2>0
    <3> QED
      BY <2>1, <2>2, <2>3, <3>1
<1>6. ASSUME NEW f \in 1..Len(frames), NEW j \in 1..frames[f], UpTo(c, k + m, f, j)
      PROVE  \E i \in 1..G + m : got'[i] = Frame!Typed(f, j)
  <2>0. f \in Nat /\ j \in Nat /\ G \in Nat
    BY <1>0 DEF G
  <2>1. CASE UpTo(c, k, f, j)
    <3>1. PICK i \in 1..G : got[i] = Frame!Typed(f, j)
      BY <2>1 DEF Delivered, G
    <3> QED
      BY <1>2, <3>1
  <2>2. CASE f = c /\ j > k
    <3>1. /\ j <= k + m /\ (G + (j - k)) \in 1..G + m
          /\ G + (j - k) > G /\ k + ((G + (j - k)) - G) = j
      BY <1>6, <2>0, <2>2 DEF UpTo
    <3>2. got'[G + (j - k)] = Frame!Typed(c, k + ((G + (j - k)) - G))
      BY <1>8, <3>1
    <3> QED
      BY <2>2, <3>1, <3>2
  <2>3. UpTo(c, k, f, j) \/ (f = c /\ j > k)
    BY <1>6, <2>0 DEF UpTo
  <2> QED
    BY <2>1, <2>2, <2>3
<1> QED
  <2>1. frames' = frames /\ got' \in Seq(StreamBytes) /\ Len(got') = G + m
    BY <1>1
  <2> HIDE DEF G
  <2>2. \A i \in 1..Len(got') : \E f \in 1..Len(frames') : \E j \in 1..frames'[f] :
          got'[i] = Frame!Typed(f, j) /\ UpTo(c, k + m, f, j)
    BY <1>4, <2>1
  <2>3. \A i, j \in 1..Len(got') : i < j => Frame!Before(got'[i], got'[j])
    BY <1>5, <2>1
  <2>4. \A f \in 1..Len(frames') : \A j \in 1..frames'[f] :
          UpTo(c, k + m, f, j) => \E i \in 1..Len(got') : got'[i] = Frame!Typed(f, j)
    BY <1>6, <2>1
  <2> QED
    BY <2>1, <2>2, <2>3, <2>4 DEF Delivered, UpTo

-----------------------------------------------------------------------------
(* What one read() takes.                                                  *)

(* What a byte is, by its frame and place. *)
LEMMA IsByte ==
  ASSUME frames \in Seq(Nat), NEW b, OfAFrame(b), NEW c, b.frame = c,
         NEW o, Place(b) = o, NEW e, e = Frame!Ext(frames[c])
  PROVE  /\ o = 2 => b = [frame |-> c, part |-> "len", at |-> 1]
         /\ e = 2 /\ o = 3 => b = [frame |-> c, part |-> "ext", at |-> 1]
         /\ e = 2 /\ o = 4 => b = [frame |-> c, part |-> "ext", at |-> 2]
         /\ \A k \in 1..4 : o = 2 + e + k => b = KeyByte(c, k)
         /\ b.part = "data" <=> o > 6 + e
         /\ \A k \in Nat : o > 6 + e /\ o = 6 + e + k =>
              b = Frame!Typed(c, k) /\ k \in 1..frames[c]
<1>1. b = [frame |-> b.frame, part |-> b.part, at |-> b.at]
  BY DEF OfAFrame, StreamBytes
<1>2. /\ frames[c] \in Nat /\ e \in {0, 2} /\ b.at \in Nat
      /\ \/ b.part = "op" /\ o = 1 /\ b.at = 1
         \/ b.part = "len" /\ o = 2 /\ b.at = 1
         \/ b.part = "ext" /\ e = 2 /\ b.at \in 1..2 /\ o = 2 + b.at
         \/ b.part = "key" /\ b.at \in 1..4 /\ o = 2 + e + b.at
         \/ b.part = "data" /\ b.at \in 1..frames[c] /\ o = 6 + e + b.at
  BY PlaceTells
<1> DEFINE a == b.at
           p == b.part
           n == frames[c]
<1>3. /\ n \in Nat /\ e \in {0, 2} /\ a \in Nat
      /\ b = [frame |-> c, part |-> p, at |-> a]
      /\ \/ p = "op" /\ o = 1 /\ a = 1
         \/ p = "len" /\ o = 2 /\ a = 1
         \/ p = "ext" /\ e = 2 /\ a \in 1..2 /\ o = 2 + a
         \/ p = "key" /\ a \in 1..4 /\ o = 2 + e + a
         \/ p = "data" /\ a \in 1..n /\ o = 6 + e + a
  BY <1>1, <1>2
<1> HIDE DEF a, p, n
<1>4. ASSUME o = 2 PROVE p = "len" /\ a = 1
  BY <1>3, <1>4
<1>5. ASSUME e = 2, o = 3 PROVE p = "ext" /\ a = 1
  BY <1>3, <1>5
<1>6. ASSUME e = 2, o = 4 PROVE p = "ext" /\ a = 2
  BY <1>3, <1>6
<1>7. ASSUME NEW k \in 1..4, o = 2 + e + k PROVE p = "key" /\ a = k
  BY <1>3, <1>7
<1>8. p = "data" <=> o > 6 + e
  BY <1>3
<1>9. ASSUME NEW k \in Nat, o > 6 + e, o = 6 + e + k PROVE p = "data" /\ a = k /\ k \in 1..n
  BY <1>3, <1>8, <1>9
<1> QED
  BY <1>3, <1>4, <1>5, <1>6, <1>7, <1>8, <1>9 DEF KeyByte, Frame!Typed, p, n

(* The next byte to be read is the expected one. *)
LEMMA AtHead ==
  ASSUME FrameTypes, Contiguous, NEW c, NEW o, Expects(c, o), arrived > 0
  PROVE  /\ 1 \in 1..arrived /\ 1 \in 1..Len(wire) /\ OfAFrame(wire[1])
         /\ wire[1].frame = c /\ Place(wire[1]) = o
         /\ c \in 1..Len(frames) /\ frames[c] \in Nat /\ Frame!Ext(frames[c]) \in {0, 2}
         /\ FrameSize(frames[c]) = 6 + Frame!Ext(frames[c]) + frames[c]
         /\ o \in 1..FrameSize(frames[c])
<1>1. /\ frames \in Seq(Nat) /\ Len(wire) \in Nat /\ arrived \in 0..Len(wire)
      /\ 1 \in 1..arrived /\ 1 \in 1..Len(wire) /\ Len(wire) # 0
  BY DEF FrameTypes
<1>2. OfAFrame(wire[1]) /\ wire[1].frame = c /\ Place(wire[1]) = o
  BY <1>1 DEF Contiguous, Expects
<1> QED
  BY <1>1, <1>2, PlaceTells

(* Within a frame the next byte is at the next place. *)
LEMMA InARow ==
  ASSUME FrameTypes, Contiguous, NEW c, NEW o \in Nat, NEW i \in 1..Len(wire) - 1,
         wire[i].frame = c, Place(wire[i]) = o, o # FrameSize(frames[c]),
         NEW j, j = i + 1, NEW q, q = o + 1
  PROVE  wire[j].frame = c /\ Place(wire[j]) = q /\ OfAFrame(wire[j])
BY NextByte DEF Contiguous

(* What one read() takes. *)
LEMMA TakenAre ==
  ASSUME FrameTypes, NEW n \in Nat \ {0}, Frame!Read(n), NEW k, k = Frame!Takes(n)
  PROVE  /\ arrived > 0 /\ k \in 1..arrived /\ k <= n /\ (n <= arrived => k = n)
         /\ wire' = SubSeq(wire, k + 1, Len(wire)) /\ arrived' = arrived - k
         /\ Frame!Taken(n) \in Seq(StreamBytes) /\ Len(Frame!Taken(n)) = k
         /\ \A i \in 1..k : Frame!Taken(n)[i] = wire[i]
<1>1. arrived > 0 /\ wire' = SubSeq(wire, k + 1, Len(wire)) /\ arrived' = arrived - k
  BY DEF Frame!Read
<1>2. arrived \in Nat /\ Len(wire) \in Nat /\ arrived <= Len(wire)
  BY DEF FrameTypes
<1>3. k \in 1..arrived /\ k <= n /\ (n <= arrived => k = n)
  BY <1>1, <1>2 DEF Frame!Takes
<1>4. \A i \in 1..k : wire[i] \in StreamBytes
  BY <1>2, <1>3 DEF FrameTypes
<1> DEFINE s == SubSeq(wire, 1, k)
<1>5. /\ s \in Seq(StreamBytes) /\ Len(s) = IF 1 <= k THEN k - 1 + 1 ELSE 0
      /\ \A i \in 1..k - 1 + 1 : s[i] = wire[1 + i - 1]
  <2>1. 1 \in Int /\ k \in Int
    BY <1>3
  <2> QED
    BY <1>4, <2>1, SubSeqProperties
<1>6. Frame!Taken(n) = s
  BY DEF Frame!Taken
<1> HIDE DEF s
<1>7. 1 <= k /\ k - 1 + 1 = k /\ \A i \in 1..k : 1 + i - 1 = i
  BY <1>2, <1>3
<1>8. Len(s) = k /\ \A i \in 1..k : s[i] = wire[i]
  BY <1>5, <1>7
<1> QED
  BY <1>1, <1>3, <1>5, <1>6, <1>8

(* When a read() takes just one part of a frame, the code sees that part. *)
LEMMA PartIsRead ==
  ASSUME FrameTypes, NEW n \in Nat \ {0}, Frame!Read(n), n <= arrived,
         NEW p \in FrameParts, NEW c \in Nat, wire[1].frame = c,
         \A i \in 1..n : wire[i] = [frame |-> c, part |-> p, at |-> i]
  PROVE  Frame!IsPart(p, n)
<1>1. /\ Frame!Takes(n) = n /\ Frame!Taken(n) \in Seq(StreamBytes)
      /\ Len(Frame!Taken(n)) = n /\ \A i \in 1..n : Frame!Taken(n)[i] = wire[i]
  BY TakenAre
<1>2. /\ Frame!Bytes(c, p, n) \in Seq(StreamBytes) /\ Len(Frame!Bytes(c, p, n)) = n
      /\ \A i \in 1..n : Frame!Bytes(c, p, n)[i] = [frame |-> c, part |-> p, at |-> i]
  BY BytesAre
<1>3. \A i \in 1..n : Frame!Taken(n)[i] = Frame!Bytes(c, p, n)[i]
  BY <1>1, <1>2
<1>4. Frame!Taken(n) = Frame!Bytes(c, p, n)
  BY <1>1, <1>2, <1>3, SeqEqual
<1> QED
  BY <1>1, <1>4 DEF Frame!IsPart

(* A read() leaves the end of what the page has sent. *)
LEMMA ReadIs ==
  ASSUME FrameTypes, NEW n \in Nat \ {0}, Frame!Read(n), frames' = frames
  PROVE  /\ wire' \in Seq(StreamBytes) /\ arrived' \in 0..Len(wire')
         /\ Contiguous => Contiguous'
<1> DEFINE k == Frame!Takes(n)
<1>1. k \in 1..arrived /\ wire' = SubSeq(wire, k + 1, Len(wire)) /\ arrived' = arrived - k
  BY TakenAre
<1> HIDE DEF k
<1>2. wire' \in Seq(StreamBytes) /\ arrived' \in 0..Len(wire')
  BY <1>1, Rest
<1>3. ASSUME Contiguous PROVE Contiguous'
  BY <1>1, <1>3, Remaining
<1> QED
  BY <1>2, <1>3

(* The one byte expected is read, and was not the frame's last. *)
LEMMA OneIsRead ==
  ASSUME FrameTypes, Contiguous, Frame!Read(1), frames' = frames,
         NEW c, NEW o \in {1, 2}, Expects(c, o), NEW q, q = o + 1
  PROVE  Expects(c, q)'
<1>1. 1 \in 1..arrived /\ wire' = SubSeq(wire, 1 + 1, Len(wire)) /\ arrived' = arrived - 1
  <2> DEFINE k == Frame!Takes(1)
  <2>0. 1 \in Nat \ {0}
    OBVIOUS
  <2>1. /\ arrived > 0 /\ k \in 1..arrived /\ k <= 1
        /\ wire' = SubSeq(wire, k + 1, Len(wire)) /\ arrived' = arrived - k
    BY <2>0, TakenAre
  <2> HIDE DEF k
  <2>2. arrived \in Nat
    BY DEF FrameTypes
  <2>3. k = 1
    BY <2>1, <2>2
  <2> QED
    BY <2>1, <2>3
<1>2. /\ wire[1].frame = c /\ Place(wire[1]) = o
      /\ frames[c] \in Nat /\ Frame!Ext(frames[c]) \in {0, 2}
      /\ FrameSize(frames[c]) = 6 + Frame!Ext(frames[c]) + frames[c]
  <2>1. arrived > 0
    BY DEF Frame!Read
  <2> QED
    BY <2>1, AtHead
<1>3. o # FrameSize(frames[c])
  BY <1>2
<1> DEFINE d == c + 1
<1>4. d = c + 1
  OBVIOUS
<1> HIDE DEF d
<1> QED
  BY <1>1, <1>2, <1>3, <1>4, ExpectsNext

-----------------------------------------------------------------------------
(* The steps of the reader.                                                *)

(* The first byte of a frame's head. *)
LEMMA FrameOp == ASSUME FrameInv, Frame!RecvOp PROVE FrameInv'
<1>1. /\ recvPc = "op" /\ recvPc' = "len" /\ Frame!Read(1) /\ frames' = frames
      /\ head' = Frame!NoHead /\ size' = 0 /\ got' = got /\ aligned' = aligned
  BY DEF Frame!RecvOp
<1>2. FrameTypes /\ 1 \in Nat \ {0}
  BY DEF FrameInv
<1>3. FrameTypes'
  <2>1. wire' \in Seq(StreamBytes) /\ arrived' \in 0..Len(wire')
    BY <1>1, <1>2, ReadIs
  <2> QED
    BY <1>1, <1>2, <2>1 DEF FrameTypes, Frame!NoHead
<1>4. ASSUME aligned' PROVE Contiguous' /\ \E c \in 1..Len(frames') + 1 : Reads(c)'
  <2>1. PICK c \in 1..Len(frames) + 1 : Contiguous /\ Reads(c)
    BY <1>1, <1>4 DEF FrameInv
  <2>2. Expects(c, 1) /\ Delivered(c, 0)
    BY <1>1, <2>1 DEF Reads
  <2>3. Contiguous'
    BY <1>1, <1>2, <2>1, ReadIs
  <2>4. Expects(c, 2)'
    BY <1>1, <1>2, <2>1, <2>2, OneIsRead
  <2>5. Delivered(c, 0)'
    BY <1>1, <2>2 DEF Delivered
  <2>6. Reads(c)'
    BY <1>1, <2>4, <2>5 DEF Reads
  <2> QED
    BY <1>1, <2>3, <2>6
<1> QED
  BY <1>3, <1>4 DEF FrameInv

(* The second byte: the length, or how long the length is. *)
LEMMA FrameLen == ASSUME FrameInv, Frame!RecvLen PROVE FrameInv'
<1>1. /\ recvPc = "len" /\ Frame!Read(1) /\ frames' = frames
      /\ size' = size /\ got' = got /\ aligned' = aligned
  BY DEF Frame!RecvLen
<1>2. PICK n \in Lengths :
        /\ Frame!IsPart("len", 1) => n = frames[wire[1].frame]
        /\ head' = [head EXCEPT !.length = n]
        /\ recvPc' = IF Frame!Ext(n) > 0 THEN "ext" ELSE "key"
  BY DEF Frame!RecvLen
<1>3. FrameTypes /\ 1 \in Nat \ {0} /\ n \in Nat /\ Frame!Ext(n) \in {0, 2}
  BY LengthsAreNumbers, ExtIs DEF FrameInv
<1>h. head' \in [length: Nat, key: Seq(StreamBytes)] /\ head'.length = n
  BY <1>2, <1>3 DEF FrameTypes
<1>4. FrameTypes'
  <2>1. wire' \in Seq(StreamBytes) /\ arrived' \in 0..Len(wire')
    BY <1>1, <1>3, ReadIs
  <2>2. recvPc' \in {"ext", "key"}
    BY <1>2
  <2> QED
    BY <1>1, <1>3, <1>h, <2>1, <2>2 DEF FrameTypes
<1>5. ASSUME aligned' PROVE Contiguous' /\ \E c \in 1..Len(frames') + 1 : Reads(c)'
  <2>1. PICK c \in 1..Len(frames) + 1 : Contiguous /\ Reads(c)
    BY <1>1, <1>5 DEF FrameInv
  <2>2. Expects(c, 2) /\ Delivered(c, 0) /\ size = 0
    BY <1>1, <2>1 DEF Reads
  <2>3. Contiguous'
    BY <1>1, <1>3, <2>1, ReadIs
  <2>4. Expects(c, 3)'
    BY <1>1, <1>3, <2>1, <2>2, OneIsRead
  <2>5. Delivered(c, 0)'
    BY <1>1, <2>2 DEF Delivered
  <2>6. /\ 1 \in 1..arrived /\ OfAFrame(wire[1]) /\ wire[1].frame = c /\ Place(wire[1]) = 2
        /\ c \in 1..Len(frames) /\ frames[c] \in Nat
    <3>1. arrived > 0
      BY <1>1 DEF Frame!Read
    <3> QED
      BY <1>3, <2>1, <2>2, <3>1, AtHead
  <2>7. n = frames[c]
    <3>1. wire[1] = [frame |-> c, part |-> "len", at |-> 1]
      BY <1>3, <2>6, IsByte DEF FrameTypes
    <3>2. /\ \A i \in 1..1 : wire[i] = [frame |-> c, part |-> "len", at |-> i]
          /\ 1 <= arrived /\ c \in Nat /\ "len" \in FrameParts
      BY <2>6, <3>1 DEF FrameParts
    <3>3. Frame!IsPart("len", 1)
      BY <1>1, <1>3, <2>6, <3>2, PartIsRead
    <3> QED
      BY <1>2, <2>6, <3>3
  <2>8. HeadIs(c)'
    BY <1>1, <1>h, <2>6, <2>7 DEF HeadIs
  <2>9. CASE Frame!Ext(n) = 2
    <3>1. recvPc' = "ext"
      BY <1>2, <2>9
    <3> QED
      BY <1>1, <2>1, <2>2, <2>3, <2>4, <2>5, <2>7, <2>8, <2>9, <3>1 DEF Reads
  <2>10. CASE Frame!Ext(n) = 0
    <3>1. recvPc' = "key" /\ 3 + Frame!Ext(frames'[c]) = 3
      BY <1>1, <1>2, <2>7, <2>10
    <3> QED
      BY <1>1, <2>1, <2>2, <2>3, <2>4, <2>5, <2>8, <3>1 DEF Reads
  <2> QED
    BY <1>3, <2>9, <2>10
<1> QED
  BY <1>4, <1>5 DEF FrameInv

(* All n bytes asked for are read when read() was not short. *)
LEMMA AllAreRead ==
  ASSUME FrameTypes, NEW n \in Nat \ {0}, Frame!Read(n), Frame!Takes(n) = n
  PROVE  /\ n \in 1..arrived /\ n <= arrived /\ arrived > 0 /\ n \in 1..Len(wire)
         /\ wire' = SubSeq(wire, n + 1, Len(wire)) /\ arrived' = arrived - n
<1>1. arrived \in Nat /\ Len(wire) \in Nat /\ arrived <= Len(wire)
  BY DEF FrameTypes
<1>2. /\ arrived > 0 /\ n \in 1..arrived
      /\ wire' = SubSeq(wire, n + 1, Len(wire)) /\ arrived' = arrived - n
  BY TakenAre
<1> QED
  BY <1>1, <1>2

(* The extended length. *)
LEMMA FrameExt == ASSUME FrameInv, Frame!RecvExt PROVE FrameInv'
<1>1. /\ recvPc = "ext" /\ recvPc' = "key" /\ Frame!Read(2) /\ frames' = frames
      /\ size' = size /\ got' = got /\ aligned' = (aligned /\ Frame!Takes(2) = 2)
  BY DEF Frame!RecvExt
<1>2. PICK n \in Lengths :
        /\ Frame!IsPart("ext", 2) => n = head.length
        /\ head' = [head EXCEPT !.length = n]
  BY DEF Frame!RecvExt
<1>3. FrameTypes /\ 2 \in Nat \ {0} /\ n \in Nat
  BY LengthsAreNumbers DEF FrameInv
<1>h. head' \in [length: Nat, key: Seq(StreamBytes)] /\ head'.length = n
  BY <1>2, <1>3 DEF FrameTypes
<1>4. FrameTypes'
  <2>1. wire' \in Seq(StreamBytes) /\ arrived' \in 0..Len(wire')
    BY <1>1, <1>3, ReadIs
  <2> QED
    BY <1>1, <1>3, <1>h, <2>1 DEF FrameTypes
<1>5. ASSUME aligned' PROVE Contiguous' /\ \E c \in 1..Len(frames') + 1 : Reads(c)'
  <2>0. aligned /\ Frame!Takes(2) = 2
    BY <1>1, <1>5
  <2>1. PICK c \in 1..Len(frames) + 1 : Contiguous /\ Reads(c)
    BY <2>0 DEF FrameInv
  <2>2. Expects(c, 3) /\ Delivered(c, 0) /\ size = 0 /\ HeadIs(c) /\ Frame!Ext(frames[c]) = 2
    BY <1>1, <2>1 DEF Reads
  <2>3. Contiguous'
    BY <1>1, <1>3, <2>1, ReadIs
  <2>a. /\ 2 \in 1..arrived /\ 2 <= arrived /\ arrived > 0 /\ 2 \in 1..Len(wire)
        /\ wire' = SubSeq(wire, 2 + 1, Len(wire)) /\ arrived' = arrived - 2
    BY <1>1, <1>3, <2>0, AllAreRead
  <2>6. /\ OfAFrame(wire[1]) /\ wire[1].frame = c /\ Place(wire[1]) = 3
        /\ c \in 1..Len(frames) /\ frames[c] \in Nat
        /\ FrameSize(frames[c]) = 8 + frames[c]
    <3>1. /\ OfAFrame(wire[1]) /\ wire[1].frame = c /\ Place(wire[1]) = 3
          /\ c \in 1..Len(frames) /\ frames[c] \in Nat
          /\ FrameSize(frames[c]) = 6 + Frame!Ext(frames[c]) + frames[c]
      BY <1>3, <2>1, <2>2, <2>a, AtHead
    <3> QED
      BY <2>2, <3>1
  <2>b. /\ OfAFrame(wire[2]) /\ wire[2].frame = c /\ Place(wire[2]) = 4
    <3>1. 3 # FrameSize(frames[c]) /\ 1 \in 1..Len(wire) - 1
      BY <2>a, <2>6
    <3>2. PICK i, j, o, q : /\ i = 1 /\ j = 2 /\ j = i + 1 /\ i \in 1..Len(wire) - 1
                            /\ o = 3 /\ q = 4 /\ q = o + 1 /\ o \in Nat
                            /\ wire[i].frame = c /\ Place(wire[i]) = o
                            /\ o # FrameSize(frames[c])
      BY <2>6, <3>1
    <3>3. /\ FrameTypes /\ Contiguous /\ i \in 1..Len(wire) - 1 /\ j = i + 1
          /\ o \in Nat /\ q = o + 1 /\ wire[i].frame = c /\ Place(wire[i]) = o
          /\ o # FrameSize(frames[c])
      BY <1>3, <2>1, <3>2
    <3>4. wire[j].frame = c /\ Place(wire[j]) = q /\ OfAFrame(wire[j])
      BY <3>3, InARow
    <3> QED
      BY <3>2, <3>4
  <2>7. n = frames[c]
    <3>0. frames \in Seq(Nat) /\ c \in Nat
      BY <1>3, <2>6 DEF FrameTypes
    <3>1. wire[1] = [frame |-> c, part |-> "ext", at |-> 1]
      BY <2>2, <2>6, <3>0, IsByte
    <3>2. wire[2] = [frame |-> c, part |-> "ext", at |-> 2]
      BY <2>2, <2>6, <2>b, <3>0, IsByte
    <3>3. /\ \A i \in 1..2 : wire[i] = [frame |-> c, part |-> "ext", at |-> i]
          /\ "ext" \in FrameParts
      <4>1. \A i \in 1..2 : i = 1 \/ i = 2
        OBVIOUS
      <4> QED
        BY <3>1, <3>2, <4>1 DEF FrameParts
    <3>4. Frame!IsPart("ext", 2)
      BY <1>1, <1>3, <2>a, <2>6, <3>0, <3>3, PartIsRead
    <3> QED
      BY <1>2, <2>2, <3>4 DEF HeadIs
  <2>8. HeadIs(c)'
    BY <1>1, <1>h, <2>6, <2>7 DEF HeadIs
  <2>4. Expects(c, 5)'
    <3>1. 4 # FrameSize(frames[c]) /\ 5 = 4 + 1
      BY <2>6
    <3> DEFINE d == c + 1
    <3>2. d = c + 1
      OBVIOUS
    <3> HIDE DEF d
    <3> QED
      BY <1>1, <1>3, <2>1, <2>a, <2>b, <3>1, <3>2, ExpectsNext
  <2>5. Delivered(c, 0)'
    BY <1>1, <2>2 DEF Delivered
  <2>9. 3 + Frame!Ext(frames'[c]) = 5
    BY <1>1, <2>2
  <2> QED
    BY <1>1, <2>1, <2>2, <2>3, <2>4, <2>5, <2>8, <2>9 DEF Reads
<1> QED
  BY <1>4, <1>5 DEF FrameInv

(* The four bytes of the key, when it is next and all of it has arrived. *)
LEMMA KeyIsThere ==
  ASSUME FrameTypes, Contiguous, NEW c, NEW e \in {0, 2}, NEW o, o = 3 + e,
         Expects(c, o), c \in 1..Len(frames), Frame!Ext(frames[c]) = e,
         4 \in 1..arrived
  PROVE  /\ FrameSize(frames[c]) = 6 + e + frames[c] /\ frames[c] \in Nat
         /\ wire[4].frame = c /\ Place(wire[4]) = 6 + e
         /\ \A k \in 1..4 : wire[k] = KeyByte(c, k)
<1> DEFINE z == FrameSize(frames[c])
<1>1. /\ OfAFrame(wire[1]) /\ wire[1].frame = c /\ Place(wire[1]) = 3 + e
      /\ frames[c] \in Nat /\ z = 6 + e + frames[c]
  <2>1. arrived > 0
    BY DEF FrameTypes
  <2> QED
    BY <2>1, AtHead
<1>2. PICK p \in Nat, q \in Nat, r \in Nat, s \in Nat :
        /\ p = 3 + e /\ q = 4 + e /\ r = 5 + e /\ s = 6 + e
        /\ q = p + 1 /\ r = q + 1 /\ s = r + 1
        /\ p # z /\ q # z /\ r # z
  <2>1. /\ 3 + e \in Nat /\ 4 + e \in Nat /\ 5 + e \in Nat /\ 6 + e \in Nat
        /\ 4 + e = (3 + e) + 1 /\ 5 + e = (4 + e) + 1 /\ 6 + e = (5 + e) + 1
        /\ 3 + e # z /\ 4 + e # z /\ 5 + e # z
    BY <1>1
  <2> QED
    BY <2>1
<1>3. /\ 1 \in 1..Len(wire) - 1 /\ 2 \in 1..Len(wire) - 1 /\ 3 \in 1..Len(wire) - 1
      /\ 2 = 1 + 1 /\ 3 = 2 + 1 /\ 4 = 3 + 1
  BY DEF FrameTypes
<1>n. p # FrameSize(frames[c]) /\ q # FrameSize(frames[c]) /\ r # FrameSize(frames[c])
  BY <1>2
<1>p. Place(wire[1]) = p
  BY <1>1, <1>2
<1> HIDE DEF z
<1>q. OfAFrame(wire[2]) /\ wire[2].frame = c /\ Place(wire[2]) = q
  <2>1. PICK i, j : /\ i = 1 /\ j = 2 /\ j = i + 1 /\ i \in 1..Len(wire) - 1
                    /\ wire[i].frame = c /\ Place(wire[i]) = p
    BY <1>3, <1>1, <1>p
  <2>2. p \in Nat /\ p # FrameSize(frames[c]) /\ q = p + 1
    BY <1>2, <1>n
  <2>3. OfAFrame(wire[j]) /\ wire[j].frame = c /\ Place(wire[j]) = q
    BY <2>1, <2>2, InARow
  <2> QED
    BY <2>1, <2>3
<1>r. OfAFrame(wire[3]) /\ wire[3].frame = c /\ Place(wire[3]) = r
  <2>1. PICK i, j : /\ i = 2 /\ j = 3 /\ j = i + 1 /\ i \in 1..Len(wire) - 1
                    /\ wire[i].frame = c /\ Place(wire[i]) = q
    BY <1>3, <1>q
  <2>2. q \in Nat /\ q # FrameSize(frames[c]) /\ r = q + 1
    BY <1>2, <1>n
  <2>3. OfAFrame(wire[j]) /\ wire[j].frame = c /\ Place(wire[j]) = r
    BY <2>1, <2>2, InARow
  <2> QED
    BY <2>1, <2>3
<1>s. OfAFrame(wire[4]) /\ wire[4].frame = c /\ Place(wire[4]) = s
  <2>1. PICK i, j : /\ i = 3 /\ j = 4 /\ j = i + 1 /\ i \in 1..Len(wire) - 1
                    /\ wire[i].frame = c /\ Place(wire[i]) = r
    BY <1>3, <1>r
  <2>2. r \in Nat /\ r # FrameSize(frames[c]) /\ s = r + 1
    BY <1>2, <1>n
  <2>3. OfAFrame(wire[j]) /\ wire[j].frame = c /\ Place(wire[j]) = s
    BY <2>1, <2>2, InARow
  <2> QED
    BY <2>1, <2>3
<1>4. OfAFrame(wire[2]) /\ wire[2].frame = c /\ Place(wire[2]) = 4 + e
  BY <1>2, <1>q
<1>5. OfAFrame(wire[3]) /\ wire[3].frame = c /\ Place(wire[3]) = 5 + e
  BY <1>2, <1>r
<1>6. OfAFrame(wire[4]) /\ wire[4].frame = c /\ Place(wire[4]) = 6 + e
  BY <1>2, <1>s
<1>7. \A k \in 1..4 : OfAFrame(wire[k]) /\ wire[k].frame = c /\ Place(wire[k]) = 2 + e + k
  <2>1. /\ 2 + e + 1 = 3 + e /\ 2 + e + 2 = 4 + e /\ 2 + e + 3 = 5 + e /\ 2 + e + 4 = 6 + e
        /\ \A k \in 1..4 : k = 1 \/ k = 2 \/ k = 3 \/ k = 4
    OBVIOUS
  <2> QED
    BY <1>1, <1>4, <1>5, <1>6, <2>1
<1>8. ASSUME NEW k \in 1..4 PROVE wire[k] = KeyByte(c, k)
  <2>1. frames \in Seq(Nat)
    BY DEF FrameTypes
  <2> DEFINE b == wire[k]
             x == 2 + e + k
  <2>2. OfAFrame(b) /\ b.frame = c /\ Place(b) = x /\ x = 2 + e + k
    BY <1>7
  <2> HIDE DEF b, x
  <2>3. b = KeyByte(c, k)
    BY <2>1, <2>2, IsByte
  <2> QED
    BY <2>3 DEF b
<1> QED
  BY <1>1, <1>6, <1>8 DEF z

(* The key. *)
LEMMA FrameKey == ASSUME FrameInv, Frame!RecvKey PROVE FrameInv'
<1>1. /\ recvPc = "key" /\ recvPc' = "data" /\ Frame!Read(4) /\ frames' = frames
      /\ head' = [head EXCEPT !.key = Frame!Taken(4)]
      /\ size' = size /\ got' = got /\ aligned' = (aligned /\ Frame!Takes(4) = 4)
  BY DEF Frame!RecvKey
<1>2. FrameTypes /\ 4 \in Nat \ {0}
  BY DEF FrameInv
<1> DEFINE m == Frame!Takes(4)
<1>3. /\ Frame!Taken(4) \in Seq(StreamBytes) /\ Len(Frame!Taken(4)) = m
      /\ \A i \in 1..m : Frame!Taken(4)[i] = wire[i]
  BY <1>1, <1>2, TakenAre
<1> HIDE DEF m
<1>h. /\ head' \in [length: Nat, key: Seq(StreamBytes)] /\ head'.length = head.length
      /\ head'.key = Frame!Taken(4)
  BY <1>1, <1>2, <1>3 DEF FrameTypes
<1>4. FrameTypes'
  <2>1. wire' \in Seq(StreamBytes) /\ arrived' \in 0..Len(wire')
    BY <1>1, <1>2, ReadIs
  <2> QED
    BY <1>1, <1>2, <1>h, <2>1 DEF FrameTypes
<1>5. ASSUME aligned' PROVE Contiguous' /\ \E c \in 1..Len(frames') + 1 : Reads(c)'
  <2>0. aligned /\ m = 4
    BY <1>1, <1>5 DEF m
  <2>1. PICK c \in 1..Len(frames) + 1 : Contiguous /\ Reads(c)
    BY <2>0 DEF FrameInv
  <2>k. /\ Expects(c, 3 + Frame!Ext(frames[c])) /\ Delivered(c, 0) /\ size = 0 /\ HeadIs(c)
        /\ c \in 1..Len(frames) /\ frames[c] \in Nat
    BY <1>1, <1>2, <2>1 DEF Reads, HeadIs, FrameTypes
  <2>e. PICK e \in {0, 2}, f \in Nat, o \in Nat :
          frames[c] = f /\ Frame!Ext(f) = e /\ o = 3 + e
    BY <2>k, ExtIs
  <2>o. o = 3 + e /\ Frame!Ext(frames[c]) = e
    BY <2>e
  <2>2. Expects(c, o) /\ Delivered(c, 0) /\ size = 0 /\ HeadIs(c)
    BY <2>k, <2>o
  <2>3. Contiguous'
    BY <1>1, <1>2, <2>1, ReadIs
  <2>a. /\ 4 \in 1..arrived /\ wire' = SubSeq(wire, 4 + 1, Len(wire))
        /\ arrived' = arrived - 4
    BY <1>1, <1>2, <2>0, AllAreRead DEF m
  <2>6. /\ FrameSize(f) = 6 + e + f /\ wire[4].frame = c /\ Place(wire[4]) = 6 + e
        /\ \A k \in 1..4 : wire[k] = KeyByte(c, k)
    BY <1>2, <2>1, <2>2, <2>k, <2>e, <2>a, <2>o, KeyIsThere
  <2>7. Len(head'.key) = 4 /\ \A k \in 1..4 : head'.key[k] = KeyByte(c, k)
    BY <1>3, <1>h, <2>0, <2>6
  <2>8. HeadIs(c)' /\ Delivered(c, 0)' /\ size' = 0 /\ size' % 4 = 0
    <3>1. 0 % 4 = 0
      OBVIOUS
    <3> QED
      BY <1>1, <1>h, <2>2, <3>1 DEF HeadIs, Delivered
  <2>9. PICK d, p, q : d = c + 1 /\ p = 6 + e /\ q = 7 + e /\ q = p + 1 /\ q = 7 + e + 0
    <3>1. (6 + e) + 1 = 7 + e /\ 7 + e = 7 + e + 0
      BY <2>e
    <3> QED
      BY <3>1
  <2>10. IF p = FrameSize(frames[c]) THEN Expects(d, 1)' ELSE Expects(c, q)'
    <3>1. FrameTypes /\ Contiguous /\ frames' = frames /\ Place(wire[4]) = p
      BY <1>1, <1>2, <2>1, <2>6, <2>9
    <3>2. PICK k \in 1..arrived : /\ wire' = SubSeq(wire, k + 1, Len(wire))
                                  /\ arrived' = arrived - k
                                  /\ wire[k].frame = c /\ Place(wire[k]) = p
      BY <2>a, <2>6, <3>1
    <3> QED
      BY <2>9, <3>1, <3>2, ExpectsNext
  <2>11. frames[c] = f /\ frames'[c] = f /\ frames' = frames
    BY <1>1, <2>e
  <2>12. CASE f = 0
    <3>1. p = FrameSize(frames[c])
      BY <2>e, <2>6, <2>9, <2>11, <2>12
    <3>2. Expects(d, 1)'
      BY <2>10, <3>1
    <3>3. Expects(c + 1, 1)'
      BY <2>9, <3>2
    <3> QED
      BY <1>1, <2>1, <2>3, <2>7, <2>8, <2>11, <2>12, <3>3 DEF Reads
  <2>13. CASE f # 0
    <3>1. p # FrameSize(frames[c]) /\ 0 < f
      BY <2>e, <2>6, <2>9, <2>11, <2>13
    <3>2. Expects(c, q)'
      BY <2>10, <3>1
    <3>3. size' < frames'[c] /\ q = 7 + Frame!Ext(frames'[c]) + size'
      BY <2>o, <2>8, <2>9, <2>11, <3>1
    <3>4. Expects(c, 7 + Frame!Ext(frames[c]) + size)'
      BY <3>2, <3>3
    <3> QED
      BY <1>1, <2>1, <2>3, <2>7, <2>8, <2>11, <3>3, <3>4 DEF Reads
  <2> QED
    BY <2>12, <2>13
<1> QED
  BY <1>4, <1>5 DEF FrameInv

(* The key's turns: a piece that starts after a multiple of four bytes is  *)
(* unmasked with the key from its start.                                   *)
LEMMA TurnsAre ==
  ASSUME NEW s \in Nat, s % 4 = 0, NEW i \in Nat \ {0}
  PROVE  ((s + i) - 1) % 4 = (i - 1) % 4 /\ ((i - 1) % 4) + 1 \in 1..4
<1>1. PICK q \in Nat : s = 4 * q
  <2>1. s = 4 * (s \div 4) /\ s \div 4 \in Nat
    OBVIOUS
  <2> QED
    BY <2>1
<1>2. PICK r \in Nat, t \in 0..3 : i - 1 = 4 * r + t
  <2> DEFINE d == i - 1
  <2>1. d \in Nat
    OBVIOUS
  <2> HIDE DEF d
  <2>2. d = 4 * (d \div 4) + (d % 4) /\ d \div 4 \in Nat /\ d % 4 \in 0..3
    BY <2>1
  <2> QED
    BY <2>2 DEF d
<1>3. (i - 1) % 4 = t
  <2>1. (4 * r + t) % 4 = t
    OBVIOUS
  <2> QED
    BY <1>2, <2>1
<1>4. ((s + i) - 1) % 4 = t
  <2>1. (s + i) - 1 = 4 * (q + r) + t
    BY <1>1, <1>2
  <2> DEFINE u == q + r
  <2>2. u \in Nat /\ (s + i) - 1 = 4 * u + t
    BY <2>1
  <2> HIDE DEF u
  <2>3. (4 * u + t) % 4 = t
    BY <2>2
  <2> QED
    BY <2>2, <2>3
<1> QED
  BY <1>3, <1>4

(* A read() that stays in a payload takes the bytes of it that are next. *)
LEMMA PieceIs ==
  ASSUME FrameTypes, Contiguous, NEW c, Reads(c), recvPc = "data", Frame!Read(Buffer),
         NEW m, m = Frame!Takes(Buffer), Frame!IsPiece(Frame!Taken(Buffer))
  PROVE  /\ m \in Nat \ {0} /\ HeadIs(c) /\ size + m <= frames[c]
         /\ \A i \in 1..m : Frame!Taken(Buffer)[i] = Frame!Typed(c, size + i)
         /\ (size + m) % 4 = 0 \/ size + m = frames[c]
         /\ wire[m].frame = c /\ Place(wire[m]) = 6 + Frame!Ext(frames[c]) + size + m
<1> DEFINE t == Frame!Taken(Buffer)
<1>0. Buffer \in Nat \ {0} /\ size \in Nat /\ frames \in Seq(Nat) /\ Len(wire) \in Nat
  BY LengthsAreNumbers DEF FrameTypes
<1>1. /\ arrived > 0 /\ m \in 1..arrived /\ t \in Seq(StreamBytes) /\ Len(t) = m
      /\ \A i \in 1..m : t[i] = wire[i]
  BY <1>0, TakenAre
<1>2. m \in 1..Len(wire) /\ m \in Nat \ {0} /\ 1 \in 1..m /\ 1 \in 1..Len(wire)
  BY <1>1 DEF FrameTypes
<1>3. /\ \A i \in 1..m : wire[i].part = "data" /\ wire[i].frame = wire[m].frame
      /\ wire[m].at % 4 = 0 \/ wire[m].at = frames[wire[m].frame]
  <2>1. DOMAIN t = 1..m /\ t[Len(t)] = wire[m] /\ m \in 1..m
    BY <1>1, <1>2
  <2>2. Frame!IsPiece(t)
    OBVIOUS
  <2> HIDE DEF t
  <2>3. /\ \A i \in DOMAIN t : t[i].part = "data" /\ t[i].frame = t[Len(t)].frame
        /\ t[Len(t)].at % 4 = 0 \/ t[Len(t)].at = frames[t[Len(t)].frame]
    BY <2>2 DEF Frame!IsPiece
  <2>4. \A i \in 1..m : t[i].part = "data" /\ t[i].frame = wire[m].frame
    BY <2>1, <2>3
  <2> QED
    BY <1>1, <2>1, <2>3, <2>4
<1>4. /\ HeadIs(c) /\ c \in 1..Len(frames) /\ frames[c] \in Nat
      /\ \/ size < frames[c] /\ Expects(c, 7 + Frame!Ext(frames[c]) + size)
         \/ Expects(c + 1, 1)
  BY <1>0 DEF Reads, HeadIs
<1> PICK f \in Nat, e \in {0, 2} : frames[c] = f /\ Frame!Ext(f) = e
  BY <1>4, ExtIs
<1>5. ~Expects(c + 1, 1)
  <2> SUFFICES ASSUME Expects(c + 1, 1) PROVE FALSE
    OBVIOUS
  <2> DEFINE d == c + 1
  <2>0. Expects(d, 1)
    OBVIOUS
  <2> HIDE DEF d
  <2>1. OfAFrame(wire[1]) /\ wire[1].frame = d /\ Place(wire[1]) = 1 /\ d \in 1..Len(frames)
    BY <1>1, <2>0, AtHead
  <2>2. PICK g : g = Frame!Ext(frames[d])
    OBVIOUS
  <2>3. g \in {0, 2}
    BY <1>0, <2>1, <2>2, ExtIs
  <2>4. wire[1].part = "data" <=> 1 > 6 + g
    BY <1>0, <2>1, <2>2, IsByte
  <2> QED
    BY <1>2, <1>3, <2>3, <2>4
<1>6. size < f /\ Expects(c, 7 + e + size)
  BY <1>4, <1>5
<1>7. wire[1].frame = c /\ Place(wire[1]) = 7 + e + size
  BY <1>1, <1>6, AtHead
<1>8. ASSUME NEW i \in 1..m
      PROVE  /\ OfAFrame(wire[i]) /\ wire[i].frame = c /\ Place(wire[i]) = 6 + e + (size + i)
  <2>1. i \in 1..Len(wire) /\ i \in Nat
    BY <1>2
  <2>2. wire[i].frame = c
    BY <1>2, <1>3, <1>7
  <2>3. OfAFrame(wire[i]) /\ Place(wire[i]) - Place(wire[1]) = i - 1
    BY <1>2, <1>7, <2>1, <2>2 DEF Contiguous
  <2> DEFINE x == Place(wire[i])
  <2>4. x \in Nat
    <3>1. x \in 1..FrameSize(frames[c]) /\ FrameSize(frames[c]) = 6 + e + f
      BY <1>0, <2>2, <2>3, PlaceTells
    <3> QED
      BY <3>1
  <2>5. x - (7 + e + size) = i - 1
    BY <1>7, <2>3
  <2> HIDE DEF x
  <2>6. x = 6 + e + (size + i)
    BY <1>0, <2>1, <2>4, <2>5
  <2> QED
    BY <2>2, <2>3, <2>6 DEF x
<1>9. ASSUME NEW i \in 1..m
      PROVE  wire[i] = Frame!Typed(c, size + i) /\ size + i \in 1..f
  <2> DEFINE b == wire[i]
  <2>0. OfAFrame(b) /\ b.frame = c /\ Place(b) = 6 + e + (size + i)
    BY <1>8
  <2> HIDE DEF b
  <2>1. PICK k \in Nat, o \in Nat : k = size + i /\ o = 6 + e + k /\ o > 6 + e
    <3>1. size + i \in Nat /\ 6 + e + (size + i) \in Nat /\ 6 + e + (size + i) > 6 + e
      BY <1>0
    <3> QED
      BY <3>1
  <2>2. Place(b) = o
    BY <2>0, <2>1
  <2>3. b = Frame!Typed(c, k) /\ k \in 1..frames[c]
    BY <1>0, <2>0, <2>1, <2>2, IsByte
  <2> QED
    BY <2>1, <2>3 DEF b
<1>10. m \in 1..m /\ wire[m] = Frame!Typed(c, size + m) /\ size + m \in 1..f
  BY <1>2, <1>9
<1>11. (size + m) % 4 = 0 \/ size + m = f
  BY <1>3, <1>10 DEF Frame!Typed
<1>12. size + m <= f /\ 6 + e + (size + m) = 6 + e + size + m
  BY <1>0, <1>2, <1>10
<1> QED
  BY <1>1, <1>2, <1>4, <1>8, <1>9, <1>10, <1>11, <1>12

(* It is unmasked as what it is. *)
LEMMA UnmaskedIs ==
  ASSUME size \in Nat, size % 4 = 0, NEW c, NEW m \in Nat,
         NEW t, t \in Seq(StreamBytes), Len(t) = m,
         \A i \in 1..m : t[i] = Frame!Typed(c, size + i),
         Len(head.key) = 4, \A k \in 1..4 : head.key[k] = KeyByte(c, k)
  PROVE  Frame!umask(t) = t
<1>1. DOMAIN t = 1..m
  OBVIOUS
<1>2. ASSUME NEW i \in 1..m PROVE Frame!Unmasked(t[i], i) = t[i]
  <2>1. i \in Nat \ {0}
    OBVIOUS
  <2> DEFINE k == ((i - 1) % 4) + 1
  <2>2. k \in 1..4 /\ ((size + i) - 1) % 4 = (i - 1) % 4
    BY <2>1, TurnsAre
  <2>3. /\ t[i] = [frame |-> c, part |-> "data", at |-> size + i]
        /\ ((t[i].at - 1) % 4) + 1 = k
    BY <2>2 DEF Frame!Typed
  <2>4. head.key[k] = [frame |-> t[i].frame, part |-> "key", at |-> ((t[i].at - 1) % 4) + 1]
    BY <2>2, <2>3 DEF KeyByte
  <2>5. k <= Len(head.key)
    BY <2>2
  <2>6. t[i].part = "data"
    BY <2>3
  <2> HIDE DEF k
  <2> QED
    BY <2>4, <2>5, <2>6 DEF Frame!Unmasked, k
<1>3. Frame!umask(t) = [i \in 1..m |-> t[i]]
  BY <1>1, <1>2 DEF Frame!umask
<1> QED
  BY <1>1, <1>3

(* A piece of the payload. *)
LEMMA FrameData == ASSUME FrameInv, Frame!RecvData PROVE FrameInv'
<1> DEFINE t == Frame!Taken(Buffer)
<1>1. FrameTypes /\ Buffer \in Nat \ {0}
  BY LengthsAreNumbers DEF FrameInv
<1>2. /\ recvPc = "data" /\ Frame!Read(Buffer) /\ frames' = frames /\ head' = head
      /\ size' = size + Len(t) /\ aligned' = (aligned /\ Frame!IsPiece(t))
      /\ IF size + Len(t) > Buffer
         THEN recvPc' = "undefined" /\ got' = got
         ELSE /\ got' = got \o Frame!umask(t)
              /\ recvPc' = IF Frame!GoesOn(size + Len(t)) THEN "data" ELSE "op"
  BY DEF Frame!RecvData
<1>3. PICK m : m = Frame!Takes(Buffer)
  OBVIOUS
<1>4. /\ m \in 1..arrived /\ m \in Nat \ {0} /\ t \in Seq(StreamBytes) /\ Len(t) = m
      /\ wire' = SubSeq(wire, m + 1, Len(wire)) /\ arrived' = arrived - m
  <2>1. /\ m \in 1..arrived /\ t \in Seq(StreamBytes) /\ Len(t) = m
        /\ wire' = SubSeq(wire, m + 1, Len(wire)) /\ arrived' = arrived - m
    BY <1>1, <1>2, <1>3, TakenAre
  <2> QED
    BY <1>1, <2>1 DEF FrameTypes
<1>5. size' = size + m /\ size \in Nat /\ frames \in Seq(Nat) /\ Len(wire) \in Nat
  BY <1>1, <1>2, <1>4 DEF FrameTypes
<1>6. FrameTypes'
  <2>1. wire' \in Seq(StreamBytes) /\ arrived' \in 0..Len(wire')
    BY <1>1, <1>2, ReadIs
  <2>2. recvPc' \in {"undefined", "data", "op"}
    BY <1>2
  <2>3. size' \in Nat
    BY <1>4, <1>5
  <2> HIDE DEF t
  <2> QED
    BY <1>1, <1>2, <2>1, <2>2, <2>3 DEF FrameTypes
<1>7. ASSUME aligned' PROVE Contiguous' /\ \E c \in 1..Len(frames') + 1 : Reads(c)'
  <2>0. aligned /\ Frame!IsPiece(t)
    BY <1>2, <1>7
  <2>1. PICK c \in 1..Len(frames) + 1 : Contiguous /\ Reads(c)
    BY <2>0 DEF FrameInv
  <2>2. /\ HeadIs(c) /\ Delivered(c, size) /\ size % 4 = 0
        /\ Len(head.key) = 4 /\ \A k \in 1..4 : head.key[k] = KeyByte(c, k)
    BY <1>2, <2>1 DEF Reads
  <2>3. Contiguous'
    BY <1>1, <1>2, <2>1, ReadIs
  <2>4. /\ size + m <= frames[c]
        /\ \A i \in 1..m : t[i] = Frame!Typed(c, size + i)
        /\ (size + m) % 4 = 0 \/ size + m = frames[c]
        /\ wire[m].frame = c /\ Place(wire[m]) = 6 + Frame!Ext(frames[c]) + size + m
    BY <1>1, <1>2, <1>3, <2>0, <2>1, PieceIs
  <2>5. Frame!umask(t) = t
    BY <1>4, <1>5, <2>2, <2>4, UnmaskedIs
  <2>6. c \in 1..Len(frames) /\ frames[c] \in Nat /\ head.length = frames[c]
    BY <1>5, <2>2 DEF HeadIs
  <2> HIDE DEF t
  <2>7. PICK f \in Nat, e \in {0, 2}, s \in Nat :
          frames[c] = f /\ Frame!Ext(f) = e /\ s = size
    BY <1>5, <2>6, ExtIs
  <2>8. FrameSize(frames[c]) = 6 + e + f
    BY <2>7 DEF FrameSize
  <2>9. CASE size + m > Buffer
    <3>1. recvPc' = "undefined" /\ got' = got
      BY <1>2, <1>4, <2>9
    <3>2. Delivered(c, s)'
      <4>1. Delivered(c, s) /\ Len(frames) <= Len(frames')
        BY <1>2, <1>5, <2>2, <2>7
      <4> QED
        BY <1>2, <1>5, <2>6, <3>1, <4>1, DeliveredStays
    <3>3. frames'[c] > Buffer /\ c \in 1..Len(frames') /\ c <= Len(frames')
      <4>1. f > Buffer
        BY <1>1, <1>4, <1>5, <2>4, <2>7, <2>9
      <4> QED
        BY <1>2, <2>6, <2>7, <4>1
    <3>4. Reads(c)'
      BY <1>2, <2>1, <3>1, <3>2, <3>3 DEF Reads
    <3> QED
      BY <1>2, <2>1, <2>3, <3>4
  <2>10. CASE ~(size + m > Buffer)
    <3>1. /\ got' = got \o t
          /\ recvPc' = IF size + m < frames[c] THEN "data" ELSE "op"
      BY <1>2, <1>4, <2>5, <2>6, <2>10 DEF Frame!GoesOn
    <3>2. PICK k \in Nat, z \in Nat, q \in Nat, d \in Nat :
            k = s + m /\ z = 6 + e + k /\ q = z + 1 /\ d = c + 1
      <4>1. s + m \in Nat /\ 6 + e + (s + m) \in Nat /\ 6 + e + (s + m) + 1 \in Nat /\ c + 1 \in Nat
        BY <1>4, <2>6, <2>7
      <4> QED
        BY <4>1
    <3>3. k = size + m /\ k <= f /\ (k % 4 = 0 \/ k = f) /\ size' = k
      BY <1>5, <2>4, <2>7, <3>2
    <3>4. wire[m].frame = c /\ Place(wire[m]) = z
      <4>1. 6 + e + (s + m) = 6 + e + s + m
        BY <1>4
      <4> QED
        BY <2>4, <2>7, <3>2, <4>1
    <3>5. Delivered(c, k)'
      <4>1. \A i \in 1..m : t[i] = Frame!Typed(c, s + i)
        BY <2>4, <2>7
      <4>2. Delivered(c, s) /\ s + m <= frames[c]
        BY <2>2, <2>4, <2>7
      <4>3. Delivered(c, s + m)'
        BY <1>2, <1>4, <1>5, <2>6, <2>7, <3>1, <4>1, <4>2, DeliveredMore
      <4> QED
        BY <3>2, <4>3
    <3>6. IF z = FrameSize(frames[c]) THEN Expects(d, 1)' ELSE Expects(c, q)'
      BY <1>1, <1>2, <1>4, <2>1, <3>2, <3>4, ExpectsNext
    <3>7. CASE k < f
      <4>1. recvPc' = "data" /\ k % 4 = 0
        BY <2>7, <3>1, <3>3, <3>7
      <4>2. Expects(c, q)'
        <5>1. z # 6 + e + f
          BY <2>7, <3>2, <3>7
        <5> QED
          BY <2>8, <3>6, <5>1
      <4>3. q = 7 + e + k
        BY <2>7, <3>2
      <4>4. Expects(c, 7 + e + k)'
        BY <4>2, <4>3
      <4>5. HeadIs(c)'
        BY <1>2, <2>2 DEF HeadIs
      <4>6. /\ size' = k /\ k < frames'[c] /\ Frame!Ext(frames'[c]) = e /\ frames' = frames
        BY <1>2, <2>7, <3>3, <3>7
      <4>7. Reads(c)'
        BY <1>2, <2>1, <2>2, <3>5, <4>1, <4>4, <4>5, <4>6 DEF Reads
      <4> QED
        BY <1>2, <2>1, <2>3, <4>7
    <3>8. CASE k = f
      <4>1. recvPc' = "op"
        <5>1. ~(size + m < frames[c])
          BY <2>7, <3>3, <3>8
        <5> QED
          BY <3>1, <5>1
      <4>2. Expects(d, 1)'
        BY <2>8, <3>2, <3>6, <3>8
      <4>3. Delivered(d, 0)'
        BY <1>2, <1>5, <2>6, <2>7, <3>2, <3>5, <3>8, DeliveredFrame
      <4>4. d \in 1..Len(frames') + 1
        BY <1>2, <1>5, <2>6, <3>2
      <4>5. Reads(d)'
        BY <4>1, <4>2, <4>3, <4>4 DEF Reads
      <4> QED
        BY <2>3, <4>4, <4>5
    <3> QED
      BY <3>3, <3>7, <3>8
  <2> QED
    BY <2>9, <2>10
<1> QED
  BY <1>6, <1>7 DEF FrameInv

-----------------------------------------------------------------------------
(* The other steps, and the theorem.                                       *)

(* The page sends a frame. *)
LEMMA FrameSends == ASSUME FrameInv, NEW n \in Lengths, Frame!PageSends(n) PROVE FrameInv'
<1>1. /\ ~gone /\ frames' = Append(frames, n) /\ wire' = wire \o Frame!Frame(Len(frames'), n)
      /\ arrived' = arrived /\ recvPc' = recvPc /\ head' = head /\ size' = size
      /\ got' = got /\ aligned' = aligned
  BY DEF Frame!PageSends
<1>2. FrameTypes /\ n \in Nat
  BY LengthsAreNumbers DEF FrameInv
<1>3. FrameTypes'
  <2>1. /\ frames \in Seq(Nat) /\ wire \in Seq(StreamBytes) /\ Len(wire) \in Nat
        /\ Len(frames) \in Nat /\ arrived \in 0..Len(wire)
    BY <1>2 DEF FrameTypes
  <2>2. frames' \in Seq(Nat) /\ Len(frames') = Len(frames) + 1
    BY <1>1, <1>2, <2>1, AppendProperties
  <2> DEFINE s == Frame!Frame(Len(frames'), n)
  <2>3. s \in Seq(StreamBytes)
    <3>1. Len(frames') \in Nat
      BY <2>1, <2>2
    <3>2. \A f \in Nat : Begins(Frame!Frame(f, n), f, n, FrameSize(n))
      BY <1>2, FrameIs
    <3> QED
      BY <3>1, <3>2 DEF Begins
  <2>4. wire' \in Seq(StreamBytes) /\ Len(wire') = Len(wire) + Len(s) /\ Len(s) \in Nat
    <3>1. wire' = wire \o s
      BY <1>1
    <3> HIDE DEF s
    <3> QED
      BY <2>1, <2>3, <3>1, ConcatProperties
  <2> HIDE DEF s
  <2>5. arrived' \in 0..Len(wire')
    BY <1>1, <2>1, <2>4
  <2> QED
    BY <1>1, <1>2, <2>2, <2>4, <2>5 DEF FrameTypes
<1>4. ASSUME aligned' PROVE Contiguous' /\ \E c \in 1..Len(frames') + 1 : Reads(c)'
  <2>1. PICK c \in 1..Len(frames) + 1 : Contiguous /\ Reads(c)
    BY <1>1, <1>4 DEF FrameInv
  <2>2. /\ frames' \in Seq(Nat) /\ Len(frames') = Len(frames) + 1
        /\ \A f \in 1..Len(frames) : frames'[f] = frames[f]
        /\ Contiguous' /\ \A b, o : Expects(b, o) => Expects(b, o)'
    BY <1>1, <1>2, <2>1, Sending
  <2>3. frames \in Seq(Nat) /\ Len(frames) \in Nat /\ size \in Nat
    BY <1>2 DEF FrameTypes
  <2>4. /\ Len(frames) <= Len(frames') /\ c \in 1..Len(frames') + 1
        /\ c \in 1..Len(frames) => c \in 1..Len(frames') /\ frames'[c] = frames[c]
        /\ c <= Len(frames) => c \in 1..Len(frames) /\ c <= Len(frames')
    BY <2>2, <2>3
  <2>5. \A k \in Nat : Delivered(c, k) /\ (c \in 1..Len(frames) \/ k = 0) => Delivered(c, k)'
    BY <1>1, <2>2, <2>3, <2>4, DeliveredStays
  <2>6. ASSUME HeadIs(c) PROVE HeadIs(c)' /\ c \in 1..Len(frames) /\ frames'[c] = frames[c]
    BY <1>1, <2>4, <2>6 DEF HeadIs
  <2>7. Reads(c)'
    <3>1. CASE recvPc \in {"op", "len"}
      <4>1. Delivered(c, 0)'
        BY <2>1, <2>5, <3>1 DEF Reads
      <4>2. /\ recvPc = "op" => Expects(c, 1)'
            /\ recvPc = "len" => Expects(c, 2)' /\ size = 0
        BY <2>1, <2>2 DEF Reads
      <4> QED
        BY <1>1, <2>4, <3>1, <4>1, <4>2 DEF Reads
    <3>2. CASE recvPc = "ext"
      <4>1. HeadIs(c) /\ Expects(c, 3) /\ Frame!Ext(frames[c]) = 2 /\ Delivered(c, 0) /\ size = 0
        BY <2>1, <3>2 DEF Reads
      <4>2. HeadIs(c)' /\ Frame!Ext(frames'[c]) = 2 /\ Delivered(c, 0)' /\ Expects(c, 3)'
        BY <2>2, <2>5, <2>6, <4>1
      <4> QED
        BY <1>1, <2>4, <3>2, <4>1, <4>2 DEF Reads
    <3>3. CASE recvPc = "key"
      <4>1. /\ HeadIs(c) /\ Expects(c, 3 + Frame!Ext(frames[c]))
            /\ Delivered(c, 0) /\ size = 0
        BY <2>1, <3>3 DEF Reads
      <4>2. PICK o : o = 3 + Frame!Ext(frames[c])
        OBVIOUS
      <4>3. Expects(c, o)' /\ o = 3 + Frame!Ext(frames'[c])
        BY <2>2, <2>6, <4>1, <4>2
      <4>4. HeadIs(c)' /\ Delivered(c, 0)' /\ Expects(c, 3 + Frame!Ext(frames[c]))'
        BY <2>5, <2>6, <4>1, <4>3
      <4> QED
        BY <1>1, <2>4, <3>3, <4>1, <4>4 DEF Reads
    <3>4. CASE recvPc = "data"
      <4>1. /\ HeadIs(c) /\ Delivered(c, size)
            /\ Len(head.key) = 4 /\ \A k \in 1..4 : head.key[k] = KeyByte(c, k)
            /\ size % 4 = 0
            /\ \/ size < frames[c] /\ Expects(c, 7 + Frame!Ext(frames[c]) + size)
               \/ size = 0 /\ frames[c] = 0 /\ Expects(c + 1, 1)
        BY <2>1, <3>4 DEF Reads
      <4>2. HeadIs(c)' /\ c \in 1..Len(frames) /\ frames'[c] = frames[c]
        BY <2>6, <4>1
      <4>3. Delivered(c, size)'
        <5>1. PICK s \in Nat : s = size
          BY <2>3
        <5>2. Delivered(c, s)'
          BY <2>5, <4>1, <4>2, <5>1
        <5> QED
          BY <1>1, <5>1, <5>2
      <4>4. \/ size < frames'[c] /\ Expects(c, 7 + Frame!Ext(frames[c]) + size)'
            \/ size = 0 /\ frames'[c] = 0 /\ Expects(c + 1, 1)'
        <5>1. PICK o, d : o = 7 + Frame!Ext(frames[c]) + size /\ d = c + 1
          OBVIOUS
        <5>2. \/ size < frames'[c] /\ Expects(c, o)'
              \/ size = 0 /\ frames'[c] = 0 /\ Expects(d, 1)'
          BY <2>2, <4>1, <4>2, <5>1
        <5>3. o = 7 + Frame!Ext(frames'[c]) + size'
          BY <1>1, <4>2, <5>1
        <5> QED
          BY <5>1, <5>2, <5>3
      <4> QED
        BY <1>1, <2>4, <3>4, <4>1, <4>2, <4>3, <4>4 DEF Reads
    <3>5. recvPc # "end"
      BY <1>1, <2>1 DEF Reads
    <3>6. CASE recvPc = "undefined"
      <4>1. /\ c \in 1..Len(frames) /\ c <= Len(frames')
            /\ \E k \in Nat : Delivered(c, k)
            /\ \E f \in 1..Len(frames) : frames[f] > Buffer
        BY <2>1, <2>4, <3>6 DEF Reads
      <4>2. PICK k \in Nat : Delivered(c, k)
        BY <4>1
      <4>3. Delivered(c, k)'
        BY <2>5, <4>1, <4>2
      <4>4. PICK f \in 1..Len(frames) : frames[f] > Buffer
        BY <4>1
      <4>5. f \in 1..Len(frames') /\ frames'[f] > Buffer
        BY <2>2, <2>3, <4>4
      <4> QED
        BY <1>1, <2>4, <3>6, <4>1, <4>3, <4>5 DEF Reads
    <3>7. recvPc \in {"op", "len", "ext", "key", "data", "end", "undefined"}
      BY <1>2 DEF FrameTypes
    <3> QED
      BY <3>1, <3>2, <3>3, <3>4, <3>5, <3>6, <3>7
  <2> QED
    BY <2>2, <2>4, <2>7
<1> QED
  BY <1>3, <1>4 DEF FrameInv

(* The end of the stream, met with nothing left to read. *)
LEMMA FrameEnds == ASSUME FrameInv, Frame!RecvEnds PROVE FrameInv'
<1>1. /\ recvPc \notin {"end", "undefined"} /\ gone /\ wire = <<>> /\ recvPc' = "end"
      /\ frames' = frames /\ wire' = wire /\ arrived' = arrived /\ gone' = gone
      /\ head' = head /\ size' = size /\ got' = got /\ aligned' = aligned
  BY DEF Frame!RecvEnds
<1>2. FrameTypes /\ FrameTypes'
  BY <1>1 DEF FrameInv, FrameTypes
<1>3. ASSUME aligned' PROVE Contiguous' /\ \E c \in 1..Len(frames') + 1 : Reads(c)'
  <2>1. PICK c \in 1..Len(frames) + 1 : Contiguous /\ Reads(c)
    BY <1>1, <1>3 DEF FrameInv
  <2>2. /\ frames \in Seq(Nat) /\ Len(frames) \in Nat /\ size \in Nat /\ Len(wire) = 0
        /\ recvPc \in {"op", "len", "ext", "key", "data"}
    BY <1>1, <1>2 DEF FrameTypes
  <2>3. Contiguous'
    BY <1>1, <2>1 DEF Contiguous, OfAFrame, Follows, Place, FrameSize
  <2>4. \A b, o : Expects(b, o) => b = Len(frames) + 1 /\ o = 1
    BY <2>2 DEF Expects
  <2>5. \A d \in 1..Len(frames) + 1 : d = Len(frames) + 1 /\ Delivered(d, 0) => Reads(d)'
    BY <1>1 DEF Reads, Delivered
  <2>6. CASE recvPc = "op"
    <3>1. Expects(c, 1) /\ Delivered(c, 0)
      BY <2>1, <2>6 DEF Reads
    <3> QED
      BY <1>1, <2>3, <2>4, <2>5, <3>1
  <2>7. recvPc # "len"
    <3> SUFFICES ASSUME recvPc = "len" PROVE FALSE
      OBVIOUS
    <3>1. Expects(c, 2)
      BY <2>1 DEF Reads
    <3> QED
      BY <2>4, <3>1
  <2>8. recvPc # "ext"
    <3> SUFFICES ASSUME recvPc = "ext" PROVE FALSE
      OBVIOUS
    <3>1. Expects(c, 3)
      BY <2>1 DEF Reads
    <3> QED
      BY <2>4, <3>1
  <2>9. recvPc # "key"
    <3> SUFFICES ASSUME recvPc = "key" PROVE FALSE
      OBVIOUS
    <3>1. Expects(c, 3 + Frame!Ext(frames[c])) /\ c \in 1..Len(frames)
      BY <2>1 DEF Reads, HeadIs
    <3>2. c # Len(frames) + 1
      BY <2>2, <3>1
    <3> QED
      BY <2>4, <3>1, <3>2
  <2>10. CASE recvPc = "data"
    <3>1. /\ c \in 1..Len(frames) /\ Delivered(c, size)
          /\ \/ Expects(c, 7 + Frame!Ext(frames[c]) + size)
             \/ size = 0 /\ frames[c] = 0 /\ Expects(c + 1, 1)
      BY <2>1, <2>10 DEF Reads, HeadIs
    <3>2. c # Len(frames) + 1
      BY <2>2, <3>1
    <3>3. size = 0 /\ frames[c] = 0 /\ c + 1 = Len(frames) + 1
      BY <2>4, <3>1, <3>2
    <3>4. PICK d \in 1..Len(frames) + 1 : d = c + 1 /\ d = Len(frames) + 1
      <4>1. Len(frames) + 1 \in 1..Len(frames) + 1
        BY <2>2
      <4> QED
        BY <3>3, <4>1
    <3>5. Delivered(c, 0)
      BY <3>1, <3>3
    <3>6. Delivered(d, 0)
      BY <1>1, <2>2, <3>1, <3>3, <3>4, <3>5, DeliveredFrame
    <3> QED
      BY <1>1, <2>3, <2>5, <3>4, <3>6
  <2> QED
    BY <2>2, <2>6, <2>7, <2>8, <2>9, <2>10
<1> QED
  BY <1>2, <1>3 DEF FrameInv

(* What leaves the frames, the wire and the reading as they are. *)
LEMMA FrameRests ==
  ASSUME FrameInv, frames' = frames, wire' = wire, arrived' \in 0..Len(wire),
         gone => gone', recvPc' = recvPc, head' = head, size' = size, got' = got,
         aligned' = aligned
  PROVE  FrameInv'
<1>1. FrameTypes'
  BY DEF FrameInv, FrameTypes
<1>2. ASSUME aligned' PROVE Contiguous' /\ \E c \in 1..Len(frames') + 1 : Reads(c)'
  <2>1. PICK c \in 1..Len(frames) + 1 : Contiguous /\ Reads(c)
    BY <1>2 DEF FrameInv
  <2>2. Contiguous'
    BY <2>1 DEF Contiguous, OfAFrame, Follows, Place, FrameSize
  <2>3. /\ \A b, o : Expects(b, o) => Expects(b, o)'
        /\ \A b, k : Delivered(b, k) => Delivered(b, k)'
        /\ HeadIs(c) => HeadIs(c)'
    BY DEF Expects, Place, Delivered, HeadIs
  <2>4. Reads(c)'
    <3>1. /\ c \in 1..Len(frames') + 1
          /\ recvPc \in {"op", "len", "ext", "key"} => Delivered(c, 0)'
          /\ recvPc \in {"len", "ext", "key"} => size = 0
          /\ recvPc = "op" => Expects(c, 1)'
          /\ recvPc = "len" => Expects(c, 2)'
          /\ recvPc = "ext" => Expects(c, 3)' /\ HeadIs(c)' /\ Frame!Ext(frames[c]) = 2
      BY <2>1, <2>3 DEF Reads
    <3>2. recvPc = "key" => Expects(c, 3 + Frame!Ext(frames[c]))' /\ HeadIs(c)'
      <4>1. PICK o : o = 3 + Frame!Ext(frames[c])
        OBVIOUS
      <4>2. recvPc = "key" => Expects(c, o)' /\ HeadIs(c)'
        BY <2>1, <2>3, <4>1 DEF Reads
      <4>3. o = 3 + Frame!Ext(frames'[c])
        BY <4>1
      <4> QED
        BY <4>2, <4>3
    <3>3. recvPc = "data" =>
            /\ HeadIs(c)' /\ Delivered(c, size)'
            /\ Len(head.key) = 4 /\ \A k \in 1..4 : head.key[k] = KeyByte(c, k)
            /\ size % 4 = 0
            /\ \/ size < frames[c] /\ Expects(c, 7 + Frame!Ext(frames[c]) + size)'
               \/ size = 0 /\ frames[c] = 0 /\ Expects(c + 1, 1)'
      <4> SUFFICES ASSUME recvPc = "data"
                   PROVE  /\ HeadIs(c)' /\ Delivered(c, size)'
                          /\ Len(head.key) = 4 /\ \A k \in 1..4 : head.key[k] = KeyByte(c, k)
                          /\ size % 4 = 0
                          /\ \/ size < frames[c] /\ Expects(c, 7 + Frame!Ext(frames[c]) + size)'
                             \/ size = 0 /\ frames[c] = 0 /\ Expects(c + 1, 1)'
        OBVIOUS
      <4>1. PICK o, d, s : o = 7 + Frame!Ext(frames[c]) + size /\ d = c + 1 /\ s = size
        OBVIOUS
      <4>2. /\ HeadIs(c) /\ Delivered(c, s)
            /\ Len(head.key) = 4 /\ \A k \in 1..4 : head.key[k] = KeyByte(c, k)
            /\ size % 4 = 0
            /\ \/ size < frames[c] /\ Expects(c, o)
               \/ size = 0 /\ frames[c] = 0 /\ Expects(d, 1)
        BY <2>1, <4>1 DEF Reads
      <4>3. /\ HeadIs(c)' /\ Delivered(c, s)'
            /\ \/ size < frames[c] /\ Expects(c, o)'
               \/ size = 0 /\ frames[c] = 0 /\ Expects(d, 1)'
        BY <2>3, <4>2
      <4>4. s = size' /\ o = 7 + Frame!Ext(frames'[c]) + size'
        BY <4>1
      <4> QED
        BY <4>1, <4>2, <4>3, <4>4
    <3>4. /\ recvPc = "end" => c = Len(frames) + 1 /\ gone' /\ Delivered(c, 0)'
          /\ recvPc = "undefined" =>
               /\ c <= Len(frames) /\ \E k \in Nat : Delivered(c, k)'
               /\ \E f \in 1..Len(frames) : frames[f] > Buffer
      BY <2>1, <2>3 DEF Reads
    <3> QED
      BY <3>1, <3>2, <3>3, <3>4 DEF Reads
  <2> QED
    BY <2>1, <2>2, <2>4
<1> QED
  BY <1>1, <1>2 DEF FrameInv

(* The bytes on the wire and the reader's place in them agree. *)
LEMMA FrameNext == FrameInv /\ [Frame!Next]_frameVars => FrameInv'
<1> SUFFICES ASSUME FrameInv, [Frame!Next]_frameVars PROVE FrameInv'
  OBVIOUS
<1>0. arrived \in 0..Len(wire) /\ Len(wire) \in Nat /\ arrived \in Nat
  BY DEF FrameInv, FrameTypes
<1>1. ASSUME Frame!Arrive PROVE FrameInv'
  <2>1. PICK n \in arrived + 1..Len(wire) : arrived' = n
    BY <1>1 DEF Frame!Arrive
  <2>2. arrived' \in 0..Len(wire)
    BY <1>0, <2>1
  <2> QED
    BY <1>1, <2>2, FrameRests DEF Frame!Arrive
<1>2. ASSUME Frame!PageLeaves PROVE FrameInv'
  BY <1>0, <1>2, FrameRests DEF Frame!PageLeaves
<1>3. ASSUME UNCHANGED frameVars PROVE FrameInv'
  BY <1>0, <1>3, FrameRests DEF frameVars
<1> QED
  BY <1>1, <1>2, <1>3, FrameOp, FrameLen, FrameExt, FrameKey, FrameData, FrameEnds, FrameSends
     DEF Frame!Next, Frame!Recv

(* What is typed arrives: in order, without a gap, and all of it in the    *)
(* end, as long as no read() cut a frame where the code cannot bear it;    *)
(* the buffer is passed only by frames longer than it.                     *)
LEMMA FrameInvIntact == FrameInv => TypedArrivesIntact
<1> SUFFICES ASSUME FrameInv, aligned
             PROVE  /\ Frame!Range(got) \subseteq Frame!TypedBytes
                    /\ \A i, j \in DOMAIN got : i < j => Frame!Before(got[i], got[j])
                    /\ \A b \in Frame!TypedBytes, i \in DOMAIN got :
                         Frame!Before(b, got[i]) => b \in Frame!Range(got)
                    /\ wire = <<>> /\ recvPc \in {"op", "end"} =>
                         Frame!TypedBytes \subseteq Frame!Range(got)
                    /\ recvPc = "undefined" => \E f \in DOMAIN frames : frames[f] > Buffer
  BY DEF TypedArrivesIntact, Frame!TypedArrivesIntact
<1>1. PICK c \in 1..Len(frames) + 1 : Contiguous /\ Reads(c)
  BY DEF FrameInv
<1>2. /\ frames \in Seq(Nat) /\ DOMAIN frames = 1..Len(frames) /\ Len(frames) \in Nat
      /\ recvPc \in {"op", "len", "ext", "key", "data", "end", "undefined"} /\ size \in Nat
  BY DEF FrameInv, FrameTypes
<1>3. PICK k \in Nat : Delivered(c, k)
  BY <1>1, <1>2 DEF Reads
<1>4. got \in Seq(StreamBytes) /\ DOMAIN got = 1..Len(got)
  BY <1>3 DEF Delivered
<1>5. \A b : b \in Frame!TypedBytes <=>
        \E f \in 1..Len(frames) : \E j \in 1..frames[f] : b = Frame!Typed(f, j)
  BY <1>2 DEF Frame!TypedBytes
<1>6. \A b : b \in Frame!Range(got) <=> \E i \in 1..Len(got) : got[i] = b
  BY <1>4 DEF Frame!Range
<1>7. \A i \in 1..Len(got) : \E f \in 1..Len(frames) : \E j \in 1..frames[f] :
        got[i] = Frame!Typed(f, j) /\ UpTo(c, k, f, j)
  BY <1>3 DEF Delivered
<1>8. \A f \in 1..Len(frames) : \A j \in 1..frames[f] :
        UpTo(c, k, f, j) => Frame!Typed(f, j) \in Frame!Range(got)
  BY <1>3, <1>6 DEF Delivered
<1>9. Frame!Range(got) \subseteq Frame!TypedBytes
  BY <1>5, <1>6, <1>7
<1>10. \A i, j \in 1..Len(got) : i < j => Frame!Before(got[i], got[j])
  BY <1>3 DEF Delivered
<1>11. ASSUME NEW b \in Frame!TypedBytes, NEW i \in 1..Len(got), Frame!Before(b, got[i])
       PROVE  b \in Frame!Range(got)
  <2>1. PICK f \in 1..Len(frames) : \E j \in 1..frames[f] : b = Frame!Typed(f, j)
    BY <1>5
  <2>2. PICK j \in 1..frames[f] : b = Frame!Typed(f, j)
    BY <2>1
  <2>3. PICK g \in 1..Len(frames) : \E l \in 1..frames[g] :
          got[i] = Frame!Typed(g, l) /\ UpTo(c, k, g, l)
    BY <1>7
  <2>4. PICK l \in 1..frames[g] : got[i] = Frame!Typed(g, l) /\ UpTo(c, k, g, l)
    BY <2>3
  <2>5. f < g \/ (f = g /\ j < l)
    BY <1>11, <2>2, <2>4 DEF Frame!Before, Frame!Typed
  <2>6. f \in Nat /\ g \in Nat /\ c \in Nat /\ j \in Nat /\ l \in Nat
    BY <1>2
  <2>7. UpTo(c, k, f, j)
    BY <2>4, <2>5, <2>6 DEF UpTo
  <2> QED
    BY <1>8, <2>2, <2>7
<1>12. ASSUME wire = <<>>, recvPc \in {"op", "end"}
       PROVE  Frame!TypedBytes \subseteq Frame!Range(got)
  <2>1. c = Len(frames) + 1 /\ Delivered(c, 0)
    <3>1. Len(wire) = 0
      BY <1>12
    <3> QED
      BY <1>1, <1>12, <3>1 DEF Reads, Expects
  <2>2. \A f \in 1..Len(frames) : \A j \in 1..frames[f] : Frame!Typed(f, j) \in Frame!Range(got)
    <3>1. \A f \in 1..Len(frames) : f < c
      BY <1>2, <2>1
    <3> QED
      BY <1>8, <3>1 DEF UpTo
  <2> QED
    BY <1>5, <2>2
<1>13. recvPc = "undefined" => \E f \in 1..Len(frames) : frames[f] > Buffer
  BY <1>1 DEF Reads
<1> QED
  BY <1>2, <1>4, <1>9, <1>10, <1>11, <1>12, <1>13

(* What a page types reaches the shell unchanged, in order and all of it,  *)
(* as long as every read() ends where run() can bear it.                   *)
THEOREM TypedBytesArrive == Spec => []TypedArrivesIntact
<1>1. Init => FrameInv
  <2> SUFFICES ASSUME Frame!Init PROVE FrameInv
    BY DEF Init
  <2>1. /\ frames = <<>> /\ wire = <<>> /\ arrived = 0 /\ recvPc = "op"
        /\ head = Frame!NoHead /\ size = 0 /\ got = <<>>
        /\ Len(frames) = 0 /\ Len(wire) = 0 /\ Len(got) = 0
    BY DEF Frame!Init
  <2>2. FrameTypes
    BY <2>1 DEF FrameTypes, Frame!NoHead
  <2>3. Contiguous
    BY <2>1 DEF Contiguous
  <2>4. Expects(1, 1) /\ Delivered(1, 0)
    BY <2>1 DEF Expects, Delivered
  <2>5. 1 \in 1..Len(frames) + 1 /\ Reads(1)
    BY <2>1, <2>4 DEF Reads
  <2> QED
    BY <2>2, <2>3, <2>5 DEF FrameInv
<1>2. FrameInv /\ [Next]_vars => FrameInv'
  BY FrameNext, FrameSteps
<1> QED
  BY <1>1, <1>2, FrameInvIntact, PTL DEF Spec

===============================================================================
