----------------------------- MODULE TunnelProofs -----------------------------
(***************************************************************************)
(* Proofs about ProxyClient that follow a tunnel over the wire: whose data *)
(* a data channel carries, what the map holds, how a dead connection is    *)
(* announced; and, from these, that ProxyClient implements Tunnel.  They   *)
(* hold for any sets of channels and users and any bounds.                 *)
(***************************************************************************)
EXTENDS ProxyClientProofs

-----------------------------------------------------------------------------
(* What the proofs say of a queue of messages, up or down a data channel.  *)

Holds(q, t) == \E i \in 1..Len(q) : q[i].type = t

(* Up: one CONNECT at most, and it is for u. *)
Announces(q, u) ==
  \A i \in 1..Len(q) : q[i].type = "CONNECT" =>
    q[i].user = u /\ \A j \in 1..Len(q) : q[j].type = "CONNECT" => j = i

(* Up: there is a DISCONNECT behind the CONNECT, if there is a CONNECT. *)
EndsLast(q) ==
  \E i \in 1..Len(q) :
    /\ q[i].type = "DISCONNECT"
    /\ \A j \in 1..Len(q) : q[j].type = "CONNECT" => j < i

(* Down: all is for u, and nothing follows a DISCONNECT. *)
Answers(q, u) ==
  \A i \in 1..Len(q) : q[i].user = u /\ (q[i].type = "DISCONNECT" => i = Len(q))

(* A closed channel's queues hold nothing. *)
LEMMA EmptyQueue ==
  ASSUME NEW u, NEW t
  PROVE  ~Holds(<<>>, t) /\ Announces(<<>>, u) /\ Answers(<<>>, u)
BY EmptySeq DEF Holds, Announces, Answers

(* Append, message by message. *)
LEMMA AppendAt ==
  ASSUME NEW q \in Seq(Msg), NEW m \in Msg, NEW a, a = Append(q, m)
  PROVE  /\ Len(q) \in Nat /\ a \in Seq(Msg) /\ Len(a) = Len(q) + 1
         /\ \A i \in 1..Len(q) : a[i] = q[i]
         /\ a[Len(q) + 1] = m
         /\ \A i \in 1..Len(a) : i \in 1..Len(q) \/ i = Len(q) + 1
<1>1. /\ Len(q) \in Nat /\ a \in Seq(Msg) /\ Len(a) = Len(q) + 1
      /\ \A i \in 1..Len(q) : a[i] = q[i]
      /\ a[Len(q) + 1] = m
  BY AppendProperties, LenProperties
<1> QED
  BY <1>1

(* Head and Tail, message by message. *)
LEMMA TailAt ==
  ASSUME NEW q \in Seq(Msg), q # <<>>, NEW t, t = Tail(q)
  PROVE  /\ Len(q) \in Nat \ {0} /\ t \in Seq(Msg) /\ Len(t) = Len(q) - 1
         /\ Head(q) = q[1] /\ Head(q) \in Msg
         /\ \A i \in 1..Len(t) : i + 1 \in 1..Len(q) /\ t[i] = q[i + 1]
         /\ \A i \in 1..Len(q) : i = 1 \/ (i - 1 \in 1..Len(t) /\ t[i - 1] = q[i])
<1>1. /\ Len(q) \in Nat \ {0} /\ t \in Seq(Msg) /\ Len(t) = Len(q) - 1
      /\ Head(q) = q[1] /\ Head(q) \in Msg
      /\ \A i \in 1..Len(t) : t[i] = q[i + 1]
  BY HeadTailProperties, EmptySeq, LenProperties
<1>2. \A i \in 1..Len(t) : i + 1 \in 1..Len(q)
  BY <1>1
<1>3. \A i \in 1..Len(q) : i = 1 \/ (i - 1 \in 1..Len(t) /\ (i - 1) + 1 = i)
  BY <1>1
<1> QED
  BY <1>1, <1>2, <1>3

(* A TRANSFER or DISCONNECT is sent up. *)
LEMMA AppendUp ==
  ASSUME NEW q \in Seq(Msg), NEW m \in Msg, m.type # "CONNECT"
  PROVE  /\ Holds(Append(q, m), "CONNECT") <=> Holds(q, "CONNECT")
         /\ \A u : Announces(q, u) => Announces(Append(q, m), u)
         /\ EndsLast(q) \/ m.type = "DISCONNECT" => EndsLast(Append(q, m))
<1>0. PICK a : a = Append(q, m)
  OBVIOUS
<1>1. /\ Len(q) \in Nat /\ a \in Seq(Msg) /\ Len(a) = Len(q) + 1
      /\ \A i \in 1..Len(q) : a[i] = q[i]
      /\ a[Len(q) + 1] = m
      /\ \A i \in 1..Len(a) : i \in 1..Len(q) \/ i = Len(q) + 1
  BY <1>0, AppendAt
<1>2. \A i \in 1..Len(a) :
        a[i].type = "CONNECT" => i \in 1..Len(q) /\ q[i].type = "CONNECT"
  BY <1>1
<1>3. \A i \in 1..Len(q) : i \in 1..Len(a) /\ i < Len(a)
  BY <1>1
<1>4. Len(a) \in 1..Len(a)
  BY <1>1
<1>5. Holds(a, "CONNECT") <=> Holds(q, "CONNECT")
  BY <1>1, <1>2, <1>3 DEF Holds
<1>6. \A u : Announces(q, u) => Announces(a, u)
  BY <1>1, <1>2, <1>3 DEF Announces
<1>7. EndsLast(q) => EndsLast(a)
  BY <1>1, <1>2, <1>3 DEF EndsLast
<1>8. m.type = "DISCONNECT" => EndsLast(a)
  BY <1>1, <1>2, <1>3, <1>4 DEF EndsLast
<1> QED
  BY <1>0, <1>5, <1>6, <1>7, <1>8

(* A CONNECT is sent up a channel that has none. *)
LEMMA AppendConnect ==
  ASSUME NEW q \in Seq(Msg), NEW m \in Msg, ~Holds(q, "CONNECT")
  PROVE  Announces(Append(q, m), m.user)
<1>0. PICK a : a = Append(q, m)
  OBVIOUS
<1>1. /\ Len(q) \in Nat /\ Len(a) = Len(q) + 1
      /\ \A i \in 1..Len(q) : a[i] = q[i]
      /\ a[Len(q) + 1] = m
      /\ \A i \in 1..Len(a) : i \in 1..Len(q) \/ i = Len(q) + 1
  BY <1>0, AppendAt
<1>2. \A i \in 1..Len(a) : a[i].type = "CONNECT" => i = Len(q) + 1
  BY <1>1 DEF Holds
<1>3. Announces(a, m.user)
  BY <1>1, <1>2 DEF Announces
<1> QED
  BY <1>0, <1>3

(* The server answers the user it has bound. *)
LEMMA AppendDown ==
  ASSUME NEW q \in Seq(Msg), NEW m \in Msg, ~Holds(q, "DISCONNECT")
  PROVE  /\ \A u : Answers(q, u) /\ m.user = u => Answers(Append(q, m), u)
         /\ m.type # "DISCONNECT" => ~Holds(Append(q, m), "DISCONNECT")
<1>0. PICK a : a = Append(q, m)
  OBVIOUS
<1>1. /\ Len(q) \in Nat /\ Len(a) = Len(q) + 1
      /\ \A i \in 1..Len(q) : a[i] = q[i]
      /\ a[Len(q) + 1] = m
      /\ \A i \in 1..Len(a) : i \in 1..Len(q) \/ i = Len(q) + 1
  BY <1>0, AppendAt
<1>2. \A i \in 1..Len(q) : q[i].type # "DISCONNECT"
  BY DEF Holds
<1>3. \A u : Answers(q, u) /\ m.user = u => Answers(a, u)
  BY <1>1, <1>2 DEF Answers
<1>4. m.type # "DISCONNECT" => ~Holds(a, "DISCONNECT")
  BY <1>1, <1>2 DEF Holds
<1> QED
  BY <1>0, <1>3, <1>4

(* The server takes a message. *)
LEMMA TailUp ==
  ASSUME NEW q \in Seq(Msg), q # <<>>
  PROVE  /\ \A t : Holds(Tail(q), t) => Holds(q, t)
         /\ Holds(q, Head(q).type)
         /\ Head(q).type # "CONNECT" =>
              (Holds(q, "CONNECT") <=> Holds(Tail(q), "CONNECT"))
         /\ \A u : Announces(q, u) =>
              /\ Announces(Tail(q), u)
              /\ Head(q).type = "CONNECT" =>
                   Head(q).user = u /\ ~Holds(Tail(q), "CONNECT")
         /\ EndsLast(q) /\ (Head(q).type # "DISCONNECT" \/ Holds(q, "CONNECT")) =>
              EndsLast(Tail(q))
<1>0. PICK t : t = Tail(q)
  OBVIOUS
<1>1. /\ Len(q) \in Nat \ {0} /\ t \in Seq(Msg) /\ Len(t) = Len(q) - 1
      /\ Head(q) = q[1] /\ Head(q) \in Msg
      /\ \A i \in 1..Len(t) : i + 1 \in 1..Len(q) /\ t[i] = q[i + 1]
      /\ \A i \in 1..Len(q) : i = 1 \/ (i - 1 \in 1..Len(t) /\ t[i - 1] = q[i])
  BY <1>0, TailAt
<1>2. 1 \in 1..Len(q) /\ \A i \in 1..Len(t) : i + 1 # 1 /\ i \in Nat
  BY <1>1
<1>3. \A s : Holds(t, s) => Holds(q, s)
  BY <1>1 DEF Holds
<1>4. Holds(q, Head(q).type)
  BY <1>1, <1>2 DEF Holds
<1>5. Head(q).type # "CONNECT" /\ Holds(q, "CONNECT") => Holds(t, "CONNECT")
  BY <1>1 DEF Holds
<1>6. ASSUME NEW u, Announces(q, u)
      PROVE  /\ Announces(t, u)
             /\ Head(q).type = "CONNECT" => Head(q).user = u /\ ~Holds(t, "CONNECT")
  <2>1. \A i, j \in 1..Len(t) : i + 1 = j + 1 => i = j
    BY <1>2
  <2>2. Announces(t, u)
    BY <1>1, <1>6, <2>1 DEF Announces
  <2>3. Head(q).type = "CONNECT" => Head(q).user = u /\ ~Holds(t, "CONNECT")
    BY <1>1, <1>2, <1>6 DEF Announces, Holds
  <2> QED
    BY <2>2, <2>3
<1>7. ASSUME EndsLast(q), Head(q).type # "DISCONNECT" \/ Holds(q, "CONNECT")
      PROVE  EndsLast(t)
  <2>1. PICK i \in 1..Len(q) :
               /\ q[i].type = "DISCONNECT"
               /\ \A j \in 1..Len(q) : q[j].type = "CONNECT" => j < i
    BY <1>7 DEF EndsLast
  <2>2. i # 1
    <3>1. \A j \in 1..Len(q) : ~(j < 1)
      BY <1>1
    <3> QED
      BY <1>1, <1>7, <2>1, <3>1 DEF Holds
  <2>3. i - 1 \in 1..Len(t) /\ t[i - 1].type = "DISCONNECT"
    BY <1>1, <2>1, <2>2
  <2>4. \A j \in 1..Len(t) : t[j].type = "CONNECT" => j < i - 1
    BY <1>1, <1>2, <2>1
  <2> QED
    BY <2>3, <2>4 DEF EndsLast
<1> QED
  BY <1>0, <1>3, <1>4, <1>5, <1>6, <1>7

(* The client takes a message. *)
LEMMA TailDown ==
  ASSUME NEW q \in Seq(Msg), q # <<>>, NEW u, Answers(q, u)
  PROVE  /\ Head(q).user = u
         /\ Answers(Tail(q), u)
         /\ Head(q).type = "DISCONNECT" => Tail(q) = <<>>
<1>0. PICK t : t = Tail(q)
  OBVIOUS
<1>1. /\ Len(q) \in Nat \ {0} /\ t \in Seq(Msg) /\ Len(t) = Len(q) - 1
      /\ Head(q) = q[1] /\ Head(q) \in Msg
      /\ \A i \in 1..Len(t) : i + 1 \in 1..Len(q) /\ t[i] = q[i + 1]
  BY <1>0, TailAt
<1>2. 1 \in 1..Len(q)
  BY <1>1
<1>3. Head(q).user = u
  BY <1>1, <1>2 DEF Answers
<1>4. Answers(t, u)
  <2>1. \A i \in 1..Len(t) : i + 1 = Len(q) => i = Len(t)
    BY <1>1
  <2> QED
    BY <1>1, <2>1 DEF Answers
<1>5. Head(q).type = "DISCONNECT" => t = <<>>
  <2>1. Head(q).type = "DISCONNECT" => Len(t) = 0
    BY <1>1, <1>2 DEF Answers
  <2> QED
    BY <1>1, <2>1, EmptySeq
<1> QED
  BY <1>0, <1>3, <1>4, <1>5

-----------------------------------------------------------------------------
(* How far a local connection's set-up got, and what it may have by then.  *)

RealInv(r) ==
  /\ stage[r] = "leased" <=> lease[r] # None
  /\ stage[r] = "idle" <=> user[r] = None
  /\ userId[r] = IF stage[r] = "done" THEN user[r] ELSE None
  /\ stage[r] \notin {"bound", "mapped", "done"} =>
       nextOfReal[r] = None /\ received[r] = {}
  /\ pooled[r] =>
       /\ stage[r] \in {"leased", "bound", "mapped", "done"}
       /\ realSock[r] = "dead" => stage[r] = "done"

(* Only a connection success() has bound is behind a data channel that may *)
(* still carry something.                                                  *)
BehindInv(p) ==
  /\ proxySock[p] = "none" => nextOfProxy[p] = None
  /\ \A r \in Reals : nextOfProxy[p] = r /\ proxySock[p] # "dead" =>
       stage[r] \in {"bound", "mapped", "done"}

StageInv ==
  /\ \A r \in Reals : RealInv(r)
  /\ \A p \in Proxies : BehindInv(p)

(* StageInv reads these variables only. *)
LEMMA StageFrame ==
  ASSUME StageInv,
         UNCHANGED <<stage, user, realSock, userId, nextOfReal, lease, pooled,
                     received, proxySock, nextOfProxy>>
  PROVE  StageInv'
BY DEF StageInv, RealInv, BehindInv

(* No connection has been asked for at first. *)
LEMMA StageInit == Init => StageInv
BY ProxyClientAssumption DEF Init, StageInv, RealInv, BehindInv

(* Every step preserves StageInv. *)
LEMMA StageNext ==
  ASSUME TypeOK, PoolInv, StageInv, [Next]_vars
  PROVE  StageInv'
<1> USE ProxyClientAssumption DEF realVars, proxyVars, sharedVars
<1>1. ASSUME NEW u \in Users, NEW r \in Reals, HandleConnect(u, r)
      PROVE  StageInv'
  <2>1. \A p \in Proxies : nextOfProxy[p] = r => proxySock[p] = "dead"
    BY <1>1 DEF HandleConnect, FreeReal, StageInv, BehindInv
  <2>2. \A q \in Reals : RealInv(q)'
    BY <1>1 DEF HandleConnect, StageInv, RealInv, TypeOK
  <2>3. \A p \in Proxies : BehindInv(p)'
    BY <1>1, <2>1 DEF HandleConnect, StageInv, BehindInv, TypeOK
  <2> QED
    BY <2>2, <2>3 DEF StageInv
<1>2. ASSUME NEW r \in Reals, RealStep(r)
      PROVE  StageInv'
  <2>1. CASE ConnectFailed(r)
    BY <2>1 DEF ConnectFailed, StageInv, RealInv, BehindInv, TypeOK
  <2>2. CASE ConnectDone(r)
    <3>1. pool # <<>> => Head(pool) \in Proxies
      BY HeadTailProperties DEF TypeOK
    <3>2. /\ stage[r] = "connecting"
          /\ realSock' = [realSock EXCEPT ![r] = "open"]
          /\ UNCHANGED <<user, userId, nextOfReal, received, proxySock, nextOfProxy>>
      BY <2>2 DEF ConnectDone
    <3>3. CASE pool # <<>>
      <4>1. PICK h : h = Head(pool)
        OBVIOUS
      <4>2. /\ h \in Proxies
            /\ stage' = [stage EXCEPT ![r] = "leased"]
            /\ lease' = [lease EXCEPT ![r] = h]
            /\ pooled' = [pooled EXCEPT ![r] = TRUE]
        BY <2>2, <3>1, <3>3, <4>1 DEF ConnectDone
      <4>3. \A q \in Reals : RealInv(q)'
        BY <3>2, <4>2 DEF StageInv, RealInv, TypeOK
      <4>4. \A p \in Proxies : BehindInv(p)'
        BY <3>2, <4>2 DEF StageInv, BehindInv, TypeOK
      <4> QED
        BY <4>3, <4>4 DEF StageInv
    <3>4. CASE pool = <<>>
      <4>1. stage' = [stage EXCEPT ![r] = "dialing"] /\ UNCHANGED <<lease, pooled>>
        BY <2>2, <3>4 DEF ConnectDone
      <4> QED
        BY <3>2, <4>1 DEF StageInv, RealInv, BehindInv, TypeOK
    <3> QED
      BY <3>3, <3>4
  <2>3. CASE DialFailed(r)
    BY <2>3 DEF DialFailed, StageInv, RealInv, BehindInv, TypeOK
  <2>4. CASE Bind(r)
    BY <2>4 DEF Bind, StageInv, RealInv, BehindInv, PoolInv, LeaseDetached, TypeOK
  <2>5. CASE AddReal(r)
    BY <2>5 DEF AddReal, StageInv, RealInv, BehindInv, TypeOK
  <2>6. CASE SetUserId(r)
    BY <2>6 DEF SetUserId, StageInv, RealInv, BehindInv, TypeOK
  <2>7. CASE RealRead(r)
    BY <2>7, StageFrame DEF RealRead
  <2>8. CASE RealClose(r)
    BY <2>8 DEF RealClose, StageInv, RealInv, BehindInv, TypeOK
  <2>9. CASE RealInactive(r)
    BY <2>9 DEF RealInactive, RealLoopBusy, StageInv, RealInv, BehindInv, TypeOK
  <2> QED
    BY <1>2, <2>1, <2>2, <2>3, <2>4, <2>5, <2>6, <2>7, <2>8, <2>9 DEF RealStep
<1>3. ASSUME NEW p \in Proxies, ProxyStep(p)
      PROVE  StageInv'
  <2>1. CASE HandleTransfer(p)
    <3>1. /\ proxySock[p] = "open"
          /\ \A q \in Reals : received'[q] # received[q] => nextOfProxy[p] = q
          /\ UNCHANGED <<stage, user, realSock, userId, nextOfReal, lease, pooled,
                         proxySock, nextOfProxy>>
      BY <2>1 DEF HandleTransfer, Arrives, TypeOK
    <3> QED
      BY <3>1 DEF StageInv, RealInv, BehindInv
  <2>2. CASE HandleDisconnect(p)
    <3>1. /\ \A q \in Proxies : nextOfProxy'[q] \in {nextOfProxy[q], None}
          /\ UNCHANGED <<realVars, proxySock>>
      BY <2>2 DEF HandleDisconnect, TypeOK
    <3> QED
      BY <3>1 DEF StageInv, RealInv, BehindInv
  <2>3. CASE FinishDisconnect(p)
    BY <2>3, StageFrame DEF FinishDisconnect
  <2>4. CASE ProxyClose(p)
    BY <2>4 DEF ProxyClose, StageInv, RealInv, BehindInv, TypeOK
  <2>5. CASE ProxyInactive(p)
    BY <2>5 DEF ProxyInactive, StageInv, RealInv, BehindInv, TypeOK
  <2> QED
    BY <1>3, <2>1, <2>2, <2>3, <2>4, <2>5 DEF ProxyStep
<1>4. ASSUME NEW r \in Reals, NEW p \in Proxies, DialDone(r, p)
      PROVE  StageInv'
  BY <1>4 DEF DialDone, StageInv, RealInv, BehindInv, TypeOK
<1>5. CASE CmdClose
  BY <1>5, StageFrame DEF CmdClose
<1>6. CASE CmdInactive
  BY <1>6, StageFrame DEF CmdInactive
<1>7. CASE ClearRealServerChannels
  BY <1>7, StageFrame DEF ClearRealServerChannels
<1>8. CASE Reconnect
  BY <1>8, StageFrame DEF Reconnect
<1>9. ASSUME NEW p \in Proxies, ServerBind(p)
      PROVE  StageInv'
  BY <1>9, StageFrame DEF ServerBind
<1>10. ASSUME NEW p \in Proxies, ServerReceive(p)
      PROVE  StageInv'
  BY <1>10, StageFrame DEF ServerReceive
<1>11. ASSUME NEW p \in Proxies, ServerDisconnect(p)
      PROVE  StageInv'
  BY <1>11, StageFrame DEF ServerDisconnect
<1>12. ASSUME NEW p \in Proxies, ServerSend(p)
      PROVE  StageInv'
  BY <1>12, StageFrame DEF ServerSend
<1>13. ASSUME NEW u \in Users, UserGone(u)
      PROVE  StageInv'
  BY <1>13, StageFrame DEF UserGone
<1>14. CASE UNCHANGED vars
  BY <1>14, StageFrame DEF vars
<1> QED
  BY <1>1, <1>2, <1>3, <1>4, <1>5, <1>6, <1>7, <1>8, <1>9, <1>10, <1>11, <1>12, <1>13, <1>14
     DEF Next, CmdStep, ServerStep

(* StageInv is an invariant of the specification, with what it rests on. *)
LEMMA StageInvariance == Spec => [](IInv /\ StageInv)
<1>1. Init => StageInv
  BY StageInit
<1>2. IInv /\ StageInv /\ [Next]_vars => StageInv'
  BY StageNext DEF IInv
<1> QED
  BY <1>1, <1>2, IInvInvariance, PTL DEF Spec

-----------------------------------------------------------------------------
(* What is under way on a data channel belongs to the connection it is     *)
(* bound to.                                                               *)

Quiet(p) == down[p] = <<>> /\ bound[p] = None

ChannelInv(p) ==
  /\ proxySock[p] # "open" => up[p] = <<>> /\ Quiet(p)
  /\ nextOfProxy[p] = None => Quiet(p) /\ ~Holds(up[p], "CONNECT")
  /\ Holds(up[p], "CONNECT") => Quiet(p)
  /\ Holds(down[p], "DISCONNECT") => bound[p] = None
  /\ \A r \in Reals : nextOfProxy[p] = r =>
       /\ Announces(up[p], user[r])
       /\ bound[p] \in {user[r], None}
       /\ Answers(down[p], user[r])

WireInv == \A p \in Proxies : ChannelInv(p)

(* ChannelInv reads these entries only. *)
LEMMA ChannelFrame ==
  ASSUME NEW p \in Proxies, ChannelInv(p),
         UNCHANGED <<proxySock[p], up[p], down[p], bound[p], nextOfProxy[p]>>,
         \A r \in Reals : nextOfProxy[p] = r => user'[r] = user[r]
  PROVE  ChannelInv(p)'
BY DEF ChannelInv, Quiet

(* It says nothing about whom an empty channel is bound to. *)
LEMMA ChannelEmpty ==
  ASSUME NEW p \in Proxies, up'[p] = <<>>, down'[p] = <<>>, bound'[p] = None
  PROVE  ChannelInv(p)'
<1>1. \A u : /\ ~Holds(<<>>, "CONNECT") /\ ~Holds(<<>>, "DISCONNECT")
             /\ Announces(<<>>, u) /\ Answers(<<>>, u)
  BY EmptyQueue
<1> QED
  BY <1>1 DEF ChannelInv, Quiet

(* A local connection's TRANSFER or DISCONNECT, even a late one of a       *)
(* connection that has lost the channel, is no CONNECT.                    *)
LEMMA ChannelSent ==
  ASSUME TypeOK, NEW p \in Proxies, ChannelInv(p), NEW o,
         NEW t \in {"TRANSFER", "DISCONNECT"}, NEW u \in Users \cup {None},
         up' = Sent(o, t, u),
         UNCHANGED <<proxySock, down, bound, nextOfProxy, user>>
  PROVE  ChannelInv(p)'
<1>1. CASE up'[p] = up[p]
  BY <1>1, ChannelFrame
<1>2. CASE up'[p] # up[p]
  <2>1. o = p /\ proxySock[p] = "open"
    BY <1>2 DEF Sent, TypeOK
  <2>2. PICK m \in Msg : m = Message(t, u)
    BY MessageType
  <2>3. up'[p] = Append(up[p], m) /\ up[p] \in Seq(Msg) /\ m.type # "CONNECT"
    BY <2>1, <2>2 DEF Sent, TypeOK, Message
  <2>4. /\ Holds(up'[p], "CONNECT") <=> Holds(up[p], "CONNECT")
        /\ \A v : Announces(up[p], v) => Announces(up'[p], v)
    BY <2>3, AppendUp
  <2> QED
    BY <2>1, <2>4 DEF ChannelInv, Quiet
<1> QED
  BY <1>1, <1>2

(* success() binds a channel on which nothing is under way. *)
LEMMA ChannelBind ==
  ASSUME TypeOK, PoolInv, StageInv, NEW p \in Proxies, ChannelInv(p),
         NEW r \in Reals, Bind(r)
  PROVE  ChannelInv(p)'
<1> USE ProxyClientAssumption DEF proxyVars, sharedVars
<1>1. /\ lease[r] \in Proxies /\ nextOfProxy[lease[r]] = None
      /\ user[r] \in Users
  BY DEF Bind, StageInv, RealInv, PoolInv, LeaseDetached, TypeOK
<1>2. /\ up' = Sent(lease[r], "CONNECT", user[r])
      /\ nextOfProxy' = [nextOfProxy EXCEPT ![lease[r]] = r]
      /\ UNCHANGED <<proxySock, down, bound, user>>
  BY DEF Bind
<1>3. CASE p # lease[r]
  <2>1. up'[p] = up[p] /\ nextOfProxy'[p] = nextOfProxy[p]
    BY <1>1, <1>2, <1>3 DEF Sent, TypeOK
  <2> QED
    BY <1>2, <2>1, ChannelFrame
<1>4. CASE p = lease[r] /\ proxySock[p] # "open"
  <2>1. up'[p] = <<>> /\ down'[p] = <<>> /\ bound'[p] = None
    BY <1>2, <1>4 DEF Sent, ChannelInv, Quiet
  <2> QED
    BY <2>1, ChannelEmpty
<1>5. CASE p = lease[r] /\ proxySock[p] = "open"
  <2>1. Quiet(p) /\ ~Holds(up[p], "CONNECT") /\ nextOfProxy'[p] = r
    BY <1>1, <1>2, <1>5 DEF ChannelInv, TypeOK
  <2>2. PICK m \in Msg : m = Message("CONNECT", user[r])
    BY <1>1, MessageType
  <2>3. up'[p] = Append(up[p], m) /\ up[p] \in Seq(Msg) /\ m.user = user[r]
    BY <1>2, <1>5, <2>2 DEF Sent, TypeOK, Message
  <2>4. Announces(up'[p], user[r])
    BY <2>1, <2>3, AppendConnect
  <2>5. \A u : ~Holds(<<>>, "DISCONNECT") /\ Answers(<<>>, u)
    BY EmptyQueue
  <2> QED
    BY <1>2, <1>5, <2>1, <2>4, <2>5 DEF ChannelInv, Quiet
<1> QED
  BY <1>3, <1>4, <1>5

(* handleTransferMessage and handleDisconnectMessage take what the server  *)
(* sent to the present connection; a DISCONNECT is the last of it.         *)
LEMMA ChannelArrives ==
  ASSUME TypeOK, NEW p \in Proxies, ChannelInv(p),
         NEW t \in {"TRANSFER", "DISCONNECT"}, Arrives(p, t)
  PROVE  /\ nextOfProxy[p] \in Reals
         /\ Head(down[p]).user = user[nextOfProxy[p]]
         /\ ~Holds(up[p], "CONNECT")
         /\ Answers(down'[p], user[nextOfProxy[p]])
         /\ Holds(down'[p], "DISCONNECT") => bound[p] = None
         /\ t = "DISCONNECT" => down'[p] = <<>> /\ bound[p] = None
<1> USE ProxyClientAssumption
<1>1. /\ down[p] # <<>> /\ down[p] \in Seq(Msg) /\ down'[p] = Tail(down[p])
      /\ Head(down[p]).type = t
  BY DEF Arrives, TypeOK
<1>2. nextOfProxy[p] \in Reals /\ ~Holds(up[p], "CONNECT")
  BY <1>1 DEF ChannelInv, Quiet, TypeOK
<1>3. Answers(down[p], user[nextOfProxy[p]])
  BY <1>2 DEF ChannelInv
<1>4. /\ Head(down[p]).user = user[nextOfProxy[p]]
      /\ Answers(down'[p], user[nextOfProxy[p]])
      /\ t = "DISCONNECT" => down'[p] = <<>>
  BY <1>1, <1>3, TailDown
<1>5. /\ Holds(down'[p], "DISCONNECT") => Holds(down[p], "DISCONNECT")
      /\ t = "DISCONNECT" => Holds(down[p], "DISCONNECT")
  BY <1>1, TailUp
<1> QED
  BY <1>2, <1>4, <1>5 DEF ChannelInv

(* A bound channel is bound to a connection's user, with no CONNECT on its *)
(* way up and no DISCONNECT on its way down: what the server sends next is *)
(* for that connection.                                                    *)
LEMMA ChannelAnswers ==
  ASSUME TypeOK, NEW p \in Proxies, ChannelInv(p), bound[p] # None,
         NEW t \in {"TRANSFER", "DISCONNECT"},
         down'[p] = Append(down[p], Message(t, bound[p]))
  PROVE  /\ nextOfProxy[p] \in Reals /\ proxySock[p] = "open"
         /\ bound[p] = user[nextOfProxy[p]]
         /\ ~Holds(up[p], "CONNECT")
         /\ Answers(down'[p], user[nextOfProxy[p]])
         /\ t = "TRANSFER" => ~Holds(down'[p], "DISCONNECT")
<1> USE ProxyClientAssumption
<1>1. /\ nextOfProxy[p] \in Reals /\ proxySock[p] = "open"
      /\ bound[p] = user[nextOfProxy[p]]
      /\ ~Holds(up[p], "CONNECT") /\ ~Holds(down[p], "DISCONNECT")
      /\ Answers(down[p], user[nextOfProxy[p]])
  BY DEF ChannelInv, Quiet, TypeOK
<1>2. PICK m \in Msg : m = Message(t, bound[p])
  <2>1. bound[p] \in Users \cup {None}
    BY DEF TypeOK
  <2> QED
    BY <2>1, MessageType
<1>3. m.type = t /\ m.user = bound[p] /\ down[p] \in Seq(Msg)
  BY <1>2 DEF Message, TypeOK
<1>4. /\ Answers(down'[p], user[nextOfProxy[p]])
      /\ t = "TRANSFER" => ~Holds(down'[p], "DISCONNECT")
  BY <1>1, <1>2, <1>3, AppendDown
<1> QED
  BY <1>1, <1>4

(* The server unbinds a channel, and says so. *)
LEMMA ChannelUnbinds ==
  ASSUME TypeOK, NEW p \in Proxies, ChannelInv(p), NEW q \in Proxies,
         ServerUnbinds(q), bound[q] # None,
         UNCHANGED <<proxySock, nextOfProxy, user>>,
         \/ up'[p] = up[p]
         \/ q = p /\ up[p] # <<>> /\ up'[p] = Tail(up[p])
  PROVE  ChannelInv(p)'
<1> USE ProxyClientAssumption
<1>1. CASE p # q
  BY <1>1, ChannelFrame DEF ServerUnbinds
<1>2. CASE p = q
  <2>1. /\ down'[p] = Append(down[p], Message("DISCONNECT", bound[p]))
        /\ bound'[p] = None
    BY <1>2 DEF ServerUnbinds, TypeOK
  <2>2. /\ nextOfProxy[p] \in Reals /\ proxySock[p] = "open"
        /\ ~Holds(up[p], "CONNECT")
        /\ Answers(down'[p], user[nextOfProxy[p]])
    BY <1>2, <2>1, ChannelAnswers
  <2>3. /\ ~Holds(up'[p], "CONNECT")
        /\ Announces(up'[p], user[nextOfProxy[p]])
    <3>1. Announces(up[p], user[nextOfProxy[p]]) /\ up[p] \in Seq(Msg)
      BY <2>2 DEF ChannelInv, TypeOK
    <3> QED
      BY <2>2, <3>1, TailUp
  <2> QED
    BY <2>1, <2>2, <2>3 DEF ChannelInv, Quiet
<1> QED
  BY <1>1, <1>2

(* The server takes a message and its binding stays as it is. *)
LEMMA ChannelTaken ==
  ASSUME TypeOK, NEW p \in Proxies, ChannelInv(p), NEW q \in Proxies,
         up[q] # <<>>, up' = [up EXCEPT ![q] = Tail(@)],
         UNCHANGED <<proxySock, nextOfProxy, user, down, bound>>
  PROVE  ChannelInv(p)'
<1>1. CASE p # q
  BY <1>1, ChannelFrame DEF TypeOK
<1>2. CASE p = q
  <2>1. up[p] \in Seq(Msg) /\ up'[p] = Tail(up[p])
    BY <1>2 DEF TypeOK
  <2>2. /\ Holds(up'[p], "CONNECT") => Holds(up[p], "CONNECT")
        /\ \A u : Announces(up[p], u) => Announces(up'[p], u)
    BY <1>2, <2>1, TailUp
  <2>3. proxySock[p] = "open"
    BY <1>2 DEF ChannelInv
  <2> QED
    BY <2>2, <2>3 DEF ChannelInv, Quiet
<1> QED
  BY <1>1, <1>2

(* CONNECT binds the channel to the user of the connection behind it. *)
LEMMA ChannelServerBind ==
  ASSUME TypeOK, NEW p \in Proxies, ChannelInv(p), NEW q \in Proxies,
         ServerBind(q)
  PROVE  ChannelInv(p)'
<1> USE ProxyClientAssumption DEF realVars, proxyVars
<1>1. /\ up[q] # <<>> /\ Head(up[q]).type = "CONNECT"
      /\ up' = [up EXCEPT ![q] = Tail(@)]
      /\ bound' \in {[bound EXCEPT ![q] = Head(up[q]).user], bound}
      /\ UNCHANGED <<proxySock, nextOfProxy, user, down>>
  BY DEF ServerBind, ServerTakes
<1>2. CASE bound' = bound
  BY <1>1, <1>2, ChannelTaken
<1>3. CASE p # q
  BY <1>1, <1>3, ChannelFrame DEF TypeOK
<1>4. CASE p = q /\ bound' # bound
  <2>1. /\ up[p] \in Seq(Msg) /\ up'[p] = Tail(up[p])
        /\ bound'[p] = Head(up[p]).user
    BY <1>1, <1>4 DEF TypeOK
  <2>2. Holds(up[p], "CONNECT")
    BY <1>1, <1>4, <2>1, TailUp
  <2>3. Quiet(p) /\ nextOfProxy[p] \in Reals /\ proxySock[p] = "open"
    BY <1>1, <1>4, <2>2 DEF ChannelInv, TypeOK
  <2>4. /\ Announces(up'[p], user[nextOfProxy[p]])
        /\ bound'[p] = user[nextOfProxy[p]]
        /\ ~Holds(up'[p], "CONNECT")
    <3>1. Announces(up[p], user[nextOfProxy[p]])
      BY <2>3 DEF ChannelInv
    <3> QED
      BY <1>1, <1>4, <2>1, <3>1, TailUp
  <2>5. \A u : ~Holds(<<>>, "DISCONNECT") /\ Answers(<<>>, u)
    BY EmptyQueue
  <2> QED
    BY <1>1, <2>3, <2>4, <2>5 DEF ChannelInv, Quiet
<1> QED
  BY <1>1, <1>2, <1>3, <1>4

(* Nothing is on the wire at first. *)
LEMMA WireInit == Init => WireInv
<1> SUFFICES ASSUME Init, NEW p \in Proxies
             PROVE  ChannelInv(p)
  BY DEF WireInv
<1>1. \A u : /\ ~Holds(<<>>, "CONNECT") /\ ~Holds(<<>>, "DISCONNECT")
             /\ Announces(<<>>, u) /\ Answers(<<>>, u)
  BY EmptyQueue
<1> QED
  BY <1>1 DEF Init, ChannelInv, Quiet

(* Every step preserves WireInv. *)
LEMMA WireNext ==
  ASSUME TypeOK, PoolInv, StageInv, WireInv, [Next]_vars
  PROVE  WireInv'
<1> SUFFICES ASSUME NEW p \in Proxies
             PROVE  ChannelInv(p)'
  BY DEF WireInv
<1> USE ProxyClientAssumption DEF realVars, proxyVars, wireVars, sharedVars
<1>0. ChannelInv(p) /\ BehindInv(p) /\ up[p] \in Seq(Msg)
  BY DEF WireInv, StageInv, TypeOK
<1>1. ASSUME NEW u \in Users, NEW r \in Reals, HandleConnect(u, r)
      PROVE  ChannelInv(p)'
  <2>1. CASE nextOfProxy[p] = r
    <3>1. proxySock[p] # "open"
      BY <1>0, <1>1, <2>1 DEF HandleConnect, FreeReal, BehindInv
    <3> QED
      BY <1>0, <1>1, <3>1, ChannelEmpty DEF HandleConnect, ChannelInv, Quiet
  <2>2. CASE nextOfProxy[p] # r
    BY <1>0, <1>1, <2>2, ChannelFrame DEF HandleConnect, TypeOK
  <2> QED
    BY <2>1, <2>2
<1>2. ASSUME NEW r \in Reals, RealStep(r)
      PROVE  ChannelInv(p)'
  <2>1. CASE ConnectFailed(r)
    <3>1. CASE nextOfProxy[p] = r
      <4>1. proxySock[p] # "open"
        BY <1>0, <2>1, <3>1 DEF ConnectFailed, BehindInv
      <4> QED
        BY <1>0, <2>1, <4>1, ChannelEmpty DEF ConnectFailed, ChannelInv, Quiet
    <3>2. CASE nextOfProxy[p] # r
      BY <1>0, <2>1, <3>2, ChannelFrame DEF ConnectFailed, TypeOK
    <3> QED
      BY <3>1, <3>2
  <2>2. CASE ConnectDone(r)
    BY <1>0, <2>2, ChannelFrame DEF ConnectDone
  <2>3. CASE DialFailed(r)
    BY <1>0, <2>3, ChannelFrame DEF DialFailed
  <2>4. CASE Bind(r)
    BY <1>0, <2>4, ChannelBind
  <2>5. CASE AddReal(r)
    BY <1>0, <2>5, ChannelFrame DEF AddReal
  <2>6. CASE SetUserId(r)
    BY <1>0, <2>6, ChannelFrame DEF SetUserId
  <2>7. CASE RealRead(r)
    <3>1. userId[r] \in Users \cup {None}
      BY DEF TypeOK
    <3> QED
      BY <1>0, <2>7, <3>1, ChannelSent DEF RealRead
  <2>8. CASE RealClose(r)
    BY <1>0, <2>8, ChannelFrame DEF RealClose
  <2>9. CASE RealInactive(r)
    <3>1. UNCHANGED <<proxySock, down, bound, nextOfProxy, user>>
      BY <2>9 DEF RealInactive
    <3>2. CASE up' = up
      BY <1>0, <3>1, <3>2, ChannelFrame
    <3>3. CASE up' = Sent(nextOfReal[r], "DISCONNECT", userId[r])
      <4>1. userId[r] \in Users \cup {None}
        BY DEF TypeOK
      <4> QED
        BY <1>0, <3>1, <3>3, <4>1, ChannelSent
    <3> QED
      BY <2>9, <3>2, <3>3 DEF RealInactive
  <2> QED
    BY <1>2, <2>1, <2>2, <2>3, <2>4, <2>5, <2>6, <2>7, <2>8, <2>9 DEF RealStep
<1>3. ASSUME NEW q \in Proxies, ProxyStep(q)
      PROVE  ChannelInv(p)'
  <2>1. CASE HandleTransfer(q)
    <3>1. /\ Arrives(q, "TRANSFER") /\ down' = [down EXCEPT ![q] = Tail(@)]
          /\ UNCHANGED <<proxySock, up, bound, nextOfProxy, user>>
      BY <2>1 DEF HandleTransfer, Arrives
    <3>2. CASE p # q
      BY <1>0, <3>1, <3>2, ChannelFrame DEF TypeOK
    <3>3. CASE p = q
      <4>1. /\ nextOfProxy[p] \in Reals /\ ~Holds(up[p], "CONNECT")
            /\ Answers(down'[p], user[nextOfProxy[p]])
            /\ Holds(down'[p], "DISCONNECT") => bound[p] = None
        BY <1>0, <3>1, <3>3, ChannelArrives
      <4>2. proxySock[p] = "open"
        BY <3>1, <3>3 DEF Arrives
      <4> QED
        BY <1>0, <3>1, <4>1, <4>2 DEF ChannelInv, Quiet
    <3> QED
      BY <3>2, <3>3
  <2>2. CASE HandleDisconnect(q)
    <3>1. /\ Arrives(q, "DISCONNECT") /\ down' = [down EXCEPT ![q] = Tail(@)]
          /\ nextOfProxy' \in {[nextOfProxy EXCEPT ![q] = None], nextOfProxy}
          /\ nextOfProxy[q] # None => nextOfProxy'[q] = None
          /\ UNCHANGED <<proxySock, up, bound, user>>
      BY <2>2 DEF HandleDisconnect, Arrives, TypeOK
    <3>2. CASE p # q
      BY <1>0, <3>1, <3>2, ChannelFrame DEF TypeOK
    <3>3. CASE p = q
      <4>1. /\ nextOfProxy[p] \in Reals /\ ~Holds(up[p], "CONNECT")
            /\ down'[p] = <<>> /\ bound[p] = None
        BY <1>0, <3>1, <3>3, ChannelArrives
      <4>2. proxySock[p] = "open" /\ nextOfProxy'[p] = None
        BY <3>1, <3>3, <4>1 DEF Arrives
      <4>3. ~Holds(<<>>, "DISCONNECT")
        BY EmptyQueue
      <4> QED
        BY <3>1, <4>1, <4>2, <4>3 DEF ChannelInv, Quiet
    <3> QED
      BY <3>2, <3>3
  <2>3. CASE FinishDisconnect(q)
    BY <1>0, <2>3, ChannelFrame DEF FinishDisconnect
  <2>4. CASE ProxyClose(q)
    <3>1. CASE p # q
      BY <1>0, <2>4, <3>1, ChannelFrame DEF ProxyClose, TypeOK
    <3>2. CASE p = q
      BY <2>4, <3>2, ChannelEmpty DEF ProxyClose, TypeOK
    <3> QED
      BY <3>1, <3>2
  <2>5. CASE ProxyInactive(q)
    <3>1. CASE p # q
      BY <1>0, <2>5, <3>1, ChannelFrame DEF ProxyInactive, TypeOK
    <3>2. CASE p = q
      BY <1>0, <2>5, <3>2, ChannelEmpty DEF ProxyInactive, ChannelInv, Quiet
    <3> QED
      BY <3>1, <3>2
  <2> QED
    BY <1>3, <2>1, <2>2, <2>3, <2>4, <2>5 DEF ProxyStep
<1>4. ASSUME NEW r \in Reals, NEW q \in Proxies, DialDone(r, q)
      PROVE  ChannelInv(p)'
  <2>1. CASE p # q
    BY <1>0, <1>4, <2>1, ChannelFrame DEF DialDone, TypeOK
  <2>2. CASE p = q
    <3>1. proxySock[p] # "open"
      BY <1>4, <2>2 DEF DialDone, FreeProxy
    <3> QED
      BY <1>0, <1>4, <3>1, ChannelEmpty DEF DialDone, ChannelInv, Quiet
  <2> QED
    BY <2>1, <2>2
<1>5. CASE CmdClose
  BY <1>0, <1>5, ChannelFrame DEF CmdClose
<1>6. CASE CmdInactive
  BY <1>0, <1>6, ChannelFrame DEF CmdInactive
<1>7. CASE ClearRealServerChannels
  BY <1>0, <1>7, ChannelFrame DEF ClearRealServerChannels
<1>8. CASE Reconnect
  BY <1>0, <1>8, ChannelFrame DEF Reconnect
<1>9. ASSUME NEW q \in Proxies, ServerBind(q)
      PROVE  ChannelInv(p)'
  BY <1>0, <1>9, ChannelServerBind
<1>10. ASSUME NEW q \in Proxies, ServerReceive(q)
       PROVE  ChannelInv(p)'
  BY <1>0, <1>10, ChannelTaken DEF ServerReceive, ServerTakes
<1>11. ASSUME NEW q \in Proxies, ServerDisconnect(q)
       PROVE  ChannelInv(p)'
  <2>1. /\ up[q] # <<>> /\ up' = [up EXCEPT ![q] = Tail(@)]
        /\ UNCHANGED <<proxySock, nextOfProxy, user>>
    BY <1>11 DEF ServerDisconnect, ServerTakes
  <2>2. CASE bound[q] = None
    BY <1>0, <1>11, <2>1, <2>2, ChannelTaken DEF ServerDisconnect
  <2>3. CASE bound[q] # None
    <3>1. ServerUnbinds(q)
      BY <1>11, <2>3 DEF ServerDisconnect
    <3>2. up'[p] = up[p] \/ (q = p /\ up[p] # <<>> /\ up'[p] = Tail(up[p]))
      BY <2>1 DEF TypeOK
    <3> QED
      BY <1>0, <2>1, <2>3, <3>1, <3>2, ChannelUnbinds
  <2> QED
    BY <2>2, <2>3
<1>12. ASSUME NEW q \in Proxies, ServerSend(q)
       PROVE  ChannelInv(p)'
  <2>1. /\ bound[q] # None
        /\ down' = [down EXCEPT ![q] = Append(@, Message("TRANSFER", bound[q]))]
        /\ UNCHANGED <<proxySock, up, bound, nextOfProxy, user>>
    BY <1>12 DEF ServerSend
  <2>2. CASE p # q
    BY <1>0, <2>1, <2>2, ChannelFrame DEF TypeOK
  <2>3. CASE p = q
    <3>1. down'[p] = Append(down[p], Message("TRANSFER", bound[p]))
      BY <2>1, <2>3 DEF TypeOK
    <3>2. /\ nextOfProxy[p] \in Reals /\ proxySock[p] = "open"
          /\ ~Holds(up[p], "CONNECT")
          /\ Answers(down'[p], user[nextOfProxy[p]])
          /\ ~Holds(down'[p], "DISCONNECT")
      BY <1>0, <2>1, <2>3, <3>1, ChannelAnswers
    <3> QED
      BY <1>0, <2>1, <3>2 DEF ChannelInv, Quiet
  <2> QED
    BY <2>2, <2>3
<1>13. ASSUME NEW u \in Users, UserGone(u)
       PROVE  ChannelInv(p)'
  <2>1. UNCHANGED <<proxySock, up, nextOfProxy, user>>
    BY <1>13 DEF UserGone
  <2>2. CASE UNCHANGED <<down, bound>>
    BY <1>0, <2>1, <2>2, ChannelFrame
  <2>3. ASSUME NEW q \in Proxies, bound[q] = u, ServerUnbinds(q)
        PROVE  ChannelInv(p)'
    BY <1>0, <2>1, <2>3, ChannelUnbinds
  <2> QED
    BY <1>13, <2>2, <2>3 DEF UserGone
<1>14. CASE UNCHANGED vars
  BY <1>0, <1>14, ChannelFrame DEF vars
<1> QED
  BY <1>1, <1>2, <1>3, <1>4, <1>5, <1>6, <1>7, <1>8, <1>9, <1>10, <1>11, <1>12, <1>13, <1>14
     DEF Next, CmdStep, ServerStep

(* WireInv is an invariant of the specification, with what it rests on. *)
LEMMA WireInvariance == Spec => [](IInv /\ StageInv /\ WireInv)
<1>1. Init => WireInv
  BY WireInit
<1>2. IInv /\ StageInv /\ WireInv /\ [Next]_vars => WireInv'
  BY WireNext DEF IInv
<1> QED
  BY <1>1, <1>2, StageInvariance, PTL DEF Spec

-----------------------------------------------------------------------------
(* ReceivedOwnUser: a connection has had data only since success() bound   *)
(* it, and what a data channel brings belongs to the present binding.      *)

(* Every step preserves ReceivedOwnUser. *)
LEMMA ReceivedNext ==
  ASSUME TypeOK, StageInv, WireInv, ReceivedOwnUser, [Next]_vars
  PROVE  ReceivedOwnUser'
<1> USE ProxyClientAssumption DEF realVars, proxyVars, sharedVars, ReceivedOwnUser
<1>1. ASSUME NEW u \in Users, NEW r \in Reals, HandleConnect(u, r)
      PROVE  ReceivedOwnUser'
  BY <1>1 DEF HandleConnect, TypeOK
<1>2. ASSUME NEW r \in Reals, RealStep(r)
      PROVE  ReceivedOwnUser'
  <2>1. CASE ConnectFailed(r)
    BY <2>1 DEF ConnectFailed, StageInv, RealInv, TypeOK
  <2>2. CASE ~ConnectFailed(r)
    <3>1. UNCHANGED <<user, received>>
      BY <1>2, <2>2 DEF RealStep, ConnectDone, DialFailed, Bind, AddReal,
                        SetUserId, RealRead, RealClose, RealInactive
    <3> QED
      BY <3>1
  <2> QED
    BY <2>1, <2>2
<1>3. ASSUME NEW p \in Proxies, ProxyStep(p)
      PROVE  ReceivedOwnUser'
  <2>1. CASE HandleTransfer(p)
    <3>1. ChannelInv(p) /\ Arrives(p, "TRANSFER") /\ user' = user
      BY <2>1 DEF HandleTransfer, WireInv
    <3>2. /\ nextOfProxy[p] \in Reals
          /\ Head(down[p]).user = user[nextOfProxy[p]]
      BY <3>1, ChannelArrives
    <3>3. received' = [received EXCEPT ![nextOfProxy[p]] =
                         @ \cup {user[nextOfProxy[p]]}]
      BY <2>1, <3>2 DEF HandleTransfer
    <3> QED
      BY <3>1, <3>2, <3>3 DEF TypeOK
  <2>2. CASE ~HandleTransfer(p)
    <3>1. UNCHANGED <<user, received>>
      BY <1>3, <2>2 DEF ProxyStep, HandleDisconnect, FinishDisconnect,
                        ProxyClose, ProxyInactive
    <3> QED
      BY <3>1
  <2> QED
    BY <2>1, <2>2
<1>4. ASSUME NEW r \in Reals, NEW p \in Proxies, DialDone(r, p)
      PROVE  ReceivedOwnUser'
  BY <1>4 DEF DialDone
<1>5. CASE CmdStep
  BY <1>5 DEF CmdStep, CmdClose, CmdInactive, ClearRealServerChannels, Reconnect
<1>6. CASE ServerStep
  BY <1>6 DEF ServerStep, ServerBind, ServerReceive, ServerDisconnect, ServerSend,
              UserGone
<1>7. CASE UNCHANGED vars
  BY <1>7 DEF vars
<1> QED
  BY <1>1, <1>2, <1>3, <1>4, <1>5, <1>6, <1>7 DEF Next

(* No user's data is written to another user's local connection, though a  *)
(* data channel goes from user to user and old messages are still on it.   *)
THEOREM NoForeignData == Spec => []ReceivedOwnUser
<1>1. Init => ReceivedOwnUser
  BY DEF Init, ReceivedOwnUser
<1>2. IInv /\ StageInv /\ WireInv /\ ReceivedOwnUser /\ [Next]_vars => ReceivedOwnUser'
  BY ReceivedNext DEF IInv
<1> QED
  BY <1>1, <1>2, WireInvariance, PTL DEF Spec

-----------------------------------------------------------------------------
(* The refinement of Tunnel.                                               *)

(* Owner and Life, as functions of the variables they read. *)
OwnerOf(l, s, n) ==
  [p \in Proxies |->
     IF \E r \in Reals : l[r] = p THEN CHOOSE r \in Reals : l[r] = p
     ELSE IF s[p] = "dead" THEN None ELSE n[p]]

LifeOf(s) == CASE s = "idle" -> "unused"
               [] s \in {"connecting", "dialing"} -> "waiting"
               [] s = "failed" -> "refused"
               [] OTHER -> "served"

(* The choice in Owner is none when callbacks hold different channels. *)
LEMMA OwnerChoice ==
  ASSUME NEW l, NEW s, NEW n, NEW p \in Proxies, NEW r \in Reals, l[r] = p,
         \A q \in Reals : l[q] = p => q = r
  PROVE  OwnerOf(l, s, n)[p] = r
<1>1. PICK c : c = CHOOSE q \in Reals : l[q] = p
  OBVIOUS
<1>2. c \in Reals /\ l[c] = p
  BY <1>1, Zenon
<1>3. c = r
  BY <1>2
<1>4. \E q \in Reals : l[q] = p
  OBVIOUS
<1>5. OwnerOf(l, s, n)[p] = CHOOSE q \in Reals : l[q] = p
  BY <1>4, Zenon DEF OwnerOf
<1> QED
  BY <1>1, <1>3, <1>5, Zenon

(* Whom a data channel belongs to. *)
OwnedAs(o, l, s, n) ==
  /\ o \in [Proxies -> Reals \cup {None}]
  /\ \A p \in Proxies, r \in Reals : l[r] = p => o[p] = r
  /\ \A p \in Proxies : (\A r \in Reals : l[r] # p) =>
       o[p] = IF s[p] = "dead" THEN None ELSE n[p]

(* OwnerOf gives the owner when callbacks hold different channels. *)
LEMMA OwnerOfOwned ==
  ASSUME NEW l, NEW s, NEW n \in [Proxies -> Reals \cup {None}],
         \A q, r \in Reals : l[q] \in Proxies /\ l[q] = l[r] => q = r
  PROVE  OwnedAs(OwnerOf(l, s, n), l, s, n)
<1>1. ASSUME NEW p \in Proxies, NEW r \in Reals, l[r] = p
      PROVE  OwnerOf(l, s, n)[p] = r
  BY <1>1, OwnerChoice
<1>2. ASSUME NEW p \in Proxies, \A r \in Reals : l[r] # p
      PROVE  OwnerOf(l, s, n)[p] = IF s[p] = "dead" THEN None ELSE n[p]
  BY <1>2, Zenon DEF OwnerOf
<1>3. OwnerOf(l, s, n) = [p \in Proxies |-> OwnerOf(l, s, n)[p]]
  BY Zenon DEF OwnerOf
<1>4. \A p \in Proxies : OwnerOf(l, s, n)[p] \in Reals \cup {None}
  BY <1>1, <1>2
<1> HIDE DEF OwnerOf
<1>5. OwnerOf(l, s, n) \in [Proxies -> Reals \cup {None}]
  BY <1>3, <1>4, Zenon
<1> QED
  BY <1>1, <1>2, <1>5 DEF OwnedAs

(* Now and after a step. *)
LEMMA OwnerNow ==
  ASSUME TypeOK, LeaseDetached
  PROVE  OwnedAs(Owner, lease, proxySock, nextOfProxy)
<1>1. Owner = OwnerOf(lease, proxySock, nextOfProxy)
  BY Zenon DEF Owner, OwnerOf
<1>2. \A q, r \in Reals : lease[q] \in Proxies /\ lease[q] = lease[r] => q = r
  BY ProxyClientAssumption DEF LeaseDetached
<1>3. nextOfProxy \in [Proxies -> Reals \cup {None}]
  BY DEF TypeOK
<1> QED
  BY <1>1, <1>2, <1>3, OwnerOfOwned

(* The owners after a step, by the same definition. *)
LEMMA OwnerNext ==
  ASSUME TypeOK', LeaseDetached'
  PROVE  OwnedAs(Owner', lease', proxySock', nextOfProxy')
<1>1. Owner' = OwnerOf(lease', proxySock', nextOfProxy')
  BY Zenon DEF Owner, OwnerOf
<1>2. \A q, r \in Reals : lease'[q] \in Proxies /\ lease'[q] = lease'[r] => q = r
  BY ProxyClientAssumption DEF LeaseDetached
<1>3. nextOfProxy' \in [Proxies -> Reals \cup {None}]
  BY DEF TypeOK
<1> QED
  BY <1>1, <1>2, <1>3, OwnerOfOwned

(* The stages, seen from Tunnel. *)
LEMMA Lives ==
  /\ LifeOf("idle") = "unused" /\ LifeOf("connecting") = "waiting"
  /\ LifeOf("dialing") = "waiting" /\ LifeOf("failed") = "refused"
  /\ LifeOf("leased") = "served" /\ LifeOf("bound") = "served"
  /\ LifeOf("mapped") = "served" /\ LifeOf("done") = "served"
BY DEF LifeOf

(* The life of every connection is that of its stage. *)
LEMMA LifeNow ==
  /\ Life = [r \in Reals |-> LifeOf(stage[r])]
  /\ Life' = [r \in Reals |-> LifeOf(stage'[r])]
BY Zenon DEF Life, LifeOf

(* One connection enters another stage. *)
LEMMA LifeChange ==
  ASSUME TypeOK, NEW r \in Reals, NEW s, stage' = [stage EXCEPT ![r] = s]
  PROVE  Life[r] = LifeOf(stage[r]) /\ Life' = [Life EXCEPT ![r] = LifeOf(s)]
BY LifeNow DEF TypeOK

(* A connection enters a stage of the same life: nothing to see. *)
LEMMA LifeSame ==
  ASSUME TypeOK, NEW r \in Reals, NEW s, stage' = [stage EXCEPT ![r] = s],
         LifeOf(s) = LifeOf(stage[r])
  PROVE  Life' = Life
<1>1. \A q \in Reals : LifeOf(stage'[q]) = LifeOf(stage[q])
  BY DEF TypeOK
<1> QED
  BY <1>1, LifeNow

(* The owner depends on these variables only. *)
LEMMA OwnerFrame ==
  ASSUME UNCHANGED <<lease, proxySock, nextOfProxy>>
  PROVE  Owner' = Owner
BY Zenon DEF Owner

(* A data channel whose leases and sockets did not change keeps its owner. *)
LEMMA OwnerKept ==
  ASSUME NEW o, NEW l, NEW s, NEW n, OwnedAs(o, l, s, n),
         NEW oo, NEW ll, NEW ss, NEW nn, OwnedAs(oo, ll, ss, nn),
         NEW p \in Proxies, \A r \in Reals : ll[r] = p <=> l[r] = p,
         ss[p] = "dead" <=> s[p] = "dead", nn[p] = n[p]
  PROVE  oo[p] = o[p]
<1>1. CASE \E r \in Reals : l[r] = p
  BY <1>1 DEF OwnedAs
<1>2. CASE \A r \in Reals : l[r] # p
  BY <1>2 DEF OwnedAs
<1> QED
  BY <1>1, <1>2

(* One data channel changes hands, or none does. *)
LEMMA OwnerChange ==
  ASSUME NEW o \in [Proxies -> Reals \cup {None}],
         NEW oo \in [Proxies -> Reals \cup {None}],
         NEW p \in Proxies, NEW x, oo[p] = x,
         \A q \in Proxies : q # p => oo[q] = o[q]
  PROVE  oo = [o EXCEPT ![p] = x]
OBVIOUS

(* Owners that agree everywhere are the same. *)
LEMMA OwnerSame ==
  ASSUME OwnedAs(Owner, lease, proxySock, nextOfProxy),
         OwnedAs(Owner', lease', proxySock', nextOfProxy'),
         \A p \in Proxies : Owner'[p] = Owner[p]
  PROVE  Owner' = Owner
BY DEF OwnedAs

(* At first nobody owns anything. *)
LEMMA TunnelInit == Init => T!Init
<1> SUFFICES ASSUME Init
             PROVE  T!Init
  OBVIOUS
<1> USE ProxyClientAssumption
<1>1. TypeOK /\ LeaseDetached
  BY TypeInit, PoolInit DEF PoolInv
<1>2. OwnedAs(Owner, lease, proxySock, nextOfProxy)
  BY <1>1, OwnerNow
<1>3. Owner = [p \in Proxies |-> None]
  BY <1>2 DEF Init, OwnedAs
<1>4. Life = [r \in Reals |-> "unused"]
  BY LifeNow, Lives DEF Init
<1> QED
  BY <1>3, <1>4 DEF Init, T!Init

(* Every step is a step of Tunnel: a new connection opens, takes a channel *)
(* from the pool or a dialled one, is delivered data, or gives up.         *)
LEMMA TunnelNext ==
  ASSUME IInv, StageInv, WireInv, IInv', [Next]_vars
  PROVE  [T!Next]_(T!vars)
<1> USE ProxyClientAssumption DEF realVars, proxyVars, sharedVars
<1>0. /\ TypeOK /\ PoolInv /\ LeaseDetached
      /\ OwnedAs(Owner, lease, proxySock, nextOfProxy)
      /\ OwnedAs(Owner', lease', proxySock', nextOfProxy')
  BY OwnerNow, OwnerNext DEF IInv, PoolInv
<1> DEFINE Same == Life' = Life /\ user' = user /\ Owner' = Owner /\ received' = received
<1>a. Same => T!Next
  BY DEF T!Next, T!Internal, T!vars
<1>b. UNCHANGED <<stage, lease, proxySock, nextOfProxy, user, received>> => Same
  BY OwnerFrame, LifeNow
<1> HIDE DEF Same
<1>1. ASSUME NEW u \in Users, NEW r \in Reals, HandleConnect(u, r)
      PROVE  T!Next
  <2>1. /\ stage[r] \in {"idle", "done", "failed"} /\ lease[r] = None
        /\ stage' = [stage EXCEPT ![r] = "connecting"]
        /\ user' = [user EXCEPT ![r] = u]
        /\ received' = [received EXCEPT ![r] = {}]
        /\ lease' = [lease EXCEPT ![r] = None]
        /\ UNCHANGED <<proxySock, nextOfProxy>>
    BY <1>1 DEF HandleConnect, FreeReal, StageInv, RealInv
  <2>2. lease' = lease
    BY <1>0, <2>1 DEF TypeOK
  <2>3. Owner' = Owner
    BY <2>1, <2>2, OwnerFrame
  <2>4. \A p \in Proxies : Owner[p] # r
    BY <1>0, <1>1, <2>1 DEF OwnedAs, HandleConnect, FreeReal, StageInv, BehindInv,
                            RealInv
  <2>5. Life[r] # "waiting" /\ Life' = [Life EXCEPT ![r] = "waiting"]
    <3>1. /\ Life[r] = LifeOf(stage[r])
          /\ Life' = [Life EXCEPT ![r] = LifeOf("connecting")]
      BY <1>0, <2>1, LifeChange
    <3> QED
      BY <2>1, <3>1, Lives
  <2>6. T!Open(r, u)
    BY <2>1, <2>3, <2>4, <2>5 DEF T!Open, T!HasNone
  <2> QED
    BY <2>6 DEF T!Next
<1>2. ASSUME NEW r \in Reals, RealStep(r)
      PROVE  T!Next
  <2>1. CASE ConnectFailed(r)
    <3>1. Life[r] = "waiting" /\ Life' = [Life EXCEPT ![r] = "unused"]
      <4>1. stage[r] = "connecting" /\ stage' = [stage EXCEPT ![r] = "idle"]
        BY <2>1 DEF ConnectFailed
      <4>2. /\ Life[r] = LifeOf(stage[r])
            /\ Life' = [Life EXCEPT ![r] = LifeOf("idle")]
        BY <1>0, <4>1, LifeChange
      <4> QED
        BY <4>1, <4>2, Lives
    <3>2. T!Fail(r)
      BY <2>1, <3>1, OwnerFrame DEF ConnectFailed, T!Fail
    <3> QED
      BY <3>2 DEF T!Next
  <2>2. CASE ConnectDone(r)
    <3>1. stage[r] = "connecting" /\ UNCHANGED <<user, received, proxySock, nextOfProxy>>
      BY <2>2 DEF ConnectDone
    <3>2. CASE pool = <<>>
      <4>1. stage' = [stage EXCEPT ![r] = "dialing"] /\ lease' = lease
        BY <2>2, <3>2 DEF ConnectDone
      <4>2. Life' = Life
        BY <1>0, <3>1, <4>1, Lives, LifeSame
      <4> QED
        BY <1>a, <3>1, <4>1, <4>2, OwnerFrame DEF Same
    <3>3. CASE pool # <<>>
      <4>1. PICK h : h = Head(pool)
        OBVIOUS
      <4>2. /\ stage' = [stage EXCEPT ![r] = "leased"]
            /\ lease' = [lease EXCEPT ![r] = h]
        BY <2>2, <3>3, <4>1 DEF ConnectDone
      <4>3. h \in Proxies /\ PoolElement(h)
        <5>1. Distinct(pool) /\ \A i \in 1..Len(pool) : PoolElement(pool[i])
          BY <1>0, PoolElements
        <5>2. h \in Proxies /\ 1 \in 1..Len(pool) /\ h = pool[1]
          BY <1>0, <3>3, <4>1, <5>1, PollLemma DEF TypeOK
        <5> QED
          BY <5>1, <5>2
      <4>4. Owner[h] = None
        BY <1>0, <4>3 DEF OwnedAs, PoolElement
      <4>5. lease[r] = None
        BY <3>1 DEF StageInv, RealInv
      <4>6. Owner' = [Owner EXCEPT ![h] = r]
        <5>1. Owner'[h] = r
          BY <1>0, <4>2, <4>3 DEF OwnedAs, TypeOK
        <5>2. ASSUME NEW p \in Proxies, p # h
              PROVE  Owner'[p] = Owner[p]
          <6>1. \A q \in Reals : lease'[q] = p <=> lease[q] = p
            BY <1>0, <4>2, <4>5, <5>2 DEF TypeOK
          <6> QED
            BY <1>0, <3>1, <6>1, OwnerKept
        <5> QED
          BY <1>0, <4>3, <5>1, <5>2, OwnerChange DEF OwnedAs
      <4>7. Life[r] = "waiting" /\ Life' = [Life EXCEPT ![r] = "served"]
        <5>1. /\ Life[r] = LifeOf(stage[r])
              /\ Life' = [Life EXCEPT ![r] = LifeOf("leased")]
          BY <1>0, <4>2, LifeChange
        <5> QED
          BY <3>1, <5>1, Lives
      <4>8. T!Take(r, h)
        BY <3>1, <4>4, <4>6, <4>7 DEF T!Take
      <4> QED
        BY <4>3, <4>8 DEF T!Next
    <3> QED
      BY <3>2, <3>3
  <2>3. CASE DialFailed(r)
    <3>1. Life[r] = "waiting" /\ Life' = [Life EXCEPT ![r] = "refused"]
      <4>1. stage[r] = "dialing" /\ stage' = [stage EXCEPT ![r] = "failed"]
        BY <2>3 DEF DialFailed
      <4>2. /\ Life[r] = LifeOf(stage[r])
            /\ Life' = [Life EXCEPT ![r] = LifeOf("failed")]
        BY <1>0, <4>1, LifeChange
      <4> QED
        BY <4>1, <4>2, Lives
    <3>2. T!Refuse(r)
      BY <2>3, <3>1, OwnerFrame DEF DialFailed, T!Refuse
    <3> QED
      BY <3>2 DEF T!Next
  <2>4. CASE Bind(r)
    <3>1. PICK h \in Proxies : h = lease[r]
      BY <1>0, <2>4 DEF Bind, StageInv, RealInv, TypeOK
    <3>2. /\ stage[r] = "leased" /\ stage' = [stage EXCEPT ![r] = "bound"]
          /\ lease' = [lease EXCEPT ![r] = None]
          /\ nextOfProxy' = [nextOfProxy EXCEPT ![h] = r]
          /\ UNCHANGED <<user, received, proxySock>>
      BY <2>4, <3>1 DEF Bind
    <3>3. Life' = Life
      BY <1>0, <3>2, Lives, LifeSame
    <3>4. Owner[h] = r
      BY <1>0, <3>1 DEF OwnedAs
    <3>5. \A q \in Reals : lease'[q] # h
      BY <1>0, <3>1, <3>2 DEF LeaseDetached, TypeOK
    <3>6. Owner'[h] = IF proxySock[h] = "dead" THEN None ELSE r
      BY <1>0, <3>2, <3>5 DEF OwnedAs, TypeOK
    <3>7. ASSUME NEW p \in Proxies, p # h
          PROVE  Owner'[p] = Owner[p]
      <4>1. \A q \in Reals : lease'[q] = p <=> lease[q] = p
        BY <1>0, <3>1, <3>2, <3>7 DEF TypeOK
      <4>2. /\ proxySock'[p] = "dead" <=> proxySock[p] = "dead"
            /\ nextOfProxy'[p] = nextOfProxy[p]
        BY <1>0, <3>2, <3>7 DEF TypeOK
      <4>3. /\ OwnedAs(Owner, lease, proxySock, nextOfProxy)
            /\ OwnedAs(Owner', lease', proxySock', nextOfProxy')
        BY <1>0
      <4> QED
        BY <4>1, <4>2, <4>3, OwnerKept
    <3>8. CASE proxySock[h] = "dead"
      <4>1. Owner' = [Owner EXCEPT ![h] = None]
        BY <1>0, <3>6, <3>7, <3>8, OwnerChange DEF OwnedAs
      <4>2. T!GiveUp(h)
        BY <3>2, <3>3, <3>4, <4>1 DEF T!GiveUp
      <4> QED
        BY <4>2 DEF T!Next
    <3>9. CASE proxySock[h] # "dead"
      <4>1. Owner' = Owner
        BY <1>0, <3>4, <3>6, <3>7, <3>9, OwnerSame
      <4> QED
        BY <1>a, <3>2, <3>3, <4>1 DEF Same
    <3> QED
      BY <3>8, <3>9
  <2>5. CASE AddReal(r) \/ SetUserId(r)
    <3>1. /\ UNCHANGED <<user, received, lease, proxySock, nextOfProxy>>
          /\ \/ stage[r] = "bound" /\ stage' = [stage EXCEPT ![r] = "mapped"]
             \/ stage[r] = "mapped" /\ stage' = [stage EXCEPT ![r] = "done"]
      BY <2>5 DEF AddReal, SetUserId
    <3>2. Life' = Life
      BY <1>0, <3>1, Lives, LifeSame
    <3> QED
      BY <1>a, <3>1, <3>2, OwnerFrame DEF Same
  <2>6. CASE RealRead(r) \/ RealClose(r) \/ RealInactive(r)
    BY <1>a, <1>b, <2>6 DEF RealRead, RealClose, RealInactive
  <2> QED
    BY <1>2, <2>1, <2>2, <2>3, <2>4, <2>5, <2>6 DEF RealStep
<1>3. ASSUME NEW p \in Proxies, ProxyStep(p)
      PROVE  T!Next
  <2>1. CASE HandleTransfer(p)
    <3>1. /\ ChannelInv(p) /\ Arrives(p, "TRANSFER") /\ proxySock[p] = "open"
          /\ UNCHANGED <<stage, user, lease, proxySock, nextOfProxy>>
      BY <2>1 DEF HandleTransfer, WireInv, Arrives
    <3>2. PICK r \in Reals :
            r = nextOfProxy[p] /\ Head(down[p]).user = user[r]
      BY <1>0, <3>1, ChannelArrives
    <3>3. received' = [received EXCEPT ![r] = @ \cup {user[r]}]
      BY <2>1, <3>2 DEF HandleTransfer
    <3>4. Owner[p] = r
      BY <1>0, <3>1, <3>2 DEF OwnedAs, LeaseDetached
    <3>5. T!Deliver(r)
      BY <3>1, <3>3, <3>4, OwnerFrame, LifeNow DEF T!Deliver, T!HasNone
    <3> QED
      BY <3>5 DEF T!Next
  <2>2. CASE HandleDisconnect(p)
    <3>1. UNCHANGED <<stage, user, received, lease, proxySock>>
      BY <2>2 DEF HandleDisconnect
    <3>2. Life' = Life
      BY <3>1, LifeNow
    <3>3. CASE nextOfProxy[p] = None
      BY <1>a, <1>b, <2>2, <3>1, <3>3 DEF HandleDisconnect
    <3>4. CASE nextOfProxy[p] # None
      <4>1. proxySock[p] = "open" /\ nextOfProxy' = [nextOfProxy EXCEPT ![p] = None]
        BY <2>2, <3>4 DEF HandleDisconnect, Arrives
      <4>2. \A q \in Reals : lease[q] # p
        BY <1>0, <3>4 DEF LeaseDetached
      <4>3. Owner[p] # None /\ Owner'[p] = None
        BY <1>0, <3>1, <3>4, <4>1, <4>2 DEF OwnedAs, TypeOK
      <4>4. ASSUME NEW q \in Proxies, q # p
            PROVE  Owner'[q] = Owner[q]
        <5>1. nextOfProxy'[q] = nextOfProxy[q]
          BY <1>0, <4>1, <4>4 DEF TypeOK
        <5> QED
          BY <1>0, <3>1, <5>1, OwnerKept
      <4>5. Owner' = [Owner EXCEPT ![p] = None]
        BY <1>0, <4>3, <4>4, OwnerChange DEF OwnedAs
      <4>6. T!GiveUp(p)
        BY <3>1, <3>2, <4>3, <4>5 DEF T!GiveUp
      <4> QED
        BY <4>6 DEF T!Next
    <3> QED
      BY <3>3, <3>4
  <2>3. CASE FinishDisconnect(p)
    BY <1>a, <1>b, <2>3 DEF FinishDisconnect
  <2>4. CASE ProxyClose(p)
    <3>1. /\ UNCHANGED <<stage, user, received, lease, nextOfProxy>>
          /\ \A q \in Proxies : proxySock'[q] = "dead" <=> proxySock[q] = "dead"
      BY <1>0, <2>4 DEF ProxyClose, TypeOK
    <3>2. \A q \in Proxies : Owner'[q] = Owner[q]
      BY <1>0, <3>1 DEF OwnedAs
    <3> QED
      BY <1>0, <1>a, <3>1, <3>2, OwnerSame, LifeNow DEF Same
  <2>5. CASE ProxyInactive(p)
    <3>1. /\ UNCHANGED <<stage, user, received, lease, nextOfProxy>>
          /\ proxySock[p] = "closed" /\ proxySock' = [proxySock EXCEPT ![p] = "dead"]
      BY <2>5 DEF ProxyInactive
    <3>2. Life' = Life
      BY <3>1, LifeNow
    <3>3. ASSUME NEW q \in Proxies, q # p
          PROVE  Owner'[q] = Owner[q]
      <4>1. /\ proxySock'[q] = "dead" <=> proxySock[q] = "dead"
            /\ nextOfProxy'[q] = nextOfProxy[q]
            /\ \A x \in Reals : lease'[x] = q <=> lease[x] = q
        BY <1>0, <3>1, <3>3 DEF TypeOK
      <4>2. /\ OwnedAs(Owner, lease, proxySock, nextOfProxy)
            /\ OwnedAs(Owner', lease', proxySock', nextOfProxy')
        BY <1>0
      <4> QED
        BY <4>1, <4>2, OwnerKept
    <3>4. Owner'[p] \in {Owner[p], None}
      <4>1. proxySock'[p] = "dead"
        BY <1>0, <3>1 DEF TypeOK
      <4>2. CASE \E q \in Reals : lease[q] = p
        BY <1>0, <3>1, <4>2 DEF OwnedAs
      <4>3. CASE \A q \in Reals : lease[q] # p
        BY <1>0, <3>1, <4>1, <4>3 DEF OwnedAs
      <4> QED
        BY <4>2, <4>3
    <3>5. CASE Owner'[p] = Owner[p]
      BY <1>0, <1>a, <3>1, <3>2, <3>3, <3>5, OwnerSame DEF Same
    <3>6. CASE Owner'[p] # Owner[p]
      <4>1. Owner[p] # None /\ Owner' = [Owner EXCEPT ![p] = None]
        BY <1>0, <3>3, <3>4, <3>6, OwnerChange DEF OwnedAs
      <4>2. T!GiveUp(p)
        BY <3>1, <3>2, <4>1 DEF T!GiveUp
      <4> QED
        BY <4>2 DEF T!Next
    <3> QED
      BY <3>5, <3>6
  <2> QED
    BY <1>3, <2>1, <2>2, <2>3, <2>4, <2>5 DEF ProxyStep
<1>4. ASSUME NEW r \in Reals, NEW p \in Proxies, DialDone(r, p)
      PROVE  T!Next
  <2>1. /\ stage[r] = "dialing" /\ stage' = [stage EXCEPT ![r] = "leased"]
        /\ lease' = [lease EXCEPT ![r] = p]
        /\ proxySock' = [proxySock EXCEPT ![p] = "open"]
        /\ nextOfProxy' = [nextOfProxy EXCEPT ![p] = None]
        /\ UNCHANGED <<user, received>>
        /\ FreeProxy(p)
    BY <1>4 DEF DialDone
  <2>2. lease[r] = None /\ \A q \in Reals : lease[q] # p
    BY <1>0, <2>1 DEF FreeProxy, StageInv, RealInv, LeaseDetached
  <2>3. Owner[p] = None
    BY <1>0, <2>1, <2>2 DEF OwnedAs, FreeProxy, StageInv, BehindInv
  <2>4. Owner' = [Owner EXCEPT ![p] = r]
    <3>1. Owner'[p] = r
      BY <1>0, <2>1 DEF OwnedAs, TypeOK
    <3>2. ASSUME NEW q \in Proxies, q # p
          PROVE  Owner'[q] = Owner[q]
      <4>1. \A x \in Reals : lease'[x] = q <=> lease[x] = q
        BY <1>0, <2>1, <2>2, <3>2 DEF TypeOK
      <4>2. proxySock'[q] = proxySock[q] /\ nextOfProxy'[q] = nextOfProxy[q]
        BY <1>0, <2>1, <3>2 DEF TypeOK
      <4> QED
        BY <1>0, <4>1, <4>2, OwnerKept
    <3> QED
      BY <1>0, <3>1, <3>2, OwnerChange DEF OwnedAs
  <2>5. Life[r] = "waiting" /\ Life' = [Life EXCEPT ![r] = "served"]
    <3>1. /\ Life[r] = LifeOf(stage[r])
          /\ Life' = [Life EXCEPT ![r] = LifeOf("leased")]
      BY <1>0, <2>1, LifeChange
    <3> QED
      BY <2>1, <3>1, Lives
  <2>6. T!Take(r, p)
    BY <2>1, <2>3, <2>4, <2>5 DEF T!Take
  <2> QED
    BY <2>6 DEF T!Next
<1>5. CASE CmdStep
  BY <1>a, <1>b, <1>5
     DEF CmdStep, CmdClose, CmdInactive, ClearRealServerChannels, Reconnect
<1>6. CASE ServerStep
  BY <1>a, <1>b, <1>6
     DEF ServerStep, ServerBind, ServerReceive, ServerDisconnect, ServerSend, UserGone
<1>7. CASE UNCHANGED vars
  BY <1>a, <1>b, <1>7 DEF vars
<1> QED
  BY <1>1, <1>2, <1>3, <1>4, <1>5, <1>6, <1>7 DEF Next

(* The channel manager and its handlers implement Tunnel. *)
THEOREM TunnelImplemented == Spec => ImplementsTunnel
<1>1. Init => T!Init
  BY TunnelInit
<1>2. IInv /\ StageInv /\ WireInv /\ IInv' /\ [Next]_vars => [T!Next]_(T!vars)
  BY TunnelNext
<1> QED
  BY <1>1, <1>2, WireInvariance, PTL DEF Spec, ImplementsTunnel, T!Spec

-----------------------------------------------------------------------------
(* realServerChannels: who is in it, and who has left it.                  *)

MapInv ==
  \A u \in Users, r \in Reals : realServerChannels[u] = r =>
    /\ user[r] = u /\ stage[r] \in {"mapped", "done"}
    /\ ~(pooled[r] /\ realSock[r] = "dead")

(* MapInv reads these variables only. *)
LEMMA MapFrame ==
  ASSUME MapInv, UNCHANGED <<stage, user, realSock, pooled, realServerChannels>>
  PROVE  MapInv'
BY DEF MapInv

(* Every step preserves MapInv. *)
LEMMA MapNext ==
  ASSUME TypeOK, StageInv, MapInv, [Next]_vars
  PROVE  MapInv'
<1> USE ProxyClientAssumption DEF realVars, proxyVars, sharedVars
<1>1. ASSUME NEW u \in Users, NEW r \in Reals, HandleConnect(u, r)
      PROVE  MapInv'
  BY <1>1 DEF HandleConnect, FreeReal, MapInv, TypeOK
<1>2. ASSUME NEW r \in Reals, RealStep(r)
      PROVE  MapInv'
  <2>0. RealInv(r)
    BY DEF StageInv
  <2>1. CASE ConnectFailed(r)
    BY <2>1 DEF ConnectFailed, MapInv, TypeOK
  <2>2. CASE ConnectDone(r)
    <3>1. /\ stage[r] = "connecting"
          /\ \A q \in Reals : q # r => /\ stage'[q] = stage[q]
                                      /\ realSock'[q] = realSock[q]
                                      /\ pooled'[q] = pooled[q]
          /\ UNCHANGED <<user, realServerChannels>>
      BY <2>2 DEF ConnectDone, TypeOK
    <3> QED
      BY <3>1 DEF MapInv
  <2>3. CASE DialFailed(r)
    BY <2>3 DEF DialFailed, MapInv, TypeOK
  <2>4. CASE Bind(r)
    BY <2>4 DEF Bind, MapInv, TypeOK
  <2>5. CASE AddReal(r)
    BY <2>0, <2>5 DEF AddReal, RealInv, MapInv, TypeOK
  <2>6. CASE SetUserId(r)
    BY <2>6 DEF SetUserId, MapInv, TypeOK
  <2>7. CASE RealRead(r)
    BY <2>7, MapFrame DEF RealRead
  <2>8. CASE RealClose(r)
    BY <2>8 DEF RealClose, MapInv, TypeOK
  <2>9. CASE RealInactive(r)
    <3>1. /\ realSock' = [realSock EXCEPT ![r] = "dead"]
          /\ UNCHANGED <<stage, user, pooled>>
      BY <2>9 DEF RealInactive
    <3>2. CASE userId[r] = None
      <4>1. ~pooled[r] /\ realServerChannels' = realServerChannels
        BY <2>0, <2>9, <3>2 DEF RealInactive, RealLoopBusy, RealInv
      <4> QED
        BY <3>1, <4>1 DEF MapInv, TypeOK
    <3>3. CASE userId[r] # None
      <4>1. /\ user[r] = userId[r]
            /\ realServerChannels' = [realServerChannels EXCEPT ![userId[r]] = None]
        BY <2>0, <2>9, <3>3 DEF RealInactive, RealInv
      <4> QED
        BY <3>1, <4>1 DEF MapInv, TypeOK
    <3> QED
      BY <3>2, <3>3
  <2> QED
    BY <1>2, <2>1, <2>2, <2>3, <2>4, <2>5, <2>6, <2>7, <2>8, <2>9 DEF RealStep
<1>3. ASSUME NEW p \in Proxies, ProxyStep(p)
      PROVE  MapInv'
  BY <1>3, MapFrame DEF ProxyStep, HandleTransfer, HandleDisconnect,
                        FinishDisconnect, ProxyClose, ProxyInactive
<1>4. ASSUME NEW r \in Reals, NEW p \in Proxies, DialDone(r, p)
      PROVE  MapInv'
  BY <1>4 DEF DialDone, MapInv, TypeOK
<1>5. CASE ClearRealServerChannels
  BY <1>5 DEF ClearRealServerChannels, MapInv
<1>6. CASE CmdClose \/ CmdInactive \/ Reconnect
  BY <1>6, MapFrame DEF CmdClose, CmdInactive, Reconnect
<1>7. CASE ServerStep
  BY <1>7, MapFrame DEF ServerStep, ServerBind, ServerReceive, ServerDisconnect,
                        ServerSend, UserGone
<1>8. CASE UNCHANGED vars
  BY <1>8, MapFrame DEF vars
<1> QED
  BY <1>1, <1>2, <1>3, <1>4, <1>5, <1>6, <1>7, <1>8 DEF Next, CmdStep

-----------------------------------------------------------------------------
(* PooledPathCleansUp: a dead connection that got its channel from the     *)
(* pool is bound on the wire only as long as its DISCONNECT is on the way  *)
(* to the server, and if even its CONNECT is, then behind that.            *)

Ended(r, p) ==
  /\ pooled[r] /\ realSock[r] = "dead" /\ nextOfReal[r] = p
  /\ nextOfProxy[p] = r /\ proxySock[p] = "open"

EndInv(r, p) ==
  Ended(r, p) /\ (bound[p] # None \/ Holds(up[p], "CONNECT")) => EndsLast(up[p])

CleanInv == \A r \in Reals, p \in Proxies : EndInv(r, p)

(* EndInv is lost by a death, a binding or a message taken, nothing else. *)
LEMMA EndFrame ==
  ASSUME NEW r \in Reals, NEW p \in Proxies, EndInv(r, p),
         Ended(r, p)' => Ended(r, p),
         up'[p] = up[p], bound'[p] \in {bound[p], None}
  PROVE  EndInv(r, p)'
BY DEF EndInv

(* Any connection may write up the channel in the meantime. *)
LEMMA EndSent ==
  ASSUME TypeOK, NEW r \in Reals, NEW p \in Proxies, EndInv(r, p), NEW o,
         NEW t \in {"TRANSFER", "DISCONNECT"}, NEW u \in Users \cup {None},
         up' = Sent(o, t, u), Ended(r, p)' => Ended(r, p), bound' = bound
  PROVE  EndInv(r, p)'
<1>1. CASE up'[p] = up[p]
  BY <1>1, EndFrame
<1>2. CASE up'[p] # up[p]
  <2>1. o = p /\ proxySock[p] = "open"
    BY <1>2 DEF Sent, TypeOK
  <2>2. PICK m \in Msg : m = Message(t, u)
    BY MessageType
  <2>3. up'[p] = Append(up[p], m) /\ up[p] \in Seq(Msg) /\ m.type # "CONNECT"
    BY <2>1, <2>2 DEF Sent, TypeOK, Message
  <2>4. /\ Holds(up'[p], "CONNECT") <=> Holds(up[p], "CONNECT")
        /\ EndsLast(up[p]) => EndsLast(up'[p])
    BY <2>3, AppendUp
  <2> QED
    BY <2>4 DEF EndInv
<1> QED
  BY <1>1, <1>2

(* channelInactive of a connection whose USER_ID is set announces its end. *)
LEMMA EndAnnounced ==
  ASSUME TypeOK, StageInv, NEW r \in Reals, NEW p \in Proxies,
         RealInactive(r), Ended(r, p)'
  PROVE  EndsLast(up'[p])
<1> USE ProxyClientAssumption DEF proxyVars
<1>1. /\ pooled[r] /\ nextOfReal[r] = p /\ proxySock[p] = "open"
      /\ stage[r] \notin {"leased", "bound", "mapped"}
  BY DEF Ended, RealInactive, RealLoopBusy
<1>2. userId[r] \in Users
  BY <1>1 DEF StageInv, RealInv, TypeOK
<1>3. PICK m \in Msg : m = Message("DISCONNECT", userId[r])
  BY <1>2, MessageType
<1>4. up'[p] = Append(up[p], m) /\ up[p] \in Seq(Msg) /\ m.type = "DISCONNECT"
  BY <1>1, <1>2, <1>3 DEF RealInactive, Sent, TypeOK, Message
<1> QED
  BY <1>4, AppendUp

(* The server takes a message that is before the DISCONNECT, or the        *)
(* DISCONNECT when the CONNECT has been taken.                             *)
LEMMA EndTaken ==
  ASSUME TypeOK, NEW r \in Reals, NEW p \in Proxies, ChannelInv(p), EndInv(r, p),
         Ended(r, p)' => Ended(r, p), up[p] # <<>>, up'[p] = Tail(up[p]),
         \/ Head(up[p]).type = "CONNECT"
         \/ Head(up[p]).type = "TRANSFER" /\ bound'[p] = bound[p]
         \/ Head(up[p]).type = "DISCONNECT" /\ bound'[p] = None
  PROVE  EndInv(r, p)'
<1>1. up[p] \in Seq(Msg)
  BY DEF TypeOK
<1>2. /\ Holds(up'[p], "CONNECT") => Holds(up[p], "CONNECT")
      /\ Holds(up[p], Head(up[p]).type)
      /\ EndsLast(up[p]) /\ (Head(up[p]).type # "DISCONNECT" \/ Holds(up[p], "CONNECT"))
           => EndsLast(up'[p])
  BY <1>1, TailUp
<1> QED
  BY <1>2 DEF EndInv

(* Every step preserves CleanInv. *)
LEMMA CleanNext ==
  ASSUME TypeOK, StageInv, WireInv, CleanInv, [Next]_vars
  PROVE  CleanInv'
<1> SUFFICES ASSUME NEW r \in Reals, NEW p \in Proxies
             PROVE  EndInv(r, p)'
  BY DEF CleanInv
<1> USE ProxyClientAssumption DEF realVars, proxyVars, wireVars, sharedVars
<1>0. ChannelInv(p) /\ EndInv(r, p) /\ RealInv(r)
  BY DEF WireInv, CleanInv, StageInv
<1>1. ASSUME NEW u \in Users, NEW q \in Reals, HandleConnect(u, q)
      PROVE  EndInv(r, p)'
  <2>1. Ended(r, p)' => Ended(r, p)
    BY <1>1 DEF HandleConnect, Ended, TypeOK
  <2> QED
    BY <1>0, <1>1, <2>1, EndFrame DEF HandleConnect
<1>2. ASSUME NEW q \in Reals, RealStep(q)
      PROVE  EndInv(r, p)'
  <2>1. CASE ConnectFailed(q) \/ DialFailed(q) \/ AddReal(q) \/ SetUserId(q)
    <3>1. UNCHANGED <<pooled, realSock, nextOfReal, nextOfProxy, proxySock, up, bound>>
      BY <2>1 DEF ConnectFailed, DialFailed, AddReal, SetUserId
    <3> QED
      BY <1>0, <3>1, EndFrame DEF Ended
  <2>2. CASE ConnectDone(q)
    <3>1. /\ q # r => pooled'[r] = pooled[r]
          /\ realSock' = [realSock EXCEPT ![q] = "open"]
          /\ UNCHANGED <<nextOfReal, nextOfProxy, proxySock, up, bound>>
      BY <2>2 DEF ConnectDone, TypeOK
    <3>2. Ended(r, p)' => Ended(r, p)
      BY <3>1 DEF Ended, TypeOK
    <3> QED
      BY <1>0, <3>1, <3>2, EndFrame
  <2>3. CASE Bind(q)
    <3>1. CASE q = r
      <4>1. ~Ended(r, p)'
        BY <1>0, <2>3, <3>1 DEF Bind, Ended, RealInv
      <4> QED
        BY <4>1 DEF EndInv
    <3>2. CASE q # r /\ p = lease[q]
      <4>1. ~Ended(r, p)'
        BY <2>3, <3>2 DEF Bind, Ended, TypeOK
      <4> QED
        BY <4>1 DEF EndInv
    <3>3. CASE q # r /\ p # lease[q]
      <4>1. up'[p] = up[p]
        BY <2>3, <3>3 DEF Bind, Sent, TypeOK
      <4>2. Ended(r, p)' => Ended(r, p)
        BY <2>3, <3>3 DEF Bind, Ended, TypeOK
      <4>3. bound' = bound
        BY <2>3 DEF Bind
      <4> QED
        BY <1>0, <4>1, <4>2, <4>3, EndFrame
    <3> QED
      BY <3>1, <3>2, <3>3
  <2>4. CASE RealRead(q)
    <3>1. /\ up' = Sent(nextOfReal[q], "TRANSFER", userId[q]) /\ bound' = bound
          /\ UNCHANGED <<pooled, realSock, nextOfReal, nextOfProxy, proxySock>>
      BY <2>4 DEF RealRead
    <3>2. (Ended(r, p)' => Ended(r, p)) /\ userId[q] \in Users \cup {None}
      BY <3>1 DEF Ended, TypeOK
    <3> QED
      BY <1>0, <3>1, <3>2, EndSent
  <2>5. CASE RealClose(q)
    <3>1. Ended(r, p)' => Ended(r, p)
      BY <2>5 DEF RealClose, Ended, TypeOK
    <3> QED
      BY <1>0, <2>5, <3>1, EndFrame DEF RealClose
  <2>6. CASE RealInactive(q)
    <3>1. CASE q = r
      <4>1. Ended(r, p)' => EndsLast(up'[p])
        BY <2>6, <3>1, EndAnnounced
      <4> QED
        BY <4>1 DEF EndInv
    <3>2. CASE q # r
      <4>1. Ended(r, p)' => Ended(r, p)
        BY <2>6, <3>2 DEF RealInactive, Ended, TypeOK
      <4>2. /\ \/ up' = up
               \/ up' = Sent(nextOfReal[q], "DISCONNECT", userId[q])
            /\ bound' = bound /\ userId[q] \in Users \cup {None}
        BY <2>6 DEF RealInactive, TypeOK
      <4>3. CASE up' = up
        BY <1>0, <4>1, <4>2, <4>3, EndFrame
      <4>4. CASE up' = Sent(nextOfReal[q], "DISCONNECT", userId[q])
        BY <1>0, <4>1, <4>2, <4>4, EndSent
      <4> QED
        BY <4>2, <4>3, <4>4
    <3> QED
      BY <3>1, <3>2
  <2> QED
    BY <1>2, <2>1, <2>2, <2>3, <2>4, <2>5, <2>6 DEF RealStep
<1>3. ASSUME NEW q \in Proxies, ProxyStep(q)
      PROVE  EndInv(r, p)'
  <2>1. CASE HandleTransfer(q) \/ FinishDisconnect(q)
    <3>1. UNCHANGED <<pooled, realSock, nextOfReal, nextOfProxy, proxySock, up, bound>>
      BY <2>1 DEF HandleTransfer, FinishDisconnect
    <3> QED
      BY <1>0, <3>1, EndFrame DEF Ended
  <2>2. CASE HandleDisconnect(q)
    <3>1. Ended(r, p)' => Ended(r, p)
      BY <2>2 DEF HandleDisconnect, Ended, TypeOK
    <3> QED
      BY <1>0, <2>2, <3>1, EndFrame DEF HandleDisconnect
  <2>3. CASE ProxyClose(q)
    <3>1. CASE p = q
      <4>1. ~Ended(r, p)'
        BY <2>3, <3>1 DEF ProxyClose, Ended, TypeOK
      <4> QED
        BY <4>1 DEF EndInv
    <3>2. CASE p # q
      <4>1. /\ up'[p] = up[p] /\ bound'[p] = bound[p]
            /\ Ended(r, p)' => Ended(r, p)
        BY <2>3, <3>2 DEF ProxyClose, Ended, TypeOK
      <4> QED
        BY <1>0, <4>1, EndFrame
    <3> QED
      BY <3>1, <3>2
  <2>4. CASE ProxyInactive(q)
    <3>1. Ended(r, p)' => Ended(r, p)
      BY <2>4 DEF ProxyInactive, Ended, TypeOK
    <3> QED
      BY <1>0, <2>4, <3>1, EndFrame DEF ProxyInactive
  <2> QED
    BY <1>3, <2>1, <2>2, <2>3, <2>4 DEF ProxyStep
<1>4. ASSUME NEW q \in Reals, NEW o \in Proxies, DialDone(q, o)
      PROVE  EndInv(r, p)'
  <2>1. Ended(r, p)' => Ended(r, p)
    BY <1>4 DEF DialDone, Ended, TypeOK
  <2> QED
    BY <1>0, <1>4, <2>1, EndFrame DEF DialDone
<1>5. CASE CmdStep \/ UNCHANGED vars
  <2>1. UNCHANGED <<pooled, realSock, nextOfReal, nextOfProxy, proxySock, up, bound>>
    BY <1>5 DEF CmdStep, CmdClose, CmdInactive, ClearRealServerChannels, Reconnect, vars
  <2> QED
    BY <1>0, <2>1, EndFrame DEF Ended
<1>6. CASE ServerStep
  <2>1. UNCHANGED <<pooled, realSock, nextOfReal, nextOfProxy, proxySock>>
    BY <1>6 DEF ServerStep, ServerBind, ServerReceive, ServerDisconnect, ServerSend,
                UserGone
  <2>2. Ended(r, p)' => Ended(r, p)
    BY <2>1 DEF Ended
  <2>3. ASSUME NEW q \in Proxies, NEW t, ServerTakes(q, t),
               p # q => bound'[p] = bound[p],
               p = q => \/ t = "CONNECT"
                        \/ t = "TRANSFER" /\ bound'[p] = bound[p]
                        \/ t = "DISCONNECT" /\ bound'[p] = None
        PROVE  EndInv(r, p)'
    <3>1. CASE p # q
      BY <1>0, <2>2, <2>3, <3>1, EndFrame DEF ServerTakes, TypeOK
    <3>2. CASE p = q
      <4>1. /\ up[p] # <<>> /\ Head(up[p]).type = t /\ up'[p] = Tail(up[p])
        BY <2>3, <3>2 DEF ServerTakes, TypeOK
      <4> QED
        BY <1>0, <2>2, <2>3, <3>2, <4>1, EndTaken
    <3> QED
      BY <3>1, <3>2
  <2>4. ASSUME NEW q \in Proxies, ServerBind(q)
        PROVE  EndInv(r, p)'
    <3>1. ServerTakes(q, "CONNECT") /\ (p # q => bound'[p] = bound[p])
      BY <2>4 DEF ServerBind, TypeOK
    <3> QED
      BY <2>3, <3>1
  <2>5. ASSUME NEW q \in Proxies, ServerReceive(q)
        PROVE  EndInv(r, p)'
    <3>1. ServerTakes(q, "TRANSFER") /\ bound'[p] = bound[p]
      BY <2>5 DEF ServerReceive
    <3> QED
      BY <2>3, <3>1
  <2>6. ASSUME NEW q \in Proxies, ServerDisconnect(q)
        PROVE  EndInv(r, p)'
    <3>1. /\ ServerTakes(q, "DISCONNECT")
          /\ p # q => bound'[p] = bound[p]
          /\ p = q => bound'[p] = None
      BY <2>6 DEF ServerDisconnect, ServerUnbinds, TypeOK
    <3> QED
      BY <2>3, <3>1
  <2>7. ASSUME NEW q \in Proxies, ServerSend(q)
        PROVE  EndInv(r, p)'
    BY <1>0, <2>2, <2>7, EndFrame DEF ServerSend
  <2>8. ASSUME NEW u \in Users, UserGone(u)
        PROVE  EndInv(r, p)'
    <3>1. up' = up /\ bound'[p] \in {bound[p], None}
      BY <2>8 DEF UserGone, ServerUnbinds, TypeOK
    <3> QED
      BY <1>0, <2>2, <3>1, EndFrame
  <2> QED
    BY <1>6, <2>4, <2>5, <2>6, <2>7, <2>8 DEF ServerStep
<1> QED
  BY <1>1, <1>2, <1>3, <1>4, <1>5, <1>6 DEF Next

(* What is known of the map and of the wire. *)
LEMMA CleanInvariance == Spec => [](IInv /\ StageInv /\ WireInv /\ MapInv /\ CleanInv)
<1> USE ProxyClientAssumption
<1>1. Init => MapInv
  BY DEF Init, MapInv
<1>2. Init => CleanInv
  BY DEF Init, CleanInv, EndInv, Ended
<1>3. IInv /\ StageInv /\ MapInv /\ [Next]_vars => MapInv'
  BY MapNext DEF IInv
<1>4. IInv /\ StageInv /\ WireInv /\ CleanInv /\ [Next]_vars => CleanInv'
  BY CleanNext DEF IInv
<1> QED
  BY <1>1, <1>2, <1>3, <1>4, WireInvariance, PTL DEF Spec

(* A local connection that got its data channel from the pool leaves       *)
(* neither a half-open tunnel nor an entry in realServerChannels behind.   *)
THEOREM PooledPathIsClean == Spec => []PooledPathCleansUp
<1>1. StageInv /\ MapInv /\ CleanInv => PooledPathCleansUp
  <2> SUFFICES ASSUME StageInv, MapInv, CleanInv, NEW r \in Reals,
                      pooled[r], realSock[r] = "dead"
               PROVE  /\ \A p \in Proxies : ~HalfOpen(r, p)
                      /\ \A u \in Users : realServerChannels[u] # r
    BY DEF PooledPathCleansUp
  <2>1. ASSUME NEW p \in Proxies, HalfOpen(r, p)
        PROVE  FALSE
    <3>1. Ended(r, p) /\ ~EndsLast(up[p])
      BY <2>1 DEF HalfOpen, Ended, EndsLast
    <3>2. bound[p] = None
      BY <3>1 DEF CleanInv, EndInv
    <3> QED
      BY <2>1, <3>1, <3>2 DEF HalfOpen, StageInv, RealInv, Ended
  <2>2. \A u \in Users : realServerChannels[u] # r
    BY DEF MapInv
  <2> QED
    BY <2>1, <2>2
<1> QED
  BY <1>1, CleanInvariance, PTL

-----------------------------------------------------------------------------
(* EstablishedIsMapped: when the server does not reuse ids, no two living  *)
(* connections have one id, so nobody takes another's place in the map.    *)

FreshInv ==
  \A q, r \in Reals :
    user[q] = user[r] /\ user[q] # None /\ q # r => FreeReal(q) \/ FreeReal(r)

MappedInv ==
  \A r \in Reals :
    cmd = "up" /\ stage[r] \in {"mapped", "done"} /\ realSock[r] = "open"
      /\ r \notin closing => realServerChannels[user[r]] = r

(* FreeReal reads these variables only. *)
LEMMA FreeFrame ==
  ASSUME NEW r \in Reals, FreeReal(r),
         UNCHANGED <<stage, realSock, realServerChannels, toClose, nextOfProxy, proxySock>>
  PROVE  FreeReal(r)'
BY DEF FreeReal

(* An identity stays free until it names a new connection. *)
LEMMA FreeStable ==
  ASSUME TypeOK, StageInv, NEW r \in Reals, FreeReal(r), [Next]_vars
  PROVE  FreeReal(r)' \/ \E u \in Users : HandleConnect(u, r)
<1> USE ProxyClientAssumption DEF realVars, proxyVars, sharedVars
<1>0. RealInv(r)
  BY DEF StageInv
<1>1. ASSUME NEW u \in Users, NEW q \in Reals, HandleConnect(u, q), q # r
      PROVE  FreeReal(r)'
  BY <1>1 DEF HandleConnect, FreeReal, TypeOK
<1>2. ASSUME NEW q \in Reals, RealStep(q)
      PROVE  FreeReal(r)'
  <2>1. CASE ConnectFailed(q)
    BY <2>1 DEF ConnectFailed, FreeReal, TypeOK
  <2>2. CASE ConnectDone(q)
    <3>1. /\ stage[q] = "connecting"
          /\ \A x \in Reals : x # q => stage'[x] = stage[x] /\ realSock'[x] = realSock[x]
          /\ UNCHANGED <<realServerChannels, toClose, nextOfProxy, proxySock>>
      BY <2>2 DEF ConnectDone, TypeOK
    <3> QED
      BY <3>1 DEF FreeReal
  <2>3. CASE DialFailed(q)
    BY <2>3 DEF DialFailed, FreeReal, TypeOK
  <2>4. CASE Bind(q)
    BY <2>4 DEF Bind, FreeReal, TypeOK
  <2>5. CASE AddReal(q)
    BY <2>5 DEF AddReal, FreeReal, TypeOK
  <2>6. CASE SetUserId(q)
    BY <2>6 DEF SetUserId, FreeReal, TypeOK
  <2>7. CASE RealRead(q)
    BY <2>7, FreeFrame DEF RealRead
  <2>8. CASE RealClose(q)
    BY <2>8 DEF RealClose, FreeReal, TypeOK
  <2>9. CASE RealInactive(q)
    BY <2>9 DEF RealInactive, FreeReal, TypeOK
  <2> QED
    BY <1>2, <2>1, <2>2, <2>3, <2>4, <2>5, <2>6, <2>7, <2>8, <2>9 DEF RealStep
<1>3. ASSUME NEW p \in Proxies, ProxyStep(p)
      PROVE  FreeReal(r)'
  <2>1. CASE HandleTransfer(p)
    BY <2>1, FreeFrame DEF HandleTransfer
  <2>2. CASE HandleDisconnect(p)
    BY <2>2 DEF HandleDisconnect, Arrives, FreeReal, TypeOK
  <2>3. CASE FinishDisconnect(p)
    BY <2>3 DEF FinishDisconnect, FreeReal, TypeOK
  <2>4. CASE ProxyClose(p)
    BY <2>4 DEF ProxyClose, FreeReal, TypeOK
  <2>5. CASE ProxyInactive(p)
    BY <2>5 DEF ProxyInactive, FreeReal, TypeOK
  <2> QED
    BY <1>3, <2>1, <2>2, <2>3, <2>4, <2>5 DEF ProxyStep
<1>4. ASSUME NEW q \in Reals, NEW p \in Proxies, DialDone(q, p)
      PROVE  FreeReal(r)'
  BY <1>4 DEF DialDone, FreeReal, TypeOK
<1>5. CASE ClearRealServerChannels
  BY <1>5 DEF ClearRealServerChannels, FreeReal
<1>6. CASE CmdClose \/ CmdInactive \/ Reconnect
  BY <1>6, FreeFrame DEF CmdClose, CmdInactive, Reconnect
<1>7. CASE ServerStep
  BY <1>7, FreeFrame DEF ServerStep, ServerBind, ServerReceive, ServerDisconnect,
                         ServerSend, UserGone
<1>8. CASE UNCHANGED vars
  BY <1>8, FreeFrame DEF vars
<1> QED
  BY <1>1, <1>2, <1>3, <1>4, <1>5, <1>6, <1>7, <1>8 DEF Next, CmdStep

(* A new connection's id is no living one's. *)
LEMMA FreshNext ==
  ASSUME FreshIds, TypeOK, StageInv, FreshInv, [Next]_vars
  PROVE  FreshInv'
<1> SUFFICES ASSUME NEW q \in Reals, NEW r \in Reals,
                    user'[q] = user'[r], user'[q] # None, q # r
             PROVE  FreeReal(q)' \/ FreeReal(r)'
  BY DEF FreshInv
<1> USE ProxyClientAssumption
<1>1. ASSUME NEW u \in Users, NEW x \in Reals, HandleConnect(u, x)
      PROVE  FreeReal(q)' \/ FreeReal(r)'
  <2>1. /\ user' = [user EXCEPT ![x] = u]
        /\ \A y \in Reals : user[y] = u => FreeReal(y)
    BY <1>1 DEF HandleConnect
  <2>2. \A y \in Reals : y # x /\ FreeReal(y) => FreeReal(y)'
    BY <1>1 DEF HandleConnect, FreeReal, proxyVars, sharedVars, TypeOK
  <2>3. CASE q = x
    BY <2>1, <2>2, <2>3 DEF TypeOK
  <2>4. CASE r = x
    BY <2>1, <2>2, <2>4 DEF TypeOK
  <2>5. CASE q # x /\ r # x
    BY <2>1, <2>2, <2>5 DEF FreshInv, TypeOK
  <2> QED
    BY <2>3, <2>4, <2>5
<1>2. CASE ~\E u \in Users, x \in Reals : HandleConnect(u, x)
  <2>1. \A y \in Reals : FreeReal(y) => FreeReal(y)'
    BY <1>2, FreeStable
  <2>2. \A y \in Reals : user'[y] \in {user[y], None}
    <3>1. ASSUME NEW x \in Reals, RealStep(x)
          PROVE  \A y \in Reals : user'[y] \in {user[y], None}
      BY <3>1 DEF RealStep, ConnectFailed, ConnectDone, DialFailed, Bind, AddReal,
                  SetUserId, RealRead, RealClose, RealInactive, realVars, TypeOK
    <3>2. CASE ~\E x \in Reals : RealStep(x)
      <4>1. user' = user
        BY <1>2, <3>2
           DEF Next, vars, realVars, ProxyStep, HandleTransfer, HandleDisconnect,
               FinishDisconnect, ProxyClose, ProxyInactive, DialDone, CmdStep,
               CmdClose, CmdInactive, ClearRealServerChannels, Reconnect,
               ServerStep, ServerBind, ServerReceive, ServerDisconnect, ServerSend,
               UserGone
      <4> QED
        BY <4>1
    <3> QED
      BY <3>1, <3>2
  <2>3. user[q] = user[r] /\ user[q] # None
    BY <2>2
  <2> QED
    BY <2>1, <2>3 DEF FreshInv
<1> QED
  BY <1>1, <1>2

(* Only a step of another connection with the same id, or a reconnection,  *)
(* could take a connection out of the map.                                 *)
LEMMA MappedFrame ==
  ASSUME MappedInv, closing \ Proxies \subseteq closing', Reals \cap Proxies = {},
         UNCHANGED <<cmd, user, realSock, realServerChannels>>,
         \A r \in Reals : stage'[r] \in {"mapped", "done"} => stage[r] \in {"mapped", "done"}
  PROVE  MappedInv'
BY DEF MappedInv

(* Every step preserves MappedInv. *)
LEMMA MappedNext ==
  ASSUME TypeOK, StageInv, FreshInv, MappedInv, [Next]_vars
  PROVE  MappedInv'
<1> USE ProxyClientAssumption DEF realVars, proxyVars, sharedVars
<1>1. ASSUME NEW u \in Users, NEW r \in Reals, HandleConnect(u, r)
      PROVE  MappedInv'
  BY <1>1 DEF HandleConnect, MappedInv, TypeOK
<1>2. ASSUME NEW r \in Reals, RealStep(r)
      PROVE  MappedInv'
  <2>0. RealInv(r)
    BY DEF StageInv
  <2>1. CASE ConnectFailed(r)
    BY <2>1 DEF ConnectFailed, MappedInv, TypeOK
  <2>2. CASE ConnectDone(r)
    <3>1. /\ \A q \in Reals : q # r => stage'[q] = stage[q] /\ realSock'[q] = realSock[q]
          /\ stage'[r] \notin {"mapped", "done"}
          /\ UNCHANGED <<cmd, user, closing, realServerChannels>>
      BY <2>2 DEF ConnectDone, TypeOK
    <3> QED
      BY <3>1 DEF MappedInv
  <2>3. CASE DialFailed(r)
    BY <2>3, MappedFrame DEF DialFailed, TypeOK
  <2>4. CASE Bind(r)
    BY <2>4, MappedFrame DEF Bind, TypeOK
  <2>5. CASE AddReal(r)
    <3>1. ASSUME NEW q \in Reals, q # r, user[q] = user[r],
                 stage[q] \in {"mapped", "done"}
          PROVE  realSock[q] # "open"
      BY <2>0, <2>5, <3>1 DEF AddReal, FreshInv, FreeReal, RealInv
    <3>2. user[r] \in Users
      BY <2>0, <2>5 DEF AddReal, RealInv, TypeOK
    <3>3. /\ stage' = [stage EXCEPT ![r] = "mapped"]
          /\ realServerChannels' = [realServerChannels EXCEPT ![user[r]] = r]
          /\ UNCHANGED <<user, realSock, closing, cmd>>
      BY <2>5 DEF AddReal
    <3> QED
      BY <3>1, <3>2, <3>3 DEF MappedInv, TypeOK
  <2>6. CASE SetUserId(r)
    BY <2>6, MappedFrame DEF SetUserId, TypeOK
  <2>7. CASE RealRead(r)
    BY <2>7, MappedFrame DEF RealRead
  <2>8. CASE RealClose(r)
    BY <2>8 DEF RealClose, MappedInv, TypeOK
  <2>9. CASE RealInactive(r)
    <3>1. /\ realSock[r] = "closed" /\ realSock' = [realSock EXCEPT ![r] = "dead"]
          /\ UNCHANGED <<stage, user, closing, cmd>>
      BY <2>9 DEF RealInactive
    <3>2. CASE userId[r] = None
      BY <2>9, <3>1, <3>2 DEF RealInactive, MappedInv, TypeOK
    <3>3. CASE userId[r] # None
      <4>1. /\ user[r] = userId[r] /\ stage[r] = "done"
            /\ realServerChannels' = [realServerChannels EXCEPT ![userId[r]] = None]
        BY <2>0, <2>9, <3>3 DEF RealInactive, RealInv
      <4>2. ASSUME NEW q \in Reals, q # r, user[q] = user[r],
                   stage[q] \in {"mapped", "done"}
            PROVE  realSock[q] # "open"
        BY <2>0, <3>1, <3>3, <4>1, <4>2 DEF FreshInv, FreeReal
      <4> QED
        BY <3>1, <4>1, <4>2 DEF MappedInv, TypeOK
    <3> QED
      BY <3>2, <3>3
  <2> QED
    BY <1>2, <2>1, <2>2, <2>3, <2>4, <2>5, <2>6, <2>7, <2>8, <2>9 DEF RealStep
<1>3. ASSUME NEW p \in Proxies, ProxyStep(p)
      PROVE  MappedInv'
  <2>1. CASE HandleTransfer(p)
    BY <2>1, MappedFrame DEF HandleTransfer
  <2>2. CASE HandleDisconnect(p)
    BY <2>2, MappedFrame DEF HandleDisconnect
  <2>3. CASE FinishDisconnect(p)
    BY <2>3, MappedFrame DEF FinishDisconnect
  <2>4. CASE ProxyClose(p)
    BY <2>4, MappedFrame DEF ProxyClose
  <2>5. CASE ProxyInactive(p)
    BY <2>5, MappedFrame DEF ProxyInactive
  <2> QED
    BY <1>3, <2>1, <2>2, <2>3, <2>4, <2>5 DEF ProxyStep
<1>4. ASSUME NEW r \in Reals, NEW p \in Proxies, DialDone(r, p)
      PROVE  MappedInv'
  BY <1>4, MappedFrame DEF DialDone, TypeOK
<1>5. CASE CmdClose \/ CmdInactive \/ ClearRealServerChannels
  BY <1>5 DEF CmdClose, CmdInactive, ClearRealServerChannels, MappedInv
<1>6. CASE Reconnect
  BY <1>6 DEF Reconnect, LiveChannels, MappedInv
<1>7. CASE ServerStep
  BY <1>7, MappedFrame DEF ServerStep, ServerBind, ServerReceive, ServerDisconnect,
                           ServerSend, UserGone
<1>8. CASE UNCHANGED vars
  BY <1>8, MappedFrame DEF vars
<1> QED
  BY <1>1, <1>2, <1>3, <1>4, <1>5, <1>6, <1>7, <1>8 DEF Next, CmdStep

(* If the server does not reuse an id the client still holds, every        *)
(* established connection is in the map under its id while the control     *)
(* channel is up, through reconnections as well.                           *)
THEOREM EstablishedStaysMapped ==
  ASSUME FreshIds
  PROVE  Spec => []EstablishedIsMapped
<1> USE ProxyClientAssumption
<1>1. Init => FreshInv /\ MappedInv
  BY DEF Init, FreshInv, MappedInv
<1>2. IInv /\ StageInv /\ FreshInv /\ [Next]_vars => FreshInv'
  BY FreshNext DEF IInv
<1>3. IInv /\ StageInv /\ FreshInv /\ MappedInv /\ [Next]_vars => MappedInv'
  BY MappedNext DEF IInv
<1>4. MappedInv => EstablishedIsMapped
  BY DEF MappedInv, EstablishedIsMapped
<1> QED
  BY <1>1, <1>2, <1>3, <1>4, StageInvariance, PTL DEF Spec

-----------------------------------------------------------------------------
(* StrandedOnlyByBinding.                                                  *)

(* A bound connection becomes stranded only in a step that binds it: when  *)
(* its data channel's end is handled, it is closed with it.                *)
LEMMA StrandedStep ==
  ASSUME TypeOK, StageInv, [Next]_vars, NEW r \in Reals, NEW p \in Proxies,
         Stranded(r, p)', nextOfReal[r] = p
  PROVE  Stranded(r, p)
<1> USE ProxyClientAssumption DEF realVars, proxyVars, sharedVars
<1>0. /\ stage[r] \in {"bound", "mapped", "done"}
      /\ realSock'[r] = "open" /\ r \notin closing' /\ r \notin Proxies
      /\ nextOfProxy'[p] = r /\ proxySock'[p] = "dead"
  BY DEF StageInv, RealInv, Stranded
<1>1. ASSUME UNCHANGED <<proxySock, nextOfProxy, realSock>>, closing \subseteq closing'
      PROVE  Stranded(r, p)
  BY <1>0, <1>1 DEF Stranded
<1>2. ASSUME NEW u \in Users, NEW q \in Reals, HandleConnect(u, q)
      PROVE  Stranded(r, p)
  BY <1>0, <1>2 DEF HandleConnect, Stranded, TypeOK
<1>3. ASSUME NEW q \in Reals, RealStep(q)
      PROVE  Stranded(r, p)
  <2>1. CASE ConnectFailed(q)
    BY <1>0, <2>1 DEF ConnectFailed, Stranded
  <2>2. CASE ConnectDone(q)
    BY <1>0, <2>2 DEF ConnectDone, Stranded, TypeOK
  <2>3. CASE DialFailed(q)
    BY <1>1, <2>3 DEF DialFailed
  <2>4. CASE Bind(q)
    BY <1>0, <2>4 DEF Bind, Stranded, TypeOK
  <2>5. CASE AddReal(q)
    BY <1>1, <2>5 DEF AddReal
  <2>6. CASE SetUserId(q)
    BY <1>1, <2>6 DEF SetUserId
  <2>7. CASE RealRead(q)
    BY <1>1, <2>7 DEF RealRead
  <2>8. CASE RealClose(q)
    BY <1>0, <2>8 DEF RealClose, Stranded, TypeOK
  <2>9. CASE RealInactive(q)
    BY <1>0, <2>9 DEF RealInactive, Stranded, TypeOK
  <2> QED
    BY <1>3, <2>1, <2>2, <2>3, <2>4, <2>5, <2>6, <2>7, <2>8, <2>9 DEF RealStep
<1>4. ASSUME NEW q \in Proxies, ProxyStep(q)
      PROVE  Stranded(r, p)
  <2>1. CASE HandleTransfer(q) \/ FinishDisconnect(q)
    BY <1>1, <2>1 DEF HandleTransfer, FinishDisconnect
  <2>2. CASE HandleDisconnect(q)
    BY <1>0, <2>2 DEF HandleDisconnect, Stranded, TypeOK
  <2>3. CASE ProxyClose(q)
    BY <1>0, <2>3 DEF ProxyClose, Stranded, TypeOK
  <2>4. CASE ProxyInactive(q)
    BY <1>0, <2>4 DEF ProxyInactive, Stranded, TypeOK
  <2> QED
    BY <1>4, <2>1, <2>2, <2>3, <2>4 DEF ProxyStep
<1>5. ASSUME NEW q \in Reals, NEW o \in Proxies, DialDone(q, o)
      PROVE  Stranded(r, p)
  BY <1>0, <1>5 DEF DialDone, Stranded, TypeOK
<1>6. CASE CmdStep
  BY <1>1, <1>6 DEF CmdStep, CmdClose, CmdInactive, ClearRealServerChannels, Reconnect
<1>7. CASE ServerStep
  BY <1>1, <1>7 DEF ServerStep, ServerBind, ServerReceive, ServerDisconnect, ServerSend,
                    UserGone
<1>8. CASE UNCHANGED vars
  BY <1>1, <1>8 DEF vars
<1> QED
  BY <1>2, <1>3, <1>4, <1>5, <1>6, <1>7, <1>8 DEF Next

(* A data channel's death strands no connection that is bound to it,       *)
(* whatever is left of success() by then; only binding a local connection  *)
(* to a channel that is already dead does.                                 *)
THEOREM OnlyBindingStrands == Spec => StrandedOnlyByBinding
<1>1. IInv /\ StageInv /\ [Next]_vars
        => [\A r \in Reals, p \in Proxies :
              Stranded(r, p)' => Stranded(r, p) \/ nextOfReal[r] # p]_vars
  BY StrandedStep DEF IInv
<1> QED
  BY <1>1, StageInvariance, PTL DEF Spec, StrandedOnlyByBinding
===============================================================================
