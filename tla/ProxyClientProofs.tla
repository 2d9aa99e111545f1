-------------------------- MODULE ProxyClientProofs --------------------------
(***************************************************************************)
(* Proofs about ProxyClient, for any sets of channels and users and any    *)
(* bounds: types, the pool, and the detachment of local connections.       *)
(***************************************************************************)
EXTENDS ProxyClient, SequenceTheorems, WellFoundedInduction, TLAPS

-----------------------------------------------------------------------------
(* The pool as a sequence.                                                 *)

Distinct(s) == \A i, j \in 1..Len(s) : s[i] = s[j] => i = j

(* poll() of ConcurrentLinkedQueue on a queue without repetitions. *)
LEMMA PollLemma ==
  ASSUME NEW S, NEW s \in Seq(S), s # <<>>, Distinct(s)
  PROVE  /\ Head(s) \in S /\ Tail(s) \in Seq(S) /\ Distinct(Tail(s))
         /\ Head(s) = s[1] /\ 1 \in 1..Len(s)
         /\ \A i \in 1..Len(Tail(s)) :
              /\ Tail(s)[i] # Head(s)
              /\ \E j \in 1..Len(s) : Tail(s)[i] = s[j]
<1>1. /\ Head(s) \in S /\ Tail(s) \in Seq(S) /\ Len(Tail(s)) = Len(s) - 1
      /\ \A i \in 1..Len(Tail(s)) : Tail(s)[i] = s[i + 1]
      /\ Head(s) = s[1] /\ Len(s) \in Nat /\ Len(s) > 0
  BY HeadTailProperties, EmptySeq, LenProperties
<1>2. \A i \in 1..Len(Tail(s)) : i + 1 \in 1..Len(s) /\ i + 1 # 1
  BY <1>1
<1>3. 1 \in 1..Len(s)
  BY <1>1
<1>4. Distinct(Tail(s))
  <2>1. SUFFICES ASSUME NEW i \in 1..Len(Tail(s)), NEW j \in 1..Len(Tail(s)),
                        Tail(s)[i] = Tail(s)[j]
                 PROVE  i = j
    BY DEF Distinct
  <2>2. i + 1 = j + 1
    BY <1>1, <1>2, <2>1 DEF Distinct
  <2> QED
    BY <1>1, <2>2
<1> QED
  BY <1>1, <1>2, <1>3, <1>4 DEF Distinct

(* offer() of an element that is not in the queue. *)
LEMMA OfferLemma ==
  ASSUME NEW S, NEW s \in Seq(S), NEW p \in S, Distinct(s),
         \A i \in 1..Len(s) : s[i] # p
  PROVE  /\ Append(s, p) \in Seq(S) /\ Distinct(Append(s, p))
         /\ \A i \in 1..Len(Append(s, p)) :
              Append(s, p)[i] = p \/ \E j \in 1..Len(s) : Append(s, p)[i] = s[j]
<1>1. /\ Append(s, p) \in Seq(S) /\ Len(Append(s, p)) = Len(s) + 1
      /\ \A i \in 1..Len(s) : Append(s, p)[i] = s[i]
      /\ Append(s, p)[Len(s) + 1] = p /\ Len(s) \in Nat
  BY AppendProperties, LenProperties
<1>2. \A i \in 1..Len(Append(s, p)) : i \in 1..Len(s) \/ i = Len(s) + 1
  BY <1>1
<1> QED
  BY <1>1, <1>2 DEF Distinct

(* A sequence without its k-th element. *)
LEMMA RemoveAtLemma ==
  ASSUME NEW S, NEW s \in Seq(S), NEW k \in 1..Len(s)
  PROVE  /\ RemoveAt(s, k) \in Seq(S)
         /\ Len(RemoveAt(s, k)) = Len(s) - 1
         /\ \A i \in 1..Len(RemoveAt(s, k)) :
              RemoveAt(s, k)[i] = IF i < k THEN s[i] ELSE s[i + 1]
<1>1. Len(s) \in Nat /\ s \in [1..Len(s) -> S]
  BY LenProperties
<1>2. PICK a : a = SubSeq(s, 1, k - 1)
  OBVIOUS
<1>3. PICK b : b = SubSeq(s, k + 1, Len(s))
  OBVIOUS
<1>4. RemoveAt(s, k) = a \o b
  BY <1>2, <1>3 DEF RemoveAt
<1>5. /\ a \in Seq(S) /\ Len(a) = k - 1
      /\ \A i \in 1..(k - 1) : a[i] = s[i]
  <2>1. 1 \in Int /\ k - 1 \in Int /\ \A i \in 1..(k - 1) : s[i] \in S
    BY <1>1
  <2>2. /\ a \in Seq(S)
        /\ Len(a) = IF 1 <= k - 1 THEN (k - 1) - 1 + 1 ELSE 0
        /\ \A i \in 1..((k - 1) - 1 + 1) : a[i] = s[1 + i - 1]
    BY ONLY <2>1, <1>2, SubSeqProperties
  <2> QED
    BY ONLY <2>2, <1>1, k \in 1..Len(s)
<1>6. /\ b \in Seq(S) /\ Len(b) = Len(s) - k
      /\ \A i \in 1..(Len(s) - k) : b[i] = s[k + i]
  <2>1. k + 1 \in Int /\ Len(s) \in Int
        /\ \A i \in (k + 1)..Len(s) : s[i] \in S
    BY <1>1
  <2>2. /\ b \in Seq(S)
        /\ Len(b) = IF k + 1 <= Len(s) THEN Len(s) - (k + 1) + 1 ELSE 0
        /\ \A i \in 1..(Len(s) - (k + 1) + 1) : b[i] = s[(k + 1) + i - 1]
    BY ONLY <2>1, <1>3, SubSeqProperties
  <2>3. Len(s) \in Nat
    BY <1>1
  <2>4. k \in Nat /\ k <= Len(s)
    BY <2>3
  <2>5. Len(b) = Len(s) - k
    BY ONLY <2>2, <2>3, <2>4
  <2>6. ASSUME NEW i \in 1..(Len(s) - k)
        PROVE  b[i] = s[k + i]
    <3>1. i \in 1..(Len(s) - (k + 1) + 1) /\ (k + 1) + i - 1 = k + i
      BY ONLY <2>3, <2>4, <2>6
    <3> QED
      BY ONLY <2>2, <3>1
  <2> QED
    BY <2>2, <2>5, <2>6
<1>7. PICK t : t = a \o b
  OBVIOUS
<1>8. /\ t \in Seq(S) /\ Len(t) = Len(a) + Len(b)
      /\ \A i \in 1..(Len(a) + Len(b)) :
           t[i] = IF i <= Len(a) THEN a[i] ELSE b[i - Len(a)]
  BY ONLY <1>5, <1>6, <1>7, ConcatProperties
<1>9. Len(t) = Len(s) - 1
  BY ONLY <1>1, <1>5, <1>6, <1>8, k \in 1..Len(s)
<1>10. ASSUME NEW i \in 1..Len(t)
       PROVE  t[i] = IF i < k THEN s[i] ELSE s[i + 1]
  <2>1. CASE i < k
    <3>1. i <= Len(a) /\ i \in 1..(k - 1)
      BY <1>1, <1>5, <1>9, <2>1
    <3>2. t[i] = a[i]
      BY <1>5, <1>6, <1>8, <1>9, <3>1
    <3> QED
      BY <1>5, <2>1, <3>1, <3>2
  <2>2. CASE ~(i < k)
    <3>1. i - (k - 1) \in 1..(Len(s) - k) /\ ~(i <= Len(a))
          /\ k + (i - (k - 1)) = i + 1
      BY <1>1, <1>5, <1>9, <2>2
    <3>2. t[i] = b[i - Len(a)]
      BY <1>8, <3>1
    <3> QED
      BY <1>5, <1>6, <2>2, <3>1, <3>2
  <2> QED
    BY <2>1, <2>2
<1> QED
  BY <1>4, <1>7, <1>8, <1>9, <1>10

(* A non-empty set of natural numbers has a least element. *)
LEMMA MinLemma ==
  ASSUME NEW I, I \subseteq Nat, I # {}
  PROVE  Min(I) \in I
<1>1. PICK m \in I : \A j \in I : <<j, m>> \notin OpToRel(<, Nat)
  BY WFMin, NatLessThanWellFounded, Zenon
<1>2. ASSUME NEW j \in I
      PROVE  m <= j
  <2>1. <<j, m>> \in Nat \X Nat /\ <<j, m>>[1] = j /\ <<j, m>>[2] = m
    OBVIOUS
  <2>2. ~(j < m)
    BY <1>1, <2>1, Zenon DEF OpToRel
  <2>3. j \in Nat /\ m \in Nat
    OBVIOUS
  <2> QED
    BY <2>2, <2>3
<1> QED
  BY <1>2 DEF Min

(* remove(o) drops one occurrence: on a queue without repetitions, the     *)
(* others stay and o is gone.                                              *)
LEMMA RemoveLemma ==
  ASSUME NEW S, NEW s \in Seq(S), NEW p
  PROVE  /\ RemoveFirst(s, p) \in Seq(S)
         /\ \A i \in 1..Len(RemoveFirst(s, p)) :
              \E j \in 1..Len(s) : RemoveFirst(s, p)[i] = s[j]
         /\ Distinct(s) =>
              /\ Distinct(RemoveFirst(s, p))
              /\ \A i \in 1..Len(RemoveFirst(s, p)) : RemoveFirst(s, p)[i] # p
<1>1. CASE ~\E i \in 1..Len(s) : s[i] = p
  <2>1. RemoveFirst(s, p) = s
    BY <1>1 DEF RemoveFirst
  <2> QED
    BY <1>1, <2>1
<1>2. CASE \E i \in 1..Len(s) : s[i] = p
  <2> DEFINE I == {i \in 1..Len(s) : s[i] = p}
  <2>1. Len(s) \in Nat /\ I \subseteq Nat /\ I # {}
    BY <1>2, LenProperties
  <2>2. PICK k : k = Min(I)
    OBVIOUS
  <2>3. k \in 1..Len(s) /\ s[k] = p
    BY <2>1, <2>2, MinLemma
  <2>4. PICK t : t = RemoveAt(s, k)
    OBVIOUS
  <2>5. RemoveFirst(s, p) = t
    BY <1>2, <2>2, <2>4 DEF RemoveFirst, SelectInSeq
  <2>6. /\ t \in Seq(S) /\ Len(t) = Len(s) - 1
        /\ \A i \in 1..Len(t) : t[i] = IF i < k THEN s[i] ELSE s[i + 1]
    BY <2>3, <2>4, RemoveAtLemma
  <2>7. \A i \in 1..Len(t) :
          /\ i < k => i \in 1..Len(s) /\ i # k /\ t[i] = s[i]
          /\ ~(i < k) => i + 1 \in 1..Len(s) /\ i + 1 # k /\ t[i] = s[i + 1]
    BY <2>1, <2>3, <2>6
  <2>8. \A i \in 1..Len(t) : \E j \in 1..Len(s) : j # k /\ t[i] = s[j]
    BY <2>7
  <2>9. ASSUME Distinct(s)
        PROVE  Distinct(t) /\ \A i \in 1..Len(t) : t[i] # p
    <3>1. \A i \in 1..Len(t) : t[i] # p
      BY <2>3, <2>8, <2>9 DEF Distinct
    <3>2. \A i, j \in 1..Len(t) : t[i] = t[j] => i = j
      BY <2>1, <2>3, <2>6, <2>7, <2>9 DEF Distinct
    <3> QED
      BY <3>1, <3>2 DEF Distinct
  <2> QED
    BY <2>5, <2>6, <2>8, <2>9
<1> QED
  BY <1>1, <1>2

-----------------------------------------------------------------------------
(* Types.                                                                  *)

(* Message(t, u) builds a member of Msg. *)
LEMMA MessageType ==
  ASSUME NEW t \in {"CONNECT", "TRANSFER", "DISCONNECT"},
         NEW u \in Users \cup {None}
  PROVE  Message(t, u) \in Msg
BY DEF Message, Msg

(* writeAndFlush keeps every queue to the server a sequence of messages. *)
LEMMA SentType ==
  ASSUME up \in [Proxies -> Seq(Msg)], NEW p,
         NEW t \in {"CONNECT", "TRANSFER", "DISCONNECT"},
         NEW u \in Users \cup {None}
  PROVE  Sent(p, t, u) \in [Proxies -> Seq(Msg)]
<1>1. Message(t, u) \in Msg
  BY MessageType
<1>2. CASE p \in Proxies
  BY <1>1, <1>2, AppendProperties DEF Sent
<1>3. CASE p \notin Proxies
  BY <1>3 DEF Sent
<1> QED
  BY <1>2, <1>3

(* The empty channel manager is well typed. *)
LEMMA TypeInit == Init => TypeOK
<1> SUFFICES ASSUME Init
             PROVE  TypeOK
  OBVIOUS
<1> QED
  BY EmptySeq DEF Init, TypeOK, Stages, Sockets, CmdState

(* No handler step leaves the types: one step per action, each changing a few
   of the variables. *)
LEMMA TypeNext == TypeOK /\ [Next]_vars => TypeOK'
<1> SUFFICES ASSUME TypeOK, [Next]_vars
             PROVE  TypeOK'
  OBVIOUS
<1> USE DEF TypeOK, Stages, Sockets, CmdState,
            realVars, proxyVars, wireVars, sharedVars
<1>1. ASSUME NEW u \in Users, NEW r \in Reals, HandleConnect(u, r)
      PROVE  TypeOK'
  BY <1>1 DEF HandleConnect
<1>2. ASSUME NEW r \in Reals, RealStep(r)
      PROVE  TypeOK'
  <2>1. CASE ConnectFailed(r)
    BY <2>1 DEF ConnectFailed, TellServerOnCmd
  <2>2. CASE ConnectDone(r)
    <3> DEFINE h == Head(pool)
               t == Tail(pool)
    <3>0. pool # <<>> => h \in Proxies /\ t \in Seq(Proxies)
      BY HeadTailProperties
    <3> HIDE DEF h, t
    <3>1. pool' \in Seq(Proxies)
      BY <2>2, <3>0 DEF ConnectDone, h, t
    <3>2. lease' \in [Reals -> Proxies \cup {None}]
      BY <2>2, <3>0 DEF ConnectDone, h, t
    <3> QED
      BY <2>2, <3>1, <3>2 DEF ConnectDone
  <2>3. CASE DialFailed(r)
    BY <2>3 DEF DialFailed, TellServerOnCmd
  <2>4. CASE Bind(r)
    <3>1. up' \in [Proxies -> Seq(Msg)]
      BY <2>4, SentType DEF Bind
    <3> QED
      BY <2>4, <3>1 DEF Bind
  <2>5. CASE AddReal(r)
    BY <2>5 DEF AddReal
  <2>6. CASE SetUserId(r)
    BY <2>6 DEF SetUserId
  <2>7. CASE RealRead(r)
    <3>1. up' \in [Proxies -> Seq(Msg)]
      BY <2>7, SentType DEF RealRead
    <3> QED
      BY <2>7, <3>1 DEF RealRead
  <2>8. CASE RealClose(r)
    BY <2>8 DEF RealClose
  <2>9. CASE RealInactive(r)
    <3>1. up' \in [Proxies -> Seq(Msg)]
      <4>1. userId[r] # None =>
              Sent(nextOfReal[r], "DISCONNECT", userId[r]) \in [Proxies -> Seq(Msg)]
        BY SentType
      <4> QED
        BY <2>9, <4>1 DEF RealInactive
    <3>2. realServerChannels' \in [Users -> Reals \cup {None}]
      BY <2>9 DEF RealInactive
    <3> QED
      BY <2>9, <3>1, <3>2 DEF RealInactive
  <2> QED
    BY <1>2, <2>1, <2>2, <2>3, <2>4, <2>5, <2>6, <2>7, <2>8, <2>9 DEF RealStep
<1>3. ASSUME NEW p \in Proxies, ProxyStep(p)
      PROVE  TypeOK'
  <2>1. CASE HandleTransfer(p)
    <3>1. /\ down[p] \in Seq(Msg) /\ down[p] # <<>>
          /\ down' = [down EXCEPT ![p] = Tail(@)]
      BY <2>1 DEF HandleTransfer, Arrives
    <3>2. Head(down[p]) \in Msg /\ Tail(down[p]) \in Seq(Msg)
      BY <3>1, HeadTailProperties
    <3>3. Head(down[p]).user \in Users \cup {None}
      BY <3>2 DEF Msg
    <3>4. received' \in [Reals -> SUBSET (Users \cup {None})]
      BY <2>1, <3>3 DEF HandleTransfer
    <3>5. down' \in [Proxies -> Seq(Msg)]
      BY <3>1, <3>2
    <3> QED
      BY <2>1, <3>4, <3>5 DEF HandleTransfer
  <2>2. CASE HandleDisconnect(p)
    <3>1. down' \in [Proxies -> Seq(Msg)]
      BY <2>2, HeadTailProperties DEF HandleDisconnect, Arrives
    <3>2. pool' \in Seq(Proxies)
      <4>1. Append(pool, p) \in Seq(Proxies)
        BY AppendProperties
      <4> QED
        BY <2>2, <4>1 DEF HandleDisconnect
    <3>3. closing' \in SUBSET (Reals \cup Proxies) /\ closing \subseteq closing'
      BY <2>2 DEF HandleDisconnect
    <3>4. urgent' \in SUBSET (closing' \cap Reals)
      <4>1. urgent' = urgent
        BY <2>2 DEF HandleDisconnect
      <4> QED
        BY <3>3, <4>1
    <3>5. nextOfProxy' \in [Proxies -> Reals \cup {None}]
          /\ toClose' \in [Proxies -> Reals \cup {None}]
      BY <2>2 DEF HandleDisconnect
    <3> QED
      BY <2>2, <3>1, <3>2, <3>3, <3>4, <3>5 DEF HandleDisconnect
  <2>3. CASE FinishDisconnect(p)
    BY <2>3 DEF FinishDisconnect
  <2>4. CASE ProxyClose(p)
    <3>1. closing' = closing \ {p} /\ urgent' = urgent
      BY <2>4 DEF ProxyClose
    <3>2. /\ closing' \in SUBSET (Reals \cup Proxies)
          /\ urgent' \in SUBSET (closing' \cap Reals)
      BY <3>1
    <3>3. /\ up' \in [Proxies -> Seq(Msg)] /\ down' \in [Proxies -> Seq(Msg)]
          /\ bound' \in [Proxies -> Users \cup {None}]
          /\ proxySock' \in [Proxies -> Sockets]
      BY <2>4 DEF ProxyClose
    <3> QED
      BY <2>4, <3>2, <3>3 DEF ProxyClose
  <2>5. CASE ProxyInactive(p)
    <3>1. pool' \in Seq(Proxies)
      BY <2>5, RemoveLemma DEF ProxyInactive, RemoveProxyChanel
    <3> QED
      BY <2>5, <3>1 DEF ProxyInactive
  <2> QED
    BY <1>3, <2>1, <2>2, <2>3, <2>4, <2>5 DEF ProxyStep
<1>4. ASSUME NEW r \in Reals, NEW p \in Proxies, DialDone(r, p)
      PROVE  TypeOK'
  BY <1>4 DEF DialDone
<1>5. CASE CmdClose
  BY <1>5 DEF CmdClose
<1>6. CASE CmdInactive
  BY <1>6 DEF CmdInactive
<1>7. CASE ClearRealServerChannels
  BY <1>7 DEF ClearRealServerChannels
<1>8. CASE Reconnect
  BY <1>8 DEF Reconnect, LiveChannels
<1>9. ASSUME NEW p \in Proxies, ServerBind(p)
      PROVE  TypeOK'
  BY <1>9 DEF ServerBind, ServerTakes
<1>10. ASSUME NEW p \in Proxies, ServerReceive(p)
      PROVE  TypeOK'
  BY <1>10 DEF ServerReceive, ServerTakes
<1>11. ASSUME NEW p \in Proxies, ServerDisconnect(p)
      PROVE  TypeOK'
  <2>1. up' \in [Proxies -> Seq(Msg)]
    BY <1>11, HeadTailProperties DEF ServerDisconnect, ServerTakes
  <2>2. Message("DISCONNECT", bound[p]) \in Msg
    BY MessageType
  <2>3. Append(down[p], Message("DISCONNECT", bound[p])) \in Seq(Msg)
    BY <2>2, AppendProperties
  <2>4. /\ down' \in [Proxies -> Seq(Msg)]
        /\ bound' \in [Proxies -> Users \cup {None}]
    BY <1>11, <2>3 DEF ServerDisconnect, ServerUnbinds
  <2> QED
    BY <1>11, <2>1, <2>4 DEF ServerDisconnect
<1>12. ASSUME NEW p \in Proxies, ServerSend(p)
      PROVE  TypeOK'
  <2>1. Message("TRANSFER", bound[p]) \in Msg
    BY MessageType
  <2>2. down' \in [Proxies -> Seq(Msg)]
    BY <1>12, <2>1, AppendProperties DEF ServerSend
  <2> QED
    BY <1>12, <2>2 DEF ServerSend
<1>13. ASSUME NEW u \in Users, UserGone(u)
      PROVE  TypeOK'
  <2>1. \A p \in Proxies : Message("DISCONNECT", bound[p]) \in Msg
    BY MessageType
  <2>2. \A p \in Proxies :
          Append(down[p], Message("DISCONNECT", bound[p])) \in Seq(Msg)
    BY <2>1, AppendProperties
  <2>3. /\ down' \in [Proxies -> Seq(Msg)]
        /\ bound' \in [Proxies -> Users \cup {None}]
    <3>1. CASE UNCHANGED <<down, bound>>
      BY <3>1
    <3>2. ASSUME NEW p \in Proxies, ServerUnbinds(p)
          PROVE  /\ down' \in [Proxies -> Seq(Msg)]
                 /\ bound' \in [Proxies -> Users \cup {None}]
      BY <2>2, <3>2 DEF ServerUnbinds
    <3> QED
      BY <1>13, <3>1, <3>2 DEF UserGone
  <2> QED
    BY <1>13, <2>3 DEF UserGone
<1>14. CASE UNCHANGED vars
  BY <1>14 DEF vars
<1> QED
  BY <1>1, <1>2, <1>3, <1>4, <1>5, <1>6, <1>7, <1>8, <1>9, <1>10, <1>11, <1>12, <1>13, <1>14
     DEF Next, CmdStep, ServerStep

(* The channel manager's map, pool and attributes always hold what their
   declarations say, whatever the order of the handlers' steps. *)
THEOREM TypeCorrect == Spec => []TypeOK
BY TypeInit, TypeNext, PTL DEF Spec

-----------------------------------------------------------------------------
(* The pool.                                                               *)

(* PoolInv reads four variables only. *)
LEMMA PoolFrame ==
  ASSUME PoolInv, UNCHANGED <<pool, lease, nextOfProxy, proxySock>>
  PROVE  PoolInv'
BY DEF PoolInv, PoolDetached, LeaseDetached

(* What PoolInv says of the elements of the pool, and what has to be shown *)
(* of them in the next state.                                              *)
PoolElement(p) ==
  /\ nextOfProxy[p] = None /\ proxySock[p] \notin {"dead", "none"}
  /\ \A r \in Reals : lease[r] # p

(* What poll() and remove() look at: the pool's elements are data channels. *)
LEMMA PoolElements ==
  PoolInv <=> /\ Distinct(pool) /\ LeaseDetached
              /\ \A i \in 1..Len(pool) : PoolElement(pool[i])
BY DEF PoolInv, PoolDetached, PoolElement, Distinct

(* The same after a step. *)
LEMMA PoolElementsNext ==
  ASSUME Distinct(pool'), LeaseDetached',
         \A i \in 1..Len(pool') : PoolElement(pool[i])'
  PROVE  PoolInv'
BY DEF PoolInv, PoolDetached, PoolElement, Distinct

(* The pool is empty at first. *)
LEMMA PoolInit == Init => PoolInv
<1> SUFFICES ASSUME Init
             PROVE  PoolInv
  OBVIOUS
<1>1. Len(pool) = 0
  BY DEF Init
<1> QED
  BY <1>1 DEF Init, PoolInv, PoolDetached, LeaseDetached

(* poll() and the callback that got the channel: it was in the pool, so it *)
(* is detached, and no other callback has it.                              *)
LEMMA PoolConnectDone ==
  ASSUME TypeOK, PoolInv, NEW r \in Reals, ConnectDone(r)
  PROVE  PoolInv'
<1> USE ProxyClientAssumption
<1>1. CASE pool = <<>>
  BY <1>1, PoolFrame DEF ConnectDone, proxyVars
<1>2. CASE pool # <<>>
  <2>1. /\ Distinct(pool) /\ LeaseDetached
        /\ \A i \in 1..Len(pool) : PoolElement(pool[i])
    BY PoolElements
  <2>2. PICK h : h = Head(pool)
    OBVIOUS
  <2>3. PICK t : t = Tail(pool)
    OBVIOUS
  <2>4. /\ h \in Proxies /\ Distinct(t) /\ h = pool[1] /\ 1 \in 1..Len(pool)
        /\ \A i \in 1..Len(t) :
             t[i] # h /\ \E j \in 1..Len(pool) : t[i] = pool[j]
    BY <1>2, <2>1, <2>2, <2>3, PollLemma DEF TypeOK
  <2>5. /\ pool' = t /\ lease' = [lease EXCEPT ![r] = h]
        /\ UNCHANGED <<nextOfProxy, proxySock>>
    BY <1>2, <2>2, <2>3 DEF ConnectDone, proxyVars
  <2>6. PoolElement(h)
    BY <2>1, <2>4
  <2>7. \A i \in 1..Len(t) : PoolElement(t[i]) /\ t[i] # h
    BY <2>1, <2>4
  <2>8. LeaseDetached'
    BY <2>1, <2>5, <2>6 DEF LeaseDetached, PoolElement, TypeOK
  <2>9. \A i \in 1..Len(pool') : PoolElement(pool[i])'
    BY <2>5, <2>7 DEF PoolElement, TypeOK
  <2> QED
    BY <2>4, <2>5, <2>8, <2>9, PoolElementsNext
<1> QED
  BY <1>1, <1>2

(* A new channel takes an identity nothing refers to. *)
LEMMA PoolDialDone ==
  ASSUME TypeOK, PoolInv, NEW r \in Reals, NEW p \in Proxies, DialDone(r, p)
  PROVE  PoolInv'
<1> USE ProxyClientAssumption
<1>1. /\ Distinct(pool) /\ LeaseDetached
      /\ \A i \in 1..Len(pool) : PoolElement(pool[i])
  BY PoolElements
<1>2. /\ lease' = [lease EXCEPT ![r] = p]
      /\ proxySock' = [proxySock EXCEPT ![p] = "open"]
      /\ nextOfProxy' = [nextOfProxy EXCEPT ![p] = None]
      /\ pool' = pool /\ FreeProxy(p)
  BY DEF DialDone, sharedVars
<1>3. \A i \in 1..Len(pool) : pool[i] # p
  BY <1>1, <1>2 DEF FreeProxy, PoolElement, Contains
<1>4. \A q \in Reals : lease[q] # p
  BY <1>1, <1>2 DEF FreeProxy, LeaseDetached
<1>5. LeaseDetached'
  BY <1>1, <1>2, <1>4 DEF LeaseDetached, TypeOK
<1>6. \A i \in 1..Len(pool') : PoolElement(pool[i])'
  BY <1>1, <1>2, <1>3 DEF PoolElement, TypeOK
<1> QED
  BY <1>1, <1>2, <1>5, <1>6, PoolElementsNext

(* setAttr: the channel being bound is neither pooled nor held by another  *)
(* callback.                                                               *)
LEMMA PoolBind ==
  ASSUME TypeOK, PoolInv, NEW r \in Reals, Bind(r)
  PROVE  PoolInv'
<1> USE ProxyClientAssumption
<1>1. /\ Distinct(pool) /\ LeaseDetached
      /\ \A i \in 1..Len(pool) : PoolElement(pool[i])
  BY PoolElements
<1>2. /\ lease' = [lease EXCEPT ![r] = None]
      /\ nextOfProxy' = [nextOfProxy EXCEPT ![lease[r]] = r]
      /\ pool' = pool /\ proxySock' = proxySock
  BY DEF Bind, sharedVars
<1>3. LeaseDetached'
  BY <1>1, <1>2 DEF LeaseDetached, TypeOK
<1>4. \A i \in 1..Len(pool') : PoolElement(pool[i])'
  BY <1>1, <1>2 DEF PoolElement, TypeOK
<1> QED
  BY <1>1, <1>2, <1>3, <1>4, PoolElementsNext

(* returnProxyChanel: the channel was bound, so it was neither in the pool *)
(* nor in a callback's hands.                                              *)
LEMMA PoolHandleDisconnect ==
  ASSUME TypeOK, PoolInv, NEW p \in Proxies, HandleDisconnect(p)
  PROVE  PoolInv'
<1> USE ProxyClientAssumption
<1>1. /\ Distinct(pool) /\ LeaseDetached
      /\ \A i \in 1..Len(pool) : PoolElement(pool[i])
  BY PoolElements
<1>2. CASE nextOfProxy[p] = None
  BY <1>2, PoolFrame DEF HandleDisconnect, realVars
<1>3. CASE nextOfProxy[p] # None
  <2>1. \A i \in 1..Len(pool) : pool[i] # p
    BY <1>1, <1>3 DEF PoolElement
  <2>2. \A r \in Reals : lease[r] # p
    BY <1>1, <1>3 DEF LeaseDetached
  <2>3. /\ nextOfProxy' = [nextOfProxy EXCEPT ![p] = None]
        /\ UNCHANGED <<lease, proxySock>> /\ proxySock[p] = "open"
    BY <1>3 DEF HandleDisconnect, Arrives, realVars
  <2>4. LeaseDetached'
    BY <1>1, <2>2, <2>3 DEF LeaseDetached, TypeOK
  <2>5. CASE pool' = pool
    <3>1. \A i \in 1..Len(pool') : PoolElement(pool[i])'
      BY <1>1, <2>1, <2>3, <2>5 DEF PoolElement, TypeOK
    <3> QED
      BY <1>1, <2>4, <2>5, <3>1, PoolElementsNext
  <2>6. CASE pool' = Append(pool, p)
    <3>1. PICK t : t = Append(pool, p)
      OBVIOUS
    <3>2. /\ Distinct(t)
          /\ \A i \in 1..Len(t) : t[i] = p \/ \E j \in 1..Len(pool) : t[i] = pool[j]
      BY <1>1, <2>1, <3>1, OfferLemma DEF TypeOK
    <3>3. \A i \in 1..Len(t) : t[i] = p \/ PoolElement(t[i])
      BY <1>1, <3>2
    <3>4. \A i \in 1..Len(pool') : PoolElement(pool[i])'
      BY <2>2, <2>3, <2>6, <3>1, <3>3 DEF PoolElement, TypeOK
    <3> QED
      BY <2>4, <2>6, <3>1, <3>2, <3>4, PoolElementsNext
  <2> QED
    BY <1>3, <2>5, <2>6 DEF HandleDisconnect
<1> QED
  BY <1>2, <1>3

(* removeProxyChanel: in a pool without repetitions, removing one          *)
(* occurrence removes the dead channel.                                    *)
LEMMA PoolProxyInactive ==
  ASSUME TypeOK, PoolInv, NEW p \in Proxies, ProxyInactive(p)
  PROVE  PoolInv'
<1>1. /\ Distinct(pool) /\ LeaseDetached
      /\ \A i \in 1..Len(pool) : PoolElement(pool[i])
  BY PoolElements
<1>2. PICK t : t = RemoveFirst(pool, p)
  OBVIOUS
<1>3. /\ Distinct(t)
      /\ \A i \in 1..Len(t) : t[i] # p /\ \E j \in 1..Len(pool) : t[i] = pool[j]
  BY <1>1, <1>2, RemoveLemma DEF TypeOK
<1>4. /\ pool' = t /\ proxySock' = [proxySock EXCEPT ![p] = "dead"]
      /\ UNCHANGED <<lease, nextOfProxy>>
  BY <1>2 DEF ProxyInactive, RemoveProxyChanel, realVars
<1>5. \A i \in 1..Len(t) : t[i] # p /\ PoolElement(t[i])
  BY <1>1, <1>3
<1>6. LeaseDetached'
  BY <1>1, <1>4 DEF LeaseDetached, TypeOK
<1>7. \A i \in 1..Len(pool') : PoolElement(pool[i])'
  BY <1>4, <1>5 DEF PoolElement, TypeOK
<1> QED
  BY <1>3, <1>4, <1>6, <1>7, PoolElementsNext

(* Every step preserves PoolInv. *)
LEMMA PoolNext ==
  ASSUME TypeOK, PoolInv, [Next]_vars
  PROVE  PoolInv'
<1> USE ProxyClientAssumption DEF realVars, proxyVars, sharedVars
<1>1. ASSUME NEW u \in Users, NEW r \in Reals, HandleConnect(u, r)
      PROVE  PoolInv'
  BY <1>1 DEF HandleConnect, PoolInv, PoolDetached, LeaseDetached, TypeOK
<1>2. ASSUME NEW r \in Reals, RealStep(r)
      PROVE  PoolInv'
  <2>1. CASE ConnectFailed(r)
    BY <2>1, PoolFrame DEF ConnectFailed
  <2>2. CASE ConnectDone(r)
    BY <2>2, PoolConnectDone
  <2>3. CASE DialFailed(r)
    BY <2>3, PoolFrame DEF DialFailed
  <2>4. CASE Bind(r)
    BY <2>4, PoolBind
  <2>5. CASE AddReal(r)
    BY <2>5, PoolFrame DEF AddReal
  <2>6. CASE SetUserId(r)
    BY <2>6, PoolFrame DEF SetUserId
  <2>7. CASE RealRead(r)
    BY <2>7, PoolFrame DEF RealRead
  <2>8. CASE RealClose(r)
    BY <2>8, PoolFrame DEF RealClose
  <2>9. CASE RealInactive(r)
    BY <2>9, PoolFrame DEF RealInactive
  <2> QED
    BY <1>2, <2>1, <2>2, <2>3, <2>4, <2>5, <2>6, <2>7, <2>8, <2>9 DEF RealStep
<1>3. ASSUME NEW p \in Proxies, ProxyStep(p)
      PROVE  PoolInv'
  <2>1. CASE HandleTransfer(p)
    BY <2>1, PoolFrame DEF HandleTransfer
  <2>2. CASE HandleDisconnect(p)
    BY <2>2, PoolHandleDisconnect
  <2>3. CASE FinishDisconnect(p)
    BY <2>3, PoolFrame DEF FinishDisconnect
  <2>4. CASE ProxyClose(p)
    BY <2>4 DEF ProxyClose, PoolInv, PoolDetached, LeaseDetached, TypeOK
  <2>5. CASE ProxyInactive(p)
    BY <2>5, PoolProxyInactive
  <2> QED
    BY <1>3, <2>1, <2>2, <2>3, <2>4, <2>5 DEF ProxyStep
<1>4. ASSUME NEW r \in Reals, NEW p \in Proxies, DialDone(r, p)
      PROVE  PoolInv'
  BY <1>4, PoolDialDone
<1>5. CASE CmdClose
  BY <1>5, PoolFrame DEF CmdClose
<1>6. CASE CmdInactive
  BY <1>6, PoolFrame DEF CmdInactive
<1>7. CASE ClearRealServerChannels
  BY <1>7, PoolFrame DEF ClearRealServerChannels
<1>8. CASE Reconnect
  BY <1>8, PoolFrame DEF Reconnect
<1>9. ASSUME NEW p \in Proxies, ServerBind(p)
      PROVE  PoolInv'
  BY <1>9, PoolFrame DEF ServerBind
<1>10. ASSUME NEW p \in Proxies, ServerReceive(p)
      PROVE  PoolInv'
  BY <1>10, PoolFrame DEF ServerReceive
<1>11. ASSUME NEW p \in Proxies, ServerDisconnect(p)
      PROVE  PoolInv'
  BY <1>11, PoolFrame DEF ServerDisconnect
<1>12. ASSUME NEW p \in Proxies, ServerSend(p)
      PROVE  PoolInv'
  BY <1>12, PoolFrame DEF ServerSend
<1>13. ASSUME NEW u \in Users, UserGone(u)
      PROVE  PoolInv'
  BY <1>13, PoolFrame DEF UserGone
<1>14. CASE UNCHANGED vars
  BY <1>14, PoolFrame DEF vars
<1> QED
  BY <1>1, <1>2, <1>3, <1>4, <1>5, <1>6, <1>7, <1>8, <1>9, <1>10, <1>11, <1>12, <1>13, <1>14
     DEF Next, CmdStep, ServerStep

(* PoolInv is an invariant of the specification. *)
LEMMA PoolInvariance == Spec => [](TypeOK /\ PoolInv)
BY TypeInit, TypeNext, PoolInit, PoolNext, PTL DEF Spec

(* A data channel in the pool is attached to nothing: borrowProxyChanel    *)
(* never hands one channel to two connections, nor a channel that is still *)
(* in use.                                                                 *)
THEOREM PoolIsDetached == Spec => []PoolDetached
<1>1. PoolInv => PoolDetached
  BY DEF PoolInv
<1> QED
  BY <1>1, PoolInvariance, PTL

-----------------------------------------------------------------------------
(* Local connections whose data channel has been taken away.               *)

(* DetachInv reads these variables only, and closing may grow. *)
LEMMA DetachFrame ==
  ASSUME DetachInv, closing \subseteq closing',
         UNCHANGED <<stage, realSock, nextOfReal, proxySock, nextOfProxy, toClose>>
  PROVE  DetachInv'
BY DEF DetachInv, DetachedRealIsClosing

(* Nothing points to anything at first. *)
LEMMA DetachInit == Init => DetachInv
BY ProxyClientAssumption DEF Init, DetachInv, DetachedRealIsClosing

(* Every step preserves DetachInv. *)
LEMMA DetachNext ==
  ASSUME TypeOK, PoolInv, DetachInv, [Next]_vars
  PROVE  DetachInv'
<1> USE ProxyClientAssumption DEF realVars, proxyVars, sharedVars
<1>1. ASSUME NEW u \in Users, NEW r \in Reals, HandleConnect(u, r)
      PROVE  DetachInv'
  BY <1>1 DEF HandleConnect, DetachInv, DetachedRealIsClosing, TypeOK
<1>2. ASSUME NEW r \in Reals, RealStep(r)
      PROVE  DetachInv'
  <2>1. CASE ConnectFailed(r)
    BY <2>1 DEF ConnectFailed, DetachInv, DetachedRealIsClosing, TypeOK
  <2>2. CASE ConnectDone(r)
    BY <2>2 DEF ConnectDone, DetachInv, DetachedRealIsClosing, TypeOK
  <2>3. CASE DialFailed(r)
    BY <2>3 DEF DialFailed, DetachInv, DetachedRealIsClosing, TypeOK
  <2>4. CASE Bind(r)
    BY <2>4 DEF Bind, PoolInv, LeaseDetached, DetachInv, DetachedRealIsClosing, TypeOK
  <2>5. CASE AddReal(r)
    BY <2>5 DEF AddReal, DetachInv, DetachedRealIsClosing, TypeOK
  <2>6. CASE SetUserId(r)
    BY <2>6 DEF SetUserId, DetachInv, DetachedRealIsClosing, TypeOK
  <2>7. CASE RealRead(r)
    BY <2>7, DetachFrame DEF RealRead
  <2>8. CASE RealClose(r)
    BY <2>8 DEF RealClose, DetachInv, DetachedRealIsClosing, TypeOK
  <2>9. CASE RealInactive(r)
    BY <2>9 DEF RealInactive, DetachInv, DetachedRealIsClosing, TypeOK
  <2> QED
    BY <1>2, <2>1, <2>2, <2>3, <2>4, <2>5, <2>6, <2>7, <2>8, <2>9 DEF RealStep
<1>3. ASSUME NEW p \in Proxies, ProxyStep(p)
      PROVE  DetachInv'
  <2>1. CASE HandleTransfer(p)
    BY <2>1, DetachFrame DEF HandleTransfer
  <2>2. CASE HandleDisconnect(p)
    BY <2>2 DEF HandleDisconnect, Arrives, ProxyLoopBusy, DetachInv, DetachedRealIsClosing, TypeOK
  <2>3. CASE FinishDisconnect(p)
    BY <2>3 DEF FinishDisconnect, DetachInv, DetachedRealIsClosing, TypeOK
  <2>4. CASE ProxyClose(p)
    BY <2>4 DEF ProxyClose, DetachInv, DetachedRealIsClosing, TypeOK
  <2>5. CASE ProxyInactive(p)
    BY <2>5 DEF ProxyInactive, DetachInv, DetachedRealIsClosing, TypeOK
  <2> QED
    BY <1>3, <2>1, <2>2, <2>3, <2>4, <2>5 DEF ProxyStep
<1>4. ASSUME NEW r \in Reals, NEW p \in Proxies, DialDone(r, p)
      PROVE  DetachInv'
  BY <1>4 DEF DialDone, FreeProxy, DetachInv, DetachedRealIsClosing, TypeOK
<1>5. CASE CmdClose
  BY <1>5, DetachFrame DEF CmdClose
<1>6. CASE CmdInactive
  BY <1>6, DetachFrame DEF CmdInactive
<1>7. CASE ClearRealServerChannels
  BY <1>7, DetachFrame DEF ClearRealServerChannels
<1>8. CASE Reconnect
  BY <1>8, DetachFrame DEF Reconnect
<1>9. ASSUME NEW p \in Proxies, ServerBind(p)
      PROVE  DetachInv'
  BY <1>9, DetachFrame DEF ServerBind
<1>10. ASSUME NEW p \in Proxies, ServerReceive(p)
      PROVE  DetachInv'
  BY <1>10, DetachFrame DEF ServerReceive
<1>11. ASSUME NEW p \in Proxies, ServerDisconnect(p)
      PROVE  DetachInv'
  BY <1>11, DetachFrame DEF ServerDisconnect
<1>12. ASSUME NEW p \in Proxies, ServerSend(p)
      PROVE  DetachInv'
  BY <1>12, DetachFrame DEF ServerSend
<1>13. ASSUME NEW u \in Users, UserGone(u)
      PROVE  DetachInv'
  BY <1>13, DetachFrame DEF UserGone
<1>14. CASE UNCHANGED vars
  BY <1>14, DetachFrame DEF vars
<1> QED
  BY <1>1, <1>2, <1>3, <1>4, <1>5, <1>6, <1>7, <1>8, <1>9, <1>10, <1>11, <1>12, <1>13, <1>14
     DEF Next, CmdStep, ServerStep

(* The conjunction of the three is an invariant of the specification. *)
LEMMA IInvInvariance == Spec => []IInv
<1>1. Init => IInv
  BY TypeInit, PoolInit, DetachInit DEF IInv
<1>2. IInv /\ [Next]_vars => IInv'
  BY TypeNext, PoolNext, DetachNext DEF IInv
<1> QED
  BY <1>1, <1>2, PTL DEF Spec

(* A local connection writes to a data channel that another connection may *)
(* own by now only while it is being closed.                               *)
THEOREM DetachedIsClosing == Spec => []DetachedRealIsClosing
<1>1. IInv => DetachedRealIsClosing
  BY DEF IInv, DetachInv
<1> QED
  BY <1>1, IInvInvariance, PTL
=============================================================================
