----------------------------- MODULE PartsProofs -----------------------------
(***************************************************************************)
(* Proofs about the small parts, of which MCParts runs one at a time, for  *)
(* any values of their constants.                                          *)
(***************************************************************************)
EXTENDS MCParts, FiniteSetTheorems, SequenceTheorems, WellFoundedInduction, TLAPS

-----------------------------------------------------------------------------
(* A step of the whole is a step of each part, or leaves it alone.         *)
LEMMA PartSteps ==
  ASSUME [Next]_vars
  PROVE  /\ [Flow!Next]_flowVars /\ [Pool!Next]_poolVars /\ [Upload!Next]_uploadVars
         /\ [List!Next]_listVars /\ [Cache!Next]_cacheVars /\ [Output!Next]_outputVars
         /\ [Service!Next]_serviceVars /\ [Errors!Next]_errorVars
         /\ [Codec!Next]_codecVars
BY DEF Next, vars

-----------------------------------------------------------------------------
(* WsOutput.                                                               *)

(* What a shell's output may come to at once. *)
Sizes == 0..4096

(* Sizes are numbers, and every amount that is sent is one of them.        *)
LEMMA SizesAreNumbers == Sizes \subseteq Nat /\ 0 \in Sizes /\ SendLengths \subseteq Sizes
BY SendLengthsAssumption DEF Sizes

(* The page takes what is sent for what it is, at every length. *)
LEMMA HeaderTold ==
  ASSUME NEW n \in Sizes
  PROVE  Output!LengthIn(Output!HeadOf(n)) = n
<1> USE DEF Sizes
<1>1. CASE n < 126
  BY <1>1 DEF Output!LengthIn, Output!HeadOf
<1>2. CASE n >= 126
  <2>1. n = (n \div 256) * 256 + (n % 256)
    OBVIOUS
  <2>2. Output!HeadOf(n) = <<129, 126, n \div 256, n % 256>>
    BY <1>2 DEF Output!HeadOf
  <2> QED
    BY <1>2, <2>1, <2>2 DEF Output!LengthIn
<1> QED
  BY <1>1, <1>2

OutputTypes ==
  /\ spc \in [Senders -> {"idle", "head", "data"}]
  /\ slen \in [Senders -> Sizes]
  /\ conn \in Conns \cup {None, Failed}
  /\ life \in [Conns -> {"new", "accepted", "open", "closed"}]
  /\ shaking \subseteq Conns /\ unsetting \subseteq Conns \cup {Failed}
  /\ expects \in [Conns -> Int]
  /\ garbled \in [Conns -> BOOLEAN] /\ mixed \in [Conns -> BOOLEAN]

(* The connection's threads: its own shakes hands on it, and nobody writes *)
(* before that; afterwards one sender at most is writing.                  *)
OneWriter(c) ==
  /\ life[c] = "new" => conn # c
  /\ c \in shaking => life[c] \in {"accepted", "closed"}
  /\ conn = c /\ life[c] = "accepted" => \A s \in Senders : spc[s] = "idle"
  /\ conn = c => \A s, o \in Senders : spc[s] # "idle" /\ spc[o] # "idle" => s = o

(* Its page expects what is to follow the header. *)
PageExpects(c) ==
  /\ life[c] \in {"new", "accepted"} => expects[c] = 0
  /\ conn = c /\ life[c] = "open" =>
       /\ \A s \in Senders : spc[s] = "data" => expects[c] = slen[s]
       /\ (\A s \in Senders : spc[s] # "data") => expects[c] = 0

Unmixed(c) == ~garbled[c] /\ OneWriter(c) /\ PageExpects(c)

OutputInv == OutputTypes /\ \A c \in Conns : ~mixed[c] => Unmixed(c)

(* What the writes of a header and of data do to the pages. *)
LEMMA SendsType ==
  ASSUME OutputTypes, NEW inPlace \in BOOLEAN, NEW n \in Int, Output!Sends(inPlace, n)
  PROVE  expects' \in [Conns -> Int] /\ garbled' \in [Conns -> BOOLEAN]
<1> USE DEF OutputTypes
<1>1. CASE Output!Reaches
  <2> DEFINE g == garbled[conn] \/ ~inPlace \/ life[conn] = "accepted"
  <2>1. conn \in Conns
    BY <1>1 DEF Output!Reaches
  <2>2. expects' = [expects EXCEPT ![conn] = n] /\ garbled' = [garbled EXCEPT ![conn] = g]
    BY <1>1, Zenon DEF Output!Sends
  <2>3. g \in BOOLEAN
    OBVIOUS
  <2> HIDE DEF g
  <2>4. expects' \in [Conns -> Int]
    BY <2>1, <2>2
  <2>5. garbled' \in [Conns -> BOOLEAN]
    BY <2>1, <2>2, <2>3
  <2> QED
    BY <2>4, <2>5
<1>2. CASE ~Output!Reaches
  <2>1. expects' = expects /\ garbled' = garbled
    BY <1>2, Zenon DEF Output!Sends
  <2> QED
    BY <2>1
<1> QED
  BY <1>1, <1>2

(* The types, action by action. *)
LEMMA OutputTypesNext == OutputTypes /\ [Output!Next]_outputVars => OutputTypes'
<1> SUFFICES ASSUME OutputTypes, [Output!Next]_outputVars PROVE OutputTypes'
  OBVIOUS
<1> USE DEF OutputTypes, Output!session
<1>1. ASSUME NEW c \in Conns, Output!Accept(c) PROVE OutputTypes'
  BY <1>1 DEF Output!Accept
<1>2. ASSUME NEW c \in Conns, Output!ShakeHands(c) PROVE OutputTypes'
  BY <1>2 DEF Output!ShakeHands
<1>3. ASSUME NEW c \in Conns \cup {Failed}, Output!UnsetConn(c) PROVE OutputTypes'
  BY <1>3 DEF Output!UnsetConn
<1>4. CASE Output!AcceptFails
  BY <1>4 DEF Output!AcceptFails
<1>5. CASE Output!CloseConn
  BY <1>5 DEF Output!CloseConn
<1>6. ASSUME NEW s \in Senders, NEW n \in SendLengths, Output!SendBegins(s, n)
      PROVE  OutputTypes'
  BY <1>6, SizesAreNumbers DEF Output!SendBegins
<1>7. ASSUME NEW s \in Senders, Output!SendHead(s) PROVE OutputTypes'
  <2>0. slen[s] \in Sizes
    OBVIOUS
  <2>1. Output!LengthIn(Output!HeadOf(slen[s])) \in Int
    <3>1. \A n \in Sizes : n \in Int
      BY DEF Sizes
    <3> QED
      BY <2>0, <3>1, HeaderTold
  <2>2. expects' \in [Conns -> Int] /\ garbled' \in [Conns -> BOOLEAN]
    BY <1>7, <2>1, SendsType DEF Output!SendHead
  <2>3. /\ spc' = [spc EXCEPT ![s] = "data"]
        /\ UNCHANGED <<conn, life, shaking, unsetting, slen, mixed>>
    BY <1>7 DEF Output!SendHead
  <2> QED
    BY <2>2, <2>3
<1>8. ASSUME NEW s \in Senders, Output!SendData(s) PROVE OutputTypes'
  <2>1. expects' \in [Conns -> Int] /\ garbled' \in [Conns -> BOOLEAN]
    <3> DEFINE inPlace == Output!Reaches => expects[conn] = slen[s]
    <3>1. inPlace \in BOOLEAN
      OBVIOUS
    <3>2. Output!Sends(inPlace, 0)
      BY <1>8, Zenon DEF Output!SendData
    <3> HIDE DEF inPlace
    <3> QED
      BY <3>1, <3>2, SendsType
  <2>2. /\ spc' = [spc EXCEPT ![s] = "idle"] /\ slen' = [slen EXCEPT ![s] = 0]
        /\ UNCHANGED <<conn, life, shaking, unsetting, mixed>>
    BY <1>8 DEF Output!SendData
  <2> QED
    BY <2>1, <2>2, SizesAreNumbers
<1>9. CASE UNCHANGED outputVars
  BY <1>9 DEF outputVars
<1> QED
  BY <1>1, <1>2, <1>3, <1>4, <1>5, <1>6, <1>7, <1>8, <1>9 DEF Output!Next, Output!Send

(* No step disturbs a connection no threads met on. *)
LEMMA OutputNext == OutputInv /\ [Output!Next]_outputVars => OutputInv'
<1> SUFFICES ASSUME OutputInv, [Output!Next]_outputVars PROVE OutputInv'
  OBVIOUS
<1>a. OutputTypes /\ OutputTypes'
  BY OutputTypesNext DEF OutputInv
<1> SUFFICES ASSUME NEW d \in Conns, ~mixed'[d] PROVE Unmixed(d)'
  BY <1>a DEF OutputInv
<1> USE <1>a DEF Unmixed, OneWriter, PageExpects
<1>0. Unmixed(d) => /\ ~garbled[d]
                   /\ OneWriter(d) /\ PageExpects(d)
  OBVIOUS
<1>1. ASSUME NEW c \in Conns, Output!Accept(c) PROVE Unmixed(d)'
  <2>1. Unmixed(d)
    BY <1>1 DEF OutputInv, OutputTypes, Output!Accept
  <2>2. d = c => \A s \in Senders : spc[s] = "idle"
    BY <1>1 DEF OutputTypes, Output!Accept, Output!Busy
  <2> QED
    BY <1>1, <2>1, <2>2 DEF OutputTypes, Output!Accept
<1>2. ASSUME NEW c \in Conns, Output!ShakeHands(c) PROVE Unmixed(d)'
  <2>1. Unmixed(d)
    BY <1>2 DEF OutputInv, OutputTypes, Output!ShakeHands
  <2>2. conn = d => c = d /\ life[d] \in {"accepted", "closed"}
    BY <1>2, <2>1, PartsAssumption DEF OutputTypes, Output!ShakeHands
  <2>3. garbled'[d] = garbled[d]
    BY <1>2, <2>2 DEF OutputTypes, Output!ShakeHands
  <2>4. /\ conn # d => life'[d] = life[d]
        /\ conn = d => life'[d] = IF life[d] = "accepted" THEN "open" ELSE life[d]
    BY <1>2, PartsAssumption DEF OutputTypes, Output!ShakeHands
  <2>5. shaking' = shaking \ {c} /\ UNCHANGED <<spc, slen, conn, expects>>
    BY <1>2 DEF Output!ShakeHands
  <2> QED
    BY <2>1, <2>2, <2>3, <2>4, <2>5 DEF OutputTypes
<1>3. ASSUME NEW c \in Conns \cup {Failed}, Output!UnsetConn(c) PROVE Unmixed(d)'
  BY <1>3, PartsAssumption DEF OutputInv, Output!UnsetConn
<1>4. CASE Output!AcceptFails
  BY <1>4, PartsAssumption DEF OutputInv, Output!AcceptFails
<1>5. CASE Output!CloseConn
  BY <1>5 DEF OutputInv, OutputTypes, Output!CloseConn
<1>6. ASSUME NEW s \in Senders, NEW n \in SendLengths, Output!SendBegins(s, n)
      PROVE  Unmixed(d)'
  <2>1. Unmixed(d)
    BY <1>6 DEF OutputInv, OutputTypes, Output!SendBegins
  <2>2. conn = d => life[d] # "accepted" /\ \A o \in Senders : spc[o] = "idle"
    BY <1>6, PartsAssumption DEF OutputTypes, Output!SendBegins, Output!Busy
  <2>3. /\ UNCHANGED <<conn, life, shaking, expects, garbled>>
        /\ spc' = [spc EXCEPT ![s] = "head"] /\ slen' = [slen EXCEPT ![s] = n]
    BY <1>6 DEF Output!SendBegins, Output!session
  <2> QED
    BY <2>1, <2>2, <2>3 DEF OutputTypes
<1>7. ASSUME NEW s \in Senders, Output!SendHead(s) PROVE Unmixed(d)'
  <2>1. Unmixed(d) /\ mixed' = mixed
    BY <1>7 DEF OutputInv, Output!SendHead
  <2>2. slen[s] \in Sizes /\ Output!LengthIn(Output!HeadOf(slen[s])) = slen[s]
    BY HeaderTold DEF OutputTypes
  <2>3. /\ UNCHANGED <<conn, life, shaking, slen>>
        /\ spc[s] = "head" /\ spc' = [spc EXCEPT ![s] = "data"]
        /\ Output!Sends(Output!Reaches => expects[conn] = 0 /\ slen[s] # -1, slen[s])
    BY <1>7, <2>2 DEF Output!SendHead, Output!session
  <2>4. CASE conn = d /\ life[d] = "open"
    <3>1. Output!Reaches
      BY <2>4, PartsAssumption DEF Output!Reaches
    <3>2. \A o \in Senders : o # s => spc[o] = "idle"
      BY <2>1, <2>3, <2>4
    <3>3. expects[d] = 0 /\ slen[s] # -1
      <4>1. expects[d] = 0
        BY <2>1, <2>3, <2>4, <3>2
      <4>2. \A n \in Sizes : n # -1
        BY DEF Sizes
      <4> QED
        BY <2>2, <4>1, <4>2
    <3>4. expects' = [expects EXCEPT ![d] = slen[s]]
      BY <2>3, <2>4, <3>1 DEF Output!Sends
    <3>5. ~garbled'[d]
      BY <2>1, <2>3, <2>4, <3>1, <3>3 DEF Output!Sends, OutputTypes
    <3> QED
      BY <2>1, <2>3, <2>4, <3>2, <3>4, <3>5 DEF OutputTypes
  <2>5. CASE ~(conn = d /\ life[d] = "open")
    <3>1. conn = d => life[d] = "closed"
      BY <2>1, <2>3, <2>5 DEF OutputTypes
    <3>2. expects'[d] = expects[d] /\ garbled'[d] = garbled[d]
      BY <2>3, <3>1 DEF Output!Sends, Output!Reaches, OutputTypes
    <3> QED
      BY <2>1, <2>3, <2>5, <3>1, <3>2 DEF OutputTypes
  <2> QED
    BY <2>4, <2>5
<1>8. ASSUME NEW s \in Senders, Output!SendData(s) PROVE Unmixed(d)'
  <2>1. Unmixed(d) /\ mixed' = mixed
    BY <1>8 DEF OutputInv, Output!SendData
  <2>2. /\ UNCHANGED <<conn, life, shaking>>
        /\ spc[s] = "data" /\ spc' = [spc EXCEPT ![s] = "idle"]
        /\ slen' = [slen EXCEPT ![s] = 0]
        /\ Output!Sends(Output!Reaches => expects[conn] = slen[s], 0)
    BY <1>8 DEF Output!SendData, Output!session
  <2>3. CASE conn = d /\ life[d] = "open"
    <3>1. Output!Reaches
      BY <2>3, PartsAssumption DEF Output!Reaches
    <3>2. \A o \in Senders : o # s => spc[o] = "idle"
      BY <2>1, <2>2, <2>3
    <3>3. expects[d] = slen[s]
      BY <2>1, <2>2, <2>3
    <3>4. expects' = [expects EXCEPT ![d] = 0]
      BY <2>2, <2>3, <3>1 DEF Output!Sends
    <3>5. ~garbled'[d]
      BY <2>1, <2>2, <2>3, <3>1, <3>3 DEF Output!Sends, OutputTypes
    <3> QED
      BY <2>1, <2>2, <2>3, <3>2, <3>4, <3>5 DEF OutputTypes
  <2>4. CASE ~(conn = d /\ life[d] = "open")
    <3>1. conn = d => life[d] = "closed"
      BY <2>1, <2>2, <2>4 DEF OutputTypes
    <3>2. expects'[d] = expects[d] /\ garbled'[d] = garbled[d]
      BY <2>2, <3>1 DEF Output!Sends, Output!Reaches, OutputTypes
    <3> QED
      BY <2>1, <2>2, <2>4, <3>1, <3>2 DEF OutputTypes
  <2> QED
    BY <2>3, <2>4
<1>9. CASE UNCHANGED outputVars
  BY <1>9 DEF outputVars, OutputInv
<1> QED
  BY <1>1, <1>2, <1>3, <1>4, <1>5, <1>6, <1>7, <1>8, <1>9 DEF Output!Next, Output!Send

(* What a shell writes reaches the page as one frame each on a connection  *)
(* that threads did not meet on, however many readers and connections      *)
(* there are and whatever lengths are sent.                                *)
THEOREM ShellOutputIsFramed == Spec => []OutputIsFramed
<1>1. Init => OutputInv
  <2>1. Init => Output!Init
    BY DEF Init
  <2>2. Output!Init => OutputTypes
    BY SizesAreNumbers DEF Output!Init, OutputTypes
  <2>3. Output!Init => \A c \in Conns : Unmixed(c)
    BY PartsAssumption DEF Output!Init, Unmixed, OneWriter, PageExpects
  <2> QED
    BY <2>1, <2>2, <2>3 DEF OutputInv
<1>2. OutputInv /\ [Next]_vars => OutputInv'
  BY PartSteps, OutputNext
<1>3. OutputInv => OutputIsFramed
  BY DEF OutputInv, OutputTypes, Unmixed, OutputIsFramed, Output!OutputIsFramed
<1> QED
  BY <1>1, <1>2, <1>3, PTL DEF Spec

-----------------------------------------------------------------------------
(* Availability.                                                           *)

Broadcasts == {"network", "mounted", "unmounted"}

Says(m) == IF m THEN "mounted" ELSE "unmounted"

OnNetwork(q) == \E i \in 1..Len(q) : q[i] = "network"
NoneOnStorage(q) == \A i \in 1..Len(q) : q[i] = "network"

(* The last broadcast on the storage, if there is one, tells the truth m. *)
LastSays(q, m) ==
  \A i \in 1..Len(q) :
    q[i] # "network" /\ (\A j \in i + 1..Len(q) : q[j] = "network") => q[i] = Says(m)

ServiceTypes ==
  /\ network \in BOOLEAN /\ mounted \in BOOLEAN
  /\ pending \in Seq(Broadcasts)
  /\ servicePc \in {"none", "network", "storage", "readNetwork", "readStorage", "running"}
  /\ isNetworkAvailable \in BOOLEAN /\ isStorageMounted \in BOOLEAN
  /\ isWebServAvailable \in BOOLEAN /\ told \in BOOLEAN

(* What is not known yet is under way, and in the end says the truth. *)
Informed ==
  /\ servicePc \in {"none", "network"} => pending = <<>>
  /\ servicePc = "storage" => NoneOnStorage(pending)
  /\ LastSays(pending, mounted)
  /\ servicePc \in {"readStorage", "running"} =>
       isNetworkAvailable = network \/ OnNetwork(pending)
  /\ servicePc = "running" =>
       /\ NoneOnStorage(pending) => isStorageMounted = mounted
       /\ isWebServAvailable = (isNetworkAvailable /\ isStorageMounted)
       /\ told = isWebServAvailable

ServiceInv == ServiceTypes /\ Informed

(* A broadcast more. *)
LEMMA Broadcast ==
  ASSUME NEW q \in Seq(Broadcasts), NEW b \in Broadcasts
  PROVE  /\ Append(q, b) \in Seq(Broadcasts)
         /\ OnNetwork(q) \/ b = "network" => OnNetwork(Append(q, b))
         /\ NoneOnStorage(Append(q, b)) <=> NoneOnStorage(q) /\ b = "network"
         /\ \A m : b # "network" => (LastSays(Append(q, b), m) <=> b = Says(m))
         /\ \A m : b = "network" /\ LastSays(q, m) => LastSays(Append(q, b), m)
<1> DEFINE r == Append(q, b)
<1>1. /\ r \in Seq(Broadcasts) /\ Len(r) = Len(q) + 1 /\ Len(q) \in Nat
      /\ r[Len(q) + 1] = b /\ \A i \in 1..Len(q) : r[i] = q[i]
  OBVIOUS
<1> HIDE DEF r
<1>2. OnNetwork(q) \/ b = "network" => OnNetwork(r)
  BY <1>1 DEF OnNetwork
<1>3. NoneOnStorage(r) <=> NoneOnStorage(q) /\ b = "network"
  BY <1>1 DEF NoneOnStorage
<1>4. ASSUME NEW m, b # "network" PROVE LastSays(r, m) <=> b = Says(m)
  <2>1. ASSUME NEW i \in 1..Len(r), \A j \in i + 1..Len(r) : r[j] = "network"
        PROVE  i = Len(r)
    <3>1. CASE i < Len(r)
      <4>1. Len(r) \in i + 1..Len(r)
        BY <1>1, <3>1
      <4> QED
        BY <1>1, <1>4, <2>1, <4>1
    <3> QED
      BY <1>1, <3>1
  <2>2. Len(r) \in 1..Len(r) /\ r[Len(r)] = b /\ \A j \in Len(r) + 1..Len(r) : FALSE
    BY <1>1
  <2> QED
    BY <1>4, <2>1, <2>2 DEF LastSays
<1>5. ASSUME NEW m, b = "network", LastSays(q, m) PROVE LastSays(r, m)
  <2> SUFFICES ASSUME NEW i \in 1..Len(r), r[i] # "network",
                      \A j \in i + 1..Len(r) : r[j] = "network"
               PROVE  r[i] = Says(m)
    BY DEF LastSays
  <2>1. i \in 1..Len(q) /\ q[i] = r[i]
    BY <1>1, <1>5
  <2>2. \A j \in i + 1..Len(q) : q[j] = "network"
    BY <1>1, <2>1
  <2> QED
    BY <1>5, <2>1, <2>2 DEF LastSays
<1> QED
  BY <1>1, <1>2, <1>3, <1>4, <1>5 DEF r

(* The first broadcast is received. *)
LEMMA Received ==
  ASSUME NEW q \in Seq(Broadcasts), q # <<>>
  PROVE  /\ Tail(q) \in Seq(Broadcasts) /\ Head(q) \in Broadcasts
         /\ OnNetwork(q) => OnNetwork(Tail(q)) \/ Head(q) = "network"
         /\ NoneOnStorage(Tail(q)) /\ Head(q) = "network" => NoneOnStorage(q)
         /\ \A m : LastSays(q, m) => LastSays(Tail(q), m)
         /\ \A m : LastSays(q, m) /\ NoneOnStorage(Tail(q)) /\ Head(q) # "network" =>
              Head(q) = Says(m)
<1> DEFINE r == Tail(q)
<1>1. /\ r \in Seq(Broadcasts) /\ Len(q) = Len(r) + 1 /\ Len(r) \in Nat
      /\ q[1] = Head(q) /\ \A i \in 1..Len(r) : r[i] = q[i + 1]
      /\ Head(q) \in Broadcasts
  OBVIOUS
<1> HIDE DEF r
<1>a. \A i \in 2..Len(q) : i - 1 \in 1..Len(r) /\ q[i] = r[i - 1]
  BY <1>1
<1>2. OnNetwork(q) => OnNetwork(r) \/ Head(q) = "network"
  <2> SUFFICES ASSUME NEW i \in 1..Len(q), q[i] = "network", i # 1 PROVE OnNetwork(r)
    BY <1>1 DEF OnNetwork
  <2>1. i \in 2..Len(q)
    BY <1>1
  <2> QED
    BY <1>a, <2>1 DEF OnNetwork
<1>3. NoneOnStorage(r) /\ Head(q) = "network" => NoneOnStorage(q)
  <2> SUFFICES ASSUME NoneOnStorage(r), Head(q) = "network", NEW i \in 1..Len(q)
               PROVE  q[i] = "network"
    BY DEF NoneOnStorage
  <2>1. i = 1 \/ i \in 2..Len(q)
    BY <1>1
  <2> QED
    BY <1>1, <1>a, <2>1 DEF NoneOnStorage
<1>4. ASSUME NEW m, LastSays(q, m) PROVE LastSays(r, m)
  <2> SUFFICES ASSUME NEW i \in 1..Len(r), r[i] # "network",
                      \A j \in i + 1..Len(r) : r[j] = "network"
               PROVE  r[i] = Says(m)
    BY DEF LastSays
  <2>1. i + 1 \in 1..Len(q) /\ q[i + 1] = r[i]
    BY <1>1
  <2>2. ASSUME NEW j \in (i + 1) + 1..Len(q) PROVE q[j] = "network"
    <3>1. j \in 2..Len(q) /\ j - 1 \in i + 1..Len(r)
      BY <1>1
    <3> QED
      BY <1>a, <3>1
  <2> QED
    BY <1>4, <2>1, <2>2 DEF LastSays
<1>5. ASSUME NEW m, LastSays(q, m), NoneOnStorage(r), Head(q) # "network"
      PROVE  Head(q) = Says(m)
  <2>1. 1 \in 1..Len(q) /\ \A j \in 1 + 1..Len(q) : q[j] = "network"
    BY <1>1, <1>5, <1>a DEF NoneOnStorage
  <2> QED
    BY <1>1, <1>5, <2>1 DEF LastSays
<1> QED
  BY <1>1, <1>2, <1>3, <1>4, <1>5 DEF r

(* Nothing is under way to a service that is not there. *)
LEMMA NoBroadcast ==
  /\ <<>> \in Seq(Broadcasts) /\ NoneOnStorage(<<>>) /\ ~OnNetwork(<<>>)
  /\ \A m : LastSays(<<>>, m)
BY DEF NoneOnStorage, OnNetwork, LastSays

(* No change of the device falls between registering and reading, and no   *)
(* broadcast that is received leaves more unknown than is under way.       *)
LEMMA ServiceNext == ServiceInv /\ [Service!Next]_serviceVars => ServiceInv'
<1> SUFFICES ASSUME ServiceTypes, Informed, [Service!Next]_serviceVars PROVE ServiceInv'
  BY DEF ServiceInv
<1> USE DEF Service!device, Service!fields
<1>1. CASE Service!NetworkChanges
  <2>1. /\ network' = ~network /\ UNCHANGED <<mounted, servicePc, isNetworkAvailable,
             isStorageMounted, isWebServAvailable, told>>
        /\ IF servicePc \in {"storage", "readNetwork", "readStorage", "running"}
           THEN pending' = Append(pending, "network") ELSE pending' = pending
    BY <1>1 DEF Service!NetworkChanges, Service!NetworkRegistered, Service!StorageRegistered
  <2>2. /\ Append(pending, "network") \in Seq(Broadcasts)
        /\ OnNetwork(Append(pending, "network"))
        /\ NoneOnStorage(Append(pending, "network")) <=> NoneOnStorage(pending)
        /\ LastSays(pending, mounted) => LastSays(Append(pending, "network"), mounted)
    BY Broadcast DEF ServiceTypes, Broadcasts
  <2>3. ServiceTypes'
    BY <2>1, <2>2 DEF ServiceTypes
  <2>4. Informed'
    BY <2>1, <2>2 DEF ServiceTypes, Informed
  <2> QED
    BY <2>3, <2>4 DEF ServiceInv
<1>2. CASE Service!StorageChanges
  <2> DEFINE b == Says(~mounted)
  <2>1. /\ mounted' = ~mounted /\ UNCHANGED <<network, servicePc, isNetworkAvailable,
             isStorageMounted, isWebServAvailable, told>>
        /\ IF servicePc \in {"readNetwork", "readStorage", "running"}
           THEN pending' = Append(pending, b) ELSE pending' = pending
    BY <1>2 DEF Service!StorageChanges, Service!StorageRegistered, Says
  <2>2. b \in Broadcasts /\ b # "network"
    BY DEF Says, Broadcasts
  <2>3. /\ Append(pending, b) \in Seq(Broadcasts)
        /\ OnNetwork(pending) => OnNetwork(Append(pending, b))
        /\ ~NoneOnStorage(Append(pending, b))
        /\ LastSays(Append(pending, b), ~mounted)
    BY <2>2, Broadcast DEF ServiceTypes
  <2>4. NoneOnStorage(pending) => LastSays(pending, ~mounted)
    BY DEF NoneOnStorage, LastSays
  <2>5. pending = <<>> => NoneOnStorage(pending)
    BY NoBroadcast
  <2> HIDE DEF b
  <2>6. ServiceTypes'
    BY <2>1, <2>3 DEF ServiceTypes
  <2>7. Informed'
    BY <2>1, <2>3, <2>4, <2>5 DEF ServiceTypes, Informed
  <2> QED
    BY <2>6, <2>7 DEF ServiceInv
<1>3. CASE Service!Create
  BY <1>3, NoBroadcast DEF Service!Create, ServiceInv, ServiceTypes, Informed
<1>4. CASE Service!RegisterNetwork
  BY <1>4, NoBroadcast DEF Service!RegisterNetwork, ServiceInv, ServiceTypes, Informed
<1>5. CASE Service!RegisterStorage
  BY <1>5 DEF Service!RegisterStorage, ServiceInv, ServiceTypes, Informed
<1>6. CASE Service!ReadNetwork
  BY <1>6 DEF Service!ReadNetwork, ServiceInv, ServiceTypes, Informed
<1>7. CASE Service!ReadStorage
  BY <1>7 DEF Service!ReadStorage, ServiceInv, ServiceTypes, Informed
<1>8. CASE Service!Receive
  <2> DEFINE h == Head(pending)
             q == Tail(pending)
  <2>1. /\ servicePc = "running" /\ pending # <<>> /\ pending' = q
        /\ isNetworkAvailable' = IF h = "network" THEN network ELSE isNetworkAvailable
        /\ isStorageMounted' = IF h = "network" THEN isStorageMounted ELSE h = "mounted"
        /\ UNCHANGED <<network, mounted, servicePc>>
    BY <1>8 DEF Service!Receive
  <2>2. /\ q \in Seq(Broadcasts) /\ h \in Broadcasts
        /\ OnNetwork(pending) => OnNetwork(q) \/ h = "network"
        /\ NoneOnStorage(q) /\ h = "network" => NoneOnStorage(pending)
        /\ LastSays(q, mounted)
        /\ NoneOnStorage(q) /\ h # "network" => h = Says(mounted)
    BY <2>1, Received DEF ServiceTypes, Informed
  <2>3. /\ isNetworkAvailable' \in BOOLEAN /\ isStorageMounted' \in BOOLEAN
    BY <2>1 DEF ServiceTypes
  <2>4. /\ isWebServAvailable' = (isNetworkAvailable' /\ isStorageMounted')
        /\ told' = isWebServAvailable'
    BY <1>8, <2>1, <2>3 DEF Service!Receive, Service!NotifyChanged, Informed, ServiceTypes
  <2>5. isNetworkAvailable' = network \/ OnNetwork(q)
    BY <2>1, <2>2 DEF Informed
  <2>6. NoneOnStorage(q) => isStorageMounted' = mounted
    <3>1. CASE h = "network"
      BY <2>1, <2>2, <3>1 DEF Informed
    <3>2. CASE h # "network"
      BY <2>1, <2>2, <3>2 DEF Says, ServiceTypes
    <3> QED
      BY <3>1, <3>2
  <2> HIDE DEF h, q
  <2>7. ServiceTypes'
    BY <2>1, <2>2, <2>3, <2>4 DEF ServiceTypes
  <2>8. Informed'
    BY <2>1, <2>2, <2>4, <2>5, <2>6 DEF Informed
  <2> QED
    BY <2>7, <2>8 DEF ServiceInv
<1>9. CASE Service!Destroy
  BY <1>9, NoBroadcast DEF Service!Destroy, ServiceInv, ServiceTypes, Informed
<1>10. CASE UNCHANGED serviceVars
  BY <1>10 DEF serviceVars, ServiceInv, ServiceTypes, Informed
<1> QED
  BY <1>1, <1>2, <1>3, <1>4, <1>5, <1>6, <1>7, <1>8, <1>9, <1>10 DEF Service!Next

(* Whenever no broadcast is under way the service and those it told know   *)
(* whether there is a network and a mounted storage, however many changes  *)
(* were announced late, and in which order.                                *)
THEOREM SettledServiceKnows == Spec => []SettledIsTrue
<1>1. Init => ServiceInv
  <2>1. Init => Service!Init
    BY DEF Init
  <2> QED
    BY <2>1, NoBroadcast DEF Service!Init, ServiceInv, ServiceTypes, Informed
<1>2. ServiceInv /\ [Next]_vars => ServiceInv'
  BY PartSteps, ServiceNext
<1>3. ServiceInv => SettledIsTrue
  BY NoBroadcast
     DEF ServiceInv, ServiceTypes, Informed, SettledIsTrue, Service!SettledIsTrue
<1> QED
  BY <1>1, <1>2, <1>3, PTL DEF Spec

-----------------------------------------------------------------------------
(* ProxyPool.                                                              *)

(* The loops that have passed the test and hold a channel to offer. *)
Offering == {l \in Loops : poolPc[l] = "offer"}

PoolTypes ==
  /\ pooled \in Nat
  /\ poolPc \in [Loops -> {"idle", "count", "offer"}]
  /\ missed \in [Loops -> Nat]

(* PoolBounded alone is not inductive: what is offered next must fit too. *)
PoolInv ==
  /\ PoolTypes
  /\ pooled + Cardinality(Offering) <= MaxPoolSize + Cardinality(Loops)

(* How many loops are offering is a number, and a number below that of all *)
(* loops when one of them is not.                                          *)
LEMMA OfferingIsCounted ==
  /\ IsFiniteSet(Offering)
  /\ Cardinality(Offering) \in Nat /\ Cardinality(Loops) \in Nat
  /\ Cardinality(Offering) <= Cardinality(Loops)
  /\ \A l \in Loops \ Offering : Cardinality(Offering) + 1 <= Cardinality(Loops)
<1>0. IsFiniteSet(Loops)
  BY PartsAssumption
<1>1. Offering \subseteq Loops
  BY DEF Offering
<1>2. IsFiniteSet(Offering) /\ Cardinality(Offering) <= Cardinality(Loops)
  BY <1>0, <1>1, FS_Subset
<1>3. Cardinality(Offering) \in Nat /\ Cardinality(Loops) \in Nat
  BY <1>0, <1>2, FS_CardinalityType
<1>4. ASSUME NEW l \in Loops \ Offering
      PROVE  Cardinality(Offering) + 1 <= Cardinality(Loops)
  <2>1. Offering \cup {l} \subseteq Loops
    BY <1>1
  <2>2. Cardinality(Offering \cup {l}) = Cardinality(Offering) + 1
    BY <1>2, FS_AddElement
  <2>3. Cardinality(Offering \cup {l}) <= Cardinality(Loops)
    BY <1>0, <2>1, FS_Subset
  <2> QED BY <2>2, <2>3
<1> QED BY <1>2, <1>3, <1>4

(* The pool starts empty and nobody offers. *)
LEMMA PoolBegins ==
  ASSUME Pool!Init
  PROVE  PoolInv
<1>1. Offering = {}
  BY DEF Pool!Init, Offering
<1>2. Cardinality(Offering) = 0
  BY <1>1, FS_EmptySet
<1>3. Cardinality(Loops) \in Nat
  BY OfferingIsCounted
<1> QED BY <1>2, <1>3, PartsAssumption DEF Pool!Init, PoolInv, PoolTypes

(* Passing the test needs room for a channel of every other loop; offering *)
(* moves a channel from one side of the sum to the other.                  *)
LEMMA PoolNext ==
  ASSUME PoolInv, [Pool!Next]_poolVars
  PROVE  PoolInv'
<1>m. MaxPoolSize \in Nat
  BY PartsAssumption
<1> USE <1>m DEF PoolInv, PoolTypes
<1>0. /\ IsFiniteSet(Offering)
      /\ Cardinality(Offering) \in Nat /\ Cardinality(Loops) \in Nat
  BY OfferingIsCounted
<1>1. CASE UNCHANGED poolVars
  <2>1. Offering' = Offering
    BY <1>1 DEF poolVars, Offering
  <2> QED BY <1>1, <2>1 DEF poolVars
<1>2. CASE Pool!TakeOut
  <2>1. Offering' = Offering
    BY <1>2 DEF Pool!TakeOut, Offering
  <2>2. PoolTypes'
    BY <1>2 DEF Pool!TakeOut
  <2>3. pooled' = pooled - 1
    BY <1>2 DEF Pool!TakeOut
  <2> QED BY <1>0, <2>1, <2>2, <2>3
<1>3. ASSUME NEW l \in Loops, Pool!Return(l)
      PROVE  PoolInv'
  <2>1. Offering' = Offering
    BY <1>3 DEF Pool!Return, Offering
  <2>2. PoolTypes' /\ pooled' = pooled
    BY <1>3 DEF Pool!Return
  <2> QED BY <1>0, <2>1, <2>2
<1>4. ASSUME NEW l \in Loops, Pool!Size(l)
      PROVE  PoolInv'
  <2>1. PoolTypes' /\ pooled' = pooled
    BY <1>4 DEF Pool!Size
  <2>2. l \in Loops \ Offering
    BY <1>4 DEF Pool!Size, Offering
  <2>3. CASE poolPc' = [poolPc EXCEPT ![l] = "idle"]
    <3>1. Offering' = Offering
      BY <2>2, <2>3 DEF Offering
    <3> QED BY <1>0, <2>1, <3>1
  <2>4. CASE poolPc' = [poolPc EXCEPT ![l] = "offer"] /\ pooled <= MaxPoolSize
    <3>1. Offering' = Offering \cup {l}
      BY <2>2, <2>4 DEF Offering
    <3>2. Cardinality(Offering') = Cardinality(Offering) + 1
      BY <1>0, <2>2, <3>1, FS_AddElement
    <3>3. Cardinality(Offering) + 1 <= Cardinality(Loops)
      BY <2>2, OfferingIsCounted
    <3> QED BY <1>0, <2>1, <2>4, <3>2, <3>3
  <2>5. \/ poolPc' = [poolPc EXCEPT ![l] = "idle"]
        \/ poolPc' = [poolPc EXCEPT ![l] = "offer"] /\ pooled <= MaxPoolSize
    <3>1. PICK n \in pooled..pooled + missed[l] :
            poolPc' = [poolPc EXCEPT ![l] = IF n > MaxPoolSize THEN "idle" ELSE "offer"]
      BY <1>4 DEF Pool!Size
    <3>2. n \in Int /\ pooled <= n
      BY <3>1
    <3>3. CASE n > MaxPoolSize
      BY <3>1, <3>3
    <3>4. CASE ~(n > MaxPoolSize)
      <4>1. pooled <= MaxPoolSize
        BY <3>2, <3>4
      <4>2. poolPc' = [poolPc EXCEPT ![l] = "offer"]
        BY <3>1, <3>4
      <4> QED BY <4>1, <4>2
    <3> QED BY <3>3, <3>4
  <2> QED BY <2>3, <2>4, <2>5
<1>5. ASSUME NEW l \in Loops, Pool!Offer(l)
      PROVE  PoolInv'
  <2>1. PoolTypes' /\ pooled' = pooled + 1
    BY <1>5 DEF Pool!Offer
  <2>2. Offering' = Offering \ {l} /\ l \in Offering
    BY <1>5 DEF Pool!Offer, Offering
  <2>3. Cardinality(Offering') = Cardinality(Offering) - 1
    BY <1>0, <2>2, FS_RemoveElement
  <2>4. pooled' + Cardinality(Offering') = pooled + Cardinality(Offering)
    BY <1>0, <2>1, <2>3
  <2> QED BY <2>1, <2>4
<1> QED BY <1>1, <1>2, <1>3, <1>4, <1>5 DEF Pool!Next

(* The instance counts by the same definition. *)
LEMMA SameCount == Pool!Cardinality(Loops) = Cardinality(Loops)
BY DEF Pool!Cardinality, Cardinality

(* The pool of data channels exceeds MAX_POOL_SIZE by one channel for each *)
(* event loop at most (returnProxyChanel's size() and offer()).            *)
THEOREM PoolStaysBounded == Spec => []PoolBounded
<1>1. Init => PoolInv
  BY PoolBegins DEF Init
<1>2. PoolInv /\ [Next]_vars => PoolInv'
  BY PartSteps, PoolNext
<1>3. PoolInv => PoolBounded
  BY OfferingIsCounted, SameCount, PartsAssumption
     DEF PoolInv, PoolTypes, PoolBounded, Pool!PoolBounded
<1> QED
  BY <1>1, <1>2, <1>3, PTL DEF Spec

-----------------------------------------------------------------------------
(* FlowControl.                                                            *)

FlowTypes ==
  /\ nextOfProxy \in Reals \cup {None}
  /\ real \in [Reals -> {"none", "binding", "serving", "dead"}]
  /\ DOMAIN realRead = Reals

FlowInv == FlowTypes /\ PausedBehindFullChannel

(* Whoever switches reading off, or hands the channel on, leaves somebody  *)
(* who is going to switch it on.                                           *)
LEMMA FlowNext == FlowInv /\ [Flow!Next]_flowVars => FlowInv'
<1> SUFFICES ASSUME FlowInv, [Flow!Next]_flowVars PROVE FlowInv'
  OBVIOUS
<1>a. FlowTypes
  BY DEF FlowInv
<1> DEFINE Waits(o) == /\ real[o] = "serving" /\ nextOfProxy = o /\ proxy = "bound"
                       /\ ~realRead[o] /\ proxyRoom
<1>b. \A o \in Reals : Waits(o) => proxyEvent
  BY DEF FlowInv, PausedBehindFullChannel, Flow!PausedBehindFullChannel
<1> SUFFICES FlowTypes' /\ \A o \in Reals : Waits(o)' => proxyEvent'
  BY DEF FlowInv, PausedBehindFullChannel, Flow!PausedBehindFullChannel
<1>1. CASE \E r \in Reals : Flow!Bind(r)
  <2> PICK r \in Reals : Flow!Bind(r)
    BY <1>1
  <2>1. /\ nextOfProxy' = r
        /\ real' = [real EXCEPT ![r] = "binding"]
        /\ realRead' = [realRead EXCEPT ![r] = FALSE]
    BY DEF Flow!Bind
  <2>2. FlowTypes' /\ real'[r] = "binding"
    BY <1>a, <2>1 DEF FlowTypes
  <2> QED
    BY <2>1, <2>2
<1>2. CASE \E r \in Reals : Flow!StartReading(r)
  <2> PICK r \in Reals : Flow!StartReading(r)
    BY <1>2
  <2>1. /\ UNCHANGED <<proxy, nextOfProxy, proxyRoom, proxyEvent>>
        /\ real' = [real EXCEPT ![r] = "serving"]
        /\ realRead' = [realRead EXCEPT ![r] = TRUE]
    BY DEF Flow!StartReading, Flow!proxyVars
  <2>2. FlowTypes'
    BY <1>a, <2>1 DEF FlowTypes
  <2>3. realRead'[r] /\ \A o \in Reals : o # r => /\ real'[o] = real[o]
                                                  /\ realRead'[o] = realRead[o]
    BY <1>a, <2>1 DEF FlowTypes
  <2> QED
    BY <1>b, <2>1, <2>2, <2>3
<1>3. CASE \E r \in Reals : \/ Flow!RealFills(r) \/ Flow!RealDrains(r)
                            \/ Flow!RealWritabilityChanged(r)
  <2>1. UNCHANGED <<proxy, nextOfProxy, proxyRoom, proxyEvent, real, realRead>>
    BY <1>3 DEF Flow!RealFills, Flow!RealDrains, Flow!RealWritabilityChanged, Flow!proxyVars
  <2> QED
    BY <1>a, <1>b, <2>1 DEF FlowTypes
<1>4. CASE \E r \in Reals : Flow!RealCloses(r) \/ Flow!Forget(r)
  <2> PICK r \in Reals : Flow!RealCloses(r) \/ Flow!Forget(r)
    BY <1>4
  <2>1. UNCHANGED <<proxy, nextOfProxy, proxyRoom, proxyEvent>>
    BY DEF Flow!RealCloses, Flow!Forget, Flow!proxyVars
  <2>2. \/ real' = [real EXCEPT ![r] = "dead"]
        \/ real' = [real EXCEPT ![r] = "none"]
    BY DEF Flow!RealCloses, Flow!Forget
  <2>3. \/ realRead' = [realRead EXCEPT ![r] = FALSE]
        \/ realRead' = realRead
    BY DEF Flow!RealCloses, Flow!Forget
  <2>4. /\ DOMAIN realRead' = Reals
        /\ \A o \in Reals : o # r => realRead'[o] = realRead[o]
    BY <1>a, <2>3 DEF FlowTypes
  <2>5. /\ real' \in [Reals -> {"none", "binding", "serving", "dead"}]
        /\ real'[r] # "serving"
        /\ \A o \in Reals : o # r => real'[o] = real[o]
    BY <1>a, <2>2 DEF FlowTypes
  <2>6. FlowTypes'
    BY <1>a, <2>1, <2>4, <2>5 DEF FlowTypes
  <2> QED
    BY <1>b, <2>1, <2>4, <2>5, <2>6
<1>5. CASE Flow!HandleDisconnect \/ Flow!ProxyCloses
  <2>1. /\ proxy' # "bound"
        /\ UNCHANGED <<real, realRead>>
        /\ nextOfProxy' = None \/ nextOfProxy' = nextOfProxy
    BY <1>5 DEF Flow!HandleDisconnect, Flow!ProxyCloses
  <2> QED
    BY <1>a, <2>1 DEF FlowTypes
<1>6. CASE Flow!ProxyFills \/ Flow!ProxyDrains
  <2>1. proxyEvent' /\ UNCHANGED <<nextOfProxy, real, realRead>>
    BY <1>6 DEF Flow!ProxyFills, Flow!ProxyDrains, Flow!realVars
  <2>2. FlowTypes'
    BY <1>a, <2>1 DEF FlowTypes
  <2> QED
    BY <2>1, <2>2
<1>7. CASE Flow!ProxyWritabilityChanged
  <2>1. UNCHANGED <<nextOfProxy, proxyRoom, real>>
    BY <1>7 DEF Flow!ProxyWritabilityChanged
  <2>2. realRead' = IF nextOfProxy = None THEN realRead
                    ELSE [realRead EXCEPT ![nextOfProxy] = proxyRoom]
    BY <1>7 DEF Flow!ProxyWritabilityChanged
  <2>3. FlowTypes'
    BY <1>a, <2>1, <2>2 DEF FlowTypes
  <2>4. ASSUME NEW o \in Reals, nextOfProxy = o PROVE realRead'[o] = proxyRoom
    <3>1. nextOfProxy # None
      BY <2>4, PartsAssumption
    <3> QED
      BY <1>a, <2>2, <2>4, <3>1 DEF FlowTypes
  <2> QED
    BY <2>1, <2>3, <2>4
<1>8. CASE UNCHANGED flowVars
  BY <1>a, <1>b, <1>8 DEF flowVars, FlowTypes
<1> QED
  BY <1>1, <1>2, <1>3, <1>4, <1>5, <1>6, <1>7, <1>8
     DEF Flow!Next, Flow!RealStep, Flow!ReadIdle

(* A local connection is left unread only behind a full data channel,      *)
(* however many connections the channel has served before.                 *)
THEOREM PausedOnlyBehindFullChannel == Spec => []PausedBehindFullChannel
<1>1. Init => FlowInv
  <2>1. Init => Flow!Init
    BY DEF Init
  <2> QED
    BY <2>1 DEF Flow!Init, FlowInv, FlowTypes, PausedBehindFullChannel,
       Flow!PausedBehindFullChannel
<1>2. FlowInv /\ [Next]_vars => FlowInv'
  BY PartSteps, FlowNext
<1>3. FlowInv => PausedBehindFullChannel
  BY DEF FlowInv
<1> QED
  BY <1>1, <1>2, <1>3, PTL DEF Spec

-----------------------------------------------------------------------------
(* UploadProgress.                                                         *)

(* What may be stored as, or told of, the progress of an upload. *)
Entries == {None} \cup [upload: 1..MaxUploads, value: Upload!Percent]

Tries == Int

Polls == [step: {"off", "ask", "answered"}, kind: {"wait", "update"}, times: Tries,
          value: Entries]

UploadTypes ==
  /\ upload \in [Ids -> 0..MaxUploads]
  /\ progress \in [Ids -> Entries]
  /\ state \in [Ids -> {"none", "running", "put", "over"}]
  /\ percent \in [Ids -> Upload!Percent]
  /\ short \in [Ids -> SUBSET (0..MaxUploads)]
  /\ poll \in [Ids -> [1..MaxUploads -> Polls]]

(* An entry is that of the present upload, which has not come to 100 when  *)
(* it is to be answered with the entry still there, or of one that never   *)
(* came to 100.                                                            *)
EntryKept(i) ==
  progress[i] # None =>
    /\ progress[i].upload <= upload[i]
    /\ progress[i].upload < upload[i] => progress[i].upload \in short[i]
    /\ progress[i].upload = upload[i] =>
         /\ state[i] # "none"
         /\ state[i] = "running" => percent[i] # 100
         /\ state[i] = "over" => upload[i] \in short[i]

(* Polls are those of uploads begun, and were told what is not outdated. *)
PollTold(i, u) ==
  LET q == poll[i][u] IN
  /\ q.step # "off" => u <= upload[i]
  /\ q.value # None /\ q.value.upload < u => q.value.upload \in short[i]

Begun(i) == state[i] # "none" => upload[i] > 0

UploadInv ==
  /\ UploadTypes
  /\ \A i \in Ids : Begun(i)
  /\ \A i \in Ids : EntryKept(i)
  /\ \A i \in Ids, u \in 1..MaxUploads : PollTold(i, u)

(* No step of an upload or of a poll changes that. *)
LEMMA UploadNext == UploadInv /\ [Upload!Next]_uploadVars => UploadInv'
<1> SUFFICES ASSUME UploadInv, [Upload!Next]_uploadVars PROVE UploadInv'
  OBVIOUS
<1>n. MaxUploads \in Nat /\ Times \in Nat
  BY PartsAssumption
<1> USE <1>n DEF Entries, Upload!Percent
<1>a. /\ UploadTypes
      /\ \A i \in Ids : Begun(i)
      /\ \A i \in Ids : EntryKept(i)
      /\ \A i \in Ids, u \in 1..MaxUploads : PollTold(i, u)
  BY DEF UploadInv
<1>1. ASSUME NEW i \in Ids, Upload!Choose(i) PROVE UploadInv'
  <2>1. /\ state[i] \notin {"running", "put"} /\ upload[i] < MaxUploads
        /\ upload' = [upload EXCEPT ![i] = upload[i] + 1]
        /\ state' = [state EXCEPT ![i] = "running"]
        /\ percent' = [percent EXCEPT ![i] = 0]
        /\ UNCHANGED <<progress, short>>
    BY <1>1 DEF Upload!Choose
  <2>2. upload[i] \in 0..MaxUploads
    BY <1>a DEF UploadTypes
  <2>3. upload'[i] = upload[i] + 1 /\ upload[i] + 1 \in 1..MaxUploads
    BY <1>a, <2>1, <2>2 DEF UploadTypes
  <2> DEFINE q == [Upload!NoPoll EXCEPT !.step = "ask", !.times = Times]
  <2>4. poll' = [poll EXCEPT ![i] = [poll[i] EXCEPT ![upload[i] + 1] = q]]
    <3>1. poll' = [poll EXCEPT ![i][upload'[i]] = q]
      BY <1>1 DEF Upload!Choose
    <3> QED
      BY <2>3, <3>1
  <2>5. q \in Polls /\ q.value = None
    <3>1. Times \in Tries /\ None \in Entries
      BY DEF Tries
    <3> QED
      BY ONLY <3>1 DEF Polls, Upload!NoPoll
  <2> HIDE DEF q
  <2>6. UploadTypes'
    <3>1. upload' \in [Ids -> 0..MaxUploads]
      BY <1>a, <2>1, <2>3 DEF UploadTypes
    <3>2. /\ state' \in [Ids -> {"none", "running", "put", "over"}]
          /\ percent' \in [Ids -> Upload!Percent]
      BY <1>a, <2>1 DEF UploadTypes
    <3>3. poll' \in [Ids -> [1..MaxUploads -> Polls]]
      BY <1>a, <2>3, <2>4, <2>5 DEF UploadTypes
    <3> QED
      BY <1>a, <2>1, <3>1, <3>2, <3>3 DEF UploadTypes
  <2>7. ASSUME NEW j \in Ids PROVE Begun(j)' /\ EntryKept(j)'
    <3>1. CASE j = i
      <4>1. EntryKept(i)
        BY <1>a
      <4>2. state[i] \in {"none", "over"}
        BY <1>a, <2>1 DEF UploadTypes
      <4>3. ASSUME progress[i] # None
            PROVE  progress[i].upload \in 1..MaxUploads
        BY <1>a, <4>3 DEF UploadTypes
      <4>4. ASSUME progress[i] # None
            PROVE  progress[i].upload \in short[i] /\ progress[i].upload < upload[i] + 1
        BY <2>2, <4>1, <4>2, <4>3, <4>4 DEF EntryKept
      <4> QED
        BY <2>1, <2>2, <2>3, <3>1, <4>3, <4>4 DEF EntryKept, Begun
    <3>2. CASE j # i
      <4>1. UNCHANGED <<upload[j], state[j], percent[j]>>
        BY <1>a, <2>1, <3>2 DEF UploadTypes
      <4> QED
        BY <1>a, <2>1, <4>1 DEF EntryKept, Begun
    <3> QED
      BY <3>1, <3>2
  <2>8. ASSUME NEW j \in Ids, NEW u \in 1..MaxUploads PROVE PollTold(j, u)'
    <3>1. CASE j = i /\ u = upload[i] + 1
      <4>1. poll'[j][u] = q
        BY <1>a, <2>4, <3>1 DEF UploadTypes
      <4> QED
        BY <2>3, <2>5, <3>1, <4>1 DEF PollTold
    <3>2. CASE ~(j = i /\ u = upload[i] + 1)
      <4>1. poll'[j][u] = poll[j][u]
        BY <1>a, <2>4, <3>2 DEF UploadTypes
      <4>2. upload[j] \in 0..MaxUploads /\ upload[j] <= upload'[j]
        BY <1>a, <2>1, <2>2 DEF UploadTypes
      <4>3. upload'[j] \in 0..MaxUploads
        BY <2>6 DEF UploadTypes
      <4>4. PollTold(j, u)
        BY <1>a
      <4> QED
        BY <2>1, <4>1, <4>2, <4>3, <4>4 DEF PollTold
    <3> QED
      BY <3>1, <3>2
  <2> QED
    BY <2>6, <2>7, <2>8 DEF UploadInv
<1>2. ASSUME NEW i \in Ids, Upload!Put(i) PROVE UploadInv'
  <2>1. UNCHANGED <<upload, poll, short>> /\ state[i] = "running"
    BY <1>2 DEF Upload!Put
  <2>2. PICK p \in Upload!Percent :
          /\ progress' = [progress EXCEPT ![i] = [upload |-> upload[i], value |-> p]]
          /\ percent' = [percent EXCEPT ![i] = p]
          /\ state' = [state EXCEPT ![i] = IF p = 100 THEN "put" ELSE state[i]]
    BY <1>2 DEF Upload!Put
  <2>3. upload[i] \in 1..MaxUploads
    BY <1>a, <2>1 DEF UploadTypes, Begun
  <2>4. UploadTypes'
    <3>1. [upload |-> upload[i], value |-> p] \in Entries
      BY <2>3
    <3>2. progress' \in [Ids -> Entries]
      BY <1>a, <2>2, <3>1 DEF UploadTypes
    <3>3. /\ state' \in [Ids -> {"none", "running", "put", "over"}]
          /\ percent' \in [Ids -> Upload!Percent]
      BY <1>a, <2>1, <2>2 DEF UploadTypes
    <3> QED
      BY <1>a, <2>1, <3>2, <3>3 DEF UploadTypes
  <2>5. ASSUME NEW j \in Ids PROVE Begun(j)' /\ EntryKept(j)'
    <3>1. CASE j = i
      <4>1. /\ progress'[i].upload = upload[i]
            /\ state'[i] = IF p = 100 THEN "put" ELSE "running"
            /\ percent'[i] = p
        BY <1>a, <2>1, <2>2 DEF UploadTypes
      <4> QED
        BY <2>1, <2>3, <3>1, <4>1 DEF EntryKept, Begun
    <3>2. CASE j # i
      <4>1. UNCHANGED <<progress[j], state[j], percent[j]>>
        BY <1>a, <2>2, <3>2 DEF UploadTypes
      <4> QED
        BY <1>a, <2>1, <4>1 DEF EntryKept, Begun
    <3> QED
      BY <3>1, <3>2
  <2> QED
    BY <1>a, <2>1, <2>4, <2>5 DEF UploadInv, PollTold
<1>3. ASSUME NEW i \in Ids, Upload!Remove(i) PROVE UploadInv'
  <2>1. /\ state[i] = "put"
        /\ state' = [state EXCEPT ![i] = "running"]
        /\ progress' = [progress EXCEPT ![i] = None]
        /\ UNCHANGED <<upload, percent, poll, short>>
    BY <1>3 DEF Upload!Remove
  <2>2. UploadTypes'
    BY <1>a, <2>1 DEF UploadTypes
  <2>3. ASSUME NEW j \in Ids PROVE Begun(j)' /\ EntryKept(j)'
    <3>1. CASE j = i
      <4>1. progress'[i] = None /\ state'[i] = "running"
        BY <1>a, <2>1 DEF UploadTypes
      <4> QED
        BY <1>a, <2>1, <3>1, <4>1 DEF EntryKept, Begun
    <3>2. CASE j # i
      <4>1. UNCHANGED <<progress[j], state[j]>>
        BY <1>a, <2>1, <3>2 DEF UploadTypes
      <4> QED
        BY <1>a, <2>1, <4>1 DEF EntryKept, Begun
    <3> QED
      BY <3>1, <3>2
  <2> QED
    BY <1>a, <2>1, <2>2, <2>3 DEF UploadInv, PollTold
<1>4. ASSUME NEW i \in Ids, Upload!Answer(i) PROVE UploadInv'
  <2>1. /\ state[i] = "running"
        /\ state' = [state EXCEPT ![i] = "over"]
        /\ short' = [short EXCEPT ![i] = IF percent[i] = 100 THEN short[i]
                                         ELSE short[i] \cup {upload[i]}]
        /\ UNCHANGED <<progress, upload, percent, poll>>
    BY <1>4 DEF Upload!Answer
  <2>2. UploadTypes'
    <3>1. short[i] \cup {upload[i]} \in SUBSET (0..MaxUploads)
      BY <1>a DEF UploadTypes
    <3>2. short' \in [Ids -> SUBSET (0..MaxUploads)]
      BY <1>a, <2>1, <3>1 DEF UploadTypes
    <3> QED
      BY <1>a, <2>1, <3>2 DEF UploadTypes
  <2>3. ASSUME NEW j \in Ids PROVE short[j] \subseteq short'[j]
    BY <1>a, <2>1 DEF UploadTypes
  <2>4. ASSUME NEW j \in Ids PROVE Begun(j)' /\ EntryKept(j)'
    <3>1. CASE j = i
      <4>1. state'[i] = "over" /\ (percent[i] # 100 => upload[i] \in short'[i])
        BY <1>a, <2>1 DEF UploadTypes
      <4> QED
        BY <1>a, <2>1, <2>3, <3>1, <4>1 DEF EntryKept, Begun
    <3>2. CASE j # i
      <4>1. UNCHANGED state[j]
        BY <1>a, <2>1, <3>2 DEF UploadTypes
      <4> QED
        BY <1>a, <2>1, <2>3, <4>1 DEF EntryKept, Begun
    <3> QED
      BY <3>1, <3>2
  <2> QED
    BY <1>a, <2>1, <2>2, <2>3, <2>4 DEF UploadInv, PollTold
<1>5. CASE Upload!Clear
  <2>1. /\ progress' = [i \in Ids |-> None]
        /\ UNCHANGED <<upload, state, percent, poll, short>>
    BY <1>5 DEF Upload!Clear
  <2> QED
    BY <1>a, <2>1 DEF UploadInv, UploadTypes, Begun, EntryKept, PollTold
<1>6. ASSUME NEW i \in Ids, NEW u \in 1..MaxUploads, Upload!Get(i, u) \/ Upload!Show(i, u)
      PROVE  UploadInv'
  <2>1. UNCHANGED <<progress, upload, state, percent, short>>
    BY <1>6 DEF Upload!Get, Upload!Show
  <2> DEFINE q == poll[i][u]
             r == poll'[i][u]
  <2>2. q \in Polls /\ PollTold(i, u) /\ EntryKept(i)
    BY <1>a DEF UploadTypes
  <2>3. \E e \in Polls : /\ poll' = [poll EXCEPT ![i][u] = e]
                         /\ e.step # "off" => q.step # "off"
                         /\ e.value = None \/ (q.step # "off" /\ e.value = progress[i])
    <3>1. CASE Upload!Get(i, u)
      <4> DEFINE e == [q EXCEPT !.step = "answered", !.value = progress[i]]
      <4>1. poll' = [poll EXCEPT ![i][u] = e] /\ q.step = "ask"
        BY <3>1 DEF Upload!Get
      <4>2. progress[i] \in Entries
        BY <1>a DEF UploadTypes
      <4>3. e \in Polls /\ e.value = progress[i]
        BY <2>2, <4>2 DEF Polls
      <4> QED
        BY <4>1, <4>3
    <3>2. CASE Upload!Show(i, u)
      <4> DEFINE e == IF q.kind = "wait" THEN Upload!Waits(q) ELSE Upload!Updates(q)
      <4>1. poll' = [poll EXCEPT ![i][u] = e] /\ q.step = "answered"
        BY <3>2 DEF Upload!Show
      <4>2. e \in Polls /\ e.value = None
        <5>1. Upload!NoPoll \in Polls /\ Upload!NoPoll.value = None
          BY DEF Polls, Upload!NoPoll, Tries
        <5>2. Upload!Waits(q) \in Polls /\ Upload!Waits(q).value = None
          <6>1. CASE q.times = 0
            BY <5>1, <6>1 DEF Upload!Waits
          <6>2. CASE q.times # 0
            <7>1. q.times \in Tries
              BY <2>2 DEF Polls
            <7>2. q.times - 1 \in Tries
              BY <7>1 DEF Tries
            <7> HIDE DEF Entries
            <7>3. None \in Entries
              BY DEF Entries
            <7> QED
              BY <2>2, <6>2, <7>2, <7>3 DEF Polls, Upload!Waits
          <6> QED
            BY <6>1, <6>2
        <5>3. Upload!Updates(q) \in Polls /\ Upload!Updates(q).value = None
          <6>1. CASE q.value = None \/ q.value.value = 100
            BY <5>1, <6>1 DEF Upload!Updates
          <6>2. CASE ~(q.value = None \/ q.value.value = 100)
            BY <2>2, <6>2 DEF Polls, Upload!Updates
          <6> QED
            BY <6>1, <6>2
        <5> QED
          BY <5>2, <5>3
      <4> QED
        BY <4>1, <4>2
    <3> QED
      BY <1>6, <3>1, <3>2
  <2>4. PICK e \in Polls : /\ poll' = [poll EXCEPT ![i][u] = e]
                           /\ e.step # "off" => q.step # "off"
                           /\ e.value = None \/ (q.step # "off" /\ e.value = progress[i])
    BY <2>3
  <2>5. UploadTypes'
    <3>1. poll' \in [Ids -> [1..MaxUploads -> Polls]]
      BY <1>a, <2>4 DEF UploadTypes
    <3> QED
      BY <1>a, <2>1, <3>1 DEF UploadTypes
  <2>6. PollTold(i, u)'
    <3>1. r = e
      BY <1>a, <2>4 DEF UploadTypes
    <3>2. e.step # "off" => u <= upload[i]
      BY <2>2, <2>4 DEF PollTold
    <3>3. ASSUME e.value # None, e.value.upload < u PROVE e.value.upload \in short[i]
      <4>1. e.value = progress[i] /\ u <= upload[i]
        BY <2>2, <2>4, <3>3 DEF PollTold
      <4>2. progress[i].upload \in 1..MaxUploads /\ upload[i] \in 0..MaxUploads
        BY <1>a, <3>3, <4>1 DEF UploadTypes
      <4> QED
        BY <2>2, <3>3, <4>1, <4>2 DEF EntryKept
    <3> QED
      BY <2>1, <3>1, <3>2, <3>3 DEF PollTold
  <2>7. ASSUME NEW j \in Ids, NEW v \in 1..MaxUploads, ~(j = i /\ v = u)
        PROVE  PollTold(j, v)'
    <3>1. poll'[j][v] = poll[j][v]
      BY <1>a, <2>4, <2>7 DEF UploadTypes
    <3>2. PollTold(j, v)
      BY <1>a
    <3> QED
      BY <2>1, <3>1, <3>2 DEF PollTold
  <2> QED
    BY <1>a, <2>1, <2>5, <2>6, <2>7 DEF UploadInv, Begun, EntryKept
<1>7. CASE UNCHANGED uploadVars
  BY <1>a, <1>7 DEF uploadVars, UploadInv, UploadTypes, Begun, EntryKept, PollTold
<1> QED
  BY <1>1, <1>2, <1>3, <1>4, <1>5, <1>6, <1>7 DEF Upload!Next

(* A poll is told the progress of the present upload, of its own one, or   *)
(* of one that never came to 100, however many uploads the page starts and *)
(* whatever is cleared in between.                                         *)
THEOREM NoProgressIsOutdated == Spec => []ProgressIsNotOutdated
<1>1. Init => UploadInv
  <2> SUFFICES ASSUME Upload!Init PROVE UploadInv
    BY DEF Init
  <2>1. Upload!NoPoll \in Polls
    BY DEF Upload!NoPoll, Polls, Entries, Tries
  <2>2. UploadTypes
    <3>1. poll \in [Ids -> [1..MaxUploads -> Polls]]
      BY <2>1 DEF Upload!Init
    <3>2. progress \in [Ids -> Entries]
      BY DEF Upload!Init, Entries
    <3>3. upload \in [Ids -> 0..MaxUploads]
      BY PartsAssumption DEF Upload!Init
    <3>4. percent \in [Ids -> Upload!Percent]
      BY DEF Upload!Init, Upload!Percent
    <3>5. state \in [Ids -> {"none", "running", "put", "over"}]
      BY DEF Upload!Init
    <3>6. short \in [Ids -> SUBSET (0..MaxUploads)]
      BY DEF Upload!Init
    <3> QED
      BY <3>1, <3>2, <3>3, <3>4, <3>5, <3>6 DEF UploadTypes
  <2>3. \A i \in Ids : Begun(i) /\ EntryKept(i)
    BY DEF Upload!Init, Begun, EntryKept
  <2>4. \A i \in Ids, u \in 1..MaxUploads : PollTold(i, u)
    BY DEF Upload!Init, Upload!NoPoll, PollTold
  <2> QED
    BY <2>2, <2>3, <2>4 DEF UploadInv
<1>2. UploadInv /\ [Next]_vars => UploadInv'
  BY PartSteps, UploadNext
<1>3. UploadInv => ProgressIsNotOutdated
  BY DEF UploadInv, PollTold, ProgressIsNotOutdated, Upload!ProgressIsNotOutdated
<1> QED
  BY <1>1, <1>2, <1>3, PTL DEF Spec

-----------------------------------------------------------------------------
(* Recovery.                                                               *)

TimerTypes ==
  /\ resetTask \in Errors!Tasks \cup {None}
  /\ task \in [Errors!Tasks ->
                 {"none", "new", "scheduled", "running", "cleared", "done"}]

ErrorTypes ==
  /\ errCount \in Nat /\ read \in [Threads -> Nat]
  /\ onErrorPc \in [Threads -> {"idle", "write", "check", "cancel", "null", "new",
                                "schedule", "decide", "zero"}]
  /\ after \in [Threads -> {"idle", "new"}]

InOnError(t) == onErrorPc[t] # "idle"

(* Since the last overlap one thread at a time was in onError. *)
OneAtATime == ~overlapped => \A s, t \in Threads : InOnError(s) /\ InOnError(t) => s = t

(* A thread alone in onError finds the task it is about to cancel or to    *)
(* schedule, unless the reset task cleared the field in the middle.        *)
FindsItsTask ==
  ~overlapped /\ ~met =>
    /\ ~crashed
    /\ \A t \in Threads : /\ onErrorPc[t] = "cancel" => resetTask # None
                          /\ onErrorPc[t] = "schedule" => resetTask \in Errors!Fresh

SomeDue == \E k \in Errors!Tasks : Errors!Due(k)

(* A count above zero has a task to come, but in the middle of onError. *)
CountHasTask ==
  ~overlapped =>
    /\ (\A t \in Threads : ~InOnError(t)) => errCount = 0 \/ SomeDue
    /\ \A t \in Threads :
         /\ onErrorPc[t] = "decide" => errCount = 0 \/ SomeDue
         /\ onErrorPc[t] \in {"check", "cancel", "null"} /\ after[t] = "idle"
              => errCount = 0

ErrorInv ==
  /\ TimerTypes /\ ErrorTypes
  /\ OneAtATime /\ FindsItsTask /\ CountHasTask

(* A thread in onError goes on ... *)
Moves(t, from, to) ==
  /\ onErrorPc[t] = from
  /\ onErrorPc' = [onErrorPc EXCEPT ![t] = to]

(* ... while the others stay, so that there is one at a time as before. *)
LEMMA OthersStay ==
  ASSUME ErrorTypes, NEW t \in Threads, NEW from, from # "idle",
         NEW to \in {"idle", "write", "check", "cancel", "null", "new",
                     "schedule", "decide", "zero"},
         Moves(t, from, to)
  PROVE  /\ onErrorPc' \in [Threads -> {"idle", "write", "check", "cancel", "null",
                                        "new", "schedule", "decide", "zero"}]
         /\ onErrorPc'[t] = to
         /\ \A s \in Threads : s # t => onErrorPc'[s] = onErrorPc[s]
         /\ OneAtATime /\ overlapped' = overlapped => OneAtATime'
         /\ OneAtATime /\ ~overlapped => \A s \in Threads : s # t => onErrorPc[s] = "idle"
BY DEF ErrorTypes, Moves, OneAtATime, InOnError
(* What a step of a thread in onError has to establish: the others are     *)
(* idle, if it is alone.                                                   *)
LEMMA AloneSuffices ==
  ASSUME TimerTypes', ErrorTypes', OneAtATime', NEW t \in Threads,
         ~overlapped' => \A s \in Threads : s # t => onErrorPc'[s] = "idle",
         ~overlapped' /\ ~met' =>
           /\ ~crashed'
           /\ onErrorPc'[t] = "cancel" => resetTask' # None
           /\ onErrorPc'[t] = "schedule" => resetTask' \in Errors!Fresh',
         ~overlapped' =>
           /\ onErrorPc'[t] \in {"idle", "decide"} => errCount' = 0 \/ SomeDue'
           /\ onErrorPc'[t] \in {"check", "cancel", "null"} /\ after'[t] = "idle"
                => errCount' = 0
  PROVE  ErrorInv'
<1>1. ASSUME ~overlapped', ~met'
      PROVE  /\ ~crashed'
             /\ \A s \in Threads : /\ onErrorPc'[s] = "cancel" => resetTask' # None
                                   /\ onErrorPc'[s] = "schedule" => resetTask' \in Errors!Fresh'
  BY <1>1
<1>2. FindsItsTask'
  BY <1>1 DEF FindsItsTask
<1>3. CountHasTask'
  BY DEF CountHasTask, InOnError
<1> QED
  BY <1>2, <1>3 DEF ErrorInv

(* No step of a thread or of the timer changes that. *)
LEMMA ErrorNext == ErrorInv /\ [Errors!Next]_errorVars => ErrorInv'
<1>1. ASSUME ErrorInv, UNCHANGED errorVars PROVE ErrorInv'
  BY <1>1 DEF errorVars, ErrorInv, TimerTypes, ErrorTypes, OneAtATime, FindsItsTask,
              CountHasTask, SomeDue, InOnError, Errors!Fresh, Errors!Due
<1> SUFFICES ASSUME ErrorInv, Errors!Next PROVE ErrorInv'
  BY <1>1
<1>a. TimerTypes /\ ErrorTypes /\ OneAtATime /\ FindsItsTask /\ CountHasTask
  BY DEF ErrorInv
<1>n. None \notin Errors!Tasks
  BY PartsAssumption DEF Errors!Tasks
<1>c. ~crashed
  BY DEF Errors!Next
<1>2. ASSUME NEW t \in Threads, Errors!OnError(t) PROVE ErrorInv'
  <2>1. /\ onErrorPc[t] = "idle" /\ onErrorPc' = [onErrorPc EXCEPT ![t] = "write"]
        /\ read' = [read EXCEPT ![t] = errCount]
        /\ UNCHANGED <<errCount, resetTask, task, after, crashed>>
    BY <1>2 DEF Errors!OnError, Errors!Goto, Errors!timerVars
  <2>2. overlapped' = (Errors!Busy # {})
    BY <1>2 DEF Errors!OnError
  <2>3. TimerTypes' /\ ErrorTypes' /\ onErrorPc'[t] = "write"
    BY <1>a, <2>1 DEF TimerTypes, ErrorTypes
  <2>4. ASSUME ~overlapped', NEW s \in Threads, s # t PROVE onErrorPc'[s] = "idle"
    <3>1. onErrorPc[s] = "idle"
      BY <2>2, <2>4 DEF Errors!Busy
    <3> QED
      BY <1>a, <2>1, <2>4, <3>1 DEF ErrorTypes
  <2>5. OneAtATime'
    BY <2>4 DEF OneAtATime, InOnError
  <2> QED
    BY <1>c, <2>1, <2>3, <2>4, <2>5, AloneSuffices
<1>3. ASSUME NEW t \in Threads, Errors!CountError(t) PROVE ErrorInv'
  <2>1. /\ Moves(t, "write", "check")
        /\ after' = [after EXCEPT ![t] = "new"]
        /\ UNCHANGED <<resetTask, task, crashed, overlapped>>
    BY <1>3 DEF Errors!CountError, Errors!Goto, Errors!timerVars, Errors!history, Moves
  <2>2. errCount' \in Nat /\ read' \in [Threads -> Nat]
    BY <1>3, <1>a DEF Errors!CountError, ErrorTypes
  <2>3. after' \in [Threads -> {"idle", "new"}] /\ after'[t] = "new"
    BY <1>a, <2>1 DEF ErrorTypes
  <2>4. TimerTypes' /\ ErrorTypes'
    BY <1>a, <2>1, <2>2, <2>3, OthersStay DEF TimerTypes, ErrorTypes
  <2>5. /\ onErrorPc'[t] = "check" /\ OneAtATime'
        /\ ~overlapped' => \A s \in Threads : s # t => onErrorPc'[s] = "idle"
    BY <1>a, <2>1, OthersStay
  <2> QED
    BY <1>c, <2>1, <2>3, <2>4, <2>5, AloneSuffices
<1>4. ASSUME NEW t \in Threads, Errors!CheckTask(t) PROVE ErrorInv'
  <2> DEFINE to == IF resetTask = None THEN after[t] ELSE "cancel"
  <2>1. /\ Moves(t, "check", to)
        /\ UNCHANGED <<errCount, resetTask, task, after, read, crashed, overlapped, met>>
    BY <1>4 DEF Errors!CheckTask, Errors!timerVars, Errors!history, Moves
  <2>2. to \in {"idle", "new", "cancel"} /\ (to = "idle" => after[t] = "idle")
    BY <1>a DEF ErrorTypes
  <2>3. to = "cancel" => resetTask # None
    BY <2>2, <1>a DEF ErrorTypes
  <2> HIDE DEF to
  <2>4. /\ onErrorPc' \in [Threads -> {"idle", "write", "check", "cancel", "null", "new",
                                       "schedule", "decide", "zero"}]
        /\ onErrorPc'[t] = to /\ OneAtATime'
        /\ ~overlapped' => \A s \in Threads : s # t => onErrorPc'[s] = "idle"
    BY <1>a, <2>1, <2>2, OthersStay
  <2>5. TimerTypes' /\ ErrorTypes'
    BY <1>a, <2>1, <2>4 DEF TimerTypes, ErrorTypes
  <2>6. ~overlapped /\ after[t] = "idle" => errCount = 0
    BY <1>a, <2>1 DEF CountHasTask, Moves
  <2> QED
    BY <1>c, <2>1, <2>2, <2>3, <2>4, <2>5, <2>6, AloneSuffices
<1>5. ASSUME NEW t \in Threads, Errors!Throws(t),
             \/ onErrorPc[t] = "cancel" /\ resetTask = None
             \/ onErrorPc[t] = "schedule" /\ resetTask \notin Errors!Fresh
      PROVE  ErrorInv'
  <2>1. UNCHANGED <<errCount, resetTask, task, onErrorPc, after, read, overlapped, met>>
    BY <1>5 DEF Errors!Throws, Errors!timerVars
  <2>2. overlapped \/ met
    BY <1>5, <1>a DEF FindsItsTask
  <2>3. FindsItsTask'
    BY <2>1, <2>2 DEF FindsItsTask
  <2> QED
    BY <1>a, <2>1, <2>3 DEF ErrorInv, TimerTypes, ErrorTypes, OneAtATime,
              CountHasTask, SomeDue, InOnError, Errors!Due
<1>6. ASSUME NEW t \in Threads, Moves(t, "cancel", "null"), resetTask # None,
             task' = [task EXCEPT ![resetTask] =
                        IF task[resetTask] \in {"new", "scheduled"} THEN "done"
                        ELSE task[resetTask]],
             UNCHANGED <<errCount, resetTask, after, read, crashed, overlapped>>
      PROVE  ErrorInv'
  <2>1. TimerTypes'
    BY <1>a, <1>6 DEF TimerTypes
  <2>2. ErrorTypes' /\ OneAtATime' /\ onErrorPc'[t] = "null"
    BY <1>a, <1>6, OthersStay DEF ErrorTypes
  <2>3. ~overlapped' => \A s \in Threads : s # t => onErrorPc'[s] = "idle"
    BY <1>a, <1>6, OthersStay
  <2>4. ~overlapped /\ after[t] = "idle" => errCount = 0
    BY <1>a, <1>6 DEF CountHasTask, Moves
  <2> QED
    BY <1>c, <1>6, <2>1, <2>2, <2>3, <2>4, AloneSuffices
<1>7. ASSUME NEW t \in Threads, Errors!ForgetTask(t) PROVE ErrorInv'
  <2>1. /\ Moves(t, "null", after[t]) /\ resetTask' = None
        /\ UNCHANGED <<errCount, task, after, read, crashed, overlapped>>
    BY <1>7 DEF Errors!ForgetTask, Errors!Goto, Errors!history, Moves
  <2>2. after[t] \in {"idle", "new"}
    BY <1>a DEF ErrorTypes
  <2>3. TimerTypes'
    BY <1>a, <2>1 DEF TimerTypes
  <2>4. ErrorTypes' /\ OneAtATime' /\ onErrorPc'[t] = after[t]
    BY <1>a, <2>1, <2>2, OthersStay DEF ErrorTypes
  <2>5. ~overlapped' => \A s \in Threads : s # t => onErrorPc'[s] = "idle"
    BY <1>a, <2>1, <2>2, OthersStay
  <2>6. ~overlapped /\ after[t] = "idle" => errCount = 0
    BY <1>a, <2>1 DEF CountHasTask, Moves
  <2> QED
    BY <1>c, <2>1, <2>2, <2>3, <2>4, <2>5, <2>6, AloneSuffices
<1>8. ASSUME NEW t \in Threads, Errors!NewTask(t) PROVE ErrorInv'
  <2>1. /\ Moves(t, "new", "schedule")
        /\ UNCHANGED <<errCount, after, read, crashed, overlapped>>
    BY <1>8 DEF Errors!NewTask, Errors!Goto, Errors!history, Moves
  <2>2. PICK k \in Errors!Tasks : task' = [task EXCEPT ![k] = "new"] /\ resetTask' = k
    BY <1>8 DEF Errors!NewTask
  <2>3. TimerTypes' /\ task'[k] = "new"
    BY <1>a, <2>2 DEF TimerTypes
  <2>4. ErrorTypes' /\ OneAtATime' /\ onErrorPc'[t] = "schedule"
    BY <1>a, <2>1, OthersStay DEF ErrorTypes
  <2>5. ~overlapped' => \A s \in Threads : s # t => onErrorPc'[s] = "idle"
    BY <1>a, <2>1, OthersStay
  <2>6. resetTask' \in Errors!Fresh'
    BY <2>2, <2>3 DEF Errors!Fresh
  <2> QED
    BY <1>c, <2>1, <2>3, <2>4, <2>5, <2>6, AloneSuffices
<1>9. ASSUME NEW t \in Threads, Moves(t, "schedule", "decide"), resetTask \in Errors!Fresh,
             task' = [task EXCEPT ![resetTask] = "scheduled"],
             UNCHANGED <<errCount, resetTask, after, read, crashed, overlapped>>
      PROVE  ErrorInv'
  <2>1. resetTask \in Errors!Tasks
    BY <1>9 DEF Errors!Fresh
  <2>2. TimerTypes' /\ task'[resetTask] = "scheduled"
    BY <1>a, <1>9, <2>1 DEF TimerTypes
  <2>3. ErrorTypes' /\ OneAtATime' /\ onErrorPc'[t] = "decide"
    BY <1>a, <1>9, OthersStay DEF ErrorTypes
  <2>4. ~overlapped' => \A s \in Threads : s # t => onErrorPc'[s] = "idle"
    BY <1>a, <1>9, OthersStay
  <2>5. SomeDue'
    BY <2>1, <2>2 DEF SomeDue, Errors!Due
  <2> QED
    BY <1>c, <1>9, <2>2, <2>3, <2>4, <2>5, AloneSuffices
<1>10. ASSUME NEW t \in Threads, Errors!Decide(t) PROVE ErrorInv'
  <2> DEFINE to == IF errCount <= RESUME_COUNT THEN "idle" ELSE "zero"
  <2>1. /\ Moves(t, "decide", to) /\ to \in {"idle", "zero"}
        /\ UNCHANGED <<errCount, resetTask, task, after, read, crashed, overlapped>>
    BY <1>10 DEF Errors!Decide, Errors!Goto, Errors!timerVars, Errors!history, Moves
  <2> HIDE DEF to
  <2>2. TimerTypes' /\ (SomeDue' <=> SomeDue)
    BY <1>a, <2>1 DEF TimerTypes, SomeDue, Errors!Due
  <2>3. ErrorTypes' /\ OneAtATime' /\ onErrorPc'[t] = to
    BY <1>a, <2>1, OthersStay DEF ErrorTypes
  <2>4. ~overlapped' => \A s \in Threads : s # t => onErrorPc'[s] = "idle"
    BY <1>a, <2>1, OthersStay
  <2>5. ~overlapped => errCount = 0 \/ SomeDue
    BY <1>a, <2>1 DEF CountHasTask, Moves
  <2> QED
    BY <1>c, <2>1, <2>2, <2>3, <2>4, <2>5, AloneSuffices
<1>11. ASSUME NEW t \in Threads, Errors!GiveUp(t) PROVE ErrorInv'
  <2>1. /\ Moves(t, "zero", "check") /\ errCount' = 0
        /\ after' = [after EXCEPT ![t] = "idle"]
        /\ UNCHANGED <<resetTask, task, read, crashed, overlapped>>
    BY <1>11 DEF Errors!GiveUp, Errors!Goto, Errors!timerVars, Errors!history, Moves
  <2>2. TimerTypes'
    BY <1>a, <2>1 DEF TimerTypes
  <2>3. after' \in [Threads -> {"idle", "new"}]
    BY <1>a, <2>1 DEF ErrorTypes
  <2>4. ErrorTypes' /\ OneAtATime' /\ onErrorPc'[t] = "check"
    BY <1>a, <2>1, <2>3, OthersStay DEF ErrorTypes
  <2>5. ~overlapped' => \A s \in Threads : s # t => onErrorPc'[s] = "idle"
    BY <1>a, <2>1, OthersStay
  <2> QED
    BY <1>c, <2>1, <2>2, <2>4, <2>5, AloneSuffices
<1>12. ASSUME NEW k \in Errors!Tasks, Errors!Fire(k) \/ Errors!ResetCount(k) \/ Errors!ResetField(k)
       PROVE  ErrorInv'
  <2>1. UNCHANGED <<onErrorPc, after, read, crashed, overlapped>>
    BY <1>12 DEF Errors!Fire, Errors!ResetCount, Errors!ResetField, Errors!history
  <2>2. /\ task[k] # "new"
        /\ \E x \in {"running", "cleared", "done"} : task' = [task EXCEPT ![k] = x]
        /\ resetTask' = resetTask \/ resetTask' = None
    BY <1>12 DEF Errors!Fire, Errors!ResetCount, Errors!ResetField
  <2>3. TimerTypes'
    BY <1>a, <2>2 DEF TimerTypes
  <2>4. errCount' = errCount \/ errCount' = 0
    BY <1>12 DEF Errors!Fire, Errors!ResetCount, Errors!ResetField
  <2>5. ErrorTypes' /\ OneAtATime'
    BY <1>a, <2>1, <2>4 DEF ErrorTypes, OneAtATime, InOnError
  <2>6. FindsItsTask'
    <3>1. \A j \in Errors!Fresh : j \in Errors!Fresh'
      BY <1>a, <2>2 DEF TimerTypes, Errors!Fresh
    <3>2. CASE resetTask' = resetTask /\ met' = met
      BY <1>a, <2>1, <3>1, <3>2 DEF FindsItsTask
    <3>3. CASE Errors!ResetField(k)
      <4>1. met' = (met \/ Errors!Busy # {})
        BY <3>3 DEF Errors!ResetField
      <4>2. ~met' => \A t \in Threads : onErrorPc[t] = "idle"
        BY <4>1 DEF Errors!Busy
      <4> QED
        BY <1>c, <2>1, <4>2 DEF FindsItsTask
    <3> QED
      BY <1>12, <3>2, <3>3 DEF Errors!Fire, Errors!ResetCount, Errors!history
  <2>7. CountHasTask'
    <3>1. CASE errCount' = 0
      BY <2>1, <3>1 DEF CountHasTask
    <3>2. CASE ~Errors!ResetCount(k)
      <4>1. \/ task[k] = "scheduled" /\ task' = [task EXCEPT ![k] = "running"]
            \/ task[k] = "cleared" /\ task' = [task EXCEPT ![k] = "done"]
        BY <1>12, <3>2 DEF Errors!Fire, Errors!ResetField
      <4>2. SomeDue => SomeDue'
        BY <1>a, <4>1 DEF TimerTypes, SomeDue, Errors!Due
      <4>3. errCount' = errCount
        BY <1>12, <3>2 DEF Errors!Fire, Errors!ResetField
      <4> QED
        BY <1>a, <2>1, <4>2, <4>3 DEF CountHasTask, InOnError
    <3> QED
      BY <3>1, <3>2 DEF Errors!ResetCount
  <2> QED
    BY <2>3, <2>5, <2>6, <2>7 DEF ErrorInv
<1>13. ASSUME NEW t \in Threads, Errors!CancelTask(t) PROVE ErrorInv'
  BY <1>5, <1>6, <1>13 DEF Errors!CancelTask, Errors!history, Moves
<1>14. ASSUME NEW t \in Threads, Errors!Schedule(t) PROVE ErrorInv'
  BY <1>5, <1>9, <1>14 DEF Errors!Schedule, Errors!history, Moves
<1> QED
  BY <1>2, <1>3, <1>4, <1>7, <1>8, <1>10, <1>11, <1>12, <1>13, <1>14
     DEF Errors!Next, Errors!ErrorStep

(* The service counts nothing, and nobody is in onError, when it begins. *)
LEMMA ErrorInit == Init => ErrorInv
<1> SUFFICES ASSUME Errors!Init PROVE ErrorInv
  BY DEF Init
<1>1. TimerTypes /\ ErrorTypes
  BY DEF Errors!Init, TimerTypes, ErrorTypes
<1> QED
  BY <1>1 DEF Errors!Init, ErrorInv, OneAtATime, FindsItsTask, CountHasTask, InOnError

(* A count above zero is going to be cleared, unless two threads were in   *)
(* onError at once the last time, whatever older reset tasks do.           *)
THEOREM CountedErrorsAreForgotten == Spec => []CountedErrorIsForgotten
<1>1. ErrorInv => CountedErrorIsForgotten
  BY DEF ErrorInv, CountHasTask, SomeDue, InOnError, CountedErrorIsForgotten,
         Errors!CountedErrorIsForgotten, Errors!Busy
<1>2. ErrorInv /\ [Next]_vars => ErrorInv'
  BY PartSteps, ErrorNext
<1> QED
  BY <1>1, <1>2, ErrorInit, PTL DEF Spec

(* onError throws only where it met another one, or the reset task in the  *)
(* middle of it.                                                           *)
THEOREM CrashesAreRaces == Spec => []OnlyRacesCrash
<1>1. ErrorInv => OnlyRacesCrash
  BY DEF ErrorInv, FindsItsTask, OnlyRacesCrash, Errors!OnlyRacesCrash
<1>2. ErrorInv /\ [Next]_vars => ErrorInv'
  BY PartSteps, ErrorNext
<1> QED
  BY <1>1, <1>2, ErrorInit, PTL DEF Spec

-----------------------------------------------------------------------------
(* DbList.                                                                 *)

Listings == [List!Keys -> Files \cup {Own, None}]

ListTypes ==
  /\ maps \in Seq(Listings) /\ current \in 0..Len(maps)
  /\ listPc \in [Threads -> {"idle", "check", "read", "get", "choose", "put"}]
  /\ file \in [Threads -> Files \cup {None}]
  /\ map \in [Threads -> 0..Len(maps)]
  /\ key \in [Threads -> List!Keys]
  /\ DOMAIN alone = Threads
  /\ added \subseteq Files

(* While a request runs alone the others rest. *)
RunsAlone ==
  \A s, t \in Threads : listPc[t] # "idle" /\ alone[t] /\ s # t => listPc[s] = "idle"

(* A request has a list when it needs one: the current one, if it is alone. *)
HasList(t) ==
  /\ listPc[t] \in {"get", "choose", "put"} => current # 0
  /\ listPc[t] \in {"choose", "put"} =>
       /\ map[t] # 0 /\ file[t] \in Files
       /\ alone[t] => map[t] = current

(* What was added is in the current list for good: nobody is about to read *)
(* the list anew, or to put a file under its key.                          *)
ListedForGood ==
  added # {} =>
    /\ current # 0
    /\ \A t \in Threads : listPc[t] # "read"
    /\ \A f \in added : \E k \in List!Keys : maps[current][k] = f

SparesAdded(t) ==
  listPc[t] = "put" /\ map[t] = current =>
    file[t] \notin added /\ maps[current][key[t]] \notin added

ListInv ==
  /\ ListTypes /\ RunsAlone /\ ListedForGood
  /\ \A t \in Threads : HasList(t) /\ SparesAdded(t)

(* A key that is free is found when there is one. *)
LEMMA FreeKeyIsFree ==
  ASSUME NEW m \in Listings, \E k \in List!Keys : m[k] = None
  PROVE  List!FreeKey(m) \in List!Keys /\ m[List!FreeKey(m)] = None
<1> DEFINE First(k) == m[k] = None /\ \A j \in 0..k - 1 : m[j] # None
<1>1. PICK i \in List!Keys : m[i] = None
  OBVIOUS
<1>2. \E k \in List!Keys : First(k)
  <2>0. i \in 0..3
    BY DEF List!Keys
  <2>1. CASE m[0] = None
    <3>1. First(0) /\ 0 \in List!Keys
      BY <2>1 DEF List!Keys
    <3> QED
      BY <3>1
  <2>2. CASE m[0] # None /\ m[1] = None
    <3>1. First(1) /\ 1 \in List!Keys
      BY <2>2 DEF List!Keys
    <3> QED
      BY <3>1
  <2>3. CASE m[0] # None /\ m[1] # None /\ m[2] = None
    <3>1. First(2) /\ 2 \in List!Keys
      BY <2>3 DEF List!Keys
    <3> QED
      BY <3>1
  <2>4. CASE m[0] # None /\ m[1] # None /\ m[2] # None
    <3>1. i = 3
      BY <1>1, <2>0, <2>4
    <3>2. First(3) /\ 3 \in List!Keys
      BY <1>1, <2>4, <3>1 DEF List!Keys
    <3> QED
      BY <3>2
  <2> QED
    BY <2>1, <2>2, <2>3, <2>4
<1> QED
  BY <1>2 DEF List!FreeKey
(* No step of a request changes that. *)
LEMMA ListNext == ListInv /\ [List!Next]_listVars => ListInv'
<1>a. ListInv => /\ ListTypes /\ RunsAlone /\ ListedForGood
                 /\ \A t \in Threads : HasList(t) /\ SparesAdded(t)
  BY DEF ListInv
<1>n. None \notin Files
  BY PartsAssumption
<1>0. ASSUME ListInv, UNCHANGED listVars PROVE ListInv'
  BY <1>a, <1>0 DEF listVars, ListInv, ListTypes, RunsAlone, ListedForGood, HasList, SparesAdded
<1>1. ASSUME ListInv, NEW t \in Threads, NEW f \in Files \cup {None}, List!Request(t, f)
      PROVE  ListInv'
  <2>1. /\ listPc[t] = "idle" /\ listPc' = [listPc EXCEPT ![t] = "check"]
        /\ file' = [file EXCEPT ![t] = f]
        /\ alone' = [s \in Threads |-> List!Busy = {} \/ s \notin List!Busy \cup {t}]
        /\ UNCHANGED <<maps, current, map, key, added>>
    BY <1>1 DEF List!Request
  <2>2. ListTypes'
    BY <1>a, <1>1, <2>1 DEF ListTypes
  <2>3. /\ listPc'[t] = "check"
        /\ \A s \in Threads : s # t => listPc'[s] = listPc[s] /\ file'[s] = file[s]
    BY <1>a, <1>1, <2>1 DEF ListTypes
  <2>4. ASSUME NEW s \in Threads, listPc'[s] # "idle", alone'[s]
        PROVE  s = t /\ \A o \in Threads : listPc[o] = "idle"
    <3>1. s \in List!Busy \cup {t}
      BY <2>3, <2>4 DEF List!Busy
    <3>2. List!Busy = {}
      BY <2>1, <2>4, <3>1
    <3> QED
      BY <3>1, <3>2 DEF List!Busy
  <2>5. RunsAlone'
    BY <2>3, <2>4 DEF RunsAlone
  <2>6. ListedForGood'
    BY <1>a, <1>1, <2>1, <2>3 DEF ListedForGood
  <2>7. ASSUME NEW s \in Threads PROVE HasList(s)' /\ SparesAdded(s)'
    <3>1. HasList(s) /\ SparesAdded(s)
      BY <1>a, <1>1
    <3> QED
      BY <2>1, <2>3, <2>4, <3>1 DEF HasList, SparesAdded
  <2> QED
    BY <2>2, <2>5, <2>6, <2>7 DEF ListInv
<1>2. ASSUME ListInv, NEW t \in Threads, List!CheckList(t) PROVE ListInv'
  <2>1. /\ listPc[t] = "check"
        /\ listPc' = [listPc EXCEPT ![t] = IF current = 0 THEN "read" ELSE "get"]
        /\ UNCHANGED <<maps, current, file, map, key, alone, added>>
    BY <1>2 DEF List!CheckList
  <2>2. ListTypes'
    BY <1>a, <1>2, <2>1 DEF ListTypes
  <2>3. /\ listPc'[t] = IF current = 0 THEN "read" ELSE "get"
        /\ \A s \in Threads : s # t => listPc'[s] = listPc[s]
    BY <1>a, <1>2, <2>1 DEF ListTypes
  <2>4. RunsAlone'
    BY <1>a, <1>2, <2>1, <2>3 DEF RunsAlone
  <2>5. ListedForGood'
    BY <1>a, <1>2, <2>1, <2>3 DEF ListedForGood
  <2>6. ASSUME NEW s \in Threads PROVE HasList(s)' /\ SparesAdded(s)'
    <3>1. HasList(s) /\ SparesAdded(s)
      BY <1>a, <1>2
    <3> QED
      BY <2>1, <2>3, <3>1 DEF HasList, SparesAdded
  <2> QED
    BY <2>2, <2>4, <2>5, <2>6 DEF ListInv
<1>3. ASSUME ListInv, NEW t \in Threads, List!ReadDBList(t) PROVE ListInv'
  <2>1. /\ listPc[t] = "read" /\ listPc' = [listPc EXCEPT ![t] = "get"]
        /\ maps' = Append(maps, List!OwnDatabases) /\ current' = Len(maps')
        /\ UNCHANGED <<file, map, key, alone, added>>
    BY <1>3 DEF List!ReadDBList
  <2>2. List!OwnDatabases \in Listings
    BY DEF List!OwnDatabases, Listings
  <2>3. /\ maps' \in Seq(Listings) /\ Len(maps') = Len(maps) + 1
        /\ Len(maps) \in Nat
    BY <1>a, <1>3, <2>1, <2>2 DEF ListTypes
  <2>4. ListTypes'
    <3>1. map \in [Threads -> 0..Len(maps')]
      BY <1>a, <1>3, <2>3 DEF ListTypes
    <3>2. listPc' \in [Threads -> {"idle", "check", "read", "get", "choose", "put"}]
      BY <1>a, <1>3, <2>1 DEF ListTypes
    <3> QED
      BY <1>a, <1>3, <2>1, <2>3, <3>1, <3>2 DEF ListTypes
  <2>5. /\ listPc'[t] = "get" /\ added = {} /\ current' # 0
        /\ \A s \in Threads : s # t => listPc'[s] = listPc[s]
    BY <1>a, <1>3, <2>1, <2>3 DEF ListTypes, ListedForGood
  <2>6. RunsAlone' /\ ListedForGood'
    BY <1>a, <1>3, <2>1, <2>5 DEF RunsAlone, ListedForGood
  <2>7. ASSUME NEW s \in Threads PROVE HasList(s)' /\ SparesAdded(s)'
    <3>1. HasList(s) /\ (s # t /\ alone[s] => listPc[s] = "idle")
      BY <1>a, <1>3, <2>1 DEF RunsAlone
    <3> QED
      BY <2>1, <2>5, <3>1 DEF HasList, SparesAdded
  <2> QED
    BY <2>4, <2>6, <2>7 DEF ListInv
<1>4. ASSUME ListInv, NEW t \in Threads, List!GetList(t) PROVE ListInv'
  <2>1. /\ listPc[t] = "get" /\ map' = [map EXCEPT ![t] = current]
        /\ listPc' = [listPc EXCEPT ![t] = IF file[t] = None THEN "idle" ELSE "choose"]
        /\ UNCHANGED <<maps, current, file, key, alone, added>>
    BY <1>4 DEF List!GetList
  <2>2. ListTypes'
    BY <1>a, <1>4, <2>1 DEF ListTypes
  <2>3. /\ listPc'[t] = (IF file[t] = None THEN "idle" ELSE "choose") /\ map'[t] = current
        /\ \A s \in Threads : s # t => listPc'[s] = listPc[s] /\ map'[s] = map[s]
        /\ file[t] \in Files \cup {None}
    BY <1>a, <1>4, <2>1 DEF ListTypes
  <2>4. RunsAlone' /\ ListedForGood'
    BY <1>a, <1>4, <2>1, <2>3 DEF RunsAlone, ListedForGood
  <2>5. ASSUME NEW s \in Threads PROVE HasList(s)' /\ SparesAdded(s)'
    <3>1. HasList(s) /\ SparesAdded(s)
      BY <1>a, <1>4
    <3> QED
      BY <2>1, <2>3, <3>1 DEF HasList, SparesAdded
  <2> QED
    BY <2>2, <2>4, <2>5 DEF ListInv
<1>5. ASSUME ListInv, NEW t \in Threads, List!ChooseKey(t) PROVE ListInv'
  <2> DEFINE m == maps[map[t]]
  <2>1. /\ listPc[t] = "choose"
        /\ \/ listPc' = [listPc EXCEPT ![t] = "idle"] /\ UNCHANGED key
           \/ /\ file[t] \notin List!Range(m) /\ \E k \in List!Keys : m[k] = None
              /\ listPc' = [listPc EXCEPT ![t] = "put"]
              /\ key' = [key EXCEPT ![t] = List!FreeKey(m)]
        /\ UNCHANGED <<maps, current, file, map, alone, added>>
    BY <1>5 DEF List!ChooseKey
  <2>2. m \in Listings
    <3>1. map[t] \in 1..Len(maps)
      BY <1>a, <1>5, <2>1 DEF ListTypes, HasList
    <3> QED
      BY <1>a, <1>5, <3>1 DEF ListTypes
  <2>3. (\E k \in List!Keys : m[k] = None) =>
          List!FreeKey(m) \in List!Keys /\ m[List!FreeKey(m)] = None
    BY <2>2, FreeKeyIsFree
  <2>4. key' \in [Threads -> List!Keys]
    BY <1>a, <1>5, <2>1, <2>3 DEF ListTypes
  <2>5. listPc' \in [Threads -> {"idle", "check", "read", "get", "choose", "put"}]
    BY <1>a, <1>5, <2>1 DEF ListTypes
  <2>6. ListTypes'
    BY <1>a, <1>5, <2>1, <2>4, <2>5 DEF ListTypes
  <2>7. /\ listPc'[t] \in {"idle", "put"}
        /\ \A s \in Threads : s # t => listPc'[s] = listPc[s] /\ key'[s] = key[s]
    BY <1>a, <1>5, <2>1 DEF ListTypes
  <2>8. RunsAlone' /\ ListedForGood'
    BY <1>a, <1>5, <2>1, <2>7 DEF RunsAlone, ListedForGood
  <2>9. SparesAdded(t)'
    <3> SUFFICES ASSUME listPc'[t] = "put", map[t] = current
                 PROVE  file[t] \notin added /\ m[key'[t]] \notin added
      BY <2>1 DEF SparesAdded
    <3>1. file[t] \notin List!Range(m) /\ m[key'[t]] = None
      BY <1>a, <1>5, <2>1, <2>3 DEF ListTypes
    <3>2. \A f \in added : f \in List!Range(m)
      BY <1>a, <1>5, <2>2 DEF ListedForGood, Listings, List!Range
    <3> QED
      BY <1>a, <1>n, <1>5, <3>1, <3>2 DEF ListTypes
  <2>10. ASSUME NEW s \in Threads PROVE HasList(s)' /\ SparesAdded(s)'
    <3>1. HasList(s) /\ SparesAdded(s)
      BY <1>a, <1>5
    <3> QED
      BY <2>1, <2>7, <2>9, <3>1 DEF HasList, SparesAdded
  <2> QED
    BY <2>6, <2>8, <2>10 DEF ListInv
<1>6. ASSUME ListInv, NEW t \in Threads, List!PutFile(t) PROVE ListInv'
  <2> DEFINE m == maps[map[t]]
             n == [m EXCEPT ![key[t]] = file[t]]
  <2>1. /\ listPc[t] = "put" /\ listPc' = [listPc EXCEPT ![t] = "idle"]
        /\ maps' = [maps EXCEPT ![map[t]] = n]
        /\ added' = IF alone[t] THEN added \cup {file[t]} ELSE added
        /\ UNCHANGED <<current, file, map, key, alone>>
    BY <1>6 DEF List!PutFile
  <2>2. /\ map[t] \in 1..Len(maps) /\ current \in 1..Len(maps)
        /\ file[t] \in Files /\ key[t] \in List!Keys
        /\ alone[t] => map[t] = current
    BY <1>a, <1>6, <2>1 DEF ListTypes, HasList
  <2>3. maps \in Seq(Listings) /\ m \in Listings /\ maps[current] \in Listings
    BY <1>a, <1>6, <2>2 DEF ListTypes
  <2>4. /\ n \in Listings /\ n[key[t]] = file[t]
        /\ \A k \in List!Keys : k # key[t] => n[k] = m[k]
    BY <2>2, <2>3 DEF Listings
  <2> HIDE DEF n, m
  <2>5. /\ maps' \in Seq(Listings) /\ Len(maps') = Len(maps)
        /\ maps'[map[t]] = n
        /\ \A j \in 1..Len(maps) : j # map[t] => maps'[j] = maps[j]
    BY <2>1, <2>2, <2>3, <2>4
  <2>6. ListTypes'
    <3>1. listPc' \in [Threads -> {"idle", "check", "read", "get", "choose", "put"}]
      BY <1>a, <1>6, <2>1 DEF ListTypes
    <3>2. added' \subseteq Files
      BY <1>a, <1>6, <2>1, <2>2 DEF ListTypes
    <3> QED
      BY <1>a, <1>6, <2>1, <2>5, <3>1, <3>2 DEF ListTypes
  <2>7. /\ listPc'[t] = "idle"
        /\ \A s \in Threads : s # t => listPc'[s] = listPc[s]
    BY <1>a, <1>6, <2>1 DEF ListTypes
  <2>8. RunsAlone'
    BY <1>a, <1>6, <2>1, <2>7 DEF RunsAlone
  <2>9. \/ maps'[current] = maps[current] /\ map[t] # current
        \/ maps'[current] = n /\ maps[current] = m /\ map[t] = current
    BY <2>2, <2>5 DEF m
  <2>10. map[t] = current => file[t] \notin added /\ m[key[t]] \notin added
    BY <1>a, <1>6, <2>1 DEF SparesAdded, m
  <2>11. ASSUME NEW f \in added PROVE \E k \in List!Keys : maps'[current][k] = f
    <3>1. PICK k \in List!Keys : maps[current][k] = f
      BY <1>a, <1>6 DEF ListedForGood
    <3>2. maps'[current][k] = f
      BY <2>4, <2>9, <2>10, <3>1
    <3> QED
      BY <3>2
  <2>12. ListedForGood'
    <3>1. CASE alone[t]
      <4>1. /\ maps'[current][key[t]] = file[t]
            /\ added' = added \cup {file[t]}
        BY <2>1, <2>2, <2>4, <2>5, <3>1
      <4>2. \A s \in Threads : listPc'[s] # "read"
        BY <1>a, <1>6, <2>1, <2>7, <3>1 DEF RunsAlone
      <4> QED
        BY <2>1, <2>2, <2>11, <4>1, <4>2 DEF ListedForGood
    <3>2. CASE ~alone[t]
      <4>1. added' = added
        BY <2>1, <3>2
      <4> QED
        BY <1>a, <1>6, <2>1, <2>2, <2>7, <2>11, <4>1 DEF ListedForGood
    <3> QED
      BY <3>1, <3>2
  <2>13. ASSUME NEW s \in Threads PROVE SparesAdded(s)'
    <3> SUFFICES ASSUME listPc'[s] = "put", map[s] = current
                 PROVE  file[s] \notin added' /\ maps'[current][key[s]] \notin added'
      BY <2>1 DEF SparesAdded
    <3>1. s # t /\ listPc[s] = "put"
      BY <2>7
    <3>2. ~alone[t] /\ added' = added
      BY <1>a, <1>6, <2>1, <3>1 DEF RunsAlone
    <3>3. file[s] \notin added /\ maps[current][key[s]] \notin added
      BY <1>a, <1>6, <3>1 DEF SparesAdded
    <3>4. key[s] \in List!Keys
      BY <1>a, <1>6 DEF ListTypes
    <3>5. maps'[current][key[s]] \notin added
      BY <2>4, <2>9, <2>10, <3>3, <3>4
    <3> QED
      BY <3>2, <3>3, <3>5
  <2>14. ASSUME NEW s \in Threads PROVE HasList(s)'
    <3>1. HasList(s)
      BY <1>a, <1>6
    <3> QED
      BY <2>1, <2>7, <3>1 DEF HasList
  <2> QED
    BY <2>6, <2>8, <2>12, <2>13, <2>14 DEF ListInv
<1> QED
  BY <1>0, <1>1, <1>2, <1>3, <1>4, <1>5, <1>6 DEF List!Next, List!Step

(* What a request that ran alone added to the list stays in it, whatever   *)
(* requests race afterwards.                                               *)
THEOREM AddedStaysListed == Spec => []AddedIsListed
<1>1. Init => ListInv
  <2> SUFFICES ASSUME List!Init PROVE ListInv
    BY DEF Init
  <2>1. maps = <<>> /\ current = 0 /\ added = {} /\ alone = [t \in Threads |-> TRUE]
    BY DEF List!Init
  <2>2. ListTypes
    <3>1. maps \in Seq(Listings) /\ Len(maps) = 0
      BY <2>1
    <3> QED
      BY <2>1, <3>1 DEF List!Init, ListTypes, List!Keys
  <2> QED
    BY <2>1, <2>2 DEF List!Init, ListInv, RunsAlone, ListedForGood, HasList, SparesAdded
<1>2. ListInv /\ [Next]_vars => ListInv'
  BY PartSteps, ListNext
<1>3. ListInv => AddedIsListed
  <2> SUFFICES ASSUME ListInv, NEW f \in added PROVE f \in List!Range(maps[current])
    BY DEF AddedIsListed, List!AddedIsListed
  <2>1. PICK k \in List!Keys : maps[current][k] = f
    BY DEF ListInv, ListedForGood
  <2>2. maps[current] \in Listings
    BY DEF ListInv, ListedForGood, ListTypes
  <2> QED
    BY <2>1, <2>2 DEF Listings, List!Range
<1> QED
  BY <1>1, <1>2, <1>3, PTL DEF Spec
-----------------------------------------------------------------------------
(* FileCache.                                                              *)

(* The first k chunks of a file, and of what is in the cache. *)
Content(f, v, k) == [i \in 1..k |-> Cache!Chunk(f, v, i)]
Prefix(c, k) == [i \in 1..k |-> c[i]]

CacheTypes ==
  /\ version \in [Files -> 1..MaxVersion]
  /\ cachePc \in [Threads -> {"idle", "check", "create", "open", "write", "length", "copy"}]
  /\ at \in [Threads -> Nat]
  /\ DOMAIN want = Threads /\ DOMAIN length = Threads /\ DOMAIN body = Threads
  /\ \A t \in Threads : cachePc[t] # "idle" => want[t] \in Files

(* While a thread fills the cache the others have not looked at it, and    *)
(* nothing was served from it yet.                                         *)
FillsAlone(t) ==
  Cache!Caching(t) =>
    /\ \A s \in Threads : s # t => cachePc[s] \in {"idle", "check"}
    /\ responses = {}
    /\ cachePc[t] = "create" => cache = None
    /\ cachePc[t] = "open" => cache = <<>>
    /\ cachePc[t] = "write" => /\ at[t] < Chunks
                               /\ cache = Content(want[t], version[want[t]], at[t])

(* A thread serves a whole file, and has sent the first chunks of it. *)
ServesWhole(t) ==
  /\ cachePc[t] \in {"check", "create", "open", "write", "length"} => body[t] = <<>>
  /\ cachePc[t] \in {"length", "copy"} => Cache!Whole(cache)
  /\ cachePc[t] = "copy" => /\ length[t] = Chunks
                            /\ at[t] <= Chunks
                            /\ body[t] = Prefix(cache, at[t])

Undisturbed ==
  /\ \A t \in Threads : FillsAlone(t) /\ ServesWhole(t)
  /\ (\A t \in Threads : ~Cache!Caching(t)) => cache = None \/ Cache!Whole(cache)
  /\ \A r \in responses : r = cache /\ Cache!Whole(cache)

CacheInv == CacheTypes /\ (~disturbed => Undisturbed)

(* An interval tells its length. *)
LEMMA SameInterval ==
  ASSUME NEW m \in Nat, NEW n \in Nat, 1..m = 1..n
  PROVE  m = n
<1>1. ~ m < n
  <2> SUFFICES ASSUME m < n PROVE FALSE
    OBVIOUS
  <2> n \in 1..n /\ n \notin 1..m
    OBVIOUS
  <2> QED
    OBVIOUS
<1>2. ~ n < m
  <2> SUFFICES ASSUME n < m PROVE FALSE
    OBVIOUS
  <2> m \in 1..m /\ m \notin 1..n
    OBVIOUS
  <2> QED
    OBVIOUS
<1> QED
  BY <1>1, <1>2

(* Nothing is what a file begins with; and then follows chunk after chunk. *)
LEMMA ContentGrows ==
  ASSUME NEW f, NEW v, NEW k \in Nat
  PROVE  /\ Content(f, v, 0) = <<>>
         /\ Len(Content(f, v, k)) = k /\ DOMAIN Content(f, v, k) = 1..k
         /\ \A i \in 1..k : Content(f, v, k)[i] = Cache!Chunk(f, v, i)
<1>1. Content(f, v, k) \in Seq({Cache!Chunk(f, v, i) : i \in Nat})
  <2>1. Content(f, v, k) \in [1..k -> {Cache!Chunk(f, v, i) : i \in Nat}]
    BY DEF Content
  <2> QED
    BY <2>1, SeqDef
<1>2. Len(Content(f, v, k)) = k
  <2>1. DOMAIN Content(f, v, k) = 1..Len(Content(f, v, k)) /\ Len(Content(f, v, k)) \in Nat
    BY <1>1, LenProperties
  <2>2. DOMAIN Content(f, v, k) = 1..k
    BY DEF Content
  <2> QED
    BY <2>1, <2>2, SameInterval
<1> QED
  BY <1>2 DEF Content

(* The same of a prefix. *)
LEMMA PrefixGrows ==
  ASSUME NEW c, NEW k \in Nat
  PROVE  /\ Prefix(c, 0) = <<>>
         /\ Append(Prefix(c, k), c[k + 1]) = Prefix(c, k + 1)
<1>1. Prefix(c, k) \in Seq({c[i] : i \in Nat})
  <2>1. Prefix(c, k) \in [1..k -> {c[i] : i \in Nat}]
    BY DEF Prefix
  <2> QED
    BY <2>1, SeqDef
<1>2. Len(Prefix(c, k)) = k
  <2>1. DOMAIN Prefix(c, k) = 1..Len(Prefix(c, k)) /\ Len(Prefix(c, k)) \in Nat
    BY <1>1, LenProperties
  <2>2. DOMAIN Prefix(c, k) = 1..k
    BY DEF Prefix
  <2> QED
    BY <2>1, <2>2, SameInterval
<1> DEFINE p == Append(Prefix(c, k), c[k + 1])
<1>3. /\ p \in Seq({c[i] : i \in Nat}) /\ Len(p) = k + 1
      /\ \A i \in 1..k + 1 : p[i] = IF i <= k THEN Prefix(c, k)[i] ELSE c[k + 1]
  BY <1>1, <1>2, AppendProperties
<1>4. DOMAIN p = 1..k + 1
  BY <1>3, LenProperties
<1> QED
  BY <1>3, <1>4 DEF Prefix

(* What is whole is whole in the cache too, and is not "null". *)
LEMMA WholeFile ==
  ASSUME Cache!Whole(cache)
  PROVE  Len(cache) = Chunks /\ cache # None /\ Prefix(cache, Chunks) = cache
<1>1. PICK f \in Files, v \in 1..MaxVersion : cache = Content(f, v, Chunks)
  BY DEF Cache!Whole, Content
<1>n. Chunks \in Nat /\ MaxVersion \in Nat
  BY PartsAssumption
<1>2. Len(cache) = Chunks
  BY <1>1, <1>n, ContentGrows
<1>3. cache # None
  <2>1. Content(f, v, Chunks) \in [1..Chunks -> [file: Files, version: 1..MaxVersion, at: 1..Chunks]]
    BY <1>n DEF Content, Cache!Chunk
  <2> QED
    BY <1>1, <2>1, PartsAssumption
<1>4. Prefix(cache, Chunks) = cache
  BY <1>1 DEF Content, Prefix
<1> QED
  BY <1>2, <1>3, <1>4
(* No step of a request, nor a change of a file, changes that. *)
LEMMA CacheNext == CacheInv /\ [Cache!Next]_cacheVars => CacheInv'
<1> SUFFICES ASSUME CacheInv, [Cache!Next]_cacheVars PROVE CacheInv'
  OBVIOUS
<1>a. CacheTypes /\ (~disturbed => Undisturbed)
  BY DEF CacheInv
<1>n. Chunks \in Nat /\ Chunks > 0
  BY PartsAssumption
<1>0. CASE UNCHANGED cacheVars
  BY <1>a, <1>0 DEF cacheVars, CacheInv, CacheTypes, Undisturbed, FillsAlone, ServesWhole,
                    Cache!Caching, Cache!Whole
<1>1. ASSUME NEW t \in Threads, NEW f \in Files, Cache!Request(t, f) PROVE CacheInv'
  <2>1. /\ cachePc[t] = "idle" /\ cachePc' = [cachePc EXCEPT ![t] = "check"]
        /\ want' = [want EXCEPT ![t] = f] /\ body' = [body EXCEPT ![t] = <<>>]
        /\ UNCHANGED <<version, cache, at, length, responses, disturbed>>
    BY <1>1 DEF Cache!Request
  <2>2. /\ cachePc'[t] = "check" /\ want'[t] = f /\ body'[t] = <<>>
        /\ \A s \in Threads : s # t => /\ cachePc'[s] = cachePc[s] /\ want'[s] = want[s]
                                       /\ body'[s] = body[s]
    BY <1>a, <2>1 DEF CacheTypes
  <2>3. CacheTypes'
    BY <1>a, <2>1, <2>2 DEF CacheTypes
  <2>4. ASSUME Undisturbed PROVE Undisturbed'
    <3>1. ASSUME NEW s \in Threads PROVE FillsAlone(s)' /\ ServesWhole(s)'
      <4>1. FillsAlone(s) /\ ServesWhole(s)
        BY <2>4 DEF Undisturbed
      <4> QED
        BY <2>1, <2>2, <4>1 DEF FillsAlone, ServesWhole, Cache!Caching, Cache!Whole
    <3>2. (\A s \in Threads : ~Cache!Caching(s)') => \A s \in Threads : ~Cache!Caching(s)
      BY <2>1, <2>2 DEF Cache!Caching
    <3> QED
      BY <2>1, <2>4, <3>1, <3>2 DEF Undisturbed, Cache!Whole
  <2> QED
    BY <1>a, <2>1, <2>3, <2>4 DEF CacheInv
<1>2. ASSUME NEW t \in Threads, Cache!CheckCache(t) PROVE CacheInv'
  <2>1. /\ cachePc[t] = "check"
        /\ cachePc' = [cachePc EXCEPT ![t] = IF cache = None THEN "create" ELSE "length"]
        /\ disturbed' = (disturbed \/ \E s \in Threads : Cache!Caching(s))
        /\ UNCHANGED <<version, cache, want, at, length, body, responses>>
    BY <1>2 DEF Cache!CheckCache
  <2>2. /\ cachePc'[t] = (IF cache = None THEN "create" ELSE "length")
        /\ \A s \in Threads : s # t => cachePc'[s] = cachePc[s]
    BY <1>a, <2>1 DEF CacheTypes
  <2>3. CacheTypes'
    BY <1>a, <2>1, <2>2 DEF CacheTypes
  <2>4. ASSUME Undisturbed, \A s \in Threads : ~Cache!Caching(s) PROVE Undisturbed'
    <3>0. cache = None \/ Cache!Whole(cache)
      BY <2>4 DEF Undisturbed
    <3>1. ASSUME NEW s \in Threads PROVE ServesWhole(s)'
      <4>1. ServesWhole(s)
        BY <2>4 DEF Undisturbed
      <4> QED
        BY <2>1, <2>2, <3>0, <4>1 DEF ServesWhole, Cache!Whole
    <3>2. FillsAlone(t)'
      <4> SUFFICES ASSUME cache = None
                   PROVE  /\ \A s \in Threads : s # t => cachePc[s] \in {"idle", "check"}
                          /\ responses = {}
        BY <2>1, <2>2 DEF FillsAlone, Cache!Caching
      <4>1. ~Cache!Whole(cache)
        BY WholeFile
      <4>2. ASSUME NEW s \in Threads PROVE cachePc[s] \in {"idle", "check"}
        BY <1>a, <2>4, <4>1 DEF Undisturbed, ServesWhole, Cache!Caching, CacheTypes
      <4> QED
        BY <2>4, <4>1, <4>2 DEF Undisturbed
    <3>3. ASSUME NEW s \in Threads, s # t PROVE FillsAlone(s)'
      BY <2>2, <2>4, <3>3 DEF FillsAlone, Cache!Caching
    <3> QED
      BY <2>1, <2>4, <3>0, <3>1, <3>2, <3>3 DEF Undisturbed, Cache!Whole
  <2> QED
    BY <1>a, <2>1, <2>3, <2>4 DEF CacheInv
<1>3. ASSUME NEW t \in Threads, Cache!CreateFile(t) PROVE CacheInv'
  <2>1. /\ cachePc[t] = "create" /\ cachePc' = [cachePc EXCEPT ![t] = "open"]
        /\ cache' = IF cache = None THEN <<>> ELSE cache
        /\ UNCHANGED <<version, want, at, length, body, responses, disturbed>>
    BY <1>3 DEF Cache!CreateFile
  <2>2. cachePc'[t] = "open" /\ \A s \in Threads : s # t => cachePc'[s] = cachePc[s]
    BY <1>a, <2>1 DEF CacheTypes
  <2>3. CacheTypes'
    BY <1>a, <2>1, <2>2 DEF CacheTypes
  <2>4. ASSUME Undisturbed PROVE Undisturbed'
    <3>1. FillsAlone(t) /\ ServesWhole(t) /\ Cache!Caching(t)
      BY <2>1, <2>4 DEF Undisturbed, Cache!Caching
    <3>2. cache' = <<>>
      BY <2>1, <3>1 DEF FillsAlone
    <3>3. FillsAlone(t)' /\ ServesWhole(t)'
      BY <2>1, <2>2, <3>1, <3>2 DEF FillsAlone, ServesWhole, Cache!Caching
    <3>4. ASSUME NEW s \in Threads, s # t PROVE FillsAlone(s)' /\ ServesWhole(s)'
      <4>1. cachePc'[s] \in {"idle", "check"} /\ ServesWhole(s)
        BY <2>2, <2>4, <3>1, <3>4 DEF FillsAlone, Undisturbed
      <4> QED
        BY <2>1, <2>2, <3>4, <4>1 DEF FillsAlone, ServesWhole, Cache!Caching
    <3>5. Cache!Caching(t)' /\ responses' = {}
      BY <2>1, <2>2, <3>1 DEF Cache!Caching, FillsAlone
    <3> QED
      BY <3>3, <3>4, <3>5 DEF Undisturbed
  <2> QED
    BY <1>a, <2>1, <2>3, <2>4 DEF CacheInv
<1>4. ASSUME NEW t \in Threads, Cache!OpenFile(t) PROVE CacheInv'
  <2>1. /\ cachePc[t] = "open" /\ cachePc' = [cachePc EXCEPT ![t] = "write"]
        /\ cache' = <<>> /\ at' = [at EXCEPT ![t] = 0]
        /\ UNCHANGED <<version, want, length, body, responses, disturbed>>
    BY <1>4 DEF Cache!OpenFile
  <2>2. /\ cachePc'[t] = "write" /\ at'[t] = 0
        /\ \A s \in Threads : s # t => cachePc'[s] = cachePc[s] /\ at'[s] = at[s]
    BY <1>a, <2>1 DEF CacheTypes
  <2>3. CacheTypes'
    BY <1>a, <2>1, <2>2 DEF CacheTypes
  <2>4. ASSUME Undisturbed PROVE Undisturbed'
    <3>1. FillsAlone(t) /\ ServesWhole(t) /\ Cache!Caching(t)
      BY <2>1, <2>4 DEF Undisturbed, Cache!Caching
    <3>2. cache' = Content(want[t], version[want[t]], 0)
      BY <2>1, <1>n, ContentGrows
    <3>3. FillsAlone(t)' /\ ServesWhole(t)'
      BY <1>n, <2>1, <2>2, <3>1, <3>2 DEF FillsAlone, ServesWhole, Cache!Caching
    <3>4. ASSUME NEW s \in Threads, s # t PROVE FillsAlone(s)' /\ ServesWhole(s)'
      <4>1. cachePc'[s] \in {"idle", "check"} /\ ServesWhole(s)
        BY <2>2, <2>4, <3>1, <3>4 DEF FillsAlone, Undisturbed
      <4> QED
        BY <2>1, <2>2, <3>4, <4>1 DEF FillsAlone, ServesWhole, Cache!Caching
    <3>5. Cache!Caching(t)' /\ responses' = {}
      BY <2>1, <2>2, <3>1 DEF Cache!Caching, FillsAlone
    <3> QED
      BY <3>3, <3>4, <3>5 DEF Undisturbed
  <2> QED
    BY <1>a, <2>1, <2>3, <2>4 DEF CacheInv
<1>5. ASSUME NEW t \in Threads, Cache!WriteChunk(t) PROVE CacheInv'
  <2> DEFINE n == at[t] + 1
             f == want[t]
  <2>1. /\ cachePc[t] = "write"
        /\ cachePc' = [cachePc EXCEPT ![t] = IF n = Chunks THEN "length" ELSE "write"]
        /\ cache' = Cache!Written(Cache!Chunk(f, version[f], n), n)
        /\ at' = [at EXCEPT ![t] = n]
        /\ UNCHANGED <<version, want, length, body, responses, disturbed>>
    BY <1>5 DEF Cache!WriteChunk
  <2>2. /\ cachePc'[t] = (IF n = Chunks THEN "length" ELSE "write")
        /\ at'[t] = n /\ at[t] \in Nat /\ f \in Files /\ version[f] \in 1..MaxVersion
        /\ \A s \in Threads : s # t => cachePc'[s] = cachePc[s] /\ at'[s] = at[s]
    BY <1>a, <2>1 DEF CacheTypes
  <2>3. CacheTypes'
    BY <1>a, <2>1, <2>2 DEF CacheTypes
  <2>4. ASSUME Undisturbed PROVE Undisturbed'
    <3>1. FillsAlone(t) /\ ServesWhole(t) /\ Cache!Caching(t)
      BY <2>1, <2>4 DEF Undisturbed, Cache!Caching
    <3>2. cache' = Content(f, version[f], n)
      <4>1. cache = Content(f, version[f], at[t])
        BY <2>1, <3>1 DEF FillsAlone
      <4>2. /\ Len(cache) = at[t]
            /\ \A i \in 1..at[t] : cache[i] = Cache!Chunk(f, version[f], i)
        BY <2>2, <4>1, ContentGrows
      <4>3. cache' = [i \in 1..n |-> IF i = n THEN Cache!Chunk(f, version[f], n)
                                     ELSE IF i <= Len(cache) THEN cache[i] ELSE Cache!Hole]
        BY <2>1, <2>2, <4>2 DEF Cache!Written
      <4>4. \A i \in 1..n : cache'[i] = Cache!Chunk(f, version[f], i)
        BY <2>2, <4>2, <4>3
      <4> QED
        BY <4>3, <4>4 DEF Content
    <3>3. n <= Chunks
      BY <1>n, <2>1, <2>2, <3>1 DEF FillsAlone
    <3>4. n = Chunks => Cache!Whole(cache)'
      BY <2>2, <3>2 DEF Cache!Whole, Content
    <3>5. FillsAlone(t)' /\ ServesWhole(t)'
      BY <1>n, <2>1, <2>2, <3>1, <3>2, <3>3, <3>4 DEF FillsAlone, ServesWhole, Cache!Caching
    <3>6. ASSUME NEW s \in Threads, s # t PROVE FillsAlone(s)' /\ ServesWhole(s)'
      <4>1. cachePc'[s] \in {"idle", "check"} /\ ServesWhole(s)
        BY <2>2, <2>4, <3>1, <3>6 DEF FillsAlone, Undisturbed
      <4> QED
        BY <2>1, <2>2, <3>6, <4>1 DEF FillsAlone, ServesWhole, Cache!Caching
    <3>7. responses' = {} /\ (n # Chunks => Cache!Caching(t)')
      BY <2>1, <2>2, <3>1 DEF Cache!Caching, FillsAlone
    <3> QED
      BY <3>4, <3>5, <3>6, <3>7 DEF Undisturbed
  <2> QED
    BY <1>a, <2>1, <2>3, <2>4 DEF CacheInv
<1>6. ASSUME NEW t \in Threads, Cache!GzipFails(t) PROVE CacheInv'
  <2>1. /\ cachePc[t] # "idle" /\ disturbed'
        /\ \/ cachePc' = [cachePc EXCEPT ![t] = "idle"]
           \/ cachePc' = [cachePc EXCEPT ![t] = "length"]
        /\ UNCHANGED <<version, want, at, length, body>>
    BY <1>6 DEF Cache!GzipFails, Cache!Caching
  <2> QED
    BY <1>a, <2>1 DEF CacheInv, CacheTypes
<1>7. ASSUME NEW t \in Threads, Cache!GetLength(t) PROVE CacheInv'
  <2>1. /\ cachePc[t] = "length" /\ cachePc' = [cachePc EXCEPT ![t] = "copy"]
        /\ length' = [length EXCEPT ![t] = Len(cache)] /\ at' = [at EXCEPT ![t] = 0]
        /\ UNCHANGED <<version, cache, want, body, responses, disturbed>>
    BY <1>7 DEF Cache!GetLength
  <2>2. /\ cachePc'[t] = "copy" /\ at'[t] = 0 /\ length'[t] = Len(cache)
        /\ \A s \in Threads : s # t => /\ cachePc'[s] = cachePc[s] /\ at'[s] = at[s]
                                       /\ length'[s] = length[s]
    BY <1>a, <2>1 DEF CacheTypes
  <2>3. CacheTypes'
    BY <1>a, <2>1, <2>2 DEF CacheTypes
  <2>4. ASSUME Undisturbed PROVE Undisturbed'
    <3>1. ServesWhole(t) /\ Cache!Whole(cache)
      BY <2>1, <2>4 DEF Undisturbed, ServesWhole
    <3>2. Len(cache) = Chunks /\ Prefix(cache, 0) = <<>>
      BY <3>1, WholeFile, PrefixGrows
    <3>3. ServesWhole(t)'
      BY <1>n, <2>1, <2>2, <3>1, <3>2 DEF ServesWhole, Cache!Whole
    <3>4. ASSUME NEW s \in Threads, s # t PROVE ServesWhole(s)'
      <4>1. ServesWhole(s)
        BY <2>4 DEF Undisturbed
      <4> QED
        BY <2>1, <2>2, <3>4, <4>1 DEF ServesWhole, Cache!Whole
    <3>5. ASSUME NEW s \in Threads PROVE ~Cache!Caching(s)'
      <4>1. ~Cache!Caching(s)
        <5>1. FillsAlone(s)
          BY <2>4 DEF Undisturbed
        <5> QED
          BY <2>1, <5>1 DEF FillsAlone, Cache!Caching
      <4> QED
        BY <2>2, <4>1 DEF Cache!Caching
    <3> QED
      BY <2>1, <2>4, <3>1, <3>3, <3>4, <3>5 DEF Undisturbed, FillsAlone, Cache!Whole
  <2> QED
    BY <1>a, <2>1, <2>3, <2>4 DEF CacheInv
<1>8. ASSUME NEW t \in Threads, Cache!Copy(t) PROVE CacheInv'
  <2> DEFINE n == at[t] + 1
  <2>1. /\ cachePc[t] = "copy"
        /\ UNCHANGED <<version, cache, want, length, disturbed>>
    BY <1>8 DEF Cache!Copy
  <2>2. \/ /\ n <= length[t] /\ n <= Len(cache)
           /\ body' = [body EXCEPT ![t] = Append(body[t], cache[n])]
           /\ at' = [at EXCEPT ![t] = n]
           /\ UNCHANGED <<cachePc, responses>>
        \/ /\ ~(n <= length[t] /\ n <= Len(cache))
           /\ cachePc' = [cachePc EXCEPT ![t] = "idle"]
           /\ responses' = IF disturbed THEN responses ELSE responses \cup {body[t]}
           /\ UNCHANGED <<body, at>>
    BY <1>8 DEF Cache!Copy
  <2>3. at[t] \in Nat
    BY <1>a DEF CacheTypes
  <2>4. /\ CacheTypes'
        /\ \A s \in Threads : s # t => /\ cachePc'[s] = cachePc[s] /\ at'[s] = at[s]
                                       /\ body'[s] = body[s]
    BY <1>a, <2>1, <2>2, <2>3 DEF CacheTypes
  <2>5. ASSUME ~disturbed, Undisturbed PROVE Undisturbed'
    <3>1. ServesWhole(t) /\ Cache!Whole(cache)
      BY <2>1, <2>5 DEF Undisturbed, ServesWhole
    <3>2. /\ length[t] = Chunks /\ Len(cache) = Chunks /\ at[t] <= Chunks
          /\ body[t] = Prefix(cache, at[t])
      BY <2>1, <3>1, WholeFile DEF ServesWhole
    <3>3. ServesWhole(t)' /\ \A r \in responses' : r = cache
      <4>1. CASE /\ n <= length[t] /\ n <= Len(cache)
                 /\ body' = [body EXCEPT ![t] = Append(body[t], cache[n])]
                 /\ at' = [at EXCEPT ![t] = n]
                 /\ UNCHANGED <<cachePc, responses>>
        <5>1. at'[t] = n /\ body'[t] = Append(body[t], cache[n])
          BY <1>a, <4>1 DEF CacheTypes
        <5>2. Append(Prefix(cache, at[t]), cache[n]) = Prefix(cache, n)
          BY <2>3, PrefixGrows
        <5>3. body'[t] = Prefix(cache, n) /\ n <= Chunks
          BY <3>2, <4>1, <5>1, <5>2
        <5> QED
          BY <2>1, <2>5, <3>1, <3>2, <4>1, <5>1, <5>3 DEF ServesWhole, Undisturbed, Cache!Whole
      <4>2. CASE /\ ~(n <= length[t] /\ n <= Len(cache))
                 /\ cachePc' = [cachePc EXCEPT ![t] = "idle"]
                 /\ responses' = IF disturbed THEN responses ELSE responses \cup {body[t]}
        <5>1. at[t] = Chunks
          BY <1>n, <2>3, <3>2, <4>2
        <5>2. body[t] = cache
          BY <3>1, <3>2, <5>1, WholeFile
        <5>3. cachePc'[t] = "idle"
          BY <1>a, <4>2 DEF CacheTypes
        <5> QED
          BY <2>5, <4>2, <5>2, <5>3 DEF ServesWhole, Undisturbed
      <4> QED
        BY <2>2, <4>1, <4>2
    <3>4. ASSUME NEW s \in Threads, s # t PROVE ServesWhole(s)'
      <4>1. ServesWhole(s)
        BY <2>5 DEF Undisturbed
      <4> QED
        BY <2>1, <2>4, <3>4, <4>1 DEF ServesWhole, Cache!Whole
    <3>5. ASSUME NEW s \in Threads PROVE ~Cache!Caching(s)'
      <4>1. ~Cache!Caching(s)
        <5>1. FillsAlone(s)
          BY <2>5 DEF Undisturbed
        <5> QED
          BY <2>1, <5>1 DEF FillsAlone, Cache!Caching
      <4>2. cachePc'[t] \in {"copy", "idle"}
        BY <1>a, <2>1, <2>2 DEF CacheTypes
      <4> QED
        BY <2>4, <4>1, <4>2 DEF Cache!Caching
    <3> QED
      BY <2>1, <3>1, <3>3, <3>4, <3>5 DEF Undisturbed, FillsAlone, Cache!Whole
  <2> QED
    BY <1>a, <2>1, <2>4, <2>5 DEF CacheInv
<1>9. ASSUME NEW f \in Files, Cache!Change(f) PROVE CacheInv'
  <2>1. /\ version' = [version EXCEPT ![f] = version[f] + 1]
        /\ version[f] < MaxVersion
        /\ disturbed' = (disturbed \/ \E t \in Threads :
                           cachePc[t] = "write" /\ want[t] = f /\ at[t] > 0)
        /\ UNCHANGED <<cache, cachePc, want, at, length, body, responses>>
    BY <1>9 DEF Cache!Change, Cache!threadVars
  <2>2. CacheTypes'
    <3>1. MaxVersion \in Nat
      BY PartsAssumption
    <3>2. version' \in [Files -> 1..MaxVersion]
      BY <1>a, <2>1, <3>1 DEF CacheTypes
    <3> QED
      BY <1>a, <2>1, <3>2 DEF CacheTypes
  <2>3. ASSUME ~disturbed', Undisturbed PROVE Undisturbed'
    <3>1. ASSUME NEW t \in Threads PROVE FillsAlone(t)'
      <4>1. FillsAlone(t)
        BY <2>3 DEF Undisturbed
      <4>2. ASSUME cachePc[t] = "write", FillsAlone(t), Cache!Caching(t)
            PROVE  cache = Content(want[t], version'[want[t]], at[t])
        <5>1. at[t] \in Nat /\ want[t] \in Files
          BY <1>a, <4>2 DEF CacheTypes
        <5>2. CASE want[t] # f
          <6>1. version'[want[t]] = version[want[t]]
            BY <1>a, <2>1, <5>1, <5>2 DEF CacheTypes
          <6> QED
            BY <4>2, <6>1 DEF FillsAlone
        <5>3. CASE want[t] = f
          <6>1. at[t] = 0
            <7>1. ~(\E s \in Threads : cachePc[s] = "write" /\ want[s] = f /\ at[s] > 0)
              BY <2>1, <2>3
            <7>2. ~(at[t] > 0)
              BY <4>2, <5>3, <7>1
            <7> QED
              BY <5>1, <7>2
          <6>2. /\ Content(want[t], version[want[t]], 0) = <<>>
                /\ Content(want[t], version'[want[t]], 0) = <<>>
            BY ContentGrows, <5>1
          <6> QED
            BY <4>2, <6>1, <6>2 DEF FillsAlone
        <5> QED
          BY <5>2, <5>3
      <4> QED
        BY <2>1, <4>1, <4>2 DEF FillsAlone, Cache!Caching
    <3> QED
      BY <2>1, <2>3, <3>1 DEF Undisturbed, ServesWhole, Cache!Caching, Cache!Whole
  <2> QED
    BY <1>a, <2>1, <2>2, <2>3 DEF CacheInv
<1> QED
  BY <1>0, <1>1, <1>2, <1>3, <1>4, <1>5, <1>6, <1>7, <1>8, <1>9 DEF Cache!Next, Cache!Step

(* Unless something came between a file and its copy, every response is    *)
(* the whole file that is in the cache.                                    *)
THEOREM ResponsesAreWhole == Spec => []ServedWhole
<1>1. Init => CacheInv
  <2> SUFFICES ASSUME Cache!Init PROVE CacheInv
    BY DEF Init
  <2>1. 1 \in 1..MaxVersion
    BY PartsAssumption
  <2>2. CacheTypes
    BY <2>1 DEF Cache!Init, CacheTypes
  <2>3. Undisturbed
    BY DEF Cache!Init, Undisturbed, FillsAlone, ServesWhole, Cache!Caching
  <2> QED
    BY <2>2, <2>3 DEF CacheInv
<1>2. CacheInv /\ [Next]_vars => CacheInv'
  BY PartSteps, CacheNext
<1>3. CacheInv => ServedWhole
  BY DEF CacheInv, Undisturbed, ServedWhole, Cache!ServedWhole
<1> QED
  BY <1>1, <1>2, <1>3, PTL DEF Spec

-----------------------------------------------------------------------------
(* ProxyCodec.                                                             *)

Messages == [id: Nat, uri: Nat, data: Nat]
Frames == [id: Nat, length: Nat, uriByte: 0..255]
Decodeds == [id: Nat, uri: Int, data: Int]

(* How many messages have been decoded or dropped. *)
Past == Len(sent) - Len(codecWire) - Len(held)

CodecTypes ==
  /\ sent \in Seq(Messages) /\ decoded \in Seq(Decodeds)
  /\ codecWire \in Seq(Frames) /\ held \in Seq(Frames)
  /\ Past >= 0

(* The messages are numbered; what is held and what is on the wire are the *)
(* frames of the last ones.                                                *)
FramesOfSent ==
  /\ \A k \in 1..Len(sent) : sent[k].id = k
  /\ \A k \in 1..Len(held) : held[k] = Codec!Encode(sent[Past + k])
  /\ \A k \in 1..Len(codecWire) :
       codecWire[k] = Codec!Encode(sent[Past + Len(held) + k])

(* The decoded messages are past ones, in order ... *)
InOrder ==
  \A i \in 1..Len(decoded) :
    /\ decoded[i].id \in 1..Past
    /\ i > 1 => decoded[i - 1].id < decoded[i].id

(* ... and all past ones with a short uri. *)
AllShort ==
  \A k \in 1..Past :
    Codec!HasShortUri(sent[k]) => \E i \in 1..Len(decoded) : decoded[i] = sent[k]

CodecInv == CodecTypes /\ FramesOfSent /\ InOrder /\ AllShort

(* What is encoded is a frame; with a short uri it is decoded as it was,   *)
(* and it never gets another number.                                       *)
LEMMA RoundTrip ==
  ASSUME NEW m \in Messages
  PROVE  LET f == Codec!Encode(m) IN
         /\ f \in Frames
         /\ Codec!Decode(f) \in Decodeds /\ Codec!Decode(f).id = m.id
         /\ Codec!HasShortUri(m) => Codec!Decodable(f) /\ Codec!Decode(f) = m
<1> DEFINE f == Codec!Encode(m)
           b == (m.uri % 256)
<1>1. m.id \in Nat /\ m.uri \in Nat /\ m.data \in Nat
  BY DEF Messages
<1>2. b \in 0..255 /\ (m.uri < 128 => b = m.uri)
  BY <1>1
<1>3. f.id = m.id /\ f.length = 10 + m.uri + m.data /\ f.uriByte = b
  BY <1>1 DEF Codec!Encode, Codec!Fixed
<1>4. f \in Frames
  BY <1>1, <1>2 DEF Codec!Encode, Codec!Fixed, Frames
<1>5. Codec!UriLength(f) \in Int /\ (m.uri < 128 => Codec!UriLength(f) = m.uri)
  BY <1>1, <1>2, <1>3 DEF Codec!UriLength
<1> HIDE DEF f
<1>6. Codec!Decode(f) \in Decodeds /\ Codec!Decode(f).id = m.id
  BY <1>1, <1>3, <1>5 DEF Codec!Decode, Decodeds, Codec!Fixed
<1>7. ASSUME m.uri < 128 PROVE Codec!Decodable(f) /\ Codec!Decode(f) = m
  <2>1. f.length - Codec!Fixed - Codec!UriLength(f) = m.data
    BY <1>1, <1>3, <1>5, <1>7 DEF Codec!Fixed
  <2>2. Codec!Decodable(f)
    BY <1>1, <1>5, <1>7, <2>1 DEF Codec!Decodable
  <2>3. Codec!Decode(f) = [id |-> m.id, uri |-> m.uri, data |-> m.data]
    BY <1>3, <1>5, <1>7, <2>1 DEF Codec!Decode
  <2> QED
    BY <2>2, <2>3 DEF Messages
<1> QED
  BY <1>4, <1>6, <1>7 DEF Codec!HasShortUri, f

(* A set of numbers that is not empty has a least one. *)
LEMMA MinIsLeast ==
  ASSUME NEW S, S \subseteq Nat, S # {}
  PROVE  Codec!Min(S) \in S /\ \A y \in S : Codec!Min(S) <= y
<1>1. PICK x \in S : \A y \in S : ~(<<y, x>> \in OpToRel(<, Nat))
  BY WFMin, NatLessThanWellFounded
<1>2. ASSUME NEW y \in S PROVE x <= y
  <2>1. x \in Nat /\ y \in Nat
    OBVIOUS
  <2>2. ASSUME y < x PROVE FALSE
    <3>1. <<y, x>> \in OpToRel(<, Nat)
      BY <2>1, <2>2 DEF OpToRel
    <3> QED
      BY <1>1, <3>1
  <2> QED
    BY <2>1, <2>2
<1>3. \E z \in S : \A y \in S : z <= y
  BY <1>2
<1> QED
  BY <1>3 DEF Codec!Min

(* Decoding stops at the first frame that is not decodable. *)
LEMMA FirstOf ==
  ASSUME NEW n \in Nat, NEW I, I \subseteq 1..n,
         NEW first, first = IF I # {} THEN Codec!Min(I) ELSE 0
  PROVE  /\ first \in 0..n
         /\ first # 0 => first \in I
         /\ \A i \in 1..n : first = 0 \/ i < first => i \notin I
<1>1. CASE I # {}
  <2>0. I \subseteq Nat
    OBVIOUS
  <2>1. first \in I /\ \A i \in I : first <= i
    BY <1>1, <2>0, MinIsLeast
  <2>2. first \in 1..n
    BY <2>1
  <2>3. ASSUME NEW i \in 1..n, i < first PROVE i \notin I
    BY <2>1, <2>2, <2>3
  <2> QED
    BY <2>1, <2>2, <2>3
<1>2. CASE I = {}
  BY <1>2
<1> QED
  BY <1>1, <1>2

(* Neither writing nor reading changes that. *)
LEMMA CodecNext == CodecInv /\ [Codec!Next]_codecVars => CodecInv'
<1> SUFFICES ASSUME CodecInv, [Codec!Next]_codecVars PROVE CodecInv'
  OBVIOUS
<1>a. CodecTypes /\ FramesOfSent /\ InOrder /\ AllShort
  BY DEF CodecInv
<1>b. /\ Len(sent) \in Nat /\ Len(codecWire) \in Nat /\ Len(held) \in Nat
      /\ Len(decoded) \in Nat /\ Past \in Nat
      /\ \A k \in 1..Len(sent) : sent[k] \in Messages
  BY <1>a DEF CodecTypes, Past
<1>0. CASE UNCHANGED codecVars
  BY <1>a, <1>0 DEF codecVars, CodecInv, CodecTypes, FramesOfSent, InOrder, AllShort, Past
<1>1. ASSUME NEW u \in UriLengths, NEW d \in DataLengths, Codec!Write(u, d) PROVE CodecInv'
  <2> DEFINE m == [id |-> Len(sent) + 1, uri |-> u, data |-> d]
  <2>1. /\ sent' = Append(sent, m)
        /\ codecWire' = Append(codecWire, Codec!Encode(m))
        /\ UNCHANGED <<held, decoded>>
    BY <1>1 DEF Codec!Write
  <2>2. m \in Messages /\ m.id = Len(sent) + 1
    BY <1>b, CodecAssumption DEF Messages
  <2>3. Codec!Encode(m) \in Frames
    BY <2>2, RoundTrip
  <2> HIDE DEF m
  <2>4. /\ sent' \in Seq(Messages) /\ Len(sent') = Len(sent) + 1
        /\ sent'[Len(sent) + 1] = m
        /\ \A k \in 1..Len(sent) : sent'[k] = sent[k]
    BY <1>a, <2>1, <2>2, AppendProperties DEF CodecTypes
  <2>5. /\ codecWire' \in Seq(Frames) /\ Len(codecWire') = Len(codecWire) + 1
        /\ codecWire'[Len(codecWire) + 1] = Codec!Encode(m)
        /\ \A k \in 1..Len(codecWire) : codecWire'[k] = codecWire[k]
    BY <1>a, <2>1, <2>3, AppendProperties DEF CodecTypes
  <2>6. Past' = Past
    BY <1>b, <2>1, <2>4, <2>5 DEF Past
  <2>7. CodecTypes'
    BY <1>a, <2>1, <2>4, <2>5, <2>6 DEF CodecTypes
  <2>8. FramesOfSent'
    <3>1. \A k \in 1..Len(sent') : sent'[k].id = k
      BY <1>a, <1>b, <2>2, <2>4 DEF FramesOfSent
    <3>2. ASSUME NEW k \in 1..Len(held) PROVE held[k] = Codec!Encode(sent'[Past + k])
      <4>1. Past + k \in 1..Len(sent)
        BY <1>b DEF Past
      <4> QED
        BY <1>a, <2>4, <4>1 DEF FramesOfSent
    <3>3. ASSUME NEW k \in 1..Len(codecWire')
          PROVE  codecWire'[k] = Codec!Encode(sent'[Past + Len(held) + k])
      <4>1. CASE k <= Len(codecWire)
        <5>1. Past + Len(held) + k \in 1..Len(sent) /\ k \in 1..Len(codecWire)
          BY <1>b, <4>1 DEF Past
        <5> QED
          BY <1>a, <2>4, <2>5, <5>1 DEF FramesOfSent
      <4>2. CASE k = Len(codecWire) + 1
        <5>1. Past + Len(held) + k = Len(sent) + 1
          BY <1>b, <4>2 DEF Past
        <5> QED
          BY <2>4, <2>5, <4>2, <5>1
      <4> QED
        BY <1>b, <2>5, <4>1, <4>2
    <3> QED
      BY <2>1, <2>6, <3>1, <3>2, <3>3 DEF FramesOfSent
  <2>9. InOrder'
    BY <1>a, <2>1, <2>6 DEF InOrder
  <2>10. AllShort'
    <3>1. \A k \in 1..Past : sent'[k] = sent[k]
      BY <1>b, <2>4 DEF Past
    <3> QED
      BY <1>a, <2>1, <2>6, <3>1 DEF AllShort
  <2> QED
    BY <2>7, <2>8, <2>9, <2>10 DEF CodecInv
<1>2. ASSUME NEW n \in 1..Len(codecWire), Codec!Read(n) PROVE CodecInv'
  <2> DEFINE all == held \o SubSeq(codecWire, 1, n)
             first == Codec!SelectInSeq(all, LAMBDA f : ~Codec!Decodable(f))
             good == IF first = 0 THEN Len(all) ELSE first - 1
             new == [i \in 1..good |-> Codec!Decode(all[i])]
  <2>1. /\ codecWire' = SubSeq(codecWire, n + 1, Len(codecWire))
        /\ decoded' = decoded \o new
        /\ held' = IF first = 0 THEN <<>> ELSE SubSeq(all, first + 1, Len(all))
        /\ sent' = sent
    BY <1>2 DEF Codec!Read
  <2>2. /\ all \in Seq(Frames) /\ Len(all) = Len(held) + n
        /\ \A k \in 1..Len(all) :
             all[k] = IF k <= Len(held) THEN held[k] ELSE codecWire[k - Len(held)]
    <3> DEFINE s == SubSeq(codecWire, 1, n)
    <3>1. \A k \in 1..n : codecWire[k] \in Frames
      BY <1>a, <1>b DEF CodecTypes
    <3>2. s \in Seq(Frames) /\ Len(s) = n /\ \A k \in 1..n : s[k] = codecWire[k]
      BY <1>b, <3>1, SubSeqProperties
    <3> HIDE DEF s
    <3>3. /\ held \o s \in Seq(Frames) /\ Len(held \o s) = Len(held) + Len(s)
          /\ \A k \in 1..Len(held) + Len(s) :
               (held \o s)[k] = IF k <= Len(held) THEN held[k] ELSE s[k - Len(held)]
      BY <1>a, <3>2, ConcatProperties DEF CodecTypes
    <3>4. ASSUME NEW k \in 1..Len(held) + n, k > Len(held)
          PROVE  s[k - Len(held)] = codecWire[k - Len(held)]
      <4>1. k - Len(held) \in 1..n
        BY <1>b, <3>4
      <4> QED
        BY <3>2, <4>1
    <3> QED
      BY <1>b, <3>2, <3>3, <3>4 DEF s
  <2> HIDE DEF all
  <2>3. ASSUME NEW k \in 1..Len(all)
        PROVE  /\ Past + k \in 1..Len(sent)
               /\ all[k] = Codec!Encode(sent[Past + k])
    <3>1. Past + k \in 1..Len(sent)
      BY <1>b, <2>2 DEF Past
    <3>2. CASE k <= Len(held)
      <4>1. k \in 1..Len(held)
        BY <1>b, <2>2, <3>2
      <4> QED
        BY <1>a, <2>2, <3>1, <3>2, <4>1 DEF FramesOfSent
    <3>3. CASE k > Len(held)
      <4>1. k - Len(held) \in 1..Len(codecWire) /\ Past + Len(held) + (k - Len(held)) = Past + k
        BY <1>b, <2>2, <3>3
      <4>2. all[k] = codecWire[k - Len(held)]
        BY <1>b, <2>2, <3>3
      <4> QED
        BY <1>a, <3>1, <4>1, <4>2 DEF FramesOfSent
    <3> QED
      BY <1>b, <2>2, <3>2, <3>3
  <2> DEFINE I == {i \in 1..Len(all) : ~Codec!Decodable(all[i])}
  <2>4. first = IF I # {} THEN Codec!Min(I) ELSE 0
    BY DEF Codec!SelectInSeq
  <2> HIDE DEF first
  <2>5. /\ first \in 0..Len(all)
        /\ first # 0 => first \in I
        /\ \A i \in 1..Len(all) : first = 0 \/ i < first => i \notin I
    <3>1. Len(all) \in Nat
      BY <1>b, <2>2
    <3>2. I \subseteq 1..Len(all)
      OBVIOUS
    <3> HIDE DEF I
    <3> QED
      BY <2>4, <3>1, <3>2, FirstOf
  <2>6. /\ first # 0 => ~Codec!Decodable(all[first])
        /\ Len(all) \in Nat /\ first \in Nat /\ good \in Nat /\ good <= Len(all)
        /\ \A i \in 1..Len(all) : i <= good => Codec!Decodable(all[i])
    BY <1>b, <2>2, <2>5
  <2> DEFINE more == IF first = 0 THEN Len(all) ELSE first
  <2>7. /\ more \in Nat /\ good <= more /\ more <= Len(all)
        /\ \A j \in 1..more : j <= good \/ j = first
    BY <2>5, <2>6
  <2>8. /\ codecWire' \in Seq(Frames) /\ Len(codecWire') = Len(codecWire) - n
        /\ \A k \in 1..Len(codecWire) - n : codecWire'[k] = codecWire[n + k]
    <3>1. \A k \in n + 1..Len(codecWire) : codecWire[k] \in Frames
      BY <1>a, <1>b DEF CodecTypes
    <3>2. /\ SubSeq(codecWire, n + 1, Len(codecWire)) \in Seq(Frames)
          /\ Len(SubSeq(codecWire, n + 1, Len(codecWire))) =
               IF n + 1 <= Len(codecWire) THEN Len(codecWire) - (n + 1) + 1 ELSE 0
          /\ \A k \in 1..Len(codecWire) - (n + 1) + 1 :
               SubSeq(codecWire, n + 1, Len(codecWire))[k] = codecWire[n + 1 + k - 1]
      BY <1>b, <3>1, SubSeqProperties
    <3>3. \A k \in 1..Len(codecWire) - n : n + 1 + k - 1 = n + k
      OBVIOUS
    <3> QED
      BY <1>b, <2>1, <3>2, <3>3
  <2>9. /\ held' \in Seq(Frames) /\ Len(held') = Len(all) - more
        /\ \A k \in 1..Len(all) - more : held'[k] = all[more + k]
    <3>1. CASE first = 0
      BY <2>1, <2>6, <3>1
    <3>2. CASE first # 0
      <4>1. \A k \in first + 1..Len(all) : all[k] \in Frames
        BY <2>2, <2>6
      <4>2. /\ SubSeq(all, first + 1, Len(all)) \in Seq(Frames)
            /\ Len(SubSeq(all, first + 1, Len(all))) =
                 IF first + 1 <= Len(all) THEN Len(all) - (first + 1) + 1 ELSE 0
            /\ \A k \in 1..Len(all) - (first + 1) + 1 :
                 SubSeq(all, first + 1, Len(all))[k] = all[first + 1 + k - 1]
        BY <2>6, <4>1, SubSeqProperties
      <4>3. \A k \in 1..Len(all) - first : first + 1 + k - 1 = first + k
        BY <2>6
      <4> QED
        BY <2>1, <2>6, <2>7, <3>2, <4>2, <4>3
    <3> QED
      BY <3>1, <3>2
  <2> HIDE DEF more, good, I
  <2>10. Past' = Past + more
    <3>1. Len(sent') = Len(sent)
      BY <2>1
    <3>2. Len(all) = Len(held) + n
      BY <2>2
    <3>3. Len(codecWire') = Len(codecWire) - n
      BY <2>8
    <3>4. Len(held') = Len(all) - more
      BY <2>9
    <3>5. /\ Len(sent) \in Nat /\ Len(codecWire) \in Nat /\ Len(held) \in Nat
          /\ n \in Nat /\ more \in Nat
      BY <1>b, <2>7
    <3> QED
      BY <3>1, <3>2, <3>3, <3>4, <3>5 DEF Past
  <2>11. /\ new \in Seq(Decodeds) /\ Len(new) = good
         /\ \A j \in 1..good : /\ new[j] = Codec!Decode(all[j])
                               /\ new[j].id = Past + j
    <3>1. ASSUME NEW j \in 1..good
          PROVE  Codec!Decode(all[j]) \in Decodeds /\ Codec!Decode(all[j]).id = Past + j
      <4>1. j \in 1..Len(all)
        BY <2>6
      <4>2. /\ Past + j \in 1..Len(sent) /\ all[j] = Codec!Encode(sent[Past + j])
            /\ sent[Past + j] \in Messages /\ sent[Past + j].id = Past + j
        BY <1>a, <1>b, <2>3, <4>1 DEF FramesOfSent
      <4> QED
        BY <4>2, RoundTrip
    <3>2. new \in [1..good -> Decodeds]
      BY <3>1
    <3>3. new \in Seq(Decodeds) /\ DOMAIN new = 1..good
      BY <2>6, <3>2, SeqDef
    <3>4. Len(new) = good
      <4>1. DOMAIN new = 1..Len(new) /\ Len(new) \in Nat
        BY <3>3, LenProperties
      <4> HIDE DEF new
      <4> QED
        BY <2>6, <3>3, <4>1, SameInterval
    <3> QED
      BY <3>1, <3>3, <3>4
  <2> HIDE DEF new
  <2>12. /\ decoded' \in Seq(Decodeds) /\ Len(decoded') = Len(decoded) + good
         /\ \A i \in 1..Len(decoded) + good :
              decoded'[i] = IF i <= Len(decoded) THEN decoded[i] ELSE new[i - Len(decoded)]
    BY <1>a, <2>1, <2>11, ConcatProperties DEF CodecTypes
  <2>13. CodecTypes'
    BY <1>a, <1>b, <2>1, <2>7, <2>8, <2>9, <2>10, <2>12 DEF CodecTypes
  <2>14. FramesOfSent'
    <3>1. ASSUME NEW k \in 1..Len(held') PROVE held'[k] = Codec!Encode(sent[Past' + k])
      <4>1. more + k \in 1..Len(all) /\ Past' + k = Past + (more + k)
        BY <1>b, <2>6, <2>7, <2>9, <2>10
      <4> QED
        BY <2>3, <2>9, <4>1
    <3>2. ASSUME NEW k \in 1..Len(codecWire')
          PROVE  codecWire'[k] = Codec!Encode(sent[Past' + Len(held') + k])
      <4>1. /\ n + k \in 1..Len(codecWire)
            /\ Past' + Len(held') + k = Past + Len(held) + (n + k)
        BY <1>b, <2>2, <2>7, <2>8, <2>9, <2>10
      <4> QED
        BY <1>a, <2>8, <4>1 DEF FramesOfSent
    <3> QED
      BY <1>a, <2>1, <3>1, <3>2 DEF FramesOfSent
  <2>15. ASSUME NEW i \in 1..Len(decoded') 
         PROVE  \/ i \in 1..Len(decoded) /\ decoded'[i] = decoded[i]
                \/ /\ i - Len(decoded) \in 1..good
                   /\ decoded'[i].id = Past + (i - Len(decoded))
    <3>1. CASE i <= Len(decoded)
      BY <1>b, <2>12, <3>1
    <3>2. CASE i > Len(decoded)
      <4>1. i - Len(decoded) \in 1..good
        BY <1>b, <2>6, <2>12, <3>2
      <4>2. decoded'[i] = new[i - Len(decoded)]
        BY <1>b, <2>12, <3>2
      <4> QED
        BY <2>11, <4>1, <4>2
    <3> QED
      BY <1>b, <2>12, <3>1, <3>2
  <2>16. InOrder'
    <3> SUFFICES ASSUME NEW i \in 1..Len(decoded')
                 PROVE  /\ decoded'[i].id \in 1..Past'
                        /\ i > 1 => decoded'[i - 1].id < decoded'[i].id
      BY DEF InOrder
    <3>1. decoded'[i].id \in 1..Past'
      <4>1. CASE i \in 1..Len(decoded) /\ decoded'[i] = decoded[i]
        <5>1. decoded[i].id \in 1..Past
          BY <1>a, <4>1 DEF InOrder
        <5> QED
          BY <1>b, <2>7, <2>10, <4>1, <5>1
      <4>2. CASE i - Len(decoded) \in 1..good /\ decoded'[i].id = Past + (i - Len(decoded))
        BY <1>b, <2>6, <2>7, <2>10, <4>2
      <4> QED
        BY <2>15, <4>1, <4>2
    <3>2. ASSUME i > 1 PROVE decoded'[i - 1].id < decoded'[i].id
      <4>0. i - 1 \in 1..Len(decoded')
        BY <1>b, <2>6, <2>12, <3>2
      <4>1. CASE i \in 1..Len(decoded) /\ decoded'[i] = decoded[i]
        <5>0. /\ i - 1 \in 1..Len(decoded) /\ i - 1 <= Len(decoded)
              /\ i - 1 \in 1..Len(decoded) + good
          BY <1>b, <2>6, <3>2, <4>1
        <5>1. decoded'[i - 1] = decoded[i - 1]
          BY <2>12, <5>0
        <5>2. decoded[i - 1].id < decoded[i].id
          BY <1>a, <3>2, <4>1 DEF InOrder
        <5> QED
          BY <4>1, <5>1, <5>2
      <4>2. CASE i - Len(decoded) \in 1..good /\ decoded'[i].id = Past + (i - Len(decoded))
        <5>1. CASE i - 1 \in 1..Len(decoded) /\ decoded'[i - 1] = decoded[i - 1]
          <6>1. decoded[i - 1].id \in 1..Past
            BY <1>a, <5>1 DEF InOrder
          <6> QED
            BY <1>b, <2>6, <4>2, <5>1, <6>1
        <5>2. CASE decoded'[i - 1].id = Past + (i - 1 - Len(decoded))
          BY <1>b, <2>12, <4>2, <5>2
        <5> QED
          BY <2>15, <4>0, <5>1, <5>2
      <4> QED
        BY <2>15, <4>1, <4>2
    <3> QED
      BY <3>1, <3>2
  <2>17. AllShort'
    <3> SUFFICES ASSUME NEW k \in 1..Past', Codec!HasShortUri(sent[k])
                 PROVE  \E i \in 1..Len(decoded') : decoded'[i] = sent[k]
      BY <2>1 DEF AllShort
    <3>1. CASE k <= Past
      <4>1. PICK i \in 1..Len(decoded) : decoded[i] = sent[k]
        BY <1>a, <1>b, <3>1 DEF AllShort
      <4>2. i \in 1..Len(decoded') /\ decoded'[i] = decoded[i]
        BY <1>b, <2>6, <2>12
      <4> QED
        BY <4>1, <4>2
    <3>2. CASE k > Past
      <4> DEFINE j == k - Past
      <4>1. j \in 1..more /\ j \in 1..Len(all) /\ Past + j = k
        BY <1>b, <2>6, <2>7, <2>10, <3>2
      <4>2. /\ k \in 1..Len(sent) /\ all[j] = Codec!Encode(sent[k])
            /\ sent[k] \in Messages
        BY <1>b, <2>3, <4>1
      <4>3. Codec!Decodable(all[j]) /\ Codec!Decode(all[j]) = sent[k]
        BY <4>2, RoundTrip
      <4>4. j <= good
        <5>1. j # first
          <6>1. CASE first = 0
            BY <4>1, <6>1
          <6>2. CASE first # 0
            BY <2>6, <4>3, <6>2
          <6> QED
            BY <6>1, <6>2
        <5> HIDE DEF j
        <5> QED
          BY <2>7, <4>1, <5>1
      <4> HIDE DEF j
      <4>5. /\ j \in 1..good /\ Len(decoded) + j \in 1..Len(decoded')
            /\ ~(Len(decoded) + j <= Len(decoded)) /\ Len(decoded) + j - Len(decoded) = j
        BY <1>b, <2>6, <2>12, <4>1, <4>4
      <4>6. decoded'[Len(decoded) + j] = new[j]
        <5>1. Len(decoded) + j \in 1..Len(decoded) + good
          BY <2>12, <4>5
        <5> QED
          BY <2>12, <4>5, <5>1
      <4> QED
        BY <2>11, <4>3, <4>5, <4>6
    <3> QED
      BY <1>b, <2>7, <2>10, <3>1, <3>2
  <2> QED
    BY <2>13, <2>14, <2>16, <2>17 DEF CodecInv
<1> QED
  BY <1>0, <1>1, <1>2 DEF Codec!Next

(* Messages with a short uri arrive as they were sent, in order and once,  *)
(* whatever else is sent and however the frames are cut into reads.        *)
THEOREM ShortUrisArrive == Spec => []ShortUriArrives
<1>1. Init => CodecInv
  BY DEF Init, Codec!Init, CodecInv, CodecTypes, FramesOfSent, InOrder, AllShort, Past
<1>2. CodecInv /\ [Next]_vars => CodecInv'
  BY PartSteps, CodecNext
<1>3. CodecInv => ShortUriArrives
  <2> SUFFICES ASSUME CodecInv PROVE ShortUriArrives
    OBVIOUS
  <2>1. DOMAIN decoded = 1..Len(decoded)
    BY DEF CodecInv, CodecTypes
  <2> QED
    BY <2>1 DEF CodecInv, InOrder, AllShort, Past, ShortUriArrives, Codec!ShortUriArrives
<1> QED
  BY <1>1, <1>2, <1>3, PTL DEF Spec

===============================================================================
