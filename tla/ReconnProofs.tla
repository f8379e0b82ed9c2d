----------------------------- MODULE ReconnProofs -----------------------------
(***************************************************************************)
(* Proofs about Reconn, for any number of connections, descriptors,        *)
(* attempts and messages, and every length of the cache.                   *)
(***************************************************************************)
EXTENDS Reconn, SeqFacts

NewsSet == [type : NewsTypes, id : ConnIds, try : Tries]
OutSet == Datas \cup LayerDisconns

---------------------------------------------------------------------------
(* Types *)

LEMMA Bounds == /\ MaxTries \in Nat /\ MaxSent \in Nat /\ CacheMax \in Nat /\ Tries = 1 .. MaxTries
                /\ NoId = 0 /\ 0 \notin ConnIds /\ 0 \notin Fds
  BY ReconnAssumption DEF Tries, NoId

\* What the steps below need of the types.
LEMMA Shapes ==
  ASSUME TypeOK
  PROVE  /\ input \in Seq(NewsSet) /\ output \in Seq(OutSet) /\ accept \in Seq(Tries)
         /\ cache \in Seq(1 .. MaxSent) /\ written \in Seq(1 .. MaxSent)
         /\ Len(input) \in Nat /\ Len(output) \in Nat /\ Len(accept) \in Nat
         /\ Len(cache) \in Nat /\ Len(written) \in Nat
         /\ \A k \in 1 .. Len(input) : input[k] \in NewsSet
         /\ \A k \in 1 .. Len(output) : output[k] \in OutSet
         /\ try \in 0 .. MaxTries /\ tries \in 0 .. MaxTries /\ sent \in 0 .. MaxSent
         /\ \A id \in ConnIds : conn[id] \in 0 .. MaxTries
         /\ conn \in [ConnIds -> 0 .. MaxTries] /\ holder \in [Fds -> 0 .. MaxTries]
<1>1. /\ input \in Seq(NewsSet) /\ output \in Seq(OutSet) /\ accept \in Seq(Tries)
      /\ cache \in Seq(1 .. MaxSent) /\ written \in Seq(1 .. MaxSent)
  BY DEF TypeOK, NewsSet, OutSet
<1>2. /\ try \in 0 .. MaxTries /\ tries \in 0 .. MaxTries /\ sent \in 0 .. MaxSent
      /\ conn \in [ConnIds -> 0 .. MaxTries] /\ holder \in [Fds -> 0 .. MaxTries]
  BY DEF TypeOK
<1>3. /\ Len(input) \in Nat /\ Len(output) \in Nat /\ Len(accept) \in Nat
      /\ Len(cache) \in Nat /\ Len(written) \in Nat
  BY <1>1
<1>4. \A k \in 1 .. Len(input) : input[k] \in NewsSet
  BY <1>1
<1>5. \A k \in 1 .. Len(output) : output[k] \in OutSet
  BY <1>1
<1>6. QED BY <1>1, <1>2, <1>3, <1>4, <1>5

LEMMA NewsShape ==
  ASSUME NEW n \in NewsSet
  PROVE  n.type \in NewsTypes /\ n.id \in ConnIds /\ n.try \in 1 .. MaxTries
BY Bounds DEF NewsSet

LEMMA OutShape ==
  ASSUME NEW m \in OutSet
  PROVE  /\ m.id \in ConnIds /\ m.try \in 0 .. MaxTries /\ m.msg \in 0 .. MaxSent
         /\ m.type = "DATA" <=> m \in Datas
         /\ m.type = "LAYER_DISCONN" <=> m \in LayerDisconns
         /\ m \in Datas => m.try = 0 /\ m.msg \in 1 .. MaxSent /\ m \notin LayerDisconns
         /\ m \in LayerDisconns => m.try \in 1 .. MaxTries /\ m \notin Datas
BY Bounds DEF OutSet, Datas, LayerDisconns

LEMMA DataIsOut ==
  ASSUME NEW id \in ConnIds, NEW m \in 1 .. MaxSent
  PROVE  Data(id, m) \in Datas /\ Data(id, m) \in OutSet /\ Data(id, m).msg = m
BY DEF Data, Datas, OutSet

LEMMA LayerIsOut ==
  ASSUME NEW n \in NewsSet
  PROVE  /\ LayerDisconn(n) \in LayerDisconns /\ LayerDisconn(n) \in OutSet
         /\ LayerDisconn(n).try = n.try
BY NewsShape, Bounds DEF LayerDisconn, LayerDisconns, OutSet, Tries

LEMMA ClosedType ==
  ASSUME TypeOK, NEW n \in 0 .. MaxTries
  PROVE  Closed(n) \in [Fds -> 0 .. MaxTries]
BY Bounds DEF TypeOK, Closed

\* The session has a connection when its slot names it, or it is registered.
HdNamed == slots # {} \/ state = "REG_OK" => hd \in ConnIds

TypeInv == TypeOK /\ HdNamed

LEMMA TypeInit == Init => TypeInv
<1> SUFFICES ASSUME Init PROVE TypeInv
  OBVIOUS
<1>1. /\ accept \in Seq(Tries) /\ input \in Seq([type : NewsTypes, id : ConnIds, try : Tries])
      /\ output \in Seq(Datas \cup LayerDisconns) /\ written \in Seq(1 .. MaxSent)
      /\ cache \in Seq(1 .. MaxSent) /\ Len(cache) <= CacheMax
  BY Bounds DEF Init
<1>2. /\ conn \in [ConnIds -> 0 .. MaxTries] /\ fd \in [Tries -> Fds \cup {NoId}]
      /\ holder \in [Fds -> 0 .. MaxTries] /\ try \in 0 .. MaxTries /\ tries \in 0 .. MaxTries
      /\ sent \in 0 .. MaxSent
  BY Bounds DEF Init
<1>3. QED BY <1>1, <1>2 DEF Init, TypeInv, TypeOK, HdNamed

\* _RemoveSession and OnDisconnected keep the types.
LEMMA DisconnectedTypes ==
  ASSUME TypeOK, NEW id \in ConnIds, Disconnected(id)
  PROVE  /\ connected' \in BOOLEAN /\ connecting' \in BOOLEAN /\ try' \in 0 .. MaxTries
         /\ state' \in {"UNKNOWN", "REG_OK", "DISCONN"} /\ hd' = hd /\ slots' \subseteq slots
         /\ cache' = cache /\ holder' \in [Fds -> 0 .. MaxTries]
         /\ (state' = "REG_OK" => state = "REG_OK")
<1>1. CASE id \in slots
  <2>1. holder' = Closed(try) /\ try \in 0 .. MaxTries
    BY <1>1 DEF Disconnected, TypeOK
  <2>2. holder' \in [Fds -> 0 .. MaxTries] /\ 0 \in 0 .. MaxTries
    BY <2>1, ClosedType, Bounds
  <2>3. /\ slots' = slots \ {id} /\ state' = "DISCONN" /\ connected' = FALSE /\ connecting' = FALSE
        /\ try' = 0 /\ hd' = hd /\ cache' = cache
    BY <1>1 DEF Disconnected
  <2>4. QED BY <2>2, <2>3
<1>2. CASE id \notin slots
  BY <1>2 DEF Disconnected, TypeOK, flags, session
<1>3. QED BY <1>1, <1>2

LEMMA TypeNext == TypeInv /\ [Next]_vars => TypeInv'
<1> SUFFICES ASSUME TypeInv, [Next]_vars PROVE TypeInv'
  OBVIOUS
<1>0. TypeOK /\ HdNamed
  BY DEF TypeInv
<1>a. /\ \A id \in ConnIds : conn[id] \in 0 .. MaxTries
      /\ try \in 0 .. MaxTries /\ tries \in 0 .. MaxTries /\ sent \in 0 .. MaxSent
  BY <1>0, Shapes
<1>1. ASSUME NEW f \in Fds, Connect(f) PROVE TypeInv'
  <2>1. tries' \in Tries /\ tries' \in 0 .. MaxTries
    BY <1>0, <1>1, <1>a, Bounds DEF Connect
  <2>2. fd' \in [Tries -> Fds \cup {NoId}] /\ holder' \in [Fds -> 0 .. MaxTries]
    BY <1>0, <1>1, <2>1 DEF Connect, TypeOK
  <2>3. QED BY <1>0, <1>1, <2>1, <2>2 DEF Connect, TypeInv, TypeOK, HdNamed, session, queues, pool
<1>2. CASE ConnectOk
  <2>1. try \in Tries
    BY <1>2, <1>a, Bounds DEF ConnectOk, Alive
  <2>2. accept' \in Seq(Tries)
    BY <1>0, <1>2, <2>1, Shapes DEF ConnectOk
  <2>3. QED BY <1>0, <1>2, <2>2 DEF ConnectOk, TypeInv, TypeOK, HdNamed, session, sockets, pool
<1>3. CASE ConnectFail
  <2>1. holder' \in [Fds -> 0 .. MaxTries] /\ 0 \in 0 .. MaxTries
    BY <1>0, <1>3, <1>a, ClosedType, Bounds DEF ConnectFail
  <2>2. QED BY <1>0, <1>3, <2>1 DEF ConnectFail, TypeInv, TypeOK, HdNamed, session, queues, pool
<1>4. CASE Send
  <2>1. sent' \in 1 .. MaxSent /\ sent' \in 0 .. MaxSent
    BY <1>4, <1>a, Bounds DEF Send
  <2>2. output' \in Seq(OutSet) /\ cache' \in Seq(1 .. MaxSent) /\ Len(cache') <= CacheMax
    <3>1. output \in Seq(OutSet) /\ cache \in Seq(1 .. MaxSent) /\ Len(cache) <= CacheMax /\ Len(cache) \in Nat
      BY <1>0, Shapes DEF TypeOK
    <3>2. CASE state = "REG_OK"
      <4>1. Data(hd, sent') \in OutSet
        BY <1>0, <2>1, <3>2, DataIsOut DEF HdNamed
      <4>2. output' = Append(output, Data(hd, sent')) /\ cache' = cache
        BY <1>4, <3>2 DEF Send
      <4>3. QED BY <3>1, <4>1, <4>2
    <3>3. CASE state # "REG_OK"
      <4>1. output' = output /\ cache' = AddCacheMsg(sent')
        BY <1>4, <3>3 DEF Send
      <4>2. CASE Len(cache) < CacheMax
        <5>1. cache' = Append(cache, sent')
          BY <4>1, <4>2 DEF AddCacheMsg
        <5>2. cache' \in Seq(1 .. MaxSent) /\ Len(cache') = Len(cache) + 1
          BY <2>1, <3>1, <5>1, AppendPlaces
        <5>3. QED BY <3>1, <4>1, <4>2, <5>2, Bounds
      <4>3. CASE ~(Len(cache) < CacheMax)
        BY <3>1, <4>1, <4>3 DEF AddCacheMsg
      <4>4. QED BY <4>2, <4>3
    <3>4. QED BY <3>2, <3>3
  <2>3. QED BY <1>0, <1>4, <2>1, <2>2 DEF Send, TypeInv, TypeOK, HdNamed, OutSet, flags, sockets, pool
<1>5. CASE OnConnected
  <2>1. /\ input # <<>> /\ input' = Tail(input) /\ state' = "REG_OK" /\ cache' = <<>>
        /\ output' = output \o [k \in 1 .. Len(cache) |-> Data(hd', cache[k])]
        /\ UNCHANGED <<flags, accept, pool, sockets, tries, sent, written, lost>>
    BY <1>5 DEF OnConnected, Told
  <2>2. input' \in Seq(NewsSet) /\ Head(input) \in NewsSet
    BY <1>0, <2>1, Shapes
  <2>3. hd' \in ConnIds /\ slots' \subseteq ConnIds
    <3>1. Head(input).id \in ConnIds
      BY <2>2, NewsShape
    <3>2. CASE Head(input).id \in slots
      BY <1>0, <1>5, <3>2 DEF OnConnected, HdNamed, TypeOK
    <3>3. CASE Head(input).id \notin slots
      BY <1>0, <1>5, <3>1, <3>3 DEF OnConnected, TypeOK
    <3>4. QED BY <3>2, <3>3
  <2>4. output' \in Seq(OutSet)
    <3>1. ASSUME NEW k \in 1 .. Len(cache) PROVE Data(hd', cache[k]) \in OutSet
      <4>1. cache \in Seq(1 .. MaxSent)
        BY <1>0, Shapes
      <4>2. cache[k] \in 1 .. MaxSent
        BY <4>1, ElementOfSeq, Zenon
      <4>3. QED BY <2>3, <4>2, DataIsOut
    <3>2. [k \in 1 .. Len(cache) |-> Data(hd', cache[k])] \in Seq(OutSet)
      BY <1>0, <3>1, Shapes
    <3>3. QED BY <1>0, <2>1, <3>2, Shapes
  <2>5. cache' \in Seq(1 .. MaxSent) /\ Len(cache') <= CacheMax
    BY <2>1, Bounds
  <2>6. QED BY <1>0, <2>1, <2>2, <2>3, <2>4, <2>5
            DEF TypeInv, TypeOK, HdNamed, NewsSet, OutSet, flags, sockets, pool
<1>6. CASE OnDisconn
  <2>1. /\ input # <<>> /\ input' = Tail(input) /\ Disconnected(Head(input).id)
        /\ output' = Append(output, LayerDisconn(Head(input)))
        /\ UNCHANGED <<accept, pool, fd, tries, sent, written, lost>>
    BY <1>6 DEF OnDisconn, Told
  <2>2. input' \in Seq(NewsSet) /\ Head(input) \in NewsSet
    BY <1>0, <2>1, Shapes
  <2>3. Head(input).id \in ConnIds /\ output' \in Seq(OutSet)
    BY <1>0, <2>1, <2>2, NewsShape, LayerIsOut, Shapes
  <2>4. QED BY <1>0, <2>1, <2>2, <2>3, DisconnectedTypes DEF TypeInv, TypeOK, HdNamed, NewsSet, OutSet, pool
<1>7. CASE OnNoRecv
  <2>1. /\ input # <<>> /\ input' = Tail(input) /\ Disconnected(Head(input).id)
        /\ UNCHANGED <<accept, output, pool, fd, tries, sent, written, lost>>
    BY <1>7 DEF OnNoRecv, Told
  <2>2. input' \in Seq(NewsSet) /\ Head(input) \in NewsSet
    BY <1>0, <2>1, Shapes
  <2>3. Head(input).id \in ConnIds
    BY <2>2, NewsShape
  <2>4. QED BY <1>0, <2>1, <2>2, <2>3, DisconnectedTypes DEF TypeInv, TypeOK, HdNamed, NewsSet, pool
<1>8. ASSUME NEW id \in ConnIds, IoAccept(id) PROVE TypeInv'
  <2>1. Head(accept) \in Tries /\ accept' \in Seq(Tries) /\ Head(accept) \in 0 .. MaxTries
    BY <1>0, <1>8, Shapes, Bounds DEF IoAccept
  <2>2. [type |-> "NET_CONNECTED", id |-> id, try |-> Head(accept)] \in NewsSet
    BY <2>1 DEF NewsSet, NewsTypes
  <2>3. input' \in Seq(NewsSet) /\ conn' \in [ConnIds -> 0 .. MaxTries]
    BY <1>0, <1>8, <2>1, <2>2, Shapes DEF IoAccept
  <2>4. QED BY <1>0, <1>8, <2>1, <2>3 DEF IoAccept, TypeInv, TypeOK, HdNamed, NewsSet, flags, session, sockets
<1>9. CASE IoRefuse
  <2>1. Head(accept) \in 0 .. MaxTries /\ accept' \in Seq(Tries)
    BY <1>0, <1>9, Shapes, Bounds DEF IoRefuse
  <2>2. holder' \in [Fds -> 0 .. MaxTries]
    BY <1>0, <1>9, <2>1, ClosedType DEF IoRefuse
  <2>3. QED BY <1>0, <1>9, <2>1, <2>2 DEF IoRefuse, TypeInv, TypeOK, HdNamed, flags, session, pool
<1>10. ASSUME NEW id \in ConnIds, IoError(id) PROVE TypeInv'
  <2>1. conn[id] \in Tries
    BY <1>10, <1>a, Bounds DEF IoError, Alive
  <2>2. News("NET_DISCONN", id) \in NewsSet
    BY <2>1 DEF News, NewsSet, NewsTypes
  <2>3. input' \in Seq(NewsSet)
    BY <1>0, <1>10, <2>2, Shapes DEF IoError
  <2>4. QED BY <1>0, <1>10, <2>3 DEF IoError, TypeInv, TypeOK, HdNamed, NewsSet, flags, session, sockets, pool
<1>11. ASSUME NEW id \in ConnIds, IoIdle(id) PROVE TypeInv'
  <2>1. conn[id] \in Tries
    BY <1>11, <1>a, Bounds DEF IoIdle
  <2>2. News("NET_NORECV", id) \in NewsSet
    BY <2>1 DEF News, NewsSet, NewsTypes
  <2>3. input' \in Seq(NewsSet)
    BY <1>0, <1>11, <2>2, Shapes DEF IoIdle
  <2>4. QED BY <1>0, <1>11, <2>3 DEF IoIdle, TypeInv, TypeOK, HdNamed, NewsSet, flags, session, sockets
<1>12. CASE IoSend
  <2>1. output # <<>> /\ Head(output).type = "DATA" /\ output' = Tail(output)
    BY <1>12 DEF IoSend, Taken
  <2>2. output' \in Seq(OutSet) /\ Head(output) \in OutSet
    BY <1>0, <2>1, Shapes
  <2>3. Head(output).msg \in 1 .. MaxSent
    BY <2>1, <2>2, OutShape
  <2>4. written' \in Seq(1 .. MaxSent)
    <3>1. written' = written \/ written' = Append(written, Head(output).msg)
      BY <1>12 DEF IoSend
    <3>2. written \in Seq(1 .. MaxSent)
      BY <1>0, Shapes
    <3>3. Append(written, Head(output).msg) \in Seq(1 .. MaxSent)
      BY <2>3, <3>2
    <3>4. QED BY <3>1, <3>2, <3>3
  <2>5. QED BY <1>0, <1>12, <2>2, <2>4 DEF IoSend, TypeInv, TypeOK, HdNamed, OutSet, flags, session, sockets, pool
<1>13. CASE IoDisconn
  <2>1. output # <<>> /\ output' = Tail(output)
    BY <1>13 DEF IoDisconn, Taken
  <2>2. output' \in Seq(OutSet) /\ Head(output) \in OutSet
    BY <1>0, <2>1, Shapes
  <2>3. Head(output).id \in ConnIds
    BY <2>2, OutShape
  <2>4. holder' \in [Fds -> 0 .. MaxTries] /\ conn' \in [ConnIds -> 0 .. MaxTries]
    BY <1>0, <1>13, <1>a, <2>3, ClosedType, Shapes, Bounds DEF IoDisconn
  <2>5. lost' \in BOOLEAN
    BY <1>0, <1>13 DEF IoDisconn, Cuts, TypeOK
  <2>6. QED BY <1>0, <1>13, <2>2, <2>4, <2>5 DEF IoDisconn, TypeInv, TypeOK, HdNamed, OutSet, flags, session
<1>14. CASE IoDrop
  <2>1. idle \in ConnIds /\ conn[idle] \in 0 .. MaxTries /\ 0 \in 0 .. MaxTries
    BY <1>0, <1>14, <1>a, Bounds DEF IoDrop, TypeOK
  <2>2. holder' \in [Fds -> 0 .. MaxTries] /\ conn' \in [ConnIds -> 0 .. MaxTries]
    BY <1>0, <1>14, <2>1, ClosedType, Shapes DEF IoDrop
  <2>3. lost' \in BOOLEAN
    BY <1>0, <1>14 DEF IoDrop, Cuts, TypeOK
  <2>4. QED BY <1>0, <1>14, <2>2, <2>3 DEF IoDrop, TypeInv, TypeOK, HdNamed, flags, session, queues
<1>15. CASE UNCHANGED vars
  BY <1>0, <1>15 DEF vars, flags, session, queues, pool, sockets, TypeInv, TypeOK, HdNamed
<1>16. QED BY <1>1, <1>2, <1>3, <1>4, <1>5, <1>6, <1>7, <1>8, <1>9, <1>10, <1>11, <1>12, <1>13, <1>14, <1>15
           DEF Next, TryConnect, ConnectEnds, LogicStep, IoStep, IoTake

\* The variables keep their types: a message that is sent always has a connection, and every
\* piece of news is about an attempt that was made.
THEOREM TypeCorrect == Spec => []TypeOK
<1>1. TypeInv => TypeOK
  BY DEF TypeInv
<1>2. QED BY TypeInit, TypeNext, <1>1, PTL DEF Spec

---------------------------------------------------------------------------
(* Where word of the connection try is *)

\* ReconnEvent connects or is connected, and has a buffer when it does.
OneFlag == ~(connected /\ connecting) /\ ((connected \/ connecting) <=> try # 0)

\* Only one slot names the session.
OneSlot == slots \subseteq {hd}

\* What is on its way, or with the IO thread, is about attempts that were made.
NoneNewer ==
  /\ try <= tries
  /\ \A id \in ConnIds : conn[id] <= tries
  /\ \A k \in 1 .. Len(input) : input[k].try <= tries
  /\ \A k \in 1 .. Len(output) : output[k].try <= tries

IsConnected(k) == input[k].type = "NET_CONNECTED"

\* A connection in the Accept queue is try, alone, and the session has heard of none.
Handed ==
  accept # <<>> =>
    /\ accept = <<try>> /\ connected /\ slots = {}
    /\ \A k \in 1 .. Len(input) : ~IsConnected(k)

\* The connection whose id names the session is try, until its end all the news of this id
\* are about it.
Named ==
  \A id \in slots :
    /\ connected /\ conn[id] \in {0, try}
    /\ \A k \in 1 .. Len(input) : ~IsConnected(k) /\ (input[k].id = id => input[k].try = try)

\* There is at most one NET_CONNECTED on its way.  It is about try, and so is what comes behind
\* it with the same id: what an earlier connection of this id has left comes before it.
Announced ==
  \A k \in 1 .. Len(input) : IsConnected(k) =>
    /\ connected /\ slots = {} /\ input[k].try = try /\ conn[input[k].id] \in {0, try}
    /\ \A j \in 1 .. Len(input) :
         /\ IsConnected(j) => j = k
         /\ k < j /\ input[j].id = input[k].id => input[j].try = try

\* The session knows this id, or will before it comes to the news k.
KnownBy(id, k) == id \in slots \/ \E j \in 1 .. k : IsConnected(j) /\ input[j].id = id

\* The news of try come under an id the session knows.
OwnNews ==
  /\ \A id \in ConnIds : conn[id] = try /\ try # 0 => KnownBy(id, Len(input))
  /\ \A k \in 1 .. Len(input) : input[k].try = try => KnownBy(input[k].id, k)

\* try has not been disconnected by the logic thread.
NotEnded == \A k \in 1 .. Len(output) : output[k] \in LayerDisconns => output[k].try # try

FlagInv ==
  OneFlag /\ OneSlot /\ NoneNewer /\ Handed /\ Named /\ Announced /\ OwnNews /\ NotEnded

\* The IO thread tells of the connection id.
LEMMA TellKeeps ==
  ASSUME TypeOK, FlagInv, NEW id \in ConnIds, conn[id] # 0,
         NEW type \in NewsTypes, type # "NET_CONNECTED",
         input' = Append(input, News(type, id)),
         UNCHANGED <<connected, connecting, try, hd, slots, accept, output, conn, tries>>
  PROVE  FlagInv'
<1>0. PICK len \in Nat : len = Len(input)
  BY Shapes
<1>n. PICK n \in NewsSet : n = News(type, id) /\ n.type = type /\ n.id = id /\ n.try = conn[id]
  <2>1. conn[id] \in 1 .. MaxTries
    BY Shapes, Bounds
  <2>2. QED BY <2>1, Bounds DEF News, NewsSet
<1>1. /\ n \in NewsSet /\ n.type = type /\ n.id = id /\ n.try = conn[id]
      /\ input \in Seq(NewsSet) /\ len \in Nat /\ conn \in [ConnIds -> 0 .. MaxTries]
      /\ input' = Append(input, n) /\ len = Len(input)
  BY <1>0, <1>n, Shapes
<1>2. /\ Len(input') = len + 1 /\ input'[len + 1] = n
      /\ \A k \in 1 .. len : input'[k] = input[k]
  BY <1>1, AppendPlaces
<1>3. \A k \in 1 .. Len(input') : k \in 1 .. len \/ k = len + 1
  BY <1>1, <1>2
<1>4. \A i \in ConnIds : conn'[i] = conn[i] \/ (i = id /\ conn'[i] = 0)
  BY <1>1
<1>5. \A k \in 1 .. Len(input') : IsConnected(k)' => k \in 1 .. len /\ IsConnected(k)
  BY <1>1, <1>2, <1>3 DEF IsConnected
<1>6. \A k \in 1 .. len : IsConnected(k)' = IsConnected(k) /\ k \in 1 .. Len(input')
  BY <1>1, <1>2 DEF IsConnected
<1>7. \A i \in ConnIds, k \in 0 .. len : KnownBy(i, k) => KnownBy(i, k)' /\ KnownBy(i, len + 1)'
  <2>1. ASSUME NEW i \in ConnIds, NEW k \in 0 .. len, KnownBy(i, k), NEW m \in {k, len + 1}
        PROVE  KnownBy(i, m)'
    <3>1. CASE i \in slots
      BY <3>1 DEF KnownBy
    <3>2. CASE i \notin slots
      <4>1. PICK j \in 1 .. k : IsConnected(j) /\ input[j].id = i
        BY <2>1, <3>2 DEF KnownBy
      <4>2. j \in 1 .. len /\ j \in 1 .. m
        BY <1>1, <2>1
      <4>3. IsConnected(j)' /\ input'[j].id = i
        BY <1>2, <1>6, <4>1, <4>2
      <4>4. QED BY <4>2, <4>3 DEF KnownBy
    <3>3. QED BY <3>1, <3>2
  <2>2. QED BY <2>1
<1>8. /\ OneFlag /\ OneSlot /\ NoneNewer /\ Handed /\ Named /\ Announced /\ OwnNews /\ NotEnded
      /\ slots \subseteq ConnIds /\ tries \in Nat /\ try \in Nat
      /\ \A k \in 1 .. len : input[k] \in NewsSet /\ input[k].id \in ConnIds
  <2>1. \A k \in 1 .. len : input[k] \in NewsSet
    BY <1>0, Shapes
  <2>2. \A k \in 1 .. len : input[k].id \in ConnIds
    BY <2>1, NewsShape
  <2>3. slots \subseteq ConnIds /\ tries \in Nat /\ try \in Nat
    BY Shapes, Bounds DEF TypeOK
  <2>4. QED BY <2>1, <2>2, <2>3 DEF FlagInv
<1>9. OneFlag' /\ OneSlot' /\ NotEnded'
  BY <1>8 DEF OneFlag, OneSlot, NotEnded
<1>10. NoneNewer'
  <2>1. \A i \in ConnIds : conn'[i] <= tries
    BY <1>4, <1>8 DEF NoneNewer
  <2>2. \A k \in 1 .. Len(input') : input'[k].try <= tries
    BY <1>1, <1>2, <1>3, <1>8 DEF NoneNewer
  <2>3. QED BY <1>8, <2>1, <2>2 DEF NoneNewer
<1>11. Handed'
  BY <1>5, <1>8, <1>0 DEF Handed
<1>12. Named'
  <2>1. ASSUME NEW i \in slots PROVE connected /\ conn'[i] \in {0, try}
    BY <1>4, <1>8, <2>1 DEF Named
  <2>2. ASSUME NEW i \in slots, NEW k \in 1 .. Len(input')
        PROVE  ~IsConnected(k)' /\ (input'[k].id = i => input'[k].try = try)
    <3>1. ~IsConnected(k)'
      BY <1>5, <1>0, <1>8, <2>2 DEF Named
    <3>2. CASE k \in 1 .. len
      BY <1>0, <1>2, <1>8, <3>1, <3>2 DEF Named
    <3>3. CASE k = len + 1
      BY <1>1, <1>2, <1>8, <3>1, <3>3 DEF Named
    <3>4. QED BY <1>3, <3>2, <3>3
  <2>3. QED BY <2>1, <2>2 DEF Named
<1>13. Announced'
  <2>1. ASSUME NEW k \in 1 .. Len(input'), IsConnected(k)'
        PROVE  /\ connected /\ slots = {} /\ input'[k].try = try /\ conn'[input'[k].id] \in {0, try}
               /\ k \in 1 .. len /\ IsConnected(k) /\ input'[k] = input[k]
               /\ conn[input[k].id] \in {0, try}
    <3>1. k \in 1 .. len /\ IsConnected(k) /\ input'[k] = input[k]
      BY <1>2, <1>5, <2>1
    <3>2. connected /\ slots = {} /\ input[k].try = try /\ conn[input[k].id] \in {0, try}
      BY <1>0, <1>8, <3>1 DEF Announced
    <3>3. QED BY <1>4, <1>8, <3>1, <3>2
  <2>2. ASSUME NEW k \in 1 .. Len(input'), IsConnected(k)', NEW j \in 1 .. Len(input')
        PROVE  /\ IsConnected(j)' => j = k
               /\ k < j /\ input'[j].id = input'[k].id => input'[j].try = try
    <3>1. k \in 1 .. len /\ IsConnected(k) /\ input'[k] = input[k] /\ conn[input[k].id] \in {0, try}
      BY <2>1, <2>2
    <3>2. IsConnected(j)' => j = k
      BY <1>0, <1>5, <1>8, <3>1 DEF Announced
    <3>3. CASE j \in 1 .. len
      BY <1>0, <1>2, <1>8, <3>1, <3>2, <3>3 DEF Announced
    <3>4. CASE j = len + 1
      BY <1>1, <1>2, <3>1, <3>2, <3>4
    <3>5. QED BY <1>3, <3>3, <3>4
  <2>3. QED BY <2>1, <2>2 DEF Announced
<1>14. OwnNews'
  <2>1. ASSUME NEW i \in ConnIds, conn'[i] = try, try # 0 PROVE KnownBy(i, Len(input))'
    <3>1. conn[i] = try
      BY <1>4, <2>1
    <3>2. KnownBy(i, len)
      BY <1>0, <1>8, <2>1, <3>1 DEF OwnNews
    <3>3. len \in 0 .. len
      BY <1>1
    <3>4. KnownBy(i, len + 1)'
      BY <1>7, <3>2, <3>3
    <3>5. QED BY <1>2, <3>4 DEF KnownBy
  <2>2. ASSUME NEW k \in 1 .. Len(input'), input'[k].try = try PROVE KnownBy(input[k].id, k)'
    <3>1. CASE k \in 1 .. len
      <4>1. input[k].try = try /\ input'[k].id = input[k].id /\ input[k].id \in ConnIds /\ k \in 0 .. len
        BY <1>2, <1>8, <2>2, <3>1
      <4>2. KnownBy(input[k].id, k)
        BY <1>0, <1>8, <3>1, <4>1 DEF OwnNews
      <4>3. PICK i \in ConnIds : i = input[k].id
        BY <4>1
      <4>4. KnownBy(i, k)'
        BY <1>7, <4>1, <4>2, <4>3
      <4>5. QED BY <4>1, <4>3, <4>4 DEF KnownBy
    <3>2. CASE k = len + 1
      <4>1. conn[id] = try /\ try # 0 /\ input'[k].id = id
        BY <1>1, <1>2, <2>2, <3>2
      <4>2. KnownBy(id, len) /\ len \in 0 .. len
        BY <1>0, <1>1, <1>8, <4>1 DEF OwnNews
      <4>3. KnownBy(id, len + 1)'
        BY <1>7, <4>2
      <4>4. QED BY <3>2, <4>1, <4>3 DEF KnownBy
    <3>3. QED BY <1>3, <3>1, <3>2
  <2>3. QED BY <2>1, <2>2 DEF OwnNews
<1>15. QED BY <1>9, <1>10, <1>11, <1>12, <1>13, <1>14 DEF FlagInv

\* The Output queue or the connections lose something, the flags and the session nothing.
LEMMA DropKeeps ==
  ASSUME TypeOK, FlagInv,
         UNCHANGED <<connected, connecting, try, hd, slots, accept, input, tries>>,
         \A id \in ConnIds : conn'[id] \in {0, conn[id]},
         \A k \in 1 .. Len(output') :
           /\ output'[k].try <= tries
           /\ output'[k] \in LayerDisconns => output'[k].try # try
  PROVE  FlagInv'
<1>1. /\ OneFlag /\ OneSlot /\ NoneNewer /\ Handed /\ Named /\ Announced /\ OwnNews
      /\ slots \subseteq ConnIds /\ tries \in Nat /\ Len(input) \in Nat
      /\ \A k \in 1 .. Len(input) : input[k].id \in ConnIds
  BY Shapes, NewsShape DEF FlagInv, TypeOK
<1>2. \A k \in 1 .. Len(input) : IsConnected(k)' = IsConnected(k)
  BY DEF IsConnected
<1>3. OneFlag' /\ OneSlot' /\ NotEnded'
  BY <1>1 DEF OneFlag, OneSlot, NotEnded
<1>4. NoneNewer'
  BY <1>1 DEF NoneNewer
<1>5. Handed'
  BY <1>1, <1>2 DEF Handed
<1>6. Named'
  BY <1>1, <1>2 DEF Named
<1>7. Announced'
  <2>1. ASSUME NEW k \in 1 .. Len(input'), IsConnected(k)'
        PROVE  /\ connected /\ slots = {} /\ input[k].try = try /\ conn'[input[k].id] \in {0, try}
               /\ \A j \in 1 .. Len(input) :
                    /\ IsConnected(j) => j = k
                    /\ k < j /\ input[j].id = input[k].id => input[j].try = try
    BY <1>1, <1>2, <2>1 DEF Announced
  <2>2. QED BY <1>2, <2>1 DEF Announced
<1>8. OwnNews'
  <2>1. ASSUME NEW i \in ConnIds, NEW k \in 0 .. Len(input), KnownBy(i, k) PROVE KnownBy(i, k)'
    <3>1. \A j \in 1 .. k : j \in 1 .. Len(input)
      BY <1>1
    <3>2. QED BY <1>2, <2>1, <3>1 DEF KnownBy
  <2>2. ASSUME NEW i \in ConnIds, conn'[i] = try, try # 0 PROVE KnownBy(i, Len(input))'
    <3>1. PICK len \in 0 .. Len(input) : len = Len(input)
      BY <1>1
    <3>2. KnownBy(i, len)
      BY <1>1, <2>2, <3>1 DEF OwnNews
    <3>3. KnownBy(i, len)'
      BY <2>1, <3>2
    <3>4. QED BY <3>1, <3>3 DEF KnownBy
  <2>3. ASSUME NEW k \in 1 .. Len(input'), input'[k].try = try PROVE KnownBy(input[k].id, k)'
    <3>1. PICK i \in ConnIds : i = input[k].id
      BY <1>1, <2>3
    <3>2. KnownBy(i, k) /\ k \in 0 .. Len(input)
      BY <1>1, <2>3, <3>1 DEF OwnNews
    <3>3. KnownBy(i, k)'
      BY <2>1, <3>2
    <3>4. QED BY <3>1, <3>3 DEF KnownBy
  <2>4. QED BY <2>2, <2>3 DEF OwnNews
<1>9. QED BY <1>3, <1>4, <1>5, <1>6, <1>7, <1>8 DEF FlagInv

\* The logic thread takes a NET_DISCONN or a NET_NORECV, and may answer with a LAYER_DISCONN.
LEMMA TakeKeeps ==
  ASSUME TypeOK, FlagInv, input # <<>>, input' = Tail(input), ~IsConnected(1),
         Disconnected(input[1].id), UNCHANGED <<accept, conn, tries>>,
         output' = output \/ output' = Append(output, LayerDisconn(input[1]))
  PROVE  FlagInv' /\ (input[1].try = try => connected' = FALSE)
<1>0. PICK len \in Nat : len = Len(input)
  BY Shapes
<1>1. /\ input \in Seq(NewsSet) /\ output \in Seq(OutSet) /\ len > 0 /\ Len(input') = len - 1
      /\ \A k \in 1 .. len - 1 : input'[k] = input[k + 1]
      /\ \A k \in 1 .. len : input[k] \in NewsSet /\ input[k].id \in ConnIds /\ input[k].try \in 1 .. MaxTries
      /\ \A k \in 1 .. Len(output) : output[k] \in OutSet /\ output[k].try \in Nat
      /\ try \in Nat /\ tries \in Nat /\ slots \subseteq ConnIds /\ MaxTries \in Nat
  <2>1. input \in Seq(NewsSet) /\ input # <<>> /\ output \in Seq(OutSet)
    BY Shapes
  <2>2. /\ Len(input) > 0 /\ Len(input') = Len(input) - 1
        /\ \A k \in 1 .. Len(input) - 1 : input'[k] = input[k + 1]
    BY <2>1, TailPlaces
  <2>3. \A k \in 1 .. len : input[k] \in NewsSet
    BY <1>0, Shapes
  <2>4. \A k \in 1 .. Len(output) : output[k] \in OutSet
    BY Shapes
  <2>5. \A k \in 1 .. Len(output) : output[k].try \in Nat
    BY <2>4, OutShape, Bounds
  <2>6. \A k \in 1 .. len : input[k].id \in ConnIds /\ input[k].try \in 1 .. MaxTries
    BY <2>3, NewsShape
  <2>7. try \in Nat /\ tries \in Nat /\ slots \subseteq ConnIds /\ MaxTries \in Nat
    BY Shapes, Bounds DEF TypeOK
  <2>8. QED BY <1>0, <2>1, <2>2, <2>3, <2>4, <2>5, <2>6, <2>7
<1>2. /\ OneFlag /\ OneSlot /\ NoneNewer /\ Handed /\ Named /\ Announced /\ OwnNews /\ NotEnded
  BY DEF FlagInv
<1>3. \A k \in 1 .. len - 1 : k + 1 \in 1 .. len /\ IsConnected(k)' = IsConnected(k + 1)
  BY <1>1 DEF IsConnected
\* What was on its way behind the first news comes one place earlier.
<1>4. ASSUME NEW i \in ConnIds, NEW k \in 1 .. len, KnownBy(i, k), i \notin slots
      PROVE  \E j \in 1 .. k - 1 : IsConnected(j)' /\ input'[j].id = i
  <2>1. PICK j \in 1 .. k : IsConnected(j) /\ input[j].id = i
    BY <1>4 DEF KnownBy
  <2>2. j - 1 \in 1 .. k - 1 /\ j - 1 \in 1 .. len - 1 /\ (j - 1) + 1 = j
    BY <1>1, <2>1
  <2>3. IsConnected(j - 1)' /\ input'[j - 1].id = i
    BY <1>1, <1>3, <2>1, <2>2
  <2>4. QED BY <2>2, <2>3
<1>5. input[1].try = try => input[1].id \in slots
  <2>1. SUFFICES ASSUME input[1].try = try, input[1].id \notin slots PROVE FALSE
    OBVIOUS
  <2>2. 1 \in 1 .. len /\ KnownBy(input[1].id, 1)
    BY <1>0, <1>1, <1>2, <2>1 DEF OwnNews
  <2>3. \E j \in 1 .. 1 : IsConnected(j)
    BY <2>1, <2>2 DEF KnownBy
  <2>4. QED BY <2>3
<1>6. \A k \in 1 .. Len(output') :
        /\ output'[k].try <= tries
        /\ (k \in 1 .. Len(output) /\ output'[k] = output[k]) \/ output'[k].try = input[1].try
  <2>1. CASE output' = output
    BY <1>1, <1>2, <2>1 DEF NoneNewer
  <2>2. CASE output' = Append(output, LayerDisconn(input[1]))
    <3>1. /\ LayerDisconn(input[1]) \in OutSet /\ LayerDisconn(input[1]).try = input[1].try
          /\ input[1].try <= tries
      BY <1>0, <1>1, <1>2, LayerIsOut DEF NoneNewer
    <3>2. /\ Len(output') = Len(output) + 1 /\ output'[Len(output) + 1] = LayerDisconn(input[1])
          /\ Len(output) \in Nat /\ \A k \in 1 .. Len(output) : output'[k] = output[k]
      BY <1>1, <2>2, <3>1, AppendPlaces
    <3>3. \A k \in 1 .. Len(output') : k \in 1 .. Len(output) \/ k = Len(output) + 1
      BY <3>2
    <3>4. QED BY <1>2, <3>1, <3>2, <3>3 DEF NoneNewer
  <2>3. QED BY <2>1, <2>2
\* Also news of another connection changes nothing else.
<1>7. CASE input[1].id \in slots
  <2>1. /\ slots' = slots \ {input[1].id} /\ connected' = FALSE /\ connecting' = FALSE /\ try' = 0
        /\ UNCHANGED hd
    BY <1>7 DEF Disconnected
  <2>2. slots' = {}
    BY <1>2, <1>7, <2>1 DEF OneSlot
  <2>3. accept = <<>> /\ \A k \in 1 .. len : ~IsConnected(k)
    BY <1>0, <1>2, <1>7 DEF Handed, Named
  <2>4. \A k \in 1 .. Len(input') : ~IsConnected(k)' /\ input'[k].try # 0 /\ input'[k].try <= tries
    <3>1. ASSUME NEW k \in 1 .. len - 1
          PROVE  ~IsConnected(k)' /\ input'[k].try # 0 /\ input'[k].try <= tries
      BY <1>0, <1>1, <1>2, <1>3, <2>3 DEF NoneNewer
    <3>2. QED BY <1>1, <3>1
  <2>5. OneFlag' /\ OneSlot' /\ Handed' /\ Named'
    BY <2>1, <2>2, <2>3 DEF OneFlag, OneSlot, Handed, Named
  <2>6. Announced' /\ OwnNews'
    BY <2>1, <2>4 DEF Announced, OwnNews
  <2>7. NoneNewer'
    BY <1>1, <1>2, <1>6, <2>1, <2>4 DEF NoneNewer
  <2>8. NotEnded'
    <3>1. ASSUME NEW k \in 1 .. Len(output'), output'[k] \in LayerDisconns PROVE output'[k].try # 0
      BY <3>1, OutShape, Bounds DEF OutSet
    <3>2. QED BY <2>1, <3>1 DEF NotEnded
  <2>9. QED BY <2>1, <2>5, <2>6, <2>7, <2>8 DEF FlagInv
<1>8. CASE input[1].id \notin slots
  <2>1. UNCHANGED <<connected, connecting, try, hd, slots>> /\ input[1].try # try
    BY <1>5, <1>8 DEF Disconnected, flags, session
  <2>2. OneFlag' /\ OneSlot'
    BY <1>2, <2>1 DEF OneFlag, OneSlot
  <2>3. NoneNewer'
    <3>1. ASSUME NEW k \in 1 .. len - 1 PROVE input'[k].try <= tries
      BY <1>0, <1>1, <1>2, <1>3 DEF NoneNewer
    <3>2. QED BY <1>1, <1>2, <1>6, <2>1, <3>1 DEF NoneNewer
  <2>4. Handed'
    BY <1>0, <1>1, <1>2, <1>3, <2>1 DEF Handed
  <2>5. Named'
    <3>1. ASSUME NEW i \in slots PROVE connected /\ conn[i] \in {0, try}
      BY <1>2, <3>1 DEF Named
    <3>2. ASSUME NEW i \in slots, NEW k \in 1 .. len - 1
          PROVE  ~IsConnected(k)' /\ (input'[k].id = i => input'[k].try = try)
      BY <1>0, <1>1, <1>2, <1>3, <3>2 DEF Named
    <3>3. QED BY <1>1, <2>1, <3>1, <3>2 DEF Named
  <2>6. Announced'
    <3>1. ASSUME NEW k \in 1 .. len - 1, IsConnected(k)'
          PROVE  /\ connected /\ slots = {} /\ input'[k].try = try /\ conn[input'[k].id] \in {0, try}
                 /\ \A j \in 1 .. len - 1 :
                      /\ IsConnected(j)' => j = k
                      /\ k < j /\ input'[j].id = input'[k].id => input'[j].try = try
      <4>1. k + 1 \in 1 .. len /\ IsConnected(k + 1) /\ input'[k] = input[k + 1]
        BY <1>1, <1>3, <3>1
      <4>2. /\ connected /\ slots = {} /\ input[k + 1].try = try /\ conn[input[k + 1].id] \in {0, try}
            /\ \A j \in 1 .. len :
                 /\ IsConnected(j) => j = k + 1
                 /\ k + 1 < j /\ input[j].id = input[k + 1].id => input[j].try = try
        BY <1>0, <1>2, <4>1 DEF Announced
      <4>3. ASSUME NEW j \in 1 .. len - 1
            PROVE  /\ IsConnected(j)' => j = k
                   /\ k < j /\ input'[j].id = input'[k].id => input'[j].try = try
        <5>1. j + 1 \in 1 .. len /\ IsConnected(j)' = IsConnected(j + 1) /\ input'[j] = input[j + 1]
          BY <1>1, <1>3
        <5>2. (j + 1 = k + 1 => j = k) /\ (k < j => k + 1 < j + 1)
          OBVIOUS
        <5>3. QED BY <4>1, <4>2, <5>1, <5>2
      <4>4. QED BY <4>1, <4>2, <4>3
    <3>2. /\ 1 .. Len(input') = 1 .. len - 1
          /\ connected' = connected /\ slots' = slots /\ try' = try /\ conn' = conn
      BY <1>1, <2>1
    <3>3. ASSUME NEW k \in 1 .. Len(input'), IsConnected(k)'
          PROVE  /\ connected' /\ slots' = {} /\ input'[k].try = try' /\ conn'[input'[k].id] \in {0, try'}
                 /\ \A j \in 1 .. Len(input') :
                      /\ IsConnected(j)' => j = k
                      /\ k < j /\ input'[j].id = input'[k].id => input'[j].try = try'
      BY <3>1, <3>2, <3>3
    <3>4. QED BY <3>3 DEF Announced
  <2>7. OwnNews'
    <3>1. ASSUME NEW i \in ConnIds, conn[i] = try, try # 0 PROVE KnownBy(i, Len(input))'
      <4>1. KnownBy(i, len) /\ len \in 1 .. len
        BY <1>0, <1>1, <1>2, <3>1 DEF OwnNews
      <4>2. i \in slots \/ \E j \in 1 .. len - 1 : IsConnected(j)' /\ input'[j].id = i
        BY <1>4, <4>1
      <4>3. QED BY <1>1, <2>1, <4>2 DEF KnownBy
    <3>2. ASSUME NEW k \in 1 .. Len(input'), input'[k].try = try PROVE KnownBy(input[k].id, k)'
      <4>1. k \in 1 .. len - 1 /\ k + 1 \in 1 .. len /\ input'[k] = input[k + 1]
        BY <1>1, <1>3
      <4>2. PICK i \in ConnIds : i = input[k + 1].id
        BY <1>1, <4>1
      <4>3. KnownBy(i, k + 1)
        BY <1>0, <1>2, <2>1, <3>2, <4>1, <4>2 DEF OwnNews
      <4>4. i \in slots \/ \E j \in 1 .. (k + 1) - 1 : IsConnected(j)' /\ input'[j].id = i
        BY <1>4, <4>1, <4>3
      <4>5. (k + 1) - 1 = k
        OBVIOUS
      <4>6. QED BY <2>1, <4>1, <4>2, <4>4, <4>5 DEF KnownBy
    <3>3. QED BY <2>1, <3>1, <3>2 DEF OwnNews
  <2>8. NotEnded'
    <3>1. ASSUME NEW k \in 1 .. Len(output'), output'[k] \in LayerDisconns PROVE output'[k].try # try
      <4>1. CASE k \in 1 .. Len(output) /\ output'[k] = output[k]
        BY <1>2, <3>1, <4>1 DEF NotEnded
      <4>2. CASE output'[k].try = input[1].try
        BY <2>1, <4>2
      <4>3. QED BY <1>6, <4>1, <4>2
    <3>2. QED BY <2>1, <3>1 DEF NotEnded
  <2>9. QED BY <2>1, <2>2, <2>3, <2>4, <2>5, <2>6, <2>7, <2>8 DEF FlagInv
<1>9. QED BY <1>5, <1>7, <1>8 DEF Disconnected

\* An attempt begins or ends, or its connection goes to the IO thread.
LEMMA FlagConnect ==
  ASSUME TypeOK, FlagInv, NEW f \in Fds, Connect(f)
  PROVE  FlagInv'
<1>1. /\ OneFlag /\ OneSlot /\ NoneNewer /\ Handed /\ Named /\ Announced /\ OwnNews /\ NotEnded
      /\ tries \in Nat /\ Len(input) \in Nat
      /\ \A id \in ConnIds : conn[id] \in Nat
      /\ \A k \in 1 .. Len(input) : input[k].try \in Nat
      /\ \A k \in 1 .. Len(output) : output[k].try \in Nat
  <2>1. \A k \in 1 .. Len(input) : input[k].try \in Nat
    BY Shapes, NewsShape, Bounds
  <2>2. \A k \in 1 .. Len(output) : output[k].try \in Nat
    BY Shapes, OutShape, Bounds
  <2>3. QED BY <2>1, <2>2, Shapes, Bounds DEF FlagInv
<1>2. /\ ~connected /\ ~connecting /\ tries' = tries + 1 /\ try' = tries + 1
      /\ connecting' = TRUE /\ connected' = FALSE
      /\ UNCHANGED <<hd, slots, accept, input, output, conn>>
  BY DEF Connect, session, queues, pool
<1>3. slots = {} /\ accept = <<>> /\ \A k \in 1 .. Len(input) : ~IsConnected(k)
  BY <1>1, <1>2 DEF Handed, Named, Announced
<1>4. \A k \in 1 .. Len(input') : ~IsConnected(k)'
  BY <1>2, <1>3 DEF IsConnected
<1>5. OneFlag' /\ OneSlot' /\ Handed' /\ Named' /\ Announced'
  BY <1>1, <1>2, <1>3, <1>4 DEF OneFlag, OneSlot, Handed, Named, Announced
<1>6. NoneNewer' /\ OwnNews' /\ NotEnded'
  <2>1. \A id \in ConnIds : conn[id] < tries + 1
    BY <1>1 DEF NoneNewer
  <2>2. \A k \in 1 .. Len(input) : input[k].try < tries + 1
    BY <1>1 DEF NoneNewer
  <2>3. \A k \in 1 .. Len(output) : output[k].try < tries + 1
    BY <1>1 DEF NoneNewer
  <2>4. QED BY <1>1, <1>2, <2>1, <2>2, <2>3 DEF NoneNewer, OwnNews, NotEnded
<1>7. QED BY <1>5, <1>6 DEF FlagInv

LEMMA FlagConnectEnds == TypeOK /\ FlagInv /\ ConnectEnds => FlagInv'
<1> SUFFICES ASSUME TypeOK, FlagInv, ConnectEnds PROVE FlagInv'
  OBVIOUS
<1>1. /\ OneFlag /\ OneSlot /\ NoneNewer /\ Handed /\ Named /\ Announced /\ OwnNews /\ NotEnded
      /\ tries \in Nat /\ try \in Nat /\ accept \in Seq(Tries) /\ try \in 0 .. MaxTries
      /\ \A k \in 1 .. Len(input) : input[k] \in NewsSet /\ input[k].try # 0
      /\ \A k \in 1 .. Len(output) : output[k] \in LayerDisconns => output[k].try # 0
  <2>1. \A k \in 1 .. Len(input) : input[k] \in NewsSet /\ input[k].try # 0
    BY Shapes, NewsShape, Bounds
  <2>2. \A k \in 1 .. Len(output) : output[k] \in LayerDisconns => output[k].try # 0
    BY Shapes, OutShape, Bounds
  <2>3. QED BY <2>1, <2>2, Shapes, Bounds DEF FlagInv
<1>2. /\ connecting /\ try # 0 /\ connecting' = FALSE
      /\ UNCHANGED <<hd, slots, input, output, conn, tries>>
  BY DEF ConnectEnds, ConnectOk, ConnectFail, Alive, session, queues, sockets, pool
<1>3. /\ slots = {} /\ accept = <<>> /\ connected = FALSE
      /\ \A k \in 1 .. Len(input) : ~IsConnected(k)
  BY <1>1, <1>2, Shapes DEF OneFlag, Handed, Named, Announced, TypeOK
<1>4. \A k \in 1 .. Len(input') : ~IsConnected(k)'
  BY <1>2, <1>3 DEF IsConnected
<1>5. /\ \A id \in ConnIds : conn[id] # try
      /\ \A k \in 1 .. Len(input) : input[k].try # try
  <2>1. \A id \in ConnIds, k \in 0 .. Len(input) : ~KnownBy(id, k)
    BY <1>3, Shapes DEF KnownBy
  <2>2. Len(input) \in 0 .. Len(input) /\ \A k \in 1 .. Len(input) : k \in 0 .. Len(input)
    BY Shapes
  <2>3. \A k \in 1 .. Len(input) : input[k].id \in ConnIds
    BY <1>1, NewsShape
  <2>4. QED BY <1>1, <1>2, <2>1, <2>2, <2>3 DEF OwnNews
<1>6. CASE ConnectOk
  <2>1. connected' = TRUE /\ try' = try /\ accept' = Append(accept, try)
    BY <1>6 DEF ConnectOk
  <2>2. accept' = <<try>>
    BY <1>3, <2>1
  <2>3. OneFlag' /\ OneSlot' /\ Handed' /\ Named' /\ Announced'
    BY <1>1, <1>2, <1>3, <1>4, <2>1, <2>2 DEF OneFlag, OneSlot, Handed, Named, Announced
  <2>4. NoneNewer' /\ OwnNews' /\ NotEnded'
    BY <1>1, <1>2, <1>5, <2>1 DEF NoneNewer, OwnNews, NotEnded
  <2>5. QED BY <2>3, <2>4 DEF FlagInv
<1>7. CASE ConnectFail
  <2>1. connected' = FALSE /\ try' = 0 /\ accept' = accept
    BY <1>3, <1>7 DEF ConnectFail, queues
  <2>2. OneFlag' /\ OneSlot' /\ Handed' /\ Named' /\ Announced'
    BY <1>1, <1>2, <1>3, <1>4, <2>1 DEF OneFlag, OneSlot, Handed, Named, Announced
  <2>3. NoneNewer' /\ OwnNews' /\ NotEnded'
    BY <1>1, <1>2, <2>1 DEF NoneNewer, OwnNews, NotEnded
  <2>4. QED BY <2>2, <2>3 DEF FlagInv
<1>8. QED BY <1>6, <1>7 DEF ConnectEnds

LEMMA FlagAccept ==
  ASSUME TypeOK, FlagInv, NEW id \in ConnIds, IoAccept(id)
  PROVE  FlagInv' /\ Head(accept) = try /\ accept' = <<>>
<1>1. /\ OneFlag /\ OneSlot /\ NoneNewer /\ Handed /\ Named /\ Announced /\ OwnNews /\ NotEnded
      /\ tries \in Nat /\ try \in 0 .. MaxTries /\ input \in Seq(NewsSet) /\ accept \in Seq(Tries)
      /\ conn \in [ConnIds -> 0 .. MaxTries]
  BY Shapes DEF FlagInv
<1>2. /\ accept # <<>> /\ accept' = Tail(accept) /\ conn[id] = 0
      /\ conn' = [conn EXCEPT ![id] = Head(accept)]
      /\ input' = Append(input, [type |-> "NET_CONNECTED", id |-> id, try |-> Head(accept)])
      /\ UNCHANGED <<connected, connecting, try, hd, slots, output, tries>>
  BY DEF IoAccept, flags, session, sockets
<1>3. /\ accept = <<try>> /\ connected /\ slots = {}
      /\ \A k \in 1 .. Len(input) : ~IsConnected(k)
  BY <1>1, <1>2 DEF Handed
<1>4. Head(accept) = try /\ accept' = <<>> /\ try \in Tries /\ try # 0
  <2>1. Head(accept) = try /\ Tail(accept) = <<>>
    BY <1>3
  <2>2. Head(accept) \in Tries
    BY <1>1, <1>2
  <2>3. QED BY <1>2, <2>1, <2>2, Bounds
<1>5. PICK n \in NewsSet : n = [type |-> "NET_CONNECTED", id |-> id, try |-> try]
  BY <1>4 DEF NewsSet, NewsTypes
<1>6. PICK len \in Nat : len = Len(input)
  BY Shapes
<1>7. /\ Len(input') = len + 1 /\ input'[len + 1] = n
      /\ n.type = "NET_CONNECTED" /\ n.id = id /\ n.try = try
      /\ \A k \in 1 .. len : input'[k] = input[k]
  BY <1>1, <1>2, <1>4, <1>5, <1>6, AppendPlaces
<1>8. /\ \A k \in 1 .. Len(input') : k \in 1 .. len \/ k = len + 1
      /\ len + 1 \in 1 .. Len(input')
  BY <1>7
<1>9. \A k \in 1 .. Len(input') : IsConnected(k)' <=> k = len + 1
  BY <1>3, <1>6, <1>7, <1>8 DEF IsConnected
\* The connection was not known to the IO thread before.
<1>10. /\ \A i \in ConnIds : conn[i] # try
       /\ \A k \in 1 .. len : input[k].try # try
  <2>1. \A i \in ConnIds, k \in 0 .. len : ~KnownBy(i, k)
    BY <1>3, <1>6 DEF KnownBy
  <2>2. len \in 0 .. len /\ \A k \in 1 .. len : k \in 0 .. len
    BY <1>6
  <2>3. \A k \in 1 .. len : input[k].id \in ConnIds
    BY <1>6, Shapes, NewsShape
  <2>4. QED BY <1>1, <1>4, <1>6, <2>1, <2>2, <2>3 DEF OwnNews
<1>11. OneFlag' /\ OneSlot' /\ NotEnded'
  BY <1>1, <1>2 DEF OneFlag, OneSlot, NotEnded
<1>12. NoneNewer'
  <2>1. \A k \in 1 .. Len(input') : input'[k].try <= tries
    BY <1>1, <1>6, <1>7, <1>8 DEF NoneNewer
  <2>2. \A i \in ConnIds : conn'[i] <= tries
    BY <1>1, <1>2, <1>4 DEF NoneNewer
  <2>3. QED BY <1>1, <1>2, <2>1, <2>2 DEF NoneNewer
<1>13. Handed' /\ Named'
  BY <1>2, <1>3, <1>4 DEF Handed, Named
<1>14. Announced'
  <2>1. conn'[id] = try
    BY <1>1, <1>2, <1>4
  <2>2. \A j \in 1 .. Len(input') : ~(len + 1 < j)
    BY <1>7
  <2>3. ASSUME NEW k \in 1 .. Len(input'), IsConnected(k)'
        PROVE  /\ connected' /\ slots' = {} /\ input'[k].try = try' /\ conn'[input'[k].id] \in {0, try'}
               /\ \A j \in 1 .. Len(input') :
                    /\ IsConnected(j)' => j = k
                    /\ k < j /\ input'[j].id = input'[k].id => input'[j].try = try'
    <3>1. k = len + 1
      BY <1>9, <2>3
    <3>2. QED BY <1>2, <1>3, <1>7, <1>9, <2>1, <2>2, <3>1
  <2>4. QED BY <2>3 DEF Announced
<1>15. OwnNews'
  <2>1. KnownBy(id, len + 1)' /\ (len + 1)' = len + 1
    BY <1>7, <1>8, <1>9 DEF KnownBy
  <2>2. ASSUME NEW i \in ConnIds, conn'[i] = try' PROVE KnownBy(i, Len(input))'
    <3>1. i = id
      BY <1>1, <1>2, <1>10, <2>2
    <3>2. QED BY <1>7, <2>1, <3>1 DEF KnownBy
  <2>3. ASSUME NEW k \in 1 .. Len(input'), input'[k].try = try' PROVE KnownBy(input[k].id, k)'
    <3>1. k = len + 1 /\ input'[k].id = id
      BY <1>2, <1>7, <1>8, <1>10, <2>3
    <3>2. QED BY <2>1, <3>1 DEF KnownBy
  <2>4. QED BY <2>2, <2>3 DEF OwnNews
<1>16. QED BY <1>4, <1>11, <1>12, <1>13, <1>14, <1>15 DEF FlagInv

LEMMA FlagRefuse == TypeOK /\ FlagInv /\ IoRefuse => FlagInv'
<1> SUFFICES ASSUME TypeOK, FlagInv, IoRefuse PROVE FlagInv'
  OBVIOUS
<1>1. /\ OneFlag /\ OneSlot /\ NoneNewer /\ Handed /\ Named /\ Announced /\ OwnNews /\ NotEnded
      /\ accept # <<>> /\ accept' = Tail(accept)
      /\ UNCHANGED <<connected, connecting, try, hd, slots, input, output, conn, tries>>
  BY DEF FlagInv, IoRefuse, flags, session, pool
<1>2. accept' = <<>>
  <2>1. accept = <<try>>
    BY <1>1 DEF Handed
  <2>2. QED BY <1>1, <2>1
<1>3. OneFlag' /\ OneSlot' /\ Handed' /\ Named' /\ NotEnded' /\ NoneNewer'
  BY <1>1, <1>2 DEF OneFlag, OneSlot, Handed, Named, IsConnected, NotEnded, NoneNewer
<1>4. Announced'
  BY <1>1 DEF Announced, IsConnected
<1>5. OwnNews'
  BY <1>1 DEF OwnNews, KnownBy, IsConnected
<1>6. QED BY <1>3, <1>4, <1>5 DEF FlagInv

\* NET_CONNECTED: the slot names the session.
LEMMA FlagConnected == TypeOK /\ FlagInv /\ OnConnected => FlagInv'
<1> SUFFICES ASSUME TypeOK, FlagInv, OnConnected PROVE FlagInv'
  OBVIOUS
<1>0. PICK len \in Nat : len = Len(input)
  BY Shapes
<1>1. /\ OneFlag /\ OneSlot /\ NoneNewer /\ Handed /\ Named /\ Announced /\ OwnNews /\ NotEnded
      /\ input # <<>> /\ input' = Tail(input) /\ Head(input).type = "NET_CONNECTED"
      /\ output' = output \o [k \in 1 .. Len(cache) |-> Data(hd', cache[k])]
      /\ UNCHANGED <<connected, connecting, try, accept, conn, tries>>
      /\ input \in Seq(NewsSet) /\ output \in Seq(OutSet) /\ cache \in Seq(1 .. MaxSent)
      /\ tries \in Nat /\ Len(cache) \in Nat /\ Len(output) \in Nat
  BY Shapes, Bounds DEF FlagInv, OnConnected, Told, flags, sockets, pool
<1>2. /\ len > 0 /\ Len(input') = len - 1 /\ Head(input) = input[1]
      /\ \A k \in 1 .. len - 1 : k + 1 \in 1 .. len /\ input'[k] = input[k + 1]
      /\ \A k \in 1 .. len : input[k] \in NewsSet /\ input[k].id \in ConnIds
  <2>1. \A k \in 1 .. len : input[k] \in NewsSet
    BY <1>0, Shapes
  <2>2. /\ len > 0 /\ Len(input') = len - 1 /\ Head(input) = input[1]
        /\ \A k \in 1 .. len - 1 : input'[k] = input[k + 1]
    BY <1>0, <1>1, TailPlaces
  <2>3. QED BY <2>1, <2>2, NewsShape
<1>3. PICK id \in ConnIds : id = input[1].id
  BY <1>2
<1>4. IsConnected(1) /\ 1 \in 1 .. len
  BY <1>1, <1>2 DEF IsConnected
<1>5. /\ connected /\ slots = {} /\ conn[id] \in {0, try}
      /\ \A j \in 1 .. len :
           /\ IsConnected(j) => j = 1
           /\ 1 < j /\ input[j].id = id => input[j].try = try
      /\ accept = <<>>
  <2>1. /\ connected /\ slots = {} /\ conn[input[1].id] \in {0, try}
        /\ \A j \in 1 .. len :
             /\ IsConnected(j) => j = 1
             /\ 1 < j /\ input[j].id = input[1].id => input[j].try = try
    BY <1>0, <1>1, <1>4 DEF Announced
  <2>2. accept = <<>>
    BY <1>0, <1>1, <1>4 DEF Handed
  <2>3. QED BY <1>3, <2>1, <2>2
<1>6. slots' = {id} /\ hd' = id
  BY <1>2, <1>3, <1>5 DEF OnConnected
<1>7. \A k \in 1 .. Len(input') : ~IsConnected(k)' /\ (input'[k].id = id => input'[k].try = try)
  <2>1. ASSUME NEW k \in 1 .. len - 1
        PROVE  ~IsConnected(k)' /\ (input'[k].id = id => input'[k].try = try)
    <3>1. k + 1 \in 1 .. len /\ input'[k] = input[k + 1] /\ 1 < k + 1
      BY <1>2
    <3>2. ~IsConnected(k + 1) /\ (input[k + 1].id = id => input[k + 1].try = try)
      BY <1>5, <3>1
    <3>3. QED BY <3>1, <3>2 DEF IsConnected
  <2>2. QED BY <1>2, <2>1
<1>8. OneFlag' /\ OneSlot' /\ Handed' /\ Named'
  BY <1>1, <1>5, <1>6, <1>7 DEF OneFlag, OneSlot, Handed, Named
<1>9. Announced'
  BY <1>7 DEF Announced
\* What the session will know, it knows now.
<1>10. ASSUME NEW i \in ConnIds, NEW k \in 1 .. len, KnownBy(i, k) PROVE i = id
  <2>1. PICK j \in 1 .. k : IsConnected(j) /\ input[j].id = i
    BY <1>5, <1>10 DEF KnownBy
  <2>2. j \in 1 .. len
    BY <2>1
  <2>3. QED BY <1>3, <1>5, <2>1, <2>2
<1>11. OwnNews'
  <2>1. ASSUME NEW i \in ConnIds, conn'[i] = try', try' # 0 PROVE KnownBy(i, Len(input))'
    <3>1. KnownBy(i, len) /\ len \in 1 .. len
      BY <1>0, <1>1, <1>2, <2>1 DEF OwnNews
    <3>2. i = id
      BY <1>10, <3>1
    <3>3. QED BY <1>6, <3>2 DEF KnownBy
  <2>2. ASSUME NEW k \in 1 .. Len(input'), input'[k].try = try' PROVE KnownBy(input[k].id, k)'
    <3>1. k + 1 \in 1 .. len /\ input'[k] = input[k + 1]
      BY <1>2
    <3>2. PICK i \in ConnIds : i = input[k + 1].id
      BY <1>2, <3>1
    <3>3. KnownBy(i, k + 1)
      BY <1>0, <1>1, <2>2, <3>1, <3>2 DEF OwnNews
    <3>4. i = id
      BY <1>10, <3>1, <3>3
    <3>5. QED BY <1>6, <3>1, <3>2, <3>4 DEF KnownBy
  <2>3. QED BY <2>1, <2>2 DEF OwnNews
<1>12. /\ \A k \in 1 .. Len(output') : /\ output'[k].try <= tries
                                       /\ output'[k] \in LayerDisconns => output'[k].try # try
  <2> DEFINE more == [k \in 1 .. Len(cache) |-> Data(hd', cache[k])]
  <2>1. more \in Seq(OutSet) /\ Len(more) = Len(cache) /\ \A k \in 1 .. Len(more) : more[k] \in Datas
    <3>1. ASSUME NEW k \in 1 .. Len(cache) PROVE Data(hd', cache[k]) \in OutSet /\ Data(hd', cache[k]) \in Datas
      <4>1. cache[k] \in 1 .. MaxSent
        BY <1>1, ElementOfSeq, Zenon
      <4>2. QED BY <1>6, <4>1, DataIsOut
    <3>2. QED BY <1>1, <3>1
  <2> HIDE DEF more
  <2>2. ASSUME NEW k \in 1 .. Len(output)
        PROVE  output[k].try <= tries /\ (output[k] \in LayerDisconns => output[k].try # try)
    BY <1>1 DEF NoneNewer, NotEnded
  <2>3. ASSUME NEW k \in 1 .. Len(more)
        PROVE  more[k].try <= tries /\ more[k] \notin LayerDisconns
    <3>1. more[k] \in OutSet /\ more[k] \in Datas
      BY <2>1, <2>3
    <3>2. more[k].try = 0 /\ more[k] \notin LayerDisconns
      BY <3>1, OutShape
    <3>3. QED BY <1>1, <3>2
  <2>4. /\ output' = output \o more /\ Len(output') = Len(output) + Len(more)
        /\ \A k \in 1 .. Len(output) : output'[k] = output[k]
        /\ \A k \in 1 .. Len(more) : output'[Len(output) + k] = more[k]
    <3>1. output' = output \o more
      BY <1>1 DEF more
    <3>2. output \in Seq(OutSet) /\ more \in Seq(OutSet)
      BY <1>1, <2>1
    <3>3. QED BY <3>1, <3>2, ConcatPlaces
  <2>5. ASSUME NEW k \in 1 .. Len(output')
        PROVE  k \in 1 .. Len(output) \/ \E j \in 1 .. Len(more) : k = Len(output) + j
    <3>1. CASE k <= Len(output)
      BY <1>1, <3>1
    <3>2. CASE k > Len(output)
      <4>1. k - Len(output) \in 1 .. Len(more) /\ k = Len(output) + (k - Len(output))
        BY <1>1, <2>1, <2>4, <3>2
      <4>2. QED BY <4>1
    <3>3. QED BY <1>1, <3>1, <3>2
  <2>6. QED BY <2>2, <2>3, <2>4, <2>5
<1>13. NotEnded'
  BY <1>1, <1>12 DEF NotEnded
<1>14. NoneNewer'
  <2>1. \A k \in 1 .. Len(input') : input'[k].try <= tries
    <3>1. ASSUME NEW k \in 1 .. Len(input') PROVE input'[k].try <= tries
      <4>1. k + 1 \in 1 .. len /\ input'[k] = input[k + 1]
        BY <1>2
      <4>2. QED BY <1>0, <1>1, <4>1 DEF NoneNewer
    <3>2. QED BY <3>1
  <2>2. QED BY <1>1, <1>12, <2>1 DEF NoneNewer
<1>15. QED BY <1>8, <1>9, <1>11, <1>13, <1>14 DEF FlagInv

LEMMA FlagInit == Init => FlagInv
BY DEF Init, FlagInv, OneFlag, OneSlot, NoneNewer, Handed, Named, Announced, OwnNews, NotEnded

LEMMA FlagNext == TypeInv /\ FlagInv /\ [Next]_vars => FlagInv'
<1> SUFFICES ASSUME TypeOK, HdNamed, FlagInv, [Next]_vars PROVE FlagInv'
  BY DEF TypeInv
<1>1. CASE TryConnect
  BY <1>1, FlagConnect DEF TryConnect
<1>2. CASE ConnectEnds
  BY <1>2, FlagConnectEnds
<1>3. CASE Send
  <2>1. UNCHANGED <<connected, connecting, try, hd, slots, accept, input, conn, tries>>
    BY <1>3 DEF Send, flags, pool
  <2>2. /\ output \in Seq(OutSet) /\ Len(output) \in Nat /\ tries \in Nat
        /\ NoneNewer /\ NotEnded
    BY Shapes, Bounds DEF FlagInv
  <2>3. \A k \in 1 .. Len(output) :
          output[k].try <= tries /\ (output[k] \in LayerDisconns => output[k].try # try)
    BY <2>2 DEF NoneNewer, NotEnded
  <2>4. \A k \in 1 .. Len(output') :
          output'[k].try <= tries /\ (output'[k] \in LayerDisconns => output'[k].try # try)
    <3>1. CASE state = "REG_OK"
      <4>1. sent' \in 1 .. MaxSent /\ hd \in ConnIds
        BY <1>3, <3>1, Shapes, Bounds DEF Send, HdNamed
      <4>2. PICK m \in OutSet : m = Data(hd, sent') /\ m \in Datas
        BY <4>1, DataIsOut
      <4>3. m.try = 0 /\ m \notin LayerDisconns
        BY <4>2, OutShape
      <4>4. output' = Append(output, m)
        BY <1>3, <3>1, <4>2 DEF Send
      <4>5. /\ Len(output') = Len(output) + 1 /\ output'[Len(output) + 1] = m
            /\ \A k \in 1 .. Len(output) : output'[k] = output[k]
        BY <2>2, <4>4, AppendPlaces
      <4>6. \A k \in 1 .. Len(output') : k \in 1 .. Len(output) \/ k = Len(output) + 1
        BY <2>2, <4>5
      <4>7. QED BY <2>2, <2>3, <4>3, <4>5, <4>6
    <3>2. CASE state # "REG_OK"
      BY <1>3, <2>3, <3>2 DEF Send
    <3>3. QED BY <3>1, <3>2
  <2>5. QED BY <2>1, <2>4, DropKeeps
<1>4. CASE OnConnected
  BY <1>4, FlagConnected
<1>5. CASE OnDisconn \/ OnNoRecv
  <2>1. /\ input # <<>> /\ input' = Tail(input) /\ UNCHANGED <<accept, conn, tries>>
        /\ Head(input).type # "NET_CONNECTED" /\ Disconnected(Head(input).id)
        /\ output' = output \/ output' = Append(output, LayerDisconn(Head(input)))
    BY <1>5 DEF OnDisconn, OnNoRecv, Told, pool
  <2>2. Head(input) = input[1]
    BY <2>1, Shapes
  <2>3. QED BY <2>1, <2>2, TakeKeeps DEF IsConnected
<1>6. ASSUME NEW id \in ConnIds, IoAccept(id) PROVE FlagInv'
  BY <1>6, FlagAccept
<1>7. CASE IoRefuse
  BY <1>7, FlagRefuse
<1>8. ASSUME NEW id \in ConnIds, IoError(id) \/ IoIdle(id) PROVE FlagInv'
  <2>1. UNCHANGED <<connected, connecting, try, hd, slots, accept, output, conn, tries>> /\ conn[id] # 0
    BY <1>8 DEF IoError, IoIdle, Alive, flags, session, pool
  <2>2. PICK type \in {"NET_DISCONN", "NET_NORECV"} : input' = Append(input, News(type, id))
    BY <1>8 DEF IoError, IoIdle
  <2>3. type \in NewsTypes /\ type # "NET_CONNECTED"
    BY DEF NewsTypes
  <2>4. QED BY <2>1, <2>2, <2>3, TellKeeps
<1>9. CASE IoTake
  <2>1. /\ UNCHANGED <<connected, connecting, try, hd, slots, accept, input, tries>>
        /\ output # <<>> /\ output' = Tail(output)
    BY <1>9 DEF IoTake, IoSend, IoDisconn, Taken, flags, session, sockets
  <2>2. \A i \in ConnIds : conn'[i] \in {0, conn[i]}
    <3>1. conn' = conn \/ conn' = [conn EXCEPT ![Head(output).id] = 0]
      BY <1>9 DEF IoTake, IoSend, IoDisconn, pool
    <3>2. QED BY <3>1, Shapes
  <2>3. /\ output \in Seq(OutSet) /\ Len(output) \in Nat /\ NoneNewer /\ NotEnded
    BY Shapes DEF FlagInv
  <2>4. /\ Len(output') = Len(output) - 1
        /\ \A k \in 1 .. Len(output) - 1 : output'[k] = output[k + 1]
    BY <2>1, <2>3, TailPlaces
  <2>5. ASSUME NEW k \in 1 .. Len(output')
        PROVE  output'[k].try <= tries /\ (output'[k] \in LayerDisconns => output'[k].try # try)
    <3>1. k + 1 \in 1 .. Len(output) /\ output'[k] = output[k + 1]
      BY <2>3, <2>4
    <3>2. QED BY <2>3, <3>1 DEF NoneNewer, NotEnded
  <2>6. QED BY <2>1, <2>2, <2>5, DropKeeps
<1>10. CASE IoDrop \/ UNCHANGED vars
  <2>1. UNCHANGED <<connected, connecting, try, hd, slots, accept, input, output, tries>>
    BY <1>10 DEF IoDrop, vars, flags, session, queues
  <2>2. \A i \in ConnIds : conn'[i] \in {0, conn[i]}
    <3>1. conn' = conn \/ conn' = [conn EXCEPT ![idle] = 0]
      BY <1>10 DEF IoDrop, vars, pool
    <3>2. QED BY <3>1, Shapes
  <2>3. \A k \in 1 .. Len(output') :
          output'[k].try <= tries /\ (output'[k] \in LayerDisconns => output'[k].try # try)
    BY <2>1 DEF FlagInv, NoneNewer, NotEnded
  <2>4. QED BY <2>1, <2>2, <2>3, DropKeeps
<1>11. QED BY <1>1, <1>2, <1>3, <1>4, <1>5, <1>6, <1>7, <1>8, <1>9, <1>10
           DEF Next, LogicStep, IoStep

---------------------------------------------------------------------------
(* What the flags say *)

EndTold == \E k \in 1 .. Len(input) : input[k].type = "NET_NORECV" /\ input[k].try = try

\* The IO thread has told of the connection it is about to delete.
IdleTold == idle # NoId /\ connected /\ conn[idle] = try => EndTold

TrackInv ==
  /\ ~lost /\ connected => Tracked
  /\ ~lost /\ connecting => Alive(try)

\* An attempt under way has no connection yet.
LEMMA NotYet ==
  ASSUME TypeOK, FlagInv, connecting
  PROVE  /\ \A id \in ConnIds : conn[id] # try
         /\ try # 0 /\ ~connected
<1>1. ~connected /\ try # 0 /\ Announced /\ Named /\ OwnNews
  BY DEF FlagInv, OneFlag
<1>2. slots = {} /\ (\A k \in 1 .. Len(input) : ~IsConnected(k)) /\ Len(input) \in Nat
  BY <1>1, Shapes DEF Announced, Named
<1>3. \A id \in ConnIds : ~KnownBy(id, Len(input))
  BY <1>2 DEF KnownBy
<1>4. QED BY <1>1, <1>3 DEF OwnNews

\* Another bufferevent is freed that has not the descriptor of the attempt under way.
LEMMA ClosedSpares ==
  ASSUME TypeOK, connecting, Alive(try), NEW n \in 0 .. MaxTries, n # try, ~Cuts(n),
         holder' = Closed(n), UNCHANGED <<try, fd>>
  PROVE  Alive(try)'
<1>1. /\ try # 0 /\ fd[try] # NoId /\ holder[fd[try]] = try /\ try \in Tries
      /\ holder \in [Fds -> 0 .. MaxTries] /\ fd \in [Tries -> Fds \cup {NoId}]
  BY Shapes, Bounds DEF Alive, TypeOK
<1>2. CASE n = 0 \/ fd[n] = NoId
  BY <1>1, <1>2 DEF Closed, Alive
<1>3. CASE n # 0 /\ fd[n] # NoId
  <2>1. fd[n] # fd[try]
    BY <1>3 DEF Cuts
  <2>2. holder' = [holder EXCEPT ![fd[n]] = 0]
    BY <1>3 DEF Closed
  <2>3. QED BY <1>1, <2>1, <2>2 DEF Alive
<1>4. QED BY <1>2, <1>3

\* The news of the end of try stays on its way until it is taken.
LEMMA WordStays ==
  ASSUME TypeOK, NEW n, UNCHANGED try,
         \/ input' = input
         \/ n \in NewsSet /\ input' = Append(input, n)
         \/ input # <<>> /\ input' = Tail(input) /\ ~(input[1].type = "NET_NORECV" /\ input[1].try = try),
         NEW k \in 1 .. Len(input), input[k].type = "NET_NORECV", input[k].try = try
  PROVE  \E j \in 1 .. Len(input') : input'[j].type = "NET_NORECV" /\ input'[j].try = try'
<1>1. input \in Seq(NewsSet) /\ Len(input) \in Nat
  BY Shapes
<1>2. CASE input' = input
  BY <1>2
<1>3. CASE n \in NewsSet /\ input' = Append(input, n)
  <2>1. k \in 1 .. Len(input') /\ input'[k] = input[k]
    BY <1>1, <1>3, AppendPlaces
  <2>2. QED BY <2>1
<1>4. CASE input # <<>> /\ input' = Tail(input) /\ ~(input[1].type = "NET_NORECV" /\ input[1].try = try)
  <2>1. k # 1
    BY <1>4
  <2>2. /\ Len(input') = Len(input) - 1
        /\ \A j \in 1 .. Len(input) - 1 : input'[j] = input[j + 1]
    BY <1>1, <1>4, TailPlaces
  <2>3. k - 1 \in 1 .. Len(input') /\ input'[k - 1] = input[k]
    BY <1>1, <2>1, <2>2
  <2>4. QED BY <2>3
<1>5. QED BY <1>2, <1>3, <1>4

LEMMA TellsEnd ==
  ASSUME TypeOK, NEW id \in ConnIds, conn[id] # 0, conn[id] = try, UNCHANGED try,
         input' = Append(input, News("NET_NORECV", id))
  PROVE  EndTold'
<1>1. input \in Seq(NewsSet) /\ Len(input) \in Nat /\ conn[id] \in 0 .. MaxTries
  BY Shapes
<1>2. PICK n \in NewsSet : n = News("NET_NORECV", id)
  BY <1>1, Bounds DEF News, NewsSet, NewsTypes
<1>3. /\ Len(input') = Len(input) + 1 /\ input'[Len(input) + 1] = n
      /\ n.type = "NET_NORECV" /\ n.try = try
  BY <1>1, <1>2, AppendPlaces DEF News
<1>4. Len(input) + 1 \in 1 .. Len(input')
  BY <1>1, <1>3
<1>5. QED BY <1>3, <1>4 DEF EndTold

LEMMA IdleInit == Init => IdleTold
BY DEF Init, IdleTold

LEMMA IdleNext == TypeInv /\ FlagInv /\ IdleTold /\ [Next]_vars => IdleTold'
<1> SUFFICES ASSUME TypeOK, HdNamed, FlagInv, IdleTold, [Next]_vars PROVE IdleTold'
  BY DEF TypeInv
<1>0. input \in Seq(NewsSet) /\ idle \in ConnIds \cup {NoId} /\ connected \in BOOLEAN
  BY Shapes DEF TypeOK
<1>1. CASE TryConnect
  <2>1. connected' = FALSE
    BY <1>0, <1>1 DEF TryConnect, Connect
  <2>2. QED BY <2>1 DEF IdleTold
<1>2. CASE ConnectOk
  <2>1. UNCHANGED <<try, conn, idle>> /\ \A id \in ConnIds : conn[id] # try
    BY <1>2, NotYet DEF ConnectOk, pool
  <2>2. QED BY <1>0, <2>1 DEF IdleTold
<1>3. CASE ConnectFail
  <2>1. ~connected'
    BY <1>3, NotYet DEF ConnectFail
  <2>2. QED BY <2>1 DEF IdleTold
<1>4. CASE Send \/ IoSend \/ UNCHANGED vars
  <2>1. UNCHANGED <<connected, try, input, conn, idle>>
    BY <1>4 DEF Send, IoSend, vars, flags, queues, pool
  <2>2. QED BY <2>1 DEF IdleTold, EndTold
<1>5. CASE OnConnected
  <2>1. /\ UNCHANGED <<connected, try, conn, idle>>
        /\ input # <<>> /\ input' = Tail(input) /\ Head(input).type = "NET_CONNECTED"
    BY <1>5 DEF OnConnected, Told, flags, pool
  <2>2. input[1].type # "NET_NORECV"
    BY <1>0, <2>1
  <2>3. EndTold => EndTold'
    BY <2>1, <2>2, WordStays DEF EndTold
  <2>4. QED BY <2>1, <2>3 DEF IdleTold
<1>6. CASE OnDisconn \/ OnNoRecv
  <2>1. /\ input # <<>> /\ input' = Tail(input) /\ UNCHANGED <<accept, conn, idle, tries>>
        /\ Head(input).type # "NET_CONNECTED" /\ Disconnected(Head(input).id)
        /\ output' = output \/ output' = Append(output, LayerDisconn(Head(input)))
    BY <1>6 DEF OnDisconn, OnNoRecv, Told, pool
  <2>2. Head(input) = input[1]
    BY <1>0, <2>1
  <2>3. input[1].try = try => connected' = FALSE
    BY <2>1, <2>2, TakeKeeps DEF IsConnected
  <2>4. CASE Head(input).id \in slots
    BY <2>1, <2>4 DEF Disconnected, IdleTold
  <2>5. CASE Head(input).id \notin slots
    <3>1. UNCHANGED <<connected, try>>
      BY <2>1, <2>5 DEF Disconnected, flags
    <3>2. connected => input[1].try # try
      BY <2>3, <3>1
    <3>3. connected /\ EndTold => EndTold'
      BY <2>1, <3>1, <3>2, WordStays DEF EndTold
    <3>4. QED BY <2>1, <3>1, <3>3 DEF IdleTold
  <2>6. QED BY <2>4, <2>5
\* The IO thread does nothing else before it has deleted the connection.
<1>7. CASE IoStep \/ IoDisconn \/ IoDrop \/ \E id \in ConnIds : IoError(id)
  <2>1. idle' = NoId
    BY <1>7 DEF IoStep, IoAccept, IoRefuse, IoDisconn, Taken, IoDrop, IoError, pool
  <2>2. QED BY <2>1 DEF IdleTold
<1>8. ASSUME NEW id \in ConnIds, IoIdle(id) PROVE IdleTold'
  <2>1. /\ input' = Append(input, News("NET_NORECV", id)) /\ conn[id] # 0 /\ idle' = id
        /\ UNCHANGED <<try, conn>>
    BY <1>8 DEF IoIdle, flags
  <2>2. conn[id] = try => EndTold'
    BY <2>1, TellsEnd
  <2>3. QED BY <2>1, <2>2 DEF IdleTold
<1>9. QED BY <1>1, <1>2, <1>3, <1>4, <1>5, <1>6, <1>7, <1>8
           DEF Next, ConnectEnds, LogicStep, IoTake

LEMMA TrackInit == Init => TrackInv
BY DEF Init, TrackInv

LEMMA TrackNext == TypeInv /\ FlagInv /\ IdleTold /\ TrackInv /\ [Next]_vars => TrackInv'
<1> SUFFICES ASSUME TypeOK, HdNamed, FlagInv, IdleTold, TrackInv, [Next]_vars PROVE TrackInv'
  BY DEF TypeInv
<1>0. /\ OneFlag /\ Handed /\ NotEnded /\ connected \in BOOLEAN /\ connecting \in BOOLEAN
      /\ input \in Seq(NewsSet) /\ accept \in Seq(Tries) /\ output \in Seq(OutSet)
      /\ try \in 0 .. MaxTries /\ tries \in 0 .. MaxTries /\ conn \in [ConnIds -> 0 .. MaxTries]
      /\ MaxTries \in Nat
  BY Shapes, Bounds DEF FlagInv, TypeOK
<1>1. ASSUME NEW f \in Fds, Connect(f) PROVE TrackInv'
  <2>1. /\ connected' = FALSE /\ try' = tries + 1 /\ try' \in Tries
        /\ fd' = [fd EXCEPT ![try'] = f] /\ holder' = [holder EXCEPT ![f] = try']
    BY <1>0, <1>1, Bounds DEF Connect, TypeOK
  <2>2. Alive(try)'
    BY <2>1, <1>0, Bounds DEF Alive, TypeOK
  <2>3. QED BY <2>1, <2>2 DEF TrackInv
<1>2. CASE ConnectOk
  <2>1. /\ connecting' = FALSE /\ try' = try /\ accept' = Append(accept, try) /\ try \in Tries
    BY <1>0, <1>2, Bounds DEF ConnectOk, Alive
  <2>2. Len(accept') \in 1 .. Len(accept') /\ accept'[Len(accept')] = try
    BY <1>0, <2>1
  <2>3. Tracked'
    BY <2>1, <2>2 DEF Tracked, Contains
  <2>4. QED BY <2>1, <2>3 DEF TrackInv
<1>3. CASE ConnectFail
  BY <1>0, <1>3 DEF ConnectFail, OneFlag, TrackInv
\* Neither the flags nor what says of the end of try is touched.
<1>4. CASE Send \/ IoSend \/ UNCHANGED vars
  <2>1. UNCHANGED <<connected, connecting, try, accept, input, conn, fd, holder, lost>>
    BY <1>4 DEF Send, IoSend, vars, flags, session, queues, sockets, pool
  <2>2. (Tracked => Tracked') /\ (Alive(try) => Alive(try)')
    BY <2>1 DEF Tracked, Contains, Alive
  <2>3. QED BY <2>1, <2>2 DEF TrackInv
<1>5. CASE OnConnected
  <2>1. /\ UNCHANGED <<connected, connecting, try, accept, conn, fd, holder, lost>>
        /\ input # <<>> /\ input' = Tail(input) /\ Head(input).type = "NET_CONNECTED"
    BY <1>5 DEF OnConnected, Told, flags, sockets, pool
  <2>2. input[1].type # "NET_NORECV"
    BY <1>0, <2>1
  <2>3. Tracked => Tracked'
    BY <2>1, <2>2, WordStays DEF Tracked, Contains
  <2>4. Alive(try) => Alive(try)'
    BY <2>1 DEF Alive
  <2>5. QED BY <2>1, <2>3, <2>4 DEF TrackInv
<1>6. CASE OnDisconn \/ OnNoRecv
  <2>1. /\ input # <<>> /\ input' = Tail(input) /\ UNCHANGED <<accept, conn, tries, fd, lost>>
        /\ Head(input).type # "NET_CONNECTED" /\ Disconnected(Head(input).id)
        /\ output' = output \/ output' = Append(output, LayerDisconn(Head(input)))
    BY <1>6 DEF OnDisconn, OnNoRecv, Told, pool
  <2>2. Head(input) = input[1]
    BY <1>0, <2>1
  <2>3. input[1].try = try => connected' = FALSE
    BY <2>1, <2>2, TakeKeeps DEF IsConnected
  <2>4. CASE Head(input).id \in slots
    BY <2>1, <2>4 DEF Disconnected, TrackInv
  <2>5. CASE Head(input).id \notin slots
    <3>1. UNCHANGED <<connected, connecting, try, holder>>
      BY <2>1, <2>5 DEF Disconnected, flags
    <3>2. Alive(try) => Alive(try)'
      BY <2>1, <3>1 DEF Alive
    <3>3. connected /\ Tracked => Tracked'
      <4>1. connected => input[1].try # try
        BY <2>3, <3>1
      <4>2. QED BY <2>1, <3>1, <4>1, WordStays DEF Tracked, Contains
    <3>4. QED BY <2>1, <3>1, <3>2, <3>3 DEF TrackInv
  <2>6. QED BY <2>4, <2>5
<1>7. ASSUME NEW id \in ConnIds, IoAccept(id) PROVE TrackInv'
  <2>1. /\ UNCHANGED <<connected, connecting, try, fd, holder, lost>>
        /\ conn' = [conn EXCEPT ![id] = Head(accept)] /\ Head(accept) = try
    BY <1>7, FlagAccept DEF IoAccept, flags, sockets
  <2>2. Tracked'
    BY <1>0, <2>1 DEF Tracked
  <2>3. Alive(try) => Alive(try)'
    BY <2>1 DEF Alive
  <2>4. QED BY <2>1, <2>2, <2>3 DEF TrackInv
<1>8. CASE IoRefuse
  BY <1>8 DEF IoRefuse, TrackInv
<1>9. ASSUME NEW id \in ConnIds, IoError(id) \/ IoIdle(id) PROVE TrackInv'
  <2>1. /\ UNCHANGED <<connected, connecting, try, accept, conn, fd, holder, lost>> /\ conn[id] # 0
    BY <1>9 DEF IoError, IoIdle, Alive, flags, session, pool, sockets
  <2>2. PICK type \in {"NET_DISCONN", "NET_NORECV"} : input' = Append(input, News(type, id))
    BY <1>9 DEF IoError, IoIdle
  <2>3. News(type, id) \in NewsSet
    BY <1>0, <2>1, Bounds DEF News, NewsSet, NewsTypes
  <2>4. Tracked => Tracked'
    BY <2>1, <2>2, <2>3, WordStays DEF Tracked, Contains
  <2>5. Alive(try) => Alive(try)'
    BY <2>1 DEF Alive
  <2>6. QED BY <2>1, <2>4, <2>5 DEF TrackInv
\* When the connection is deleted word of its end is on its way.
<1>10. CASE IoDrop
  <2>1. PICK id \in ConnIds : id = idle
    BY <1>10 DEF IoDrop, TypeOK
  <2>2. /\ UNCHANGED <<connected, connecting, try, accept, input, fd>>
        /\ conn' = [conn EXCEPT ![id] = 0] /\ holder' = Closed(conn[id])
        /\ lost' = (lost \/ Cuts(conn[id])) /\ idle # NoId
    BY <1>10, <2>1 DEF IoDrop, flags, session, queues
  <2>3. connected /\ Tracked => Tracked'
    <3>1. CASE conn[id] = try
      BY <2>1, <2>2, <3>1 DEF IdleTold, EndTold, Tracked
    <3>2. CASE conn[id] # try
      <4>1. \A i \in ConnIds : conn[i] = try => conn'[i] = try
        BY <1>0, <2>2, <3>2
      <4>2. QED BY <2>2, <4>1 DEF Tracked, Contains
    <3>3. QED BY <3>1, <3>2
  <2>4. ASSUME ~lost', connecting', Alive(try) PROVE Alive(try)'
    <3>1. connecting /\ ~Cuts(conn[id]) /\ conn[id] \in 0 .. MaxTries
      BY <1>0, <2>2, <2>4
    <3>2. conn[id] # try
      BY <3>1, NotYet
    <3>3. QED BY <2>2, <2>4, <3>1, <3>2, ClosedSpares
  <2>5. QED BY <2>2, <2>3, <2>4 DEF TrackInv
<1>11. CASE IoDisconn
  <2>1. PICK id \in ConnIds : id = Head(output).id
    BY <1>0, <1>11, OutShape DEF IoDisconn, Taken
  <2>2. /\ UNCHANGED <<connected, connecting, try, accept, input, fd>>
        /\ conn' = [conn EXCEPT ![id] = 0] /\ holder' = Closed(conn[id])
        /\ lost' = (lost \/ conn[id] \notin {0, Head(output).try} \/ Cuts(conn[id]))
    BY <1>11, <2>1 DEF IoDisconn, flags, session
  <2>3. Head(output).try # try
    <3>1. output # <<>> /\ Head(output).type = "LAYER_DISCONN"
      BY <1>11 DEF IoDisconn, Taken
    <3>2. 1 \in 1 .. Len(output) /\ Head(output) = output[1] /\ Head(output) \in OutSet
      BY <1>0, <3>1
    <3>3. Head(output) \in LayerDisconns
      BY <3>1, <3>2, OutShape
    <3>4. QED BY <1>0, <3>2, <3>3 DEF NotEnded
  <2>4. ASSUME ~lost', connected, Tracked PROVE Tracked'
    <3>1. conn[id] # try
      BY <1>0, <2>2, <2>3, <2>4 DEF OneFlag
    <3>2. \A i \in ConnIds : conn[i] = try => conn'[i] = try
      BY <1>0, <2>2, <3>1
    <3>3. QED BY <2>2, <2>4, <3>2 DEF Tracked, Contains
  <2>5. ASSUME ~lost', connecting', Alive(try) PROVE Alive(try)'
    <3>1. connecting /\ ~Cuts(conn[id]) /\ conn[id] \in 0 .. MaxTries
      BY <1>0, <2>2, <2>5
    <3>2. conn[id] # try
      BY <3>1, NotYet
    <3>3. QED BY <2>2, <2>5, <3>1, <3>2, ClosedSpares
  <2>6. QED BY <2>2, <2>4, <2>5 DEF TrackInv
<1>12. QED BY <1>1, <1>2, <1>3, <1>4, <1>5, <1>6, <1>7, <1>8, <1>9, <1>10, <1>11
           DEF Next, TryConnect, ConnectEnds, LogicStep, IoStep, IoTake

\* The flags of ReconnEvent tell the truth, unless the IO thread has refused a connection,
\* deleted one in the place of another, or closed the socket being connected.
THEOREM FlagsTell == Spec => []FlagsTrue
<1> DEFINE Inv == TypeInv /\ FlagInv /\ IdleTold /\ TrackInv
<1>1. Init => Inv
  BY TypeInit, FlagInit, IdleInit, TrackInit
<1>2. Inv /\ [Next]_vars => Inv'
  BY TypeNext, FlagNext, IdleNext, TrackNext
<1>3. Inv => FlagsTrue
  BY DEF FlagInv, OneFlag, TrackInv, FlagsTrue
<1>4. QED BY <1>1, <1>2, <1>3, PTL DEF Spec

---------------------------------------------------------------------------
(* The order in which messages leave *)

\* The places of a queue where a message to send is.
Sendings(o) == {k \in 1 .. Len(o) : o[k] \in Datas}

\* What was written (w) comes before what is on its way (o), and both before what is cached (c),
\* each in its order, and none of them later than the last one sent (n).
InOrder(w, o, c, n) ==
  /\ Increasing(w) /\ Increasing(c)
  /\ \A i, j \in Sendings(o) : i < j => o[i].msg < o[j].msg
  /\ \A i \in 1 .. Len(w), k \in Sendings(o) : w[i] < o[k].msg
  /\ \A k \in Sendings(o), j \in 1 .. Len(c) : o[k].msg < c[j]
  /\ \A i \in 1 .. Len(w), j \in 1 .. Len(c) : w[i] < c[j]
  /\ \A i \in 1 .. Len(w) : w[i] <= n
  /\ \A k \in Sendings(o) : o[k].msg <= n
  /\ \A j \in 1 .. Len(c) : c[j] <= n

\* Nothing waits in the cache of a session that is connected.
OrderInv ==
  /\ state = "REG_OK" => cache = <<>>
  /\ InOrder(written, output, cache, sent)

LEMMA AppendUp ==
  ASSUME NEW s \in Seq(Nat), NEW e \in Nat, Increasing(s), \A i \in 1 .. Len(s) : s[i] < e
  PROVE  Increasing(Append(s, e))
<1>0. Append(s, e) \in Seq(Nat)
  BY AppendPlaces
<1> PICK t \in Seq(Nat) : t = Append(s, e)
  BY <1>0, Zenon
<1>1. /\ Len(s) \in Nat /\ Len(t) = Len(s) + 1 /\ t[Len(s) + 1] = e
      /\ \A k \in 1 .. Len(s) : t[k] = s[k]
  BY AppendPlaces
<1>2. ASSUME NEW i \in 1 .. Len(t), NEW j \in 1 .. Len(t), i < j PROVE t[i] < t[j]
  <2>1. i \in 1 .. Len(s) /\ t[i] = s[i]
    BY <1>1, <1>2
  <2>2. CASE j = Len(s) + 1
    BY <1>1, <2>1, <2>2
  <2>3. CASE j # Len(s) + 1
    BY <1>1, <1>2, <2>1, <2>3 DEF Increasing
  <2>4. QED BY <2>2, <2>3
<1>3. QED BY <1>2 DEF Increasing

LEMMA ConcatUp ==
  ASSUME NEW s \in Seq(Nat), NEW t \in Seq(Nat), Increasing(s), Increasing(t),
         \A i \in 1 .. Len(s), j \in 1 .. Len(t) : s[i] < t[j]
  PROVE  Increasing(s \o t)
<1>0. s \o t \in Seq(Nat)
  BY ConcatPlaces
<1> PICK u \in Seq(Nat) : u = s \o t
  BY <1>0, Zenon
<1>1. /\ Len(s) \in Nat /\ Len(t) \in Nat /\ Len(u) = Len(s) + Len(t)
      /\ \A k \in 1 .. Len(s) : u[k] = s[k]
      /\ \A k \in Len(s) + 1 .. Len(s) + Len(t) : u[k] = t[k - Len(s)]
  BY ConcatPlaces
<1>2. ASSUME NEW i \in 1 .. Len(u), NEW j \in 1 .. Len(u), i < j PROVE u[i] < u[j]
  <2>1. CASE j <= Len(s)
    BY <1>1, <1>2, <2>1 DEF Increasing
  <2>2. CASE i <= Len(s) /\ ~(j <= Len(s))
    <3>1. i \in 1 .. Len(s) /\ j \in Len(s) + 1 .. Len(s) + Len(t) /\ j - Len(s) \in 1 .. Len(t)
      BY <1>1, <2>2
    <3>2. u[i] = s[i] /\ u[j] = t[j - Len(s)]
      BY <1>1, <3>1
    <3>3. s[i] < t[j - Len(s)]
      BY <3>1
    <3>4. QED BY <3>2, <3>3
  <2>3. CASE ~(i <= Len(s))
    <3>1. /\ i \in Len(s) + 1 .. Len(s) + Len(t) /\ i - Len(s) \in 1 .. Len(t)
          /\ j \in Len(s) + 1 .. Len(s) + Len(t) /\ j - Len(s) \in 1 .. Len(t)
          /\ i - Len(s) < j - Len(s)
      BY <1>1, <1>2, <2>3
    <3>2. u[i] = t[i - Len(s)] /\ u[j] = t[j - Len(s)]
      BY <1>1, <3>1
    <3>3. t[i - Len(s)] < t[j - Len(s)]
      BY <3>1 DEF Increasing
    <3>4. QED BY <3>2, <3>3
  <2>4. QED BY <1>1, <2>1, <2>2, <2>3
<1>3. QED BY <1>2 DEF Increasing

LEMMA OutNumbers ==
  ASSUME NEW o \in Seq(OutSet)
  PROVE  \A k \in 1 .. Len(o) : o[k] \in OutSet /\ o[k].msg \in Nat
<1>1. ASSUME NEW k \in 1 .. Len(o) PROVE o[k] \in OutSet /\ o[k].msg \in Nat
  <2>1. o[k] \in OutSet
    OBVIOUS
  <2>2. QED BY <2>1, OutShape, Bounds
<1>2. QED BY <1>1

\* A message that is queued comes behind all that were sent before.
LEMMA QueuedBehind ==
  ASSUME NEW w \in Seq(Nat), NEW o \in Seq(OutSet), NEW c \in Seq(Nat), Len(c) = 0,
         NEW n \in Nat, InOrder(w, o, c, n), NEW d \in Datas, d \in OutSet, d.msg = n + 1
  PROVE  InOrder(w, Append(o, d), c, n + 1)
<1>0. Append(o, d) \in Seq(OutSet)
  BY AppendPlaces
<1> PICK p \in Seq(OutSet) : p = Append(o, d)
  BY <1>0, Zenon
<1>1. /\ Len(o) \in Nat /\ Len(p) = Len(o) + 1 /\ p[Len(o) + 1] = d
      /\ \A k \in 1 .. Len(o) : p[k] = o[k]
  BY AppendPlaces
<1>2. Sendings(p) = Sendings(o) \cup {Len(o) + 1}
  BY <1>1 DEF Sendings
<1>3. \A k \in Sendings(o) : k \in 1 .. Len(o) /\ p[k] = o[k] /\ o[k].msg \in Nat /\ o[k].msg <= n
  BY <1>1, OutNumbers DEF Sendings, InOrder
<1>4. \A i \in 1 .. Len(w) : w[i] \in Nat /\ w[i] <= n
  BY DEF InOrder
<1>5. \A i, j \in Sendings(p) : i < j => p[i].msg < p[j].msg
  BY <1>1, <1>2, <1>3 DEF InOrder
<1>6. \A i \in 1 .. Len(w), k \in Sendings(p) : w[i] < p[k].msg
  BY <1>1, <1>2, <1>3, <1>4 DEF InOrder
<1>7. \A k \in Sendings(p) : p[k].msg <= n + 1
  BY <1>1, <1>2, <1>3
<1>8. Increasing(w) /\ Increasing(c)
  BY DEF InOrder
<1>9. \A i \in 1 .. Len(w) : w[i] <= n + 1
  BY <1>4
<1>10. \A j \in 1 .. Len(c) : FALSE
  OBVIOUS
<1>11. InOrder(w, p, c, n + 1)
  BY <1>5, <1>6, <1>7, <1>8, <1>9, <1>10 DEF InOrder
<1>12. QED BY <1>11, Zenon

\* So does one that is cached.
LEMMA CachedBehind ==
  ASSUME NEW w \in Seq(Nat), NEW o \in Seq(OutSet), NEW c \in Seq(Nat), NEW n \in Nat,
         InOrder(w, o, c, n)
  PROVE  InOrder(w, o, c, n + 1) /\ InOrder(w, o, Append(c, n + 1), n + 1)
<1>1. \A k \in Sendings(o) : o[k].msg \in Nat /\ o[k].msg <= n
  BY OutNumbers DEF Sendings, InOrder
<1>2. \A i \in 1 .. Len(w) : w[i] \in Nat /\ w[i] <= n
  BY DEF InOrder
<1>3. \A i \in 1 .. Len(c) : c[i] \in Nat /\ c[i] <= n
  BY DEF InOrder
<1>4. InOrder(w, o, c, n + 1)
  BY <1>1, <1>2, <1>3 DEF InOrder
<1> PICK m \in Nat : m = n + 1
  OBVIOUS
<1>5. Increasing(c) /\ \A i \in 1 .. Len(c) : c[i] < m
  BY <1>3 DEF InOrder
<1>6. Append(c, m) \in Seq(Nat) /\ Increasing(Append(c, m))
  BY <1>5, AppendUp, AppendPlaces, Zenon
<1> PICK q \in Seq(Nat) : q = Append(c, m)
  BY <1>6, Zenon
<1>7. /\ Len(c) \in Nat /\ Len(q) = Len(c) + 1 /\ q[Len(c) + 1] = m
      /\ \A k \in 1 .. Len(c) : q[k] = c[k]
  BY AppendPlaces
<1>8. ASSUME NEW j \in 1 .. Len(q)
      PROVE  /\ \A k \in Sendings(o) : o[k].msg < q[j]
             /\ \A i \in 1 .. Len(w) : w[i] < q[j]
             /\ q[j] <= m
  <2>1. CASE j = Len(c) + 1
    BY <1>1, <1>2, <1>7, <2>1
  <2>2. CASE j # Len(c) + 1
    <3>1. j \in 1 .. Len(c) /\ q[j] = c[j]
      BY <1>7, <2>2
    <3>2. /\ \A k \in Sendings(o) : o[k].msg < c[j]
          /\ \A i \in 1 .. Len(w) : w[i] < c[j]
      BY <3>1 DEF InOrder
    <3>3. QED BY <1>3, <3>1, <3>2
  <2>3. QED BY <2>1, <2>2
<1>9. InOrder(w, o, c, m) /\ Increasing(q)
  BY <1>4, <1>6, Zenon
<1>10. InOrder(w, o, q, m)
  BY <1>8, <1>9 DEF InOrder
<1>11. QED BY <1>4, <1>10, Zenon

\* The cache is sent, in its order, behind what is on its way.
LEMMA CacheSent ==
  ASSUME NEW w \in Seq(Nat), NEW o \in Seq(OutSet), NEW c \in Seq(Nat), NEW n \in Nat,
         InOrder(w, o, c, n),
         NEW s \in Seq(OutSet), Len(s) = Len(c),
         \A k \in 1 .. Len(c) : s[k] \in Datas /\ s[k].msg = c[k],
         NEW e \in Seq(Nat), Len(e) = 0
  PROVE  InOrder(w, o \o s, e, n)
<1>0. /\ o \o s \in Seq(OutSet)
      /\ Len(o) \in Nat /\ Len(s) \in Nat /\ Len(o \o s) = Len(o) + Len(s)
      /\ \A k \in 1 .. Len(o) : (o \o s)[k] = o[k]
      /\ \A k \in Len(o) + 1 .. Len(o) + Len(s) : (o \o s)[k] = s[k - Len(o)]
  BY ONLY o \in Seq(OutSet), s \in Seq(OutSet), ConcatPlaces
<1> PICK p \in Seq(OutSet) : p = o \o s
  BY <1>0, Zenon
<1>a. /\ Len(o) \in Nat /\ Len(s) \in Nat /\ Len(p) = Len(o) + Len(s)
      /\ \A k \in 1 .. Len(o) : p[k] = o[k]
      /\ \A k \in Len(o) + 1 .. Len(o) + Len(s) : p[k] = s[k - Len(o)]
  BY <1>0, Zenon
<1>1. /\ Len(o) \in Nat /\ Len(c) \in Nat /\ Len(p) = Len(o) + Len(c)
      /\ \A k \in 1 .. Len(o) : p[k] = o[k]
      /\ \A k \in Len(o) + 1 .. Len(o) + Len(c) : p[k] = s[k - Len(o)]
  BY <1>a
<1>2. ASSUME NEW k \in Sendings(p), ~(k <= Len(o))
      PROVE  k - Len(o) \in 1 .. Len(c) /\ p[k].msg = c[k - Len(o)]
  <2>1. k - Len(o) \in 1 .. Len(c) /\ p[k] = s[k - Len(o)]
    BY <1>1, <1>2 DEF Sendings
  <2>2. QED BY <2>1
<1>3. ASSUME NEW k \in Sendings(p), k <= Len(o)
      PROVE  k \in Sendings(o) /\ p[k] = o[k]
  BY <1>1, <1>3 DEF Sendings
<1>4. \A k \in Sendings(p) : k \in Nat
  BY DEF Sendings
<1>5. ASSUME NEW i \in Sendings(p), NEW j \in Sendings(p), i < j PROVE p[i].msg < p[j].msg
  <2>1. CASE j <= Len(o)
    <3>1. i <= Len(o)
      BY <1>1, <1>4, <1>5, <2>1
    <3>2. QED BY <1>3, <1>5, <2>1, <3>1 DEF InOrder
  <2>2. CASE i <= Len(o) /\ ~(j <= Len(o))
    <3>1. i \in Sendings(o) /\ p[i] = o[i] /\ j - Len(o) \in 1 .. Len(c) /\ p[j].msg = c[j - Len(o)]
      BY <1>2, <1>3, <2>2
    <3>2. o[i].msg < c[j - Len(o)]
      BY <3>1 DEF InOrder
    <3>3. QED BY <3>1, <3>2
  <2>3. CASE ~(i <= Len(o))
    <3>1. ~(j <= Len(o)) /\ i - Len(o) < j - Len(o)
      BY <1>1, <1>4, <1>5, <2>3
    <3>2. /\ i - Len(o) \in 1 .. Len(c) /\ p[i].msg = c[i - Len(o)]
          /\ j - Len(o) \in 1 .. Len(c) /\ p[j].msg = c[j - Len(o)]
      BY <1>2, <2>3, <3>1
    <3>3. c[i - Len(o)] < c[j - Len(o)]
      BY <3>1, <3>2 DEF InOrder, Increasing
    <3>4. QED BY <3>2, <3>3
  <2>4. QED BY <2>1, <2>2, <2>3
<1>6. ASSUME NEW k \in Sendings(p)
      PROVE  p[k].msg <= n /\ \A i \in 1 .. Len(w) : w[i] < p[k].msg
  <2>1. CASE k <= Len(o)
    BY <1>3, <2>1 DEF InOrder
  <2>2. CASE ~(k <= Len(o))
    BY <1>2, <2>2 DEF InOrder
  <2>3. QED BY <2>1, <2>2
<1>7. Increasing(w) /\ Increasing(e)
  BY DEF InOrder, Increasing
<1>8. \A i \in 1 .. Len(w) : w[i] <= n
  BY DEF InOrder
<1>9. \A j \in 1 .. Len(e) : FALSE
  OBVIOUS
<1>10. InOrder(w, p, e, n)
  BY <1>5, <1>6, <1>7, <1>8, <1>9 DEF InOrder
<1>11. QED BY <1>10, Zenon

\* A message that is taken is written, or lost.
LEMMA WrittenInOrder ==
  ASSUME NEW w \in Seq(Nat), NEW o \in Seq(OutSet), NEW c \in Seq(Nat), NEW n \in Nat,
         InOrder(w, o, c, n), o # <<>>
  PROVE  /\ InOrder(w, Tail(o), c, n)
         /\ Head(o) \in Datas => InOrder(Append(w, Head(o).msg), Tail(o), c, n)
<1>0. Tail(o) \in Seq(OutSet)
  BY TailPlaces
<1> PICK p \in Seq(OutSet) : p = Tail(o)
  BY <1>0, Zenon
<1>1. /\ Len(o) \in Nat \ {0} /\ Len(p) = Len(o) - 1 /\ Head(o) = o[1] /\ 1 \in 1 .. Len(o)
      /\ \A k \in 1 .. Len(o) - 1 : p[k] = o[k + 1]
  BY TailPlaces
<1>2. ASSUME NEW k \in Sendings(p)
      PROVE  k \in Nat /\ k + 1 \in Sendings(o) /\ p[k] = o[k + 1] /\ p[k].msg \in Nat /\ 1 < k + 1
  <2>1. k \in 1 .. Len(p) /\ p[k] \in Datas /\ p[k].msg \in Nat
    BY OutNumbers DEF Sendings
  <2>2. k \in Nat /\ k + 1 \in 1 .. Len(o) /\ p[k] = o[k + 1] /\ 1 < k + 1
    BY <1>1, <2>1
  <2>3. QED BY <2>1, <2>2 DEF Sendings
<1>3. InOrder(w, p, c, n)
  <2>1. ASSUME NEW i \in Sendings(p), NEW j \in Sendings(p), i < j PROVE p[i].msg < p[j].msg
    <3>1. i + 1 \in Sendings(o) /\ j + 1 \in Sendings(o) /\ i + 1 < j + 1
      BY <1>2, <2>1
    <3>2. o[i + 1].msg < o[j + 1].msg
      BY <3>1 DEF InOrder
    <3>3. QED BY <1>2, <3>2
  <2>2. ASSUME NEW k \in Sendings(p)
        PROVE  /\ \A i \in 1 .. Len(w) : w[i] < p[k].msg
               /\ \A j \in 1 .. Len(c) : p[k].msg < c[j]
               /\ p[k].msg <= n
    <3>1. k + 1 \in Sendings(o) /\ p[k] = o[k + 1]
      BY <1>2
    <3>2. QED BY <3>1 DEF InOrder
  <2>3. QED BY <2>1, <2>2 DEF InOrder
<1>4. ASSUME Head(o) \in Datas PROVE InOrder(Append(w, Head(o).msg), p, c, n)
  <2> PICK e \in Nat : e = o[1].msg
    BY <1>1, OutNumbers
  <2>1. 1 \in Sendings(o)
    BY <1>1, <1>4 DEF Sendings
  <2>2. /\ \A i \in 1 .. Len(w) : w[i] < e
        /\ \A j \in 1 .. Len(c) : e < c[j]
        /\ e <= n
    BY <2>1 DEF InOrder
  <2>3. \A k \in Sendings(p) : e < p[k].msg
    BY <1>2, <2>1 DEF InOrder
  <2>4. Increasing(w)
    BY DEF InOrder
  <2>5. Append(w, e) \in Seq(Nat) /\ Increasing(Append(w, e))
    BY <2>2, <2>4, AppendUp, AppendPlaces
  <2> PICK v \in Seq(Nat) : v = Append(w, e)
    BY <2>5, Zenon
  <2>6. /\ Len(w) \in Nat /\ Len(v) = Len(w) + 1 /\ v[Len(w) + 1] = e
        /\ \A k \in 1 .. Len(w) : v[k] = w[k]
    BY AppendPlaces
  <2>7. ASSUME NEW i \in 1 .. Len(v)
        PROVE  /\ \A k \in Sendings(p) : v[i] < p[k].msg
               /\ \A j \in 1 .. Len(c) : v[i] < c[j]
               /\ v[i] <= n
    <3>1. CASE i = Len(w) + 1
      BY <2>2, <2>3, <2>6, <3>1
    <3>2. CASE i # Len(w) + 1
      <4>1. i \in 1 .. Len(w) /\ v[i] = w[i]
        BY <2>6, <3>2
      <4>2. QED BY <1>3, <4>1 DEF InOrder
    <3>3. QED BY <3>1, <3>2
  <2>8. Increasing(v)
    BY <2>5, Zenon
  <2>9. InOrder(v, p, c, n)
    BY <1>3, <2>7, <2>8 DEF InOrder
  <2>10. QED BY <1>1, <2>9, Zenon
<1>5. QED BY <1>3, <1>4, Zenon

\* LAYER_DISCONN is no message to send.
LEMMA LayerQueued ==
  ASSUME NEW w \in Seq(Nat), NEW o \in Seq(OutSet), NEW c \in Seq(Nat), NEW n \in Nat,
         InOrder(w, o, c, n), NEW d \in OutSet, d \notin Datas
  PROVE  InOrder(w, Append(o, d), c, n)
<1>0. Append(o, d) \in Seq(OutSet)
  BY AppendPlaces
<1> PICK p \in Seq(OutSet) : p = Append(o, d)
  BY <1>0, Zenon
<1>1. /\ Len(o) \in Nat /\ Len(p) = Len(o) + 1 /\ p[Len(o) + 1] = d
      /\ \A k \in 1 .. Len(o) : p[k] = o[k]
  BY AppendPlaces
<1>2. Sendings(p) = Sendings(o) /\ \A k \in Sendings(o) : p[k] = o[k]
  BY <1>1 DEF Sendings
<1>3. InOrder(w, p, c, n)
  BY <1>2 DEF InOrder
<1>4. QED BY <1>3, Zenon

LEMMA OrderInit == Init => OrderInv
<1>1. Sendings(<<>>) = {} /\ Len(<<>>) = 0
  BY DEF Sendings
<1>2. QED BY <1>1 DEF Init, OrderInv, InOrder, Increasing

LEMMA OrderNext == TypeInv /\ TypeInv' /\ OrderInv /\ [Next]_vars => OrderInv'
<1> SUFFICES ASSUME TypeInv, TypeInv', OrderInv, [Next]_vars PROVE OrderInv'
  OBVIOUS
<1>1. /\ output \in Seq(OutSet) /\ cache \in Seq(1 .. MaxSent) /\ written \in Seq(1 .. MaxSent)
      /\ cache \in Seq(Nat) /\ written \in Seq(Nat) /\ sent \in Nat
      /\ <<>> \in Seq(Nat) /\ Len(<<>>) = 0
      /\ InOrder(written, output, cache, sent) /\ (state = "REG_OK" => cache = <<>>)
  BY Shapes, Bounds DEF TypeInv, OrderInv
<1>2. CASE Send
  <2>1. sent' = sent + 1 /\ sent' \in 1 .. MaxSent /\ written' = written /\ state' = state
    BY <1>1, <1>2, Bounds DEF Send
  <2>2. CASE state = "REG_OK"
    <3>1. /\ cache = <<>> /\ cache' = <<>> /\ hd \in ConnIds
          /\ output' = Append(output, Data(hd, sent'))
      BY <1>1, <1>2, <2>2 DEF Send, TypeInv, HdNamed
    <3>2. Data(hd, sent') \in Datas /\ Data(hd, sent') \in OutSet /\ Data(hd, sent').msg = sent + 1
      BY <2>1, <3>1, DataIsOut
    <3>3. InOrder(written, output, <<>>, sent)
      BY <1>1, <3>1, Zenon
    <3>4. InOrder(written, Append(output, Data(hd, sent')), <<>>, sent + 1)
      BY <1>1, <3>2, <3>3, QueuedBehind, Zenon
    <3>5. InOrder(written', output', cache', sent')
      BY <2>1, <3>1, <3>4, Zenon
    <3>6. QED BY <3>1, <3>5 DEF OrderInv
  <2>3. CASE state # "REG_OK"
    <3>1. output' = output /\ (cache' = cache \/ cache' = Append(cache, sent + 1))
      BY <1>2, <2>1, <2>3 DEF Send, AddCacheMsg
    <3>2. InOrder(written, output, cache, sent + 1) /\ InOrder(written, output, Append(cache, sent + 1), sent + 1)
      BY <1>1, CachedBehind, Zenon
    <3>3. InOrder(written', output', cache', sent')
      BY <2>1, <3>1, <3>2, Zenon
    <3>4. QED BY <2>1, <2>3, <3>3 DEF OrderInv
  <2>4. QED BY <2>2, <2>3
<1>3. CASE OnConnected
  <2>1. /\ sent' = sent /\ written' = written /\ state' = "REG_OK" /\ cache' = <<>>
        /\ hd' \in ConnIds
        /\ output' = output \o [k \in 1 .. Len(cache) |-> Data(hd', cache[k])]
    BY <1>3 DEF OnConnected, TypeInv, HdNamed
  <2>2. ASSUME NEW k \in 1 .. Len(cache)
        PROVE  /\ Data(hd', cache[k]) \in OutSet
               /\ Data(hd', cache[k]) \in Datas /\ Data(hd', cache[k]).msg = cache[k]
    <3>1. cache[k] \in 1 .. MaxSent
      BY <1>1, ElementOfSeq, Zenon
    <3>2. QED BY <2>1, <3>1, DataIsOut, Zenon
  <2>3. Len(cache) \in Nat
    BY <1>1
  <2>4. [k \in 1 .. Len(cache) |-> Data(hd', cache[k])] \in Seq(OutSet)
    BY <2>2, <2>3
  <2> PICK s \in Seq(OutSet) : s = [k \in 1 .. Len(cache) |-> Data(hd', cache[k])]
    BY <2>4, Zenon
  <2>5. Len(s) = Len(cache)
    BY <2>3
  <2>6. \A k \in 1 .. Len(cache) : s[k] \in Datas /\ s[k].msg = cache[k]
    BY <2>2, Zenon
  <2>7. InOrder(written, output \o s, <<>>, sent)
    BY <1>1, <2>5, <2>6, CacheSent, Zenon
  <2>8. output' = output \o s
    BY <2>1, Zenon
  <2>9. InOrder(written', output', cache', sent')
    BY <2>1, <2>7, <2>8, Zenon
  <2>10. QED BY <2>1, <2>9 DEF OrderInv
<1>4. CASE OnDisconn
  <2>1. /\ input # <<>> /\ output' = Append(output, LayerDisconn(Head(input)))
        /\ Disconnected(Head(input).id) /\ sent' = sent /\ written' = written
    BY <1>4 DEF OnDisconn, Told
  <2>2. Head(input) \in NewsSet
    BY <2>1, Shapes DEF TypeInv
  <2>3. LayerDisconn(Head(input)) \in OutSet /\ LayerDisconn(Head(input)) \notin Datas
    BY <2>2, LayerIsOut, OutShape, Zenon
  <2>4. InOrder(written, output', cache, sent)
    BY <1>1, <2>1, <2>3, LayerQueued, Zenon
  <2>5. Head(input).id \in ConnIds
    BY <2>2, NewsShape, Zenon
  <2>6. cache' = cache /\ (state' = "REG_OK" => state = "REG_OK")
    BY <2>1, <2>5, DisconnectedTypes, Zenon DEF TypeInv
  <2>7. QED BY <1>1, <2>1, <2>4, <2>6 DEF OrderInv
<1>5. CASE OnNoRecv
  <2>1. /\ input # <<>> /\ Disconnected(Head(input).id)
        /\ output' = output /\ sent' = sent /\ written' = written
    BY <1>5 DEF OnNoRecv, Told
  <2>2. Head(input) \in NewsSet
    BY <2>1, Shapes DEF TypeInv
  <2>3. Head(input).id \in ConnIds
    BY <2>2, NewsShape, Zenon
  <2>4. cache' = cache /\ (state' = "REG_OK" => state = "REG_OK")
    BY <2>1, <2>3, DisconnectedTypes, Zenon DEF TypeInv
  <2>5. QED BY <1>1, <2>1, <2>4 DEF OrderInv
<1>6. CASE IoSend
  <2>1. /\ output # <<>> /\ Head(output).type = "DATA" /\ output' = Tail(output)
        /\ written' = written \/ written' = Append(written, Head(output).msg)
        /\ cache' = cache /\ sent' = sent /\ state' = state
    BY <1>6 DEF IoSend, Taken, session
  <2>2. Head(output) \in Datas
    <3>1. Head(output) \in OutSet
      BY <1>1, <2>1
    <3>2. QED BY <2>1, <3>1, OutShape, Zenon
  <2>3. InOrder(written', output', cache', sent')
    BY <1>1, <2>1, <2>2, WrittenInOrder, Zenon
  <2>4. QED BY <1>1, <2>1, <2>3 DEF OrderInv
<1>7. CASE IoDisconn
  <2>1. /\ output # <<>> /\ output' = Tail(output) /\ written' = written
        /\ cache' = cache /\ sent' = sent /\ state' = state
    BY <1>7 DEF IoDisconn, Taken, session
  <2>2. InOrder(written', output', cache', sent')
    BY <1>1, <2>1, WrittenInOrder, Zenon
  <2>3. QED BY <1>1, <2>1, <2>2 DEF OrderInv
<1>8. CASE UNCHANGED <<state, cache, output, sent, written>>
  BY <1>8 DEF OrderInv, InOrder, Sendings, Increasing
<1>9. CASE TryConnect \/ ConnectEnds
  BY <1>8, <1>9 DEF TryConnect, Connect, ConnectEnds, ConnectOk, ConnectFail, session, queues
<1>10. CASE (\E id \in ConnIds : IoAccept(id) \/ IoError(id) \/ IoIdle(id)) \/ IoRefuse \/ IoDrop
  BY <1>8, <1>10 DEF IoAccept, IoError, IoIdle, IoRefuse, IoDrop, session, queues
<1>11. CASE UNCHANGED vars
  BY <1>8, <1>11 DEF vars, session, queues
<1>12. QED BY <1>2, <1>3, <1>4, <1>5, <1>6, <1>7, <1>9, <1>10, <1>11 DEF Next, LogicStep, IoStep, IoTake

\* From the order of the three to that of the sequence they make.
LEMMA OrderMade ==
  ASSUME NEW w \in Seq(Nat), NEW o \in Seq(OutSet), NEW c \in Seq(Nat), NEW n \in Nat,
         InOrder(w, o, c, n), NEW d, d = Keep(o, Datas)
  PROVE  Increasing(w \o [k \in 1 .. Len(d) |-> d[k].msg] \o c)
<1>1. d \in Seq(OutSet \cap Datas)
  BY KeepEmbeds
<1> PICK q \in Seq(OutSet \cap Datas) : q = d
  BY <1>1, Zenon
<1>2. PICK f : Embeds(f, q, o)
  <2>1. \E f : Embeds(f, Keep(o, Datas), o)
    BY KeepEmbeds, Zenon
  <2>2. QED BY <2>1, Zenon
<1>3. q \in Seq(OutSet) /\ Len(q) \in Nat /\ \A k \in 1 .. Len(q) : q[k] \in Datas
  OBVIOUS
<1>4. ASSUME NEW k \in 1 .. Len(q)
      PROVE  f[k] \in Sendings(o) /\ q[k] = o[f[k]] /\ q[k].msg \in Nat
  <2>1. f[k] \in 1 .. Len(o) /\ q[k] = o[f[k]] /\ q[k] \in Datas
    BY <1>2, <1>3 DEF Embeds
  <2>2. q[k].msg \in Nat
    BY <1>3, OutNumbers
  <2>3. QED BY <2>1, <2>2 DEF Sendings
<1>5. [k \in 1 .. Len(q) |-> q[k].msg] \in Seq(Nat)
  BY <1>3, <1>4
<1> PICK m \in Seq(Nat) : m = [k \in 1 .. Len(q) |-> q[k].msg]
  BY <1>5, Zenon
<1>6. Len(m) = Len(q)
  BY <1>3
<1>7. \A k \in 1 .. Len(q) : m[k] = o[f[k]].msg /\ f[k] \in Sendings(o)
  BY <1>4, Zenon
<1>8. Increasing(m)
  <2>1. ASSUME NEW i \in 1 .. Len(m), NEW j \in 1 .. Len(m), i < j PROVE m[i] < m[j]
    <3>1. i \in 1 .. Len(q) /\ j \in 1 .. Len(q)
      BY <1>6
    <3>2. f[i] < f[j]
      BY <1>2, <2>1, <3>1 DEF Embeds
    <3>3. o[f[i]].msg < o[f[j]].msg
      BY <1>7, <3>1, <3>2 DEF InOrder
    <3>4. QED BY <1>7, <3>1, <3>3
  <2>2. QED BY <2>1 DEF Increasing
<1>9. \A i \in 1 .. Len(w), k \in 1 .. Len(m) : w[i] < m[k]
  BY <1>6, <1>7 DEF InOrder
<1>10. ASSUME NEW k \in 1 .. Len(m), NEW j \in 1 .. Len(c) PROVE m[k] < c[j]
  <2>1. k \in 1 .. Len(q)
    BY <1>6
  <2>2. m[k] = o[f[k]].msg /\ f[k] \in Sendings(o)
    BY <1>7, <2>1, Zenon
  <2>3. o[f[k]].msg < c[j]
    BY <2>2 DEF InOrder
  <2>4. QED BY <2>2, <2>3
<1>11. Increasing(w) /\ Increasing(c) /\ \A i \in 1 .. Len(w), j \in 1 .. Len(c) : w[i] < c[j]
  BY DEF InOrder
<1>12. Increasing(w \o m) /\ w \o m \in Seq(Nat)
  BY <1>8, <1>9, <1>11, ConcatUp, ConcatPlaces, Zenon
<1> PICK v \in Seq(Nat) : v = w \o m
  BY <1>12, Zenon
<1>13. /\ Len(w) \in Nat /\ Len(m) \in Nat /\ Len(v) = Len(w) + Len(m)
       /\ \A k \in 1 .. Len(w) : v[k] = w[k]
       /\ \A k \in Len(w) + 1 .. Len(w) + Len(m) : v[k] = m[k - Len(w)]
  BY ONLY w \in Seq(Nat), m \in Seq(Nat), v = w \o m, ConcatPlaces
<1>14. ASSUME NEW i \in 1 .. Len(v), NEW j \in 1 .. Len(c) PROVE v[i] < c[j]
  <2>1. CASE i <= Len(w)
    <3>1. i \in 1 .. Len(w) /\ v[i] = w[i]
      BY <1>13, <2>1
    <3>2. QED BY <1>11, <3>1
  <2>2. CASE ~(i <= Len(w))
    <3>1. i - Len(w) \in 1 .. Len(m) /\ v[i] = m[i - Len(w)]
      BY <1>13, <2>2
    <3>2. QED BY <1>10, <3>1
  <2>3. QED BY <2>1, <2>2
<1>15. Increasing(v \o c)
  BY <1>11, <1>12, <1>14, ConcatUp, Zenon
<1>16. QED BY <1>15, Zenon

\* What was written, what is on its way and what is cached are together in the order in which
\* they were sent, nothing twice: no message overtakes one that waited in the cache.
THEOREM SentOnceInOrder == Spec => []OnceInOrder
<1> DEFINE Inv == TypeInv /\ OrderInv
<1>1. Init => Inv
  BY TypeInit, OrderInit
<1>2. Inv /\ [Next]_vars => Inv'
  BY TypeNext, OrderNext
<1>3. Inv => OnceInOrder
  <2> SUFFICES ASSUME TypeInv, OrderInv PROVE OnceInOrder
    OBVIOUS
  <2>1. /\ output \in Seq(OutSet) /\ cache \in Seq(Nat) /\ written \in Seq(Nat) /\ sent \in Nat
        /\ InOrder(written, output, cache, sent)
    BY Shapes, Bounds DEF TypeInv, OrderInv
  <2>2. QED BY <2>1, OrderMade DEF OnceInOrder
<1>4. QED BY <1>1, <1>2, <1>3, PTL DEF Spec
=============================================================================
