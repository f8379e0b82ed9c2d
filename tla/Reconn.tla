------------------------------- MODULE Reconn -------------------------------
(***************************************************************************)
(* A client session that connects again by itself: ReconnEvent, NetReconn  *)
(* and the LogicHandle in the logic thread, and the IO thread that serves  *)
(* its connections.  The logic thread connects with a bufferevent of its   *)
(* own and then hands the descriptor over the Accept queue to the IO       *)
(* thread, whose NetConn wraps it in a second bufferevent.  Both close the *)
(* descriptor when they are freed, so that every connection is closed      *)
(* twice, and the second time the number may be another socket's.          *)
(*                                                                         *)
(* The attempts to connect are numbered.  The code has no such number: it  *)
(* is kept in the state to tell whose descriptor, or connection, is met.   *)
(***************************************************************************)
EXTENDS Naturals, Sequences, SequencesExt, SeqFilter

CONSTANTS
  ConnIds,   \* the ids of the connections of the IO thread
  Fds,       \* the descriptors
  CacheMax,  \* _cacheCount
  MaxTries,  \* bound: attempts to connect
  MaxSent,   \* bound: messages sent
  InMax,     \* bound: the news in the Input queue that leave room for more
  OutMax     \* bound: the Output queue, for Send

ASSUME ReconnAssumption ==
  /\ ConnIds # {} /\ Fds # {} /\ 0 \notin ConnIds \cup Fds /\ CacheMax \in Nat
  /\ MaxTries \in Nat /\ MaxSent \in Nat /\ InMax \in Nat /\ OutMax \in Nat

VARIABLES
  connected, connecting,  \* _bConnected and _bConnecting
  try,      \* the attempt _pBuffer belongs to, 0 for a nullptr
  state,    \* _state of the session
  hd,       \* _hd: the id of the session's connection, or NoId
  slots,    \* the ids under which _sessVecs names the session
  cache,    \* _lstCache
  accept,   \* the Accept queue: attempts that succeeded
  input,    \* the Input queue: what the IO thread has told
  output,   \* the Output queue: messages and LAYER_DISCONN
  conn,     \* the attempt the NetConn of each id wraps, 0 for none
  idle,     \* the id of the connection the IO thread is about to delete as idle, or NoId
  fd,       \* the descriptor of each attempt
  holder,   \* the attempt each descriptor is open for, 0 when it is closed
  tries,    \* attempts made
  sent,     \* messages sent so far: the last one's number
  written,  \* history: the messages written to a connection
  lost      \* history: the client was left waiting for what cannot come

flags == <<connected, connecting, try>>
session == <<state, hd, slots, cache>>
queues == <<accept, input, output>>
pool == <<conn, idle>>
sockets == <<fd, holder>>
vars == <<flags, session, queues, pool, sockets, tries, sent, written, lost>>

NoId == 0
Tries == 1 .. MaxTries

Init ==
  /\ connected = FALSE /\ connecting = FALSE /\ try = 0
  /\ state = "UNKNOWN" /\ hd = NoId /\ slots = {} /\ cache = <<>>
  /\ accept = <<>> /\ input = <<>> /\ output = <<>>
  /\ conn = [id \in ConnIds |-> 0] /\ idle = NoId
  /\ fd = [n \in Tries |-> NoId] /\ holder = [f \in Fds |-> 0]
  /\ tries = 0 /\ sent = 0 /\ written = <<>> /\ lost = FALSE

\* The socket of the attempt is open under its descriptor: only then can an event of it come.
Alive(n) == n # 0 /\ fd[n] # NoId /\ holder[fd[n]] = n

\* A bufferevent of attempt n is freed, which closes the descriptor, whoever has it now.
Closed(n) == IF n = 0 \/ fd[n] = NoId THEN holder ELSE [holder EXCEPT ![fd[n]] = 0]

\* Closing it takes the descriptor away from the attempt under way: its event never comes.
Cuts(n) == n \notin {0, try} /\ connecting /\ Alive(try) /\ fd[n] = fd[try]

News(type, id) == [type |-> type, id |-> id, try |-> conn[id]]

(***************************************************************************)
(* The logic thread: ReconnEvent                                           *)
(***************************************************************************)

\* OnTimer and Connect, when bufferevent_socket_connect succeeds.  When it does not, the buffer
\* is freed again and nothing has changed.
Connect(f) ==
  /\ ~connected /\ ~connecting
  /\ tries < MaxTries
  /\ holder[f] = 0
  /\ tries' = tries + 1
  /\ try' = tries'
  /\ fd' = [fd EXCEPT ![tries'] = f]
  /\ holder' = [holder EXCEPT ![f] = tries']
  /\ connecting' = TRUE
  /\ UNCHANGED <<connected, session, queues, pool, sent, written, lost>>

\* OnConnect with BEV_EVENT_CONNECTED
ConnectOk ==
  /\ connecting /\ Alive(try)
  /\ connecting' = FALSE /\ connected' = TRUE
  /\ accept' = Append(accept, try)
  /\ UNCHANGED <<try, session, input, output, pool, sockets, tries, sent, written, lost>>

\* The attempt counts as under way although its buffer is gone.
ConnectFail_KeepsFlag ==
  /\ connecting /\ Alive(try)
  /\ try' = 0 /\ holder' = Closed(try)
  /\ UNCHANGED <<connected, connecting, session, queues, pool, fd, tries, sent, written, lost>>

\* OnConnect with any other event: _FreeBufferEvent
ConnectFail ==
  /\ connecting /\ Alive(try)
  /\ connecting' = FALSE
  /\ try' = 0 /\ holder' = Closed(try)
  /\ UNCHANGED <<connected, session, queues, pool, fd, tries, sent, written, lost>>

(***************************************************************************)
(* The logic thread: NetReconn and LogicHandle                             *)
(***************************************************************************)
Data(id, m) == [type |-> "DATA", id |-> id, try |-> 0, msg |-> m]
LayerDisconn(msg) == [type |-> "LAYER_DISCONN", id |-> msg.id, try |-> msg.try, msg |-> 0]

\* AddCacheMsg: a full cache drops the message.
AddCacheMsg_NoLimit(m) == Append(cache, m)
AddCacheMsg(m) == IF Len(cache) < CacheMax THEN Append(cache, m) ELSE cache

\* _Send: a message is cached while the session is not connected.
Send ==
  /\ sent < MaxSent /\ Len(output) < OutMax
  /\ sent' = sent + 1
  /\ \/ /\ state = "REG_OK"
        /\ output' = Append(output, Data(hd, sent'))
        /\ UNCHANGED cache
     \/ /\ state # "REG_OK"
        /\ cache' = AddCacheMsg(sent')
        /\ UNCHANGED output
  /\ UNCHANGED <<flags, state, hd, slots, accept, input, pool, sockets, tries, written, lost>>

Told(type) == input # <<>> /\ Head(input).type = type /\ input' = Tail(input)

\* The cache is sent and kept.
OnConnected_KeepsCache ==
  /\ Told("NET_CONNECTED")
  /\ LET id == Head(input).id
     IN  /\ IF id \in slots THEN UNCHANGED <<hd, slots>> ELSE hd' = id /\ slots' = slots \cup {id}
         /\ state' = "REG_OK"
         /\ output' = output \o [k \in 1 .. Len(cache) |-> Data(hd', cache[k])]
  /\ UNCHANGED <<flags, cache, accept, pool, sockets, tries, sent, written, lost>>

\* NET_CONNECTED: AddSession, whose result nobody looks at, then OnConnected, which sends the cache.
OnConnected ==
  /\ Told("NET_CONNECTED")
  /\ LET id == Head(input).id
     IN  /\ IF id \in slots THEN UNCHANGED <<hd, slots>> ELSE hd' = id /\ slots' = slots \cup {id}
         /\ state' = "REG_OK"
         /\ output' = output \o [k \in 1 .. Len(cache) |-> Data(hd', cache[k])]
         /\ cache' = <<>>
  /\ UNCHANGED <<flags, accept, pool, sockets, tries, sent, written, lost>>

\* _RemoveSession and OnDisconnected, with ReconnEvent::OnDisconnect, if the slot names the session
Disconnected(id) ==
  IF id \in slots
  THEN /\ slots' = slots \ {id}
       /\ state' = "DISCONN"
       /\ connected' = FALSE /\ connecting' = FALSE
       /\ try' = 0 /\ holder' = Closed(try)
       /\ UNCHANGED <<hd, cache>>
  ELSE UNCHANGED <<flags, session, holder>>

OnDisconn ==
  /\ Told("NET_DISCONN")
  /\ Disconnected(Head(input).id)
  /\ output' = Append(output, LayerDisconn(Head(input)))
  /\ UNCHANGED <<accept, pool, fd, tries, sent, written, lost>>

OnNoRecv ==
  /\ Told("NET_NORECV")
  /\ Disconnected(Head(input).id)
  /\ UNCHANGED <<accept, output, pool, fd, tries, sent, written, lost>>

(***************************************************************************)
(* The IO thread                                                           *)
(***************************************************************************)

\* _OnMsgAcceptFunc
IoAccept(id) ==
  /\ idle = NoId
  /\ accept # <<>> /\ accept' = Tail(accept)
  /\ conn[id] = 0
  /\ conn' = [conn EXCEPT ![id] = Head(accept)]
  /\ input' = Append(input, [type |-> "NET_CONNECTED", id |-> id, try |-> Head(accept)])
  /\ UNCHANGED <<flags, session, output, idle, sockets, tries, sent, written, lost>>

\* _OnMsgAcceptFunc when NewConn finds no id, or Init fails: the descriptor is closed and
\* nobody is told.
IoRefuse ==
  /\ idle = NoId
  /\ accept # <<>> /\ accept' = Tail(accept)
  /\ holder' = Closed(Head(accept))
  /\ lost' = TRUE
  /\ UNCHANGED <<flags, session, input, output, pool, fd, tries, sent, written>>

\* conn_event_cb, or conn_read_cb when the parser fails: it may happen more than once.
IoError(id) ==
  /\ idle = NoId
  /\ Alive(conn[id]) /\ Len(input) < InMax
  /\ input' = Append(input, News("NET_DISCONN", id))
  /\ UNCHANGED <<flags, session, accept, output, pool, sockets, tries, sent, written, lost>>

\* The connection is about to be deleted, and nobody is told.
IoIdle_Silent(id) ==
  /\ idle = NoId
  /\ conn[id] # 0 /\ Len(input) < InMax
  /\ idle' = id
  /\ UNCHANGED <<flags, session, queues, conn, sockets, tries, sent, written, lost>>

\* _OnNetConnDetect tells the logic thread first ...
IoIdle(id) ==
  /\ idle = NoId
  /\ conn[id] # 0 /\ Len(input) < InMax
  /\ input' = Append(input, News("NET_NORECV", id))
  /\ idle' = id
  /\ UNCHANGED <<flags, session, accept, output, conn, sockets, tries, sent, written, lost>>

\* ... and then deletes the connection, when the logic thread may have acted on the news.
IoDrop ==
  /\ idle # NoId
  /\ conn' = [conn EXCEPT ![idle] = 0]
  /\ holder' = Closed(conn[idle])
  /\ lost' = (lost \/ Cuts(conn[idle]))
  /\ idle' = NoId
  /\ UNCHANGED <<flags, session, queues, fd, tries, sent, written>>

Taken(type) ==
  /\ idle = NoId
  /\ output # <<>> /\ Head(output).type = type /\ output' = Tail(output)

\* io_send_msg_x, which drops what is for a connection that is gone
IoSend ==
  /\ Taken("DATA")
  /\ written' = IF conn[Head(output).id] = 0 THEN written ELSE Append(written, Head(output).msg)
  /\ UNCHANGED <<flags, session, accept, input, pool, sockets, tries, sent, lost>>

\* LAYER_DISCONN: DelConn on the id, whoever has it now.
IoDisconn ==
  /\ Taken("LAYER_DISCONN")
  /\ LET id == Head(output).id
     IN  /\ conn' = [conn EXCEPT ![id] = 0]
         /\ holder' = Closed(conn[id])
         /\ lost' = (lost \/ conn[id] \notin {0, Head(output).try} \/ Cuts(conn[id]))
  /\ UNCHANGED <<flags, session, accept, input, idle, fd, tries, sent, written>>

TryConnect == \E f \in Fds : Connect(f)
ConnectEnds == ConnectOk \/ ConnectFail
LogicStep == OnConnected \/ OnDisconn \/ OnNoRecv
IoStep == (\E id \in ConnIds : IoAccept(id)) \/ IoRefuse
IoTake == IoSend \/ IoDisconn

Next ==
  \/ TryConnect \/ ConnectEnds \/ Send
  \/ LogicStep \/ IoStep \/ IoTake \/ IoDrop
  \/ \E id \in ConnIds : IoError(id) \/ IoIdle(id)

\* The timers run, an attempt to connect ends, both threads empty their queues, and the detection
\* finds the connections whose socket is gone.
Fairness ==
  /\ WF_vars(TryConnect) /\ WF_vars(ConnectEnds)
  /\ WF_vars(LogicStep) /\ WF_vars(IoStep) /\ WF_vars(IoTake) /\ WF_vars(IoDrop)
  /\ \A id \in ConnIds : WF_vars(~Alive(conn[id]) /\ IoIdle(id))

Spec == Init /\ [][Next]_vars /\ Fairness

(***************************************************************************)
(* Properties                                                              *)
(***************************************************************************)
NewsTypes == {"NET_CONNECTED", "NET_DISCONN", "NET_NORECV"}
Datas == [type : {"DATA"}, id : ConnIds, try : {0}, msg : 1 .. MaxSent]
LayerDisconns == [type : {"LAYER_DISCONN"}, id : ConnIds, try : Tries, msg : {0}]

TypeOK ==
  /\ connected \in BOOLEAN /\ connecting \in BOOLEAN /\ try \in 0 .. MaxTries
  /\ state \in {"UNKNOWN", "REG_OK", "DISCONN"}
  /\ hd \in ConnIds \cup {NoId} /\ slots \subseteq ConnIds
  /\ cache \in Seq(1 .. MaxSent) /\ Len(cache) <= CacheMax
  /\ accept \in Seq(Tries)
  /\ input \in Seq([type : NewsTypes, id : ConnIds, try : Tries])
  /\ output \in Seq(Datas \cup LayerDisconns)
  /\ conn \in [ConnIds -> 0 .. MaxTries] /\ idle \in ConnIds \cup {NoId}
  /\ fd \in [Tries -> Fds \cup {NoId}] /\ holder \in [Fds -> 0 .. MaxTries]
  /\ tries \in 0 .. MaxTries /\ sent \in 0 .. MaxSent
  /\ written \in Seq(1 .. MaxSent) /\ lost \in BOOLEAN

Increasing(s) == \A i, j \in 1 .. Len(s) : i < j => s[i] < s[j]

\* What was written, what is on its way and what is cached are together in the order in which it
\* was sent, nothing twice: a message sent after the connection is back never overtakes one
\* cached before (NetReconn::_Send and OnConnect).
OnceInOrder ==
  LET onTheWay == Keep(output, Datas)
  IN  Increasing(written \o [k \in 1 .. Len(onTheWay) |-> onTheWay[k].msg] \o cache)

\* The connection try has not ended, or the logic thread will be told that it has.
Tracked ==
  \/ Contains(accept, try)
  \/ \E id \in ConnIds : conn[id] = try
  \/ \E k \in 1 .. Len(input) : input[k].type = "NET_NORECV" /\ input[k].try = try

\* The flags of ReconnEvent, which stop the timer from connecting, tell the truth: a connection
\* that is said to be up is with the IO thread, or word of its end is on its way, and one that
\* is said to be tried has a socket that will answer.  It fails only when the IO thread refused
\* a connection, deleted one in the place of another, or closed the socket being connected.
FlagsTrue ==
  /\ (connected \/ connecting) <=> (try # 0)
  /\ ~lost /\ connected => Tracked
  /\ ~lost /\ connecting => Alive(try)

Up == connected /\ state = "REG_OK" /\ hd # NoId /\ conn[hd] = try /\ Alive(try)

\* The client is connected again in the end, however the connection was lost, unless it is left
\* waiting as above or no more attempts are allowed (MaxTries).
Reconnects == ~Up ~> (Up \/ lost \/ tries = MaxTries)
=============================================================================
