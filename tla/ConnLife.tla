------------------------------ MODULE ConnLife ------------------------------
(***************************************************************************)
(* The life of the connections of one IO thread and of their sessions in   *)
(* the logic thread: NetConnPool.cpp, NetConn.cpp, NetEventCb.cpp,         *)
(* MsgParser.cpp and IoThread.cpp on one side, LogicHandle.cpp on the      *)
(* other.                                                                  *)
(*                                                                         *)
(* The two threads share no lock: they exchange messages through the Input *)
(* and the Output queue, each a channel in the sense of MsgChannel, and a  *)
(* message names its connection by its id alone.  Ids are reused.  The     *)
(* history field "gen" of a message says which of the connections that had *)
(* the id it was meant for; the code does not have it.                     *)
(*                                                                         *)
(* Time is not a number here: a connection may be found idle at any run of *)
(* the detection timer, and any older part of the kill list may be due.    *)
(***************************************************************************)
EXTENDS Naturals, Sequences, FiniteSets, SequencesExt, SeqFilter

CONSTANTS
  ConnIds,  \* the ids of the pool (IdAlloc says which one alloc picks)
  MaxGen,   \* bound: the connections accepted in all
  InMax,    \* bound: the messages in the Input queue that leave the peers room
  OutMax    \* bound: the messages in the Output queue

ASSUME ConnAssumption ==
  IsFiniteSet(ConnIds) /\ MaxGen \in Nat /\ InMax \in Nat /\ OutMax \in Nat

VARIABLES
  conn,     \* the NetConn of each id
  used,     \* _setUserID, the ids of the connections that are open
  mapkill,  \* _mapkill: the ids of the connections killed, oldest first
  input,    \* the Input queue: from the IO thread to the logic thread
  output,   \* the Output queue: from the logic thread to the IO thread
  sess,     \* _sessVecs: the connection whose session is in the slot, or 0
  gens,     \* history: how many connections were accepted
  reused,   \* history: an id was given to a new connection while a message
            \*   or the kill list still named the old one
  mixed     \* history: a message or a command met another connection's
            \*   session, or another connection, than its own

vars == <<conn, used, mapkill, input, output, sess, gens, reused, mixed>>

\* A NetConn after Release: _iConnId is invalid and the parse code is OK.
Released == [gen |-> 0, parse |-> "OK"]

Msg(type, id, gen) == [type |-> type, id |-> id, gen |-> gen]

Init ==
  /\ conn = [id \in ConnIds |-> Released]
  /\ used = {}
  /\ mapkill = <<>>
  /\ input = <<>>
  /\ output = <<>>
  /\ sess = [id \in ConnIds |-> 0]
  /\ gens = 0
  /\ reused = FALSE
  /\ mixed = FALSE

\* The peers leave room in the Input queue for what the timer adds.
InputRoom == Len(input) < InMax

(* Operators named X_Y are mutants of X: plausible errors, which no action *)
(* uses, that the properties at the end must be able to tell from X.       *)

---------------------------------------------------------------------------
(* The IO thread *)

\* NetConnPool::DelConn on each of a set of ids.  The socket is closed and
\* nobody is told.
DelConns(ids) ==
  /\ conn' = [id \in ConnIds |-> IF id \in ids THEN Released ELSE conn[id]]
  /\ used' = used \ ids
  /\ mapkill' = Keep(mapkill, ConnIds \ ids)

\* remove_killed deletes the connections of _mapkill to make room, and then
\* clears the list.  DelConn erases the entry the loop stands on, so that how
\* many of the others are visited is undefined.
Doomed ==
  IF used # ConnIds \/ mapkill = <<>> THEN {{}} ELSE SUBSET ToSet(mapkill) \ {{}}

KillListAfter(doomed) == IF used = ConnIds THEN <<>> ELSE mapkill

Named(id) ==
  \/ \E k \in 1 .. Len(input) : input[k].id = id
  \/ \E k \in 1 .. Len(output) : output[k].id = id

\* _OnMsgAcceptFunc when NewConn returns a connection and Init succeeds.  When
\* there is no id left the socket is closed and nothing changes.
Accept(doomed, id) ==
  /\ gens < MaxGen
  /\ InputRoom
  /\ doomed \in Doomed
  /\ id \in ConnIds \ (used \ doomed)
  /\ gens' = gens + 1
  /\ conn' = [c \in ConnIds |-> IF c = id THEN [gen |-> gens', parse |-> "OK"]
                                ELSE IF c \in doomed THEN Released ELSE conn[c]]
  /\ used' = (used \ doomed) \cup {id}
  /\ mapkill' = KillListAfter(doomed)
  /\ input' = Append(input, Msg("NET_ACCEPTED", id, gens'))
  /\ reused' = (reused \/ Named(id) \/ Contains(mapkill', id))
  /\ UNCHANGED <<output, sess, mixed>>

\* _OnMsgAcceptFunc when NetConn::Init fails: the socket is closed and the
\* new connection deleted at once, with what the kill list says of its id.
AcceptFail(doomed, id) ==
  /\ doomed \in Doomed
  /\ id \in ConnIds \ (used \ doomed)
  /\ conn' = [c \in ConnIds |-> IF c \in doomed \cup {id} THEN Released ELSE conn[c]]
  /\ used' = used \ doomed
  /\ mapkill' = Keep(KillListAfter(doomed), ConnIds \ {id})
  /\ UNCHANGED <<input, output, sess, gens, reused, mixed>>

\* The parse code is not looked at.
ReadMsg_AfterError(id) ==
  /\ id \in used
  /\ InputRoom
  /\ input' = Append(input, Msg("MSG", id, conn[id].gen))
  /\ UNCHANGED <<conn, used, mapkill, output, sess, gens, reused, mixed>>

\* conn_read_cb with a message: it is passed on only while the parse code is
\* OK.  A connection killed is not read any more.
ReadMsg(id) ==
  /\ id \in used
  /\ conn[id].parse = "OK"
  /\ InputRoom
  /\ input' = Append(input, Msg("MSG", id, conn[id].gen))
  /\ UNCHANGED <<conn, used, mapkill, output, sess, gens, reused, mixed>>

\* conn_read_cb when the parser fails: a bad head or size, more messages in a
\* second than the limit, or a message after an earlier error.  Each of them
\* tells the logic thread once more.
ReadError(id) ==
  /\ id \in used
  /\ conn[id].parse # "CUS_KILL"
  /\ InputRoom
  /\ conn' = [conn EXCEPT ![id].parse = "ERROR"]
  /\ input' = Append(input, Msg("NET_DISCONN", id, conn[id].gen))
  /\ UNCHANGED <<used, mapkill, output, sess, gens, reused, mixed>>

\* conn_event_cb: the peer closed or the socket failed, killed or not.
EventCb(id) ==
  /\ id \in used
  /\ InputRoom
  /\ conn' = [conn EXCEPT ![id].parse = "ERROR"]
  /\ input' = Append(input, Msg("NET_DISCONN", id, conn[id].gen))
  /\ UNCHANGED <<used, mapkill, output, sess, gens, reused, mixed>>

\* The connections killed are left to the kill list alone.
TimerDetect_NotKilled(idle, due) ==
  LET left   == Keep(mapkill, ConnIds \ idle)
      killed == ToSet(SubSeq(left, 1, due))
  IN /\ idle \subseteq {id \in used : conn[id].parse # "CUS_KILL"}
     /\ due <= Len(left)
     /\ idle # {} \/ due > 0
     /\ \E order \in SetToSeqs(idle) :
          input' = input \o [k \in 1 .. Len(order) |->
                              Msg("NET_NORECV", order[k], conn[order[k]].gen)]
     /\ DelConns(idle \cup killed)
     /\ UNCHANGED <<output, sess, gens, reused, mixed>>

\* _OnTimerDetect.  _OnNetConnDetect tells the logic thread of each idle
\* connection and deletes it, without an answer; _OnNetConnKill deletes the
\* connections at the front of the kill list, the oldest, and tells nobody.
TimerDetect(idle, due) ==
  LET left   == Keep(mapkill, ConnIds \ idle)
      killed == ToSet(SubSeq(left, 1, due))
  IN /\ idle \subseteq used
     /\ due <= Len(left)
     /\ idle # {} \/ due > 0
     /\ \E order \in SetToSeqs(idle) :
          input' = input \o [k \in 1 .. Len(order) |->
                              Msg("NET_NORECV", order[k], conn[order[k]].gen)]
     /\ DelConns(idle \cup killed)
     /\ UNCHANGED <<output, sess, gens, reused, mixed>>

Missed(m) == conn[m.id].gen \notin {0, m.gen}

\* _OnIoHandleConnMsg with LAYER_DISCONN.
IoDisconn ==
  /\ output # <<>>
  /\ Head(output).type = "LAYER_DISCONN"
  /\ DelConns({Head(output).id})
  /\ output' = Tail(output)
  /\ mixed' = (mixed \/ Missed(Head(output)))
  /\ UNCHANGED <<input, sess, gens, reused>>

\* A second entry is made for an id listed already.
IoKill_Twice ==
  LET id == Head(output).id
  IN /\ output # <<>>
     /\ Head(output).type = "LAYER_KILL"
     /\ conn' = [conn EXCEPT ![id].parse = "CUS_KILL"]
     /\ mapkill' = Append(mapkill, id)
     /\ output' = Tail(output)
     /\ mixed' = (mixed \/ Missed(Head(output)))
     /\ UNCHANGED <<used, input, sess, gens, reused>>

\* _OnIoHandleConnMsg with LAYER_KILL: the object is marked and listed,
\* whether it is a connection or a released one.
IoKill ==
  LET id == Head(output).id
  IN /\ output # <<>>
     /\ Head(output).type = "LAYER_KILL"
     /\ conn' = [conn EXCEPT ![id].parse = "CUS_KILL"]
     /\ mapkill' = IF Contains(mapkill, id) THEN mapkill ELSE Append(mapkill, id)
     /\ output' = Tail(output)
     /\ mixed' = (mixed \/ Missed(Head(output)))
     /\ UNCHANGED <<used, input, sess, gens, reused>>

\* io_send_msg_x: the bytes go to whoever has the id.
IoSend ==
  /\ output # <<>>
  /\ Head(output).type = "MSG"
  /\ output' = Tail(output)
  /\ mixed' = (mixed \/ Missed(Head(output)))
  /\ UNCHANGED <<conn, used, mapkill, input, sess, gens, reused>>

IoHandle == IoDisconn \/ IoKill \/ IoSend

---------------------------------------------------------------------------
(* The logic thread *)

Logic(type) == input # <<>> /\ Head(input).type = type /\ input' = Tail(input)

\* The session found under the message's id is not its connection's.
WrongSession(m) == sess[m.id] \notin {0, m.gen}

\* NET_ACCEPTED: a session is made, and entered if its slot is free; when it
\* is not, AddSession fails and nobody looks at its result.
OnAccepted ==
  LET m == Head(input)
  IN /\ Logic("NET_ACCEPTED")
     /\ sess' = IF sess[m.id] = 0 THEN [sess EXCEPT ![m.id] = m.gen] ELSE sess
     /\ mixed' = (mixed \/ WrongSession(m))
     /\ UNCHANGED <<conn, used, mapkill, output, gens, reused>>

\* The connection is deleted, its session kept.
OnDisconn_KeepsSession ==
  LET m == Head(input)
  IN /\ Logic("NET_DISCONN")
     /\ Len(output) < OutMax
     /\ output' = Append(output, Msg("LAYER_DISCONN", m.id, m.gen))
     /\ mixed' = (mixed \/ WrongSession(m))
     /\ UNCHANGED <<conn, used, mapkill, sess, gens, reused>>

\* NET_DISCONN: the session of the id, if there is one, goes; the IO thread
\* is told to delete the connection in either case.
OnDisconn ==
  LET m == Head(input)
  IN /\ Logic("NET_DISCONN")
     /\ Len(output) < OutMax
     /\ sess' = [sess EXCEPT ![m.id] = 0]
     /\ output' = Append(output, Msg("LAYER_DISCONN", m.id, m.gen))
     /\ mixed' = (mixed \/ WrongSession(m))
     /\ UNCHANGED <<conn, used, mapkill, gens, reused>>

\* The end of an idle connection is not news for its session.
OnNoRecv_KeepsSession ==
  LET m == Head(input)
  IN /\ Logic("NET_NORECV")
     /\ mixed' = (mixed \/ WrongSession(m))
     /\ UNCHANGED <<conn, used, mapkill, output, sess, gens, reused>>

\* NET_NORECV: the IO thread has deleted the connection already.
OnNoRecv ==
  LET m == Head(input)
  IN /\ Logic("NET_NORECV")
     /\ sess' = [sess EXCEPT ![m.id] = 0]
     /\ mixed' = (mixed \/ WrongSession(m))
     /\ UNCHANGED <<conn, used, mapkill, output, gens, reused>>

\* OnHandleLogicMsg: a ping is answered under the id it came with, any other
\* message goes to the session of the id, or nowhere.
OnMsg(ping) ==
  LET m == Head(input)
  IN /\ Logic("MSG")
     /\ ping => Len(output) < OutMax - 1
     /\ output' = IF ping THEN Append(output, Msg("MSG", m.id, m.gen)) ELSE output
     /\ mixed' = (mixed \/ (~ping /\ WrongSession(m)))
     /\ UNCHANGED <<conn, used, mapkill, sess, gens, reused>>

LogicHandle == OnAccepted \/ OnDisconn \/ OnNoRecv \/ \E ping \in BOOLEAN : OnMsg(ping)

\* The application sends on a session it has, or kills it.
SendNet(id) ==
  /\ sess[id] # 0
  /\ Len(output) < OutMax - 1
  /\ output' = Append(output, Msg("MSG", id, sess[id]))
  /\ UNCHANGED <<conn, used, mapkill, input, sess, gens, reused, mixed>>

\* The session is left in its slot for the news of the disconnection.
KillSession_KeepsSession(id) ==
  /\ sess[id] # 0
  /\ Len(output) < OutMax - 1
  /\ output' = Append(output, Msg("LAYER_KILL", id, sess[id]))
  /\ UNCHANGED <<conn, used, mapkill, input, sess, gens, reused, mixed>>

KillSession(id) ==
  /\ sess[id] # 0
  /\ Len(output) < OutMax - 1
  /\ output' = Append(output, Msg("LAYER_KILL", id, sess[id]))
  /\ sess' = [sess EXCEPT ![id] = 0]
  /\ UNCHANGED <<conn, used, mapkill, input, gens, reused, mixed>>

---------------------------------------------------------------------------
Next ==
  \/ \E doomed \in SUBSET ConnIds, id \in ConnIds : Accept(doomed, id) \/ AcceptFail(doomed, id)
  \/ \E id \in ConnIds : ReadMsg(id) \/ ReadError(id) \/ EventCb(id)
  \/ \E idle \in SUBSET ConnIds, due \in 0 .. Cardinality(ConnIds) : TimerDetect(idle, due)
  \/ IoHandle
  \/ LogicHandle
  \/ \E id \in ConnIds : SendNet(id) \/ KillSession(id)

\* Both threads run.  A connection whose parse code is not OK is never marked
\* as having received anything again: some run of the timer finds it idle.
\* Nothing is assumed of the peers and of the application.
DetectDead(id) ==
  /\ conn[id].parse # "OK"
  /\ \E idle \in SUBSET ConnIds, due \in 0 .. Cardinality(ConnIds) :
       id \in idle /\ TimerDetect(idle, due)

Fairness ==
  /\ WF_vars(IoHandle)
  /\ WF_vars(LogicHandle)
  /\ \A id \in ConnIds : WF_vars(DetectDead(id))

Spec == Init /\ [][Next]_vars /\ Fairness

---------------------------------------------------------------------------
(* Properties *)

Gens == 0 .. MaxGen
NewsTypes == {"NET_DISCONN", "NET_NORECV"}   \* that tell the end of a connection

TypeOK ==
  /\ conn \in [ConnIds -> [gen : Gens, parse : {"OK", "ERROR", "CUS_KILL"}]]
  /\ used \subseteq ConnIds
  /\ mapkill \in Seq(ConnIds) /\ IsInjective(mapkill)
  /\ input \in Seq([type : NewsTypes \cup {"NET_ACCEPTED", "MSG"}, id : ConnIds, gen : Gens])
  /\ Len(input) <= InMax + Cardinality(ConnIds)
  /\ output \in Seq([type : {"LAYER_DISCONN", "LAYER_KILL", "MSG"}, id : ConnIds, gen : Gens])
  /\ Len(output) <= OutMax
  /\ sess \in [ConnIds -> Gens] /\ gens \in Gens
  /\ reused \in BOOLEAN /\ mixed \in BOOLEAN

\* What goes wrong between the threads goes wrong by the reuse of an id: as
\* long as no id was given to a new connection while a queue or the kill list
\* still named the old one, every message was handled by the session of its
\* own connection and every command met its own connection.
OnlyReuseMixes == mixed => reused

\* ... and then the session in a slot is that of the connection that has the
\* id, or the news of the end of its connection is on the way.
SessionMatchesConn ==
  ~reused =>
    \A id \in ConnIds :
      sess[id] # 0 =>
        \/ id \in used /\ conn[id].gen = sess[id]
        \/ \E k \in 1 .. Len(input) :
             input[k].gen = sess[id] /\ input[k].type = "NET_NORECV"

\* The last the logic thread hears of a connection is its end: no message of
\* the connection is queued behind it.
NothingAfterGoodbye ==
  \A i, j \in 1 .. Len(input) :
    i < j /\ input[i].gen = input[j].gen /\ input[i].type \in NewsTypes
      => input[j].type \in NewsTypes

\* A connection in error or killed is deleted in the end, even when its entry
\* was dropped from the kill list.
DeadConnDeleted ==
  \A id \in ConnIds, g \in 1 .. MaxGen :
    (conn[id] = [gen |-> g, parse |-> "CUS_KILL"] \/ conn[id] = [gen |-> g, parse |-> "ERROR"])
      ~> (conn[id].gen # g)

\* A session outlives its connection only until the news of it is handled,
\* as long as no id was reused too early.
SessionFollowsConn ==
  \A id \in ConnIds, g \in 1 .. MaxGen :
    (sess[id] = g /\ conn[id].gen # g) ~> (sess[id] # g \/ reused)
=============================================================================
