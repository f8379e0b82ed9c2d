--------------------------- MODULE ConnLifeProofs ---------------------------
(***************************************************************************)
(* Proofs about ConnLife, for every finite set of connection ids, any      *)
(* number of connections and any room in the queues.                       *)
(***************************************************************************)
EXTENDS ConnLife, SeqFacts, FunctionTheorems

---------------------------------------------------------------------------
(* Type correctness *)

Notice == [type : NewsTypes \cup {"NET_ACCEPTED", "MSG"}, id : ConnIds, gen : Gens]
Command == [type : {"LAYER_DISCONN", "LAYER_KILL", "MSG"}, id : ConnIds, gen : Gens]

\* The connections that are open are those that have a number.
OpenHasGen == \A id \in ConnIds : id \in used <=> conn[id].gen # 0

\* The detection needs no room in the Input queue: it deletes a connection
\* for each message it adds.
RoomForNews == Len(input) + Cardinality(used) <= InMax + Cardinality(ConnIds)

TypeInv == TypeOK /\ OpenHasGen /\ RoomForNews

\* What is left of a list of distinct ids when some are taken out.
LEMMA KillListRest ==
  ASSUME NEW s \in Seq(ConnIds), IsInjective(s), NEW S
  PROVE  Keep(s, S) \in Seq(ConnIds) /\ IsInjective(Keep(s, S))
<1>1. Keep(s, S) \in Seq(ConnIds \cap S)
  BY KeepEmbeds
<1>2. QED BY <1>1, KeepInjective

\* A sequence of a set without repetitions is as long as the set, and has
\* every element of it.
LEMMA OrderOfSet ==
  ASSUME NEW S, IsFiniteSet(S), NEW order \in SetToSeqs(S)
  PROVE  /\ order \in Seq(S) /\ Len(order) = Cardinality(S)
         /\ \A k \in 1 .. Len(order) : order[k] \in S
         /\ \A e \in S : \E k \in 1 .. Len(order) : order[k] = e
<1> DEFINE n == Cardinality(S)
<1>1. n \in Nat
  BY FS_CardinalityType
<1>2. order \in [1 .. n -> S] /\ \A i, j \in 1 .. n : i # j => order[i] # order[j]
  BY DEF SetToSeqs
<1>3. order \in Seq(S) /\ Len(order) = n
  BY <1>1, <1>2
<1>4. order \in Injection(1 .. n, S)
  BY <1>2, Fun_IsInj
<1>5. IsFiniteSet(1 .. n) /\ Cardinality(1 .. n) = n
  BY <1>1, FS_Interval
<1>6. order \in Surjection(1 .. n, S)
  BY <1>4, <1>5, FS_Injection
<1>7. \A e \in S : \E k \in 1 .. n : order[k] = e
  BY <1>6 DEF Surjection
<1>8. QED BY <1>1, <1>2, <1>3, <1>7

\* DelConn on a set of ids, of which every one is open or none need be.
LEMMA DelConnsType ==
  ASSUME TypeOK, OpenHasGen, NEW ids \in SUBSET ConnIds, DelConns(ids)
  PROVE  /\ conn' \in [ConnIds -> [gen : Gens, parse : {"OK", "ERROR", "CUS_KILL"}]]
         /\ used' \subseteq ConnIds
         /\ mapkill' \in Seq(ConnIds) /\ IsInjective(mapkill')
         /\ OpenHasGen'
         /\ Cardinality(used') \in Nat /\ Cardinality(used') <= Cardinality(used)
         /\ Cardinality(used' \cup ids) \in Nat
<1> USE ConnAssumption
<1>1. mapkill' \in Seq(ConnIds) /\ IsInjective(mapkill')
  BY KillListRest DEF DelConns, TypeOK
<1>2. IsFiniteSet(used)
  BY FS_Subset DEF TypeOK
<1>3. Cardinality(used') \in Nat /\ Cardinality(used') <= Cardinality(used)
  BY <1>2, FS_Subset, FS_CardinalityType DEF DelConns
<1>4. conn' \in [ConnIds -> [gen : Gens, parse : {"OK", "ERROR", "CUS_KILL"}]]
  BY DEF DelConns, TypeOK, Released, Gens
<1>5. used' \subseteq ConnIds
  BY DEF DelConns, TypeOK
<1>6. OpenHasGen'
  BY DEF DelConns, TypeOK, OpenHasGen, Released
<1>7. IsFiniteSet(used' \cup ids)
  BY <1>5, FS_Subset
<1>8. QED BY <1>1, <1>3, <1>4, <1>5, <1>6, <1>7, FS_CardinalityType

LEMMA TypeInit == Init => TypeInv
<1> SUFFICES ASSUME Init PROVE TypeInv
  OBVIOUS
<1>1. Cardinality({}) = 0 /\ Cardinality(ConnIds) \in Nat
  BY ConnAssumption, FS_EmptySet, FS_CardinalityType
<1>2. TypeOK
  <2>1. 0 \in Gens /\ {} \subseteq ConnIds
    BY ConnAssumption DEF Gens
  <2>2. /\ conn \in [ConnIds -> [gen : Gens, parse : {"OK", "ERROR", "CUS_KILL"}]]
        /\ sess \in [ConnIds -> Gens]
    BY <2>1 DEF Init, Released
  <2>3. /\ mapkill = <<>> /\ input = <<>> /\ output = <<>>
        /\ used = {} /\ gens = 0 /\ reused = FALSE /\ mixed = FALSE
    BY DEF Init
  <2>4. IsInjective(mapkill)
    BY <2>3 DEF IsInjective
  <2>5. Len(input) <= InMax + Cardinality(ConnIds) /\ Len(output) <= OutMax
    BY <1>1, <2>3, ConnAssumption
  <2>6. \A T : <<>> \in Seq(T)
    OBVIOUS
  <2>7. /\ mapkill \in Seq(ConnIds)
        /\ input \in Seq([type : NewsTypes \cup {"NET_ACCEPTED", "MSG"}, id : ConnIds, gen : Gens])
        /\ output \in Seq([type : {"LAYER_DISCONN", "LAYER_KILL", "MSG"}, id : ConnIds, gen : Gens])
    BY <2>3, <2>6, Zenon
  <2>8. QED BY <2>1, <2>2, <2>3, <2>4, <2>5, <2>7, Zenon DEF TypeOK
<1>3. OpenHasGen /\ RoomForNews
  BY <1>1, ConnAssumption DEF Init, OpenHasGen, RoomForNews, Released
<1>4. QED BY <1>2, <1>3 DEF TypeInv

LEMMA TypeNext == TypeInv /\ [Next]_vars => TypeInv'
<1> SUFFICES ASSUME TypeInv, [Next]_vars PROVE TypeInv'
  OBVIOUS
<1> USE ConnAssumption
<1>a. TypeOK /\ OpenHasGen /\ RoomForNews
  BY DEF TypeInv
<1>b. /\ Cardinality(ConnIds) \in Nat
      /\ \A S \in SUBSET ConnIds : /\ IsFiniteSet(S) /\ Cardinality(S) \in Nat
                                   /\ Cardinality(S) <= Cardinality(ConnIds)
  BY FS_Subset, FS_CardinalityType
<1>c. /\ Len(input) \in Nat /\ Len(output) \in Nat /\ input \in Seq(Notice) /\ output \in Seq(Command)
      /\ Cardinality(used) \in Nat
  BY <1>a, <1>b DEF TypeOK, Notice, Command
<1>1. ASSUME NEW doomed \in SUBSET ConnIds, NEW id \in ConnIds, Accept(doomed, id) PROVE TypeInv'
  <2>1. gens' \in Gens /\ gens' # 0
    BY <1>1, <1>a DEF Accept, TypeOK, Gens
  <2>2. conn' \in [ConnIds -> [gen : Gens, parse : {"OK", "ERROR", "CUS_KILL"}]]
    BY <1>1, <1>a, <2>1 DEF Accept, TypeOK, Released, Gens
  <2>3. used' \subseteq ConnIds
    BY <1>1, <1>a DEF Accept, TypeOK
  <2>4. mapkill' \in Seq(ConnIds) /\ IsInjective(mapkill')
    BY <1>1, <1>a DEF Accept, TypeOK, KillListAfter, IsInjective
  <2>5. Msg("NET_ACCEPTED", id, gens') \in Notice
    BY <2>1 DEF Msg, Notice
  <2>6. input' \in Seq(Notice) /\ Len(input') = Len(input) + 1
    BY <1>1, <1>c, <2>5, AppendProperties DEF Accept
  <2>7. RoomForNews'
    BY <1>1, <1>b, <1>c, <2>3, <2>6 DEF Accept, InputRoom, RoomForNews
  <2>8. OpenHasGen'
    BY <1>1, <1>a, <2>1 DEF Accept, OpenHasGen, TypeOK, Released
  <2>9. reused' \in BOOLEAN
    BY <1>1, <1>a DEF Accept, TypeOK, Named, Contains
  <2>10. QED BY <1>1, <1>a, <1>b, <1>c, <2>1, <2>2, <2>3, <2>4, <2>6, <2>7, <2>8, <2>9
             DEF Accept, TypeInv, TypeOK, Notice, InputRoom
<1>2. ASSUME NEW doomed \in SUBSET ConnIds, NEW id \in ConnIds, AcceptFail(doomed, id) PROVE TypeInv'
  <2>1. conn' \in [ConnIds -> [gen : Gens, parse : {"OK", "ERROR", "CUS_KILL"}]]
    BY <1>2, <1>a DEF AcceptFail, TypeOK, Released, Gens
  <2>2. used' \subseteq used /\ used' \subseteq ConnIds
    BY <1>2, <1>a DEF AcceptFail, TypeOK
  <2>3. KillListAfter(doomed) \in Seq(ConnIds) /\ IsInjective(KillListAfter(doomed))
    BY <1>a DEF TypeOK, KillListAfter, IsInjective
  <2>4. mapkill' \in Seq(ConnIds) /\ IsInjective(mapkill')
    BY <1>2, <2>3, KillListRest DEF AcceptFail
  <2>5. OpenHasGen'
    BY <1>2, <1>a DEF AcceptFail, OpenHasGen, TypeOK, Released
  <2>6. Cardinality(used') <= Cardinality(used) /\ Cardinality(used') \in Nat
    BY <1>a, <1>b, <2>2, FS_Subset DEF TypeOK
  <2>7. RoomForNews'
    BY <1>2, <1>a, <1>b, <1>c, <2>6 DEF AcceptFail, RoomForNews
  <2>8. QED BY <1>2, <1>a, <2>1, <2>2, <2>4, <2>5, <2>7 DEF AcceptFail, TypeInv, TypeOK
<1>3. ASSUME NEW id \in ConnIds, ReadMsg(id) \/ ReadError(id) \/ EventCb(id) PROVE TypeInv'
  <2>1. PICK t \in NewsTypes \cup {"MSG"} : input' = Append(input, Msg(t, id, conn[id].gen))
    BY <1>3 DEF ReadMsg, ReadError, EventCb, NewsTypes
  <2>2. Msg(t, id, conn[id].gen) \in Notice
    BY <1>a DEF Msg, Notice, TypeOK
  <2>3. input' \in Seq(Notice) /\ Len(input') = Len(input) + 1 /\ InputRoom
    BY <1>3, <1>c, <2>1, <2>2, AppendProperties DEF ReadMsg, ReadError, EventCb
  <2>4. conn' \in [ConnIds -> [gen : Gens, parse : {"OK", "ERROR", "CUS_KILL"}]]
    <3>1. conn' = conn \/ conn' = [conn EXCEPT ![id].parse = "ERROR"]
      BY <1>3 DEF ReadMsg, ReadError, EventCb
    <3>2. QED BY <1>a, <3>1 DEF TypeOK
  <2>5. \A c \in ConnIds : conn'[c].gen = conn[c].gen
    <3>1. conn' = conn \/ conn' = [conn EXCEPT ![id].parse = "ERROR"]
      BY <1>3 DEF ReadMsg, ReadError, EventCb
    <3>2. QED BY <1>a, <3>1 DEF TypeOK
  <2>6. UNCHANGED <<used, mapkill, output, sess, gens, reused, mixed>>
    BY <1>3 DEF ReadMsg, ReadError, EventCb
  <2>7. RoomForNews'
    BY <1>a, <1>b, <1>c, <2>3, <2>6 DEF RoomForNews, InputRoom, TypeOK
  <2>8. QED BY <1>a, <1>b, <1>c, <2>3, <2>4, <2>5, <2>6, <2>7
            DEF TypeInv, TypeOK, OpenHasGen, Notice, InputRoom
<1>4. ASSUME NEW idle \in SUBSET ConnIds, NEW due \in 0 .. Cardinality(ConnIds), TimerDetect(idle, due)
      PROVE TypeInv'
  <2> DEFINE left == Keep(mapkill, ConnIds \ idle)
             killed == ToSet(SubSeq(left, 1, due))
  <2>1. left \in Seq(ConnIds) /\ due \in 0 .. Len(left)
    BY <1>4, <1>a, KillListRest DEF TimerDetect, TypeOK
  <2>2. killed \in SUBSET ConnIds
    BY <2>1 DEF ToSet
  <2>3. DelConns(idle \cup killed) /\ idle \subseteq used
    BY <1>4 DEF TimerDetect
  <2> HIDE DEF left, killed
  <2>4. PICK order \in SetToSeqs(idle) :
          input' = input \o [k \in 1 .. Len(order) |-> Msg("NET_NORECV", order[k], conn[order[k]].gen)]
    BY <1>4 DEF TimerDetect
  <2> DEFINE news == [k \in 1 .. Len(order) |-> Msg("NET_NORECV", order[k], conn[order[k]].gen)]
  <2>5. Len(order) = Cardinality(idle) /\ \A k \in 1 .. Len(order) : order[k] \in ConnIds
    BY <1>b, OrderOfSet
  <2>6. \A k \in 1 .. Len(order) : Msg("NET_NORECV", order[k], conn[order[k]].gen) \in Notice
    BY <1>a, <2>5 DEF Msg, Notice, NewsTypes, TypeOK
  <2>7. news \in Seq(Notice) /\ Len(news) = Cardinality(idle)
    BY <1>b, <2>5, <2>6
  <2>8. input' \in Seq(Notice) /\ Len(input') = Len(input) + Cardinality(idle)
    <3>1. input' = input \o news
      BY <2>4
    <3> HIDE DEF news
    <3>2. QED BY <1>c, <2>7, <3>1, ConcatProperties
  <2>9. /\ conn' \in [ConnIds -> [gen : Gens, parse : {"OK", "ERROR", "CUS_KILL"}]]
        /\ used' \subseteq ConnIds
        /\ mapkill' \in Seq(ConnIds) /\ IsInjective(mapkill')
        /\ OpenHasGen'
    BY <1>a, <2>2, <2>3, DelConnsType
  <2>10. used' \subseteq used \ idle
    BY <2>3 DEF DelConns
  <2>11. Cardinality(used') + Cardinality(idle) <= Cardinality(used)
    <3>1. Cardinality(used' \cup idle) = Cardinality(used') + Cardinality(idle) - Cardinality({})
      <4>1. used' \cap idle = {}
        BY <2>10
      <4>2. IsFiniteSet(used') /\ IsFiniteSet(idle)
        BY <1>b, <2>9
      <4>3. QED BY <4>1, <4>2, FS_Union
    <3>2. Cardinality(used' \cup idle) <= Cardinality(used)
      <4>1. used' \cup idle \in SUBSET used
        BY <2>3, <2>10
      <4>2. QED BY <1>a, <1>b, <4>1, FS_Subset DEF TypeOK
    <3>3. QED BY <1>b, <2>9, <3>1, <3>2, FS_EmptySet
  <2>12. Cardinality(used') \in Nat /\ Cardinality(idle) \in Nat
    BY <1>b, <2>9
  <2>13. RoomForNews'
    BY <1>a, <1>b, <1>c, <2>8, <2>11, <2>12 DEF RoomForNews
  <2>14. UNCHANGED <<output, sess, gens, reused, mixed>>
    BY <1>4 DEF TimerDetect
  <2>15. Len(input') <= InMax + Cardinality(ConnIds)
    BY <1>b, <2>8, <1>c, <2>12, <2>13 DEF RoomForNews
  <2>16. QED BY <1>a, <2>8, <2>9, <2>13, <2>14, <2>15 DEF TypeInv, TypeOK, Notice
<1>5. CASE IoDisconn
  <2>1. Head(output) \in Command /\ output' \in Seq(Command) /\ Len(output') = Len(output) - 1
    BY <1>5, <1>c, HeadTailProperties DEF IoDisconn
  <2>2. DelConns({Head(output).id}) /\ {Head(output).id} \in SUBSET ConnIds
    BY <1>5, <2>1 DEF IoDisconn, Command
  <2>3. /\ conn' \in [ConnIds -> [gen : Gens, parse : {"OK", "ERROR", "CUS_KILL"}]]
        /\ used' \subseteq ConnIds
        /\ mapkill' \in Seq(ConnIds) /\ IsInjective(mapkill')
        /\ OpenHasGen'
        /\ Cardinality(used') \in Nat /\ Cardinality(used') <= Cardinality(used)
    BY <1>a, <2>2, DelConnsType
  <2>4. UNCHANGED <<input, sess, gens, reused>> /\ mixed' \in BOOLEAN
    BY <1>5, <1>a DEF IoDisconn, Missed, TypeOK
  <2>5. RoomForNews'
    BY <1>a, <1>b, <1>c, <2>3, <2>4 DEF RoomForNews
  <2>6. QED BY <1>a, <1>c, <2>1, <2>3, <2>4, <2>5 DEF TypeInv, TypeOK, Command
<1>6. CASE IoKill
  <2>1. Head(output) \in Command /\ output' \in Seq(Command) /\ Len(output') = Len(output) - 1
    BY <1>6, <1>c, HeadTailProperties DEF IoKill
  <2> DEFINE id == Head(output).id
  <2>2. id \in ConnIds
    BY <2>1 DEF Command
  <2>3. mapkill' = IF Contains(mapkill, id) THEN mapkill ELSE Append(mapkill, id)
    BY <1>6 DEF IoKill
  <2>4. conn' = [conn EXCEPT ![id].parse = "CUS_KILL"]
    BY <1>6 DEF IoKill
  <2> HIDE DEF id
  <2>5. mapkill' \in Seq(ConnIds) /\ IsInjective(mapkill')
    <3>1. CASE Contains(mapkill, id)
      BY <1>a, <2>3, <3>1 DEF TypeOK
    <3>2. CASE ~Contains(mapkill, id)
      BY <1>a, <2>2, <2>3, <3>2, AppendProperties DEF TypeOK, Contains, IsInjective
    <3>3. QED BY <3>1, <3>2
  <2>6. /\ conn' \in [ConnIds -> [gen : Gens, parse : {"OK", "ERROR", "CUS_KILL"}]]
        /\ \A c \in ConnIds : conn'[c].gen = conn[c].gen
    BY <1>a, <2>2, <2>4 DEF TypeOK
  <2>7. UNCHANGED <<used, input, sess, gens, reused>> /\ mixed' \in BOOLEAN
    BY <1>6, <1>a DEF IoKill, Missed, TypeOK
  <2>8. QED BY <1>a, <1>c, <2>1, <2>5, <2>6, <2>7 DEF TypeInv, TypeOK, Command, OpenHasGen, RoomForNews
<1>7. CASE IoSend
  <2>1. output' \in Seq(Command) /\ Len(output') = Len(output) - 1
    BY <1>7, <1>c, HeadTailProperties DEF IoSend
  <2>2. UNCHANGED <<conn, used, mapkill, input, sess, gens, reused>> /\ mixed' \in BOOLEAN
    BY <1>7, <1>a DEF IoSend, Missed, TypeOK
  <2>3. QED BY <1>a, <1>c, <2>1, <2>2 DEF TypeInv, TypeOK, Command, OpenHasGen, RoomForNews
<1>8. CASE LogicHandle
  <2> DEFINE m == Head(input)
  <2>1. m \in Notice /\ input' \in Seq(Notice) /\ Len(input') = Len(input) - 1
    BY <1>8, <1>c, HeadTailProperties DEF LogicHandle, OnAccepted, OnDisconn, OnNoRecv, OnMsg, Logic
  <2>2. m.id \in ConnIds /\ m.gen \in Gens
    BY <2>1 DEF Notice
  <2>3. sess' \in [ConnIds -> Gens]
    <3>1. sess' \in {sess, [sess EXCEPT ![m.id] = m.gen], [sess EXCEPT ![m.id] = 0]}
      BY <1>8 DEF LogicHandle, OnAccepted, OnDisconn, OnNoRecv, OnMsg
    <3> HIDE DEF m
    <3>2. 0 \in Gens
      BY DEF Gens
    <3>3. QED BY <1>a, <2>2, <3>1, <3>2 DEF TypeOK
  <2>4. output' \in Seq(Command) /\ Len(output') <= OutMax
    <3>1. \/ output' = output
          \/ /\ Len(output) < OutMax
             /\ \E t \in {"LAYER_DISCONN", "MSG"} : output' = Append(output, Msg(t, m.id, m.gen))
      BY <1>8, <1>c DEF LogicHandle, OnAccepted, OnDisconn, OnNoRecv, OnMsg
    <3> HIDE DEF m
    <3>2. \A t \in {"LAYER_DISCONN", "MSG"} : Msg(t, m.id, m.gen) \in Command
      BY <2>2 DEF Msg, Command
    <3>3. CASE output' = output
      BY <1>a, <1>c, <3>3 DEF TypeOK
    <3>4. CASE Len(output) < OutMax /\ \E c \in Command : output' = Append(output, c)
      BY <1>c, <3>4, AppendProperties
    <3>5. QED BY <3>1, <3>2, <3>3, <3>4
  <2>5. UNCHANGED <<conn, used, mapkill, gens, reused>> /\ mixed' \in BOOLEAN
    BY <1>8, <1>a DEF LogicHandle, OnAccepted, OnDisconn, OnNoRecv, OnMsg, WrongSession, TypeOK
  <2>6. QED BY <1>a, <1>b, <1>c, <2>1, <2>3, <2>4, <2>5
            DEF TypeInv, TypeOK, Notice, Command, OpenHasGen, RoomForNews
<1>9. ASSUME NEW id \in ConnIds, SendNet(id) \/ KillSession(id) PROVE TypeInv'
  <2>1. PICK t \in {"LAYER_KILL", "MSG"} : output' = Append(output, Msg(t, id, sess[id]))
    BY <1>9 DEF SendNet, KillSession
  <2>2. Msg(t, id, sess[id]) \in Command
    BY <1>a DEF Msg, Command, TypeOK
  <2>3. output' \in Seq(Command) /\ Len(output') <= OutMax
    BY <1>9, <1>c, <2>1, <2>2, AppendProperties DEF SendNet, KillSession
  <2>4. sess' \in [ConnIds -> Gens]
    <3>1. sess' = sess \/ sess' = [sess EXCEPT ![id] = 0]
      BY <1>9 DEF SendNet, KillSession
    <3>2. 0 \in Gens
      BY DEF Gens
    <3>3. QED BY <1>a, <3>1, <3>2 DEF TypeOK
  <2>5. UNCHANGED <<conn, used, mapkill, input, gens, reused, mixed>>
    BY <1>9 DEF SendNet, KillSession
  <2>6. QED BY <1>a, <2>3, <2>4, <2>5 DEF TypeInv, TypeOK, Command, OpenHasGen, RoomForNews
<1>10. CASE UNCHANGED vars
  BY <1>10, <1>a DEF vars, TypeInv, TypeOK, OpenHasGen, RoomForNews
<1>11. QED
  BY <1>1, <1>2, <1>3, <1>4, <1>5, <1>6, <1>7, <1>8, <1>9, <1>10 DEF Next, IoHandle

\* Type correctness: in particular the kill list never names an id twice, and
\* the detection, which does not look for room, never makes the Input queue
\* longer than its room and one message for each id.
THEOREM TypeCorrect == Spec => []TypeOK
<1>1. TypeInv => TypeOK
  BY DEF TypeInv
<1>2. QED
  BY TypeInit, TypeNext, <1>1, PTL DEF Spec

---------------------------------------------------------------------------
(* The last that is heard of a connection is its end *)

\* Connections are numbered as they are accepted, ...
Numbered ==
  /\ \A id \in ConnIds : conn[id].gen <= gens
  /\ \A k \in 1 .. Len(input) : input[k].gen <= gens

\* ... each with a number of its own.
DistinctGens == \A a, b \in used : conn[a].gen = conn[b].gen => a = b

\* As long as the parse code of a connection is OK nobody was told of its end:
\* this is what makes the test of the code in conn_read_cb enough.
NotYetEnded ==
  \A id \in used : conn[id].parse = "OK" =>
    \A k \in 1 .. Len(input) : input[k].gen = conn[id].gen => input[k].type \notin NewsTypes

GoodbyeInv == TypeInv /\ Numbered /\ DistinctGens /\ NotYetEnded /\ NothingAfterGoodbye

\* A step that tells nothing and opens nothing keeps all of it.
LEMMA NothingTold ==
  ASSUME GoodbyeInv, TypeInv', UNCHANGED <<input, gens>>, used' \subseteq used,
         \A id \in ConnIds : conn'[id].gen \in {0, conn[id].gen},
         \A id \in used' : conn'[id].parse = "OK" => conn[id].parse = "OK"
  PROVE  GoodbyeInv'
<1>1. used \subseteq ConnIds /\ gens \in Nat
  BY ConnAssumption DEF GoodbyeInv, TypeInv, TypeOK, Gens
<1>2. \A id \in used' : conn'[id].gen = conn[id].gen
  BY <1>1 DEF GoodbyeInv, TypeInv, OpenHasGen
<1>3. Numbered'
  <2>1. \A id \in ConnIds : conn'[id].gen <= gens
    BY <1>1 DEF GoodbyeInv, Numbered
  <2>2. QED BY <2>1 DEF GoodbyeInv, Numbered
<1>4. DistinctGens' /\ NotYetEnded' /\ NothingAfterGoodbye'
  BY <1>2 DEF GoodbyeInv, DistinctGens, NotYetEnded, NothingAfterGoodbye
<1>5. QED BY <1>3, <1>4 DEF GoodbyeInv

LEMMA GoodbyeNext == GoodbyeInv /\ [Next]_vars => GoodbyeInv'
<1> SUFFICES ASSUME GoodbyeInv, [Next]_vars PROVE GoodbyeInv'
  OBVIOUS
<1>0. TypeInv /\ TypeInv'
  BY TypeNext DEF GoodbyeInv
<1> SUFFICES (Numbered /\ DistinctGens /\ NotYetEnded /\ NothingAfterGoodbye)'
  BY <1>0 DEF GoodbyeInv
<1>a. /\ input \in Seq(Notice) /\ Len(input) \in Nat /\ gens \in Nat
      /\ used \subseteq ConnIds
      /\ \A id \in ConnIds : conn[id].gen \in Nat /\ (id \in used <=> conn[id].gen # 0)
      /\ \A k \in 1 .. Len(input) : input[k] \in Notice /\ input[k].gen \in Nat
  <2>1. /\ input \in Seq(Notice) /\ gens \in Gens /\ used \subseteq ConnIds
        /\ conn \in [ConnIds -> [gen : Gens, parse : {"OK", "ERROR", "CUS_KILL"}]]
        /\ \A id \in ConnIds : id \in used <=> conn[id].gen # 0
    BY <1>0 DEF TypeInv, TypeOK, OpenHasGen, Notice
  <2>2. \A k \in 1 .. Len(input) : input[k] \in Notice
    BY <2>1
  <2>3. Gens \subseteq Nat
    BY ConnAssumption DEF Gens
  <2>4. \A e \in Notice : e.gen \in Nat
    BY <2>3 DEF Notice
  <2>5. \A id \in ConnIds : conn[id].gen \in Gens
    BY <2>1
  <2>6. Len(input) \in Nat
    BY <2>1
  <2>7. QED BY <2>1, <2>2, <2>3, <2>4, <2>5, <2>6, Zenon
<1>b. Numbered /\ DistinctGens /\ NotYetEnded /\ NothingAfterGoodbye
  BY DEF GoodbyeInv
<1>1. ASSUME NEW doomed \in SUBSET ConnIds, NEW id \in ConnIds, Accept(doomed, id)
      PROVE  (Numbered /\ DistinctGens /\ NotYetEnded /\ NothingAfterGoodbye)'
  <2> DEFINE e == Msg("NET_ACCEPTED", id, gens')
  <2>1. gens' = gens + 1 /\ input' = Append(input, e) /\ used' = (used \ doomed) \cup {id} /\ id \notin used \ doomed
    BY <1>1 DEF Accept
  <2>2. /\ conn'[id].gen = gens'
        /\ \A c \in used' \ {id} : c \in used /\ conn'[c] = conn[c]
        /\ \A c \in ConnIds : conn'[c].gen \in {0, conn[c].gen, gens'}
    BY <1>1, <1>a DEF Accept, Released
  <2>3. e \in Notice /\ e.gen = gens + 1 /\ e.type = "NET_ACCEPTED"
    <3>1. gens' \in Gens
      BY <1>0 DEF TypeInv, TypeOK
    <3>2. QED BY <2>1, <3>1 DEF Msg, Notice
  <2> HIDE DEF e
  <2>4. /\ Len(input') = Len(input) + 1 /\ input'[Len(input) + 1] = e
        /\ \A k \in 1 .. Len(input) : input'[k] = input[k]
    BY <1>a, <2>1, <2>3, AppendPlaces
  <2>5. Numbered'
    BY <1>a, <1>b, <2>1, <2>2, <2>3, <2>4 DEF Numbered
  <2>6. DistinctGens'
    BY <1>a, <1>b, <2>1, <2>2 DEF DistinctGens, Numbered
  <2>7. NotYetEnded'
    <3>1. ASSUME NEW c \in used', conn'[c].parse = "OK", NEW k \in 1 .. Len(input'),
                 input'[k].gen = conn'[c].gen, input'[k].type \in NewsTypes
          PROVE  FALSE
      <4>1. k \in 1 .. Len(input) /\ input'[k] = input[k]
        BY <1>a, <2>3, <2>4, <3>1 DEF NewsTypes
      <4>2. c # id
        BY <1>a, <1>b, <2>1, <2>2, <3>1, <4>1 DEF Numbered
      <4>3. QED BY <1>b, <2>2, <3>1, <4>1, <4>2 DEF NotYetEnded
    <3>2. QED BY <3>1 DEF NotYetEnded
  <2>8. NothingAfterGoodbye'
    <3>1. ASSUME NEW i \in 1 .. Len(input'), NEW j \in 1 .. Len(input'), i < j,
                 input'[i].gen = input'[j].gen, input'[i].type \in NewsTypes
          PROVE  input'[j].type \in NewsTypes
      <4>1. i \in 1 .. Len(input) /\ input'[i] = input[i]
        BY <1>a, <2>4, <3>1
      <4>2. j # Len(input) + 1
        <5>1. input[i].gen <= gens /\ input[i].gen \in Nat
          BY <1>a, <1>b, <4>1 DEF Numbered
        <5>2. input'[j].gen # gens + 1
          BY <1>a, <3>1, <4>1, <5>1
        <5>3. QED BY <2>3, <2>4, <5>2
      <4>3. j \in 1 .. Len(input)
        BY <1>a, <2>4, <3>1, <4>2
      <4>4. QED BY <1>b, <2>4, <3>1, <4>1, <4>3 DEF NothingAfterGoodbye
    <3>2. QED BY <3>1 DEF NothingAfterGoodbye
  <2>9. QED BY <2>5, <2>6, <2>7, <2>8
<1>2. ASSUME NEW doomed \in SUBSET ConnIds, NEW id \in ConnIds, AcceptFail(doomed, id)
      PROVE  GoodbyeInv'
  <2>1. UNCHANGED <<input, gens>> /\ used' = used \ doomed
    BY <1>2 DEF AcceptFail
  <2>2. \A c \in ConnIds : conn'[c] = IF c \in doomed \cup {id} THEN Released ELSE conn[c]
    BY <1>2 DEF AcceptFail
  <2>3. id \notin used'
    BY <1>2 DEF AcceptFail
  <2>4. QED BY <1>0, <1>a, <2>1, <2>2, <2>3, NothingTold DEF Released
\* A message or an end of connection id is queued.
<1>3. ASSUME NEW id \in used, NEW t \in NewsTypes \cup {"MSG"},
             input' = Append(input, Msg(t, id, conn[id].gen)),
             t = "MSG" => conn' = conn /\ conn[id].parse = "OK",
             t # "MSG" => conn' = [conn EXCEPT ![id].parse = "ERROR"],
             UNCHANGED <<used, gens>>
      PROVE  (Numbered /\ DistinctGens /\ NotYetEnded /\ NothingAfterGoodbye)'
  <2> DEFINE e == Msg(t, id, conn[id].gen)
  <2>1. e \in Notice /\ e.gen = conn[id].gen /\ e.type = t
    <3>1. conn[id].gen \in Gens
      BY <1>0, <1>a DEF TypeInv, TypeOK
    <3>2. QED BY <1>a, <3>1 DEF Msg, Notice
  <2>2. input' = Append(input, e)
    BY <1>3
  <2> HIDE DEF e
  <2>3. /\ Len(input') = Len(input) + 1 /\ input'[Len(input) + 1] = e
        /\ \A k \in 1 .. Len(input) : input'[k] = input[k]
    BY <1>a, <2>1, <2>2, AppendPlaces
  <2>4. /\ \A c \in ConnIds : conn'[c].gen = conn[c].gen
        /\ \A c \in used : conn'[c].parse = "OK" => conn[c].parse = "OK"
        /\ t # "MSG" => conn'[id].parse # "OK"
    <3>1. conn \in [ConnIds -> [gen : Gens, parse : {"OK", "ERROR", "CUS_KILL"}]]
      BY <1>0 DEF TypeInv, TypeOK
    <3>2. CASE t = "MSG"
      BY <1>3, <3>2
    <3>3. CASE t # "MSG"
      <4>1. conn' = [conn EXCEPT ![id].parse = "ERROR"] /\ id \in ConnIds
        BY <1>3, <1>a, <3>3
      <4>2. QED BY <1>a, <3>1, <4>1
    <3>4. QED BY <3>2, <3>3
  <2>5. Numbered' /\ DistinctGens'
    BY <1>3, <1>a, <1>b, <2>1, <2>3, <2>4 DEF Numbered, DistinctGens
  <2>6. NotYetEnded'
    <3>1. ASSUME NEW c \in used, conn'[c].parse = "OK", NEW k \in 1 .. Len(input'),
                 input'[k].gen = conn'[c].gen, input'[k].type \in NewsTypes
          PROVE  FALSE
      <4>1. CASE k \in 1 .. Len(input)
        BY <1>a, <1>b, <2>3, <2>4, <3>1, <4>1 DEF NotYetEnded
      <4>2. CASE k = Len(input) + 1
        <5>1. t # "MSG" /\ conn[c].gen = conn[id].gen
          BY <1>a, <2>1, <2>3, <2>4, <3>1, <4>2 DEF NewsTypes
        <5>2. c = id
          BY <1>b, <5>1 DEF DistinctGens
        <5>3. QED BY <2>4, <3>1, <5>1, <5>2
      <4>3. QED BY <1>a, <2>3, <4>1, <4>2
    <3>2. QED BY <1>3, <3>1 DEF NotYetEnded
  <2>7. NothingAfterGoodbye'
    <3>1. ASSUME NEW i \in 1 .. Len(input'), NEW j \in 1 .. Len(input'), i < j,
                 input'[i].gen = input'[j].gen, input'[i].type \in NewsTypes
          PROVE  input'[j].type \in NewsTypes
      <4>1. i \in 1 .. Len(input) /\ input'[i] = input[i]
        BY <1>a, <2>3, <3>1
      <4>2. CASE j \in 1 .. Len(input)
        BY <1>b, <2>3, <3>1, <4>1, <4>2 DEF NothingAfterGoodbye
      <4>3. CASE j = Len(input) + 1
        BY <1>3, <1>b, <2>1, <2>3, <3>1, <4>1, <4>3 DEF NotYetEnded
      <4>4. QED BY <1>a, <2>3, <4>2, <4>3
    <3>2. QED BY <3>1 DEF NothingAfterGoodbye
  <2>8. QED BY <2>5, <2>6, <2>7
<1>4. ASSUME NEW id \in ConnIds, ReadMsg(id) \/ ReadError(id) \/ EventCb(id)
      PROVE  (Numbered /\ DistinctGens /\ NotYetEnded /\ NothingAfterGoodbye)'
  <2>1. id \in used /\ UNCHANGED <<used, gens>>
    BY <1>4 DEF ReadMsg, ReadError, EventCb
  <2>2. CASE ReadMsg(id)
    <3>1. input' = Append(input, Msg("MSG", id, conn[id].gen)) /\ conn' = conn /\ conn[id].parse = "OK"
      BY <2>2 DEF ReadMsg
    <3>2. QED BY <2>1, <3>1, <1>3
  <2>3. CASE ReadError(id) \/ EventCb(id)
    <3>1. /\ input' = Append(input, Msg("NET_DISCONN", id, conn[id].gen))
          /\ conn' = [conn EXCEPT ![id].parse = "ERROR"]
      BY <2>3 DEF ReadError, EventCb
    <3>2. "NET_DISCONN" \in NewsTypes \cup {"MSG"} /\ "NET_DISCONN" # "MSG"
      BY DEF NewsTypes
    <3>3. QED BY <2>1, <3>1, <3>2, <1>3
  <2>4. QED BY <1>4, <2>2, <2>3
<1>5. ASSUME NEW idle \in SUBSET ConnIds, NEW due \in 0 .. Cardinality(ConnIds), TimerDetect(idle, due)
      PROVE  (Numbered /\ DistinctGens /\ NotYetEnded /\ NothingAfterGoodbye)'
  <2>1. PICK killed : /\ idle \subseteq used /\ DelConns(idle \cup killed) /\ UNCHANGED gens
                      /\ \E order \in SetToSeqs(idle) :
                           input' = input \o [k \in 1 .. Len(order) |->
                                              Msg("NET_NORECV", order[k], conn[order[k]].gen)]
    BY <1>5 DEF TimerDetect
  <2>2. PICK order \in SetToSeqs(idle) :
          input' = input \o [k \in 1 .. Len(order) |-> Msg("NET_NORECV", order[k], conn[order[k]].gen)]
    BY <2>1
  <2> DEFINE news == [k \in 1 .. Len(order) |-> Msg("NET_NORECV", order[k], conn[order[k]].gen)]
             n == Len(input)
  <2>3. /\ n \in Nat /\ Len(order) \in Nat /\ Len(input') = n + Len(order)
        /\ \A k \in 1 .. n : input'[k] = input[k]
        /\ \A k \in n + 1 .. n + Len(order) :
             input'[k].type = "NET_NORECV" /\ \E id \in idle : input'[k].gen = conn[id].gen
    <3>1. IsFiniteSet(idle)
      BY ConnAssumption, FS_Subset
    <3>2. Len(order) \in Nat /\ \A k \in 1 .. Len(order) : order[k] \in idle
      BY <3>1, OrderOfSet, FS_CardinalityType
    <3>3. \A k \in 1 .. Len(order) : /\ news[k] \in Notice /\ news[k].type = "NET_NORECV"
                                     /\ news[k].gen = conn[order[k]].gen
      <4>1. \A id \in ConnIds : Msg("NET_NORECV", id, conn[id].gen) \in Notice
        BY <1>0 DEF TypeInv, TypeOK, Msg, Notice, NewsTypes
      <4>2. QED BY <3>2, <4>1 DEF Msg
    <3>4. news \in Seq(Notice) /\ Len(news) = Len(order) /\ input' = input \o news
      BY <2>2, <3>2, <3>3
    <3> HIDE DEF news
    <3>5. /\ Len(input') = n + Len(order) /\ n \in Nat
          /\ \A k \in 1 .. n : input'[k] = input[k]
          /\ \A k \in n + 1 .. n + Len(order) : input'[k] = news[k - n]
      <4>1. /\ Len(input \o news) = Len(input) + Len(news)
            /\ \A k \in 1 .. Len(input) : (input \o news)[k] = input[k]
            /\ \A k \in Len(input) + 1 .. Len(input) + Len(news) :
                 (input \o news)[k] = news[k - Len(input)]
        <5>1. input \in Seq(Notice) /\ news \in Seq(Notice)
          BY <1>a, <3>4
        <5>2. QED BY <5>1, ConcatPlaces, Zenon
      <4>2. QED BY <1>a, <3>4, <4>1
    <3>6. \A k \in n + 1 .. n + Len(order) : k - n \in 1 .. Len(order)
      BY <3>2, <3>5
    <3>7. QED BY <3>2, <3>3, <3>5, <3>6
  <2>4. /\ used' \subseteq used \ idle
        /\ \A c \in ConnIds : conn'[c] = conn[c] \/ conn'[c].gen = 0
        /\ \A c \in used' : conn'[c] = conn[c]
    BY <1>a, <2>1 DEF DelConns, Released
  <2> HIDE DEF n, news
  <2>5. Numbered'
    <3>1. \A c \in ConnIds : conn'[c].gen <= gens'
      BY <1>a, <1>b, <2>1, <2>4 DEF Numbered
    <3>2. \A k \in 1 .. Len(input') : input'[k].gen <= gens'
      <4>1. \A k \in 1 .. n : input'[k].gen <= gens'
        BY <1>b, <2>1, <2>3 DEF Numbered, n
      <4>2. \A k \in n + 1 .. n + Len(order) : input'[k].gen <= gens'
        BY <1>b, <2>1, <2>3 DEF Numbered
      <4>3. QED BY <2>3, <4>1, <4>2
    <3>3. QED BY <3>1, <3>2 DEF Numbered
  <2>6. DistinctGens'
    BY <1>b, <2>4 DEF DistinctGens
  <2>7. NotYetEnded'
    <3>1. ASSUME NEW c \in used', conn'[c].parse = "OK", NEW k \in 1 .. Len(input'),
                 input'[k].gen = conn'[c].gen, input'[k].type \in NewsTypes
          PROVE  FALSE
      <4>1. CASE k \in 1 .. n
        BY <1>b, <2>3, <2>4, <3>1, <4>1 DEF NotYetEnded, n
      <4>2. CASE k \in n + 1 .. n + Len(order)
        BY <1>b, <2>1, <2>3, <2>4, <3>1, <4>2 DEF DistinctGens
      <4>3. QED BY <2>3, <4>1, <4>2
    <3>2. QED BY <3>1 DEF NotYetEnded
  <2>8. NothingAfterGoodbye'
    <3>1. ASSUME NEW i \in 1 .. Len(input'), NEW j \in 1 .. Len(input'), i < j,
                 input'[i].gen = input'[j].gen, input'[i].type \in NewsTypes
          PROVE  input'[j].type \in NewsTypes
      <4>1. CASE j \in 1 .. n
        BY <1>b, <2>3, <3>1, <4>1 DEF NothingAfterGoodbye, n
      <4>2. CASE j \in n + 1 .. n + Len(order)
        BY <2>3, <4>2 DEF NewsTypes
      <4>3. QED BY <2>3, <4>1, <4>2
    <3>2. QED BY <3>1 DEF NothingAfterGoodbye
  <2>9. QED BY <2>5, <2>6, <2>7, <2>8
<1>6. CASE IoDisconn
  <2>1. DelConns({Head(output).id}) /\ UNCHANGED <<input, gens>>
    BY <1>6 DEF IoDisconn
  <2>2. /\ used' \subseteq used
        /\ \A c \in ConnIds : conn'[c].gen \in {0, conn[c].gen}
        /\ \A c \in used' : conn'[c] = conn[c]
    BY <1>a, <2>1 DEF DelConns, Released
  <2>3. QED BY <1>0, <2>1, <2>2, NothingTold DEF GoodbyeInv
<1>7. CASE IoKill
  <2> DEFINE h == Head(output).id
  <2>1. conn' = [conn EXCEPT ![h].parse = "CUS_KILL"] /\ UNCHANGED <<used, input, gens>>
    BY <1>7 DEF IoKill
  <2>2. conn \in [ConnIds -> [gen : Gens, parse : {"OK", "ERROR", "CUS_KILL"}]]
    BY <1>0 DEF TypeInv, TypeOK
  <2> HIDE DEF h
  <2>3. /\ \A c \in ConnIds : conn'[c].gen \in {0, conn[c].gen}
        /\ \A c \in ConnIds : conn'[c].parse = "OK" => conn[c].parse = "OK"
    BY <2>1, <2>2
  <2>4. QED BY <1>0, <1>a, <2>1, <2>3, NothingTold DEF GoodbyeInv
<1>8. CASE IoSend \/ (\E id \in ConnIds : SendNet(id) \/ KillSession(id)) \/ UNCHANGED vars
  <2>1. UNCHANGED <<conn, used, input, gens>>
    BY <1>8 DEF IoSend, SendNet, KillSession, vars
  <2>2. QED BY <1>0, <2>1, NothingTold DEF GoodbyeInv
<1>9. CASE LogicHandle
  <2>1. input # <<>> /\ input' = Tail(input) /\ UNCHANGED <<conn, used, gens>>
    BY <1>9 DEF LogicHandle, OnAccepted, OnDisconn, OnNoRecv, OnMsg, Logic
  <2>2. /\ Len(input') = Len(input) - 1
        /\ \A k \in 1 .. Len(input') : input'[k] = input[k + 1] /\ k + 1 \in 1 .. Len(input)
    BY <1>a, <2>1, TailPlaces
  <2>3. Numbered' /\ DistinctGens' /\ NotYetEnded'
    BY <1>b, <2>1, <2>2 DEF Numbered, DistinctGens, NotYetEnded
  <2>4. NothingAfterGoodbye'
    <3>1. ASSUME NEW i \in 1 .. Len(input'), NEW j \in 1 .. Len(input'), i < j,
                 input'[i].gen = input'[j].gen, input'[i].type \in NewsTypes
          PROVE  input'[j].type \in NewsTypes
      <4>1. i + 1 < j + 1
        BY <1>a, <2>2, <3>1
      <4>2. QED BY <1>b, <2>2, <3>1, <4>1 DEF NothingAfterGoodbye
    <3>2. QED BY <3>1 DEF NothingAfterGoodbye
  <2>5. QED BY <2>3, <2>4
<1>10. QED
  BY <1>1, <1>2, <1>4, <1>5, <1>6, <1>7, <1>8, <1>9 DEF Next, IoHandle, GoodbyeInv

\* However errors, idle timeouts, kills and the handling of messages interleave, no message of
\* a connection is queued behind the news of its end (conn_read_cb, conn_event_cb,
\* NetConnPool::_OnNetConnDetect).
THEOREM GoodbyeIsLast == Spec => []NothingAfterGoodbye
<1>1. Init => GoodbyeInv
  <2>1. Init => Numbered /\ DistinctGens /\ NotYetEnded /\ NothingAfterGoodbye
    BY DEF Init, Released, Numbered, DistinctGens, NotYetEnded, NothingAfterGoodbye
  <2>2. QED BY <2>1, TypeInit DEF GoodbyeInv
<1>2. GoodbyeInv => NothingAfterGoodbye
  BY DEF GoodbyeInv
<1>3. QED
  BY <1>1, <1>2, GoodbyeNext, PTL DEF Spec

---------------------------------------------------------------------------
(* Only the reuse of an id mixes connections *)

\* Every id has one owner: all that names the id means this connection.
Owns(o) ==
  /\ \A id \in ConnIds : conn[id].gen \in {0, o[id]} /\ sess[id] \in {0, o[id]}
  /\ \A k \in 1 .. Len(input) : input[k].gen = o[input[k].id]
  /\ \A k \in 1 .. Len(output) : output[k].gen = o[output[k].id]

Owned == \E o \in [ConnIds -> Nat] : Owns(o)

\* The logic thread will hear that the connection is open, ...
Opening(id) == \E k \in 1 .. Len(input) : input[k].id = id /\ input[k].type = "NET_ACCEPTED"

\* ... that it was deleted; and the IO thread has it to delete.
Gone(id) == \E k \in 1 .. Len(input) : input[k].id = id /\ input[k].type = "NET_NORECV"
Closing(id) ==
  \/ Contains(mapkill, id)
  \/ \E k \in 1 .. Len(output) : output[k].id = id /\ output[k].type # "MSG"

\* The first that is heard of a connection is that it is open, ...
OpeningFirst ==
  \A j, k \in 1 .. Len(input) : j < k /\ input[k].type = "NET_ACCEPTED" => input[j].id # input[k].id

\* ... before that nothing can have been done with it, ...
OpeningAlone ==
  \A id \in ConnIds : Opening(id) =>
    /\ sess[id] = 0 /\ ~Closing(id) /\ (id \in used \/ Gone(id))
    /\ \A k \in 1 .. Len(output) : output[k].id # id

\* ... and whoever has it deleted has first ended its session.
SessionOpen ==
  \A id \in ConnIds : sess[id] # 0 => ~Closing(id) /\ (id \in used \/ Gone(id))

Clean == Owned /\ OpeningFirst /\ OpeningAlone /\ SessionOpen /\ ~mixed

ReuseInv == TypeInv /\ (reused \/ Clean)

\* The types that the steps below need.
LEMMA Shapes ==
  ASSUME TypeInv
  PROVE  /\ input \in Seq(Notice) /\ output \in Seq(Command) /\ mapkill \in Seq(ConnIds)
         /\ Len(input) \in Nat /\ Len(output) \in Nat /\ Len(mapkill) \in Nat
         /\ \A k \in 1 .. Len(input) : input[k] \in Notice /\ input[k].id \in ConnIds /\ input[k].gen \in Nat
         /\ \A k \in 1 .. Len(output) : output[k] \in Command /\ output[k].id \in ConnIds /\ output[k].gen \in Nat
         /\ used \subseteq ConnIds /\ gens \in Nat
         /\ \A id \in ConnIds : /\ conn[id].gen \in Gens /\ sess[id] \in Gens /\ (id \in used <=> conn[id].gen # 0)
         /\ sess \in [ConnIds -> Gens] /\ Gens \subseteq Nat
         /\ conn \in [ConnIds -> [gen : Gens, parse : {"OK", "ERROR", "CUS_KILL"}]]
<1>1. Gens \subseteq Nat
  BY ConnAssumption DEF Gens
<1>2. (\A e \in Notice : e.id \in ConnIds /\ e.gen \in Nat) /\ (\A e \in Command : e.id \in ConnIds /\ e.gen \in Nat)
  BY <1>1 DEF Notice, Command
<1>3. input \in Seq(Notice) /\ output \in Seq(Command) /\ mapkill \in Seq(ConnIds)
  BY DEF TypeInv, TypeOK, Notice, Command
<1>4. /\ Len(input) \in Nat /\ Len(output) \in Nat /\ Len(mapkill) \in Nat
      /\ \A k \in 1 .. Len(input) : input[k] \in Notice
      /\ \A k \in 1 .. Len(output) : output[k] \in Command
  BY <1>3
<1>5. /\ used \subseteq ConnIds /\ gens \in Gens /\ sess \in [ConnIds -> Gens]
      /\ conn \in [ConnIds -> [gen : Gens, parse : {"OK", "ERROR", "CUS_KILL"}]]
      /\ \A id \in ConnIds : id \in used <=> conn[id].gen # 0
  BY DEF TypeInv, TypeOK, OpenHasGen
<1>6. \A id \in ConnIds : conn[id].gen \in Gens /\ sess[id] \in Gens
  BY <1>5
<1>7. QED BY <1>1, <1>2, <1>3, <1>4, <1>5, <1>6, Zenon

\* A step of the IO thread that opens no connection keeps Clean: it may end connections, if it
\* tells the logic thread or was asked to, and tell of those that were open.
LEMMA IoKeepsClean ==
  ASSUME TypeInv, Clean, ~mixed', sess' = sess,
         \A c \in ConnIds : conn'[c].gen \in {0, conn[c].gen},
         \A k \in 1 .. Len(output') : \E j \in 1 .. Len(output) : output'[k] = output[j],
         \A c \in ConnIds : Closing(c)' => Closing(c),
         Len(input') \in Nat, Len(input) <= Len(input'),
         \A k \in 1 .. Len(input) : input'[k] = input[k],
         \A k \in Len(input) + 1 .. Len(input') :
           /\ input'[k].type # "NET_ACCEPTED" /\ input'[k].id \in used
           /\ input'[k].gen = conn[input'[k].id].gen,
         \A c \in used \ used' : Closing(c) \/ Gone(c)'
  PROVE  Clean'
<1>1. /\ Len(input) \in Nat /\ used \subseteq ConnIds
      /\ \A id \in ConnIds : conn[id].gen \in Nat /\ (id \in used <=> conn[id].gen # 0)
      /\ \A k \in 1 .. Len(input) : input[k].id \in ConnIds
      /\ \A k \in 1 .. Len(output) : output[k].id \in ConnIds
  BY Shapes
<1>2. PICK o \in [ConnIds -> Nat] : Owns(o)
  BY DEF Clean, Owned
<1>3. \A k \in 1 .. Len(input') : k \in 1 .. Len(input) \/ k \in Len(input) + 1 .. Len(input')
  BY <1>1
<1>4. Owns(o)'
  <2>1. \A id \in ConnIds : conn'[id].gen \in {0, o[id]} /\ sess'[id] \in {0, o[id]}
    BY <1>2 DEF Owns
  <2>2. \A k \in Len(input) + 1 .. Len(input') : input'[k].gen = o[input'[k].id]
    BY <1>1, <1>2 DEF Owns
  <2>3. \A k \in 1 .. Len(input) : input'[k].gen = o[input'[k].id]
    BY <1>2 DEF Owns
  <2>4. \A k \in 1 .. Len(output') : output'[k].gen = o[output'[k].id]
    BY <1>2 DEF Owns
  <2>5. QED BY <1>3, <2>1, <2>2, <2>3, <2>4 DEF Owns
<1>5. \A c \in ConnIds : (Opening(c)' => Opening(c)) /\ (Gone(c) => Gone(c)')
  <2>1. \A k \in 1 .. Len(input) : k \in 1 .. Len(input')
    BY <1>1
  <2>2. \A c \in ConnIds : Gone(c) => Gone(c)'
    BY <2>1 DEF Gone
  <2>3. \A c \in ConnIds : Opening(c)' => Opening(c)
    BY <1>3 DEF Opening
  <2>4. QED BY <2>2, <2>3
<1>6. OpeningFirst'
  <2>1. ASSUME NEW j \in 1 .. Len(input'), NEW k \in 1 .. Len(input'), j < k, input'[k].type = "NET_ACCEPTED"
        PROVE  input'[j].id # input'[k].id
    <3>1. k \in 1 .. Len(input)
      BY <1>3, <2>1
    <3>2. j \in 1 .. Len(input)
      BY <1>1, <2>1, <3>1
    <3>3. QED BY <2>1, <3>1, <3>2 DEF Clean, OpeningFirst
  <2>2. QED BY <2>1 DEF OpeningFirst
<1>7. \A c \in ConnIds : ~Closing(c) /\ (c \in used \/ Gone(c)) => c \in used' \/ Gone(c)'
  BY <1>5
<1>8. OpeningAlone'
  BY <1>5, <1>7 DEF Clean, OpeningAlone
<1>9. SessionOpen'
  BY <1>7 DEF Clean, SessionOpen
<1>10. QED
  BY <1>4, <1>6, <1>8, <1>9 DEF Clean, Owned

\* A step of the logic thread that handles the first message of its queue keeps Clean: it
\* changes only the session of the id, and queues only a command for the connection.
LEMMA LogicKeepsClean ==
  ASSUME TypeInv, Clean, ~mixed', input # <<>>, input' = Tail(input),
         UNCHANGED <<conn, used, mapkill>>, NEW d, d = Head(input).id,
         \A c \in ConnIds \ {Head(input).id} : sess'[c] = sess[c],
         sess'[Head(input).id] \in {0, sess[Head(input).id], Head(input).gen},
         \/ output' = output
         \/ \E t \in {"LAYER_DISCONN", "MSG"} :
              output' = Append(output, Msg(t, Head(input).id, Head(input).gen)),
         sess'[d] # 0 => ~Closing(d)' /\ (d \in used \/ Gone(d)'),
         Head(input).type = "NET_NORECV" => sess'[Head(input).id] = 0
  PROVE  Clean'
<1> DEFINE m == Head(input)
<1>1. /\ input \in Seq(Notice) /\ output \in Seq(Command)
      /\ Len(input) \in Nat /\ Len(output) \in Nat /\ used \subseteq ConnIds
      /\ \A id \in ConnIds : conn[id].gen \in Nat /\ sess[id] \in Nat /\ (id \in used <=> conn[id].gen # 0)
      /\ \A k \in 1 .. Len(input) : input[k].id \in ConnIds
      /\ \A k \in 1 .. Len(output) : output[k].id \in ConnIds
      /\ Gens \subseteq Nat
  BY Shapes
<1>2. PICK o \in [ConnIds -> Nat] : Owns(o)
  BY DEF Clean, Owned
<1>3. /\ Len(input') = Len(input) - 1 /\ m = input[1] /\ m \in Notice /\ 1 \in 1 .. Len(input)
      /\ \A k \in 1 .. Len(input') : input'[k] = input[k + 1] /\ k + 1 \in 1 .. Len(input)
      /\ \A k \in 2 .. Len(input) : input'[k - 1] = input[k] /\ k - 1 \in 1 .. Len(input')
  <2>1. /\ Len(input') = Len(input) - 1 /\ m = input[1] /\ m \in Notice /\ Len(input) # 0
        /\ \A k \in 1 .. Len(input) - 1 : input'[k] = input[k + 1]
    BY <1>1, TailPlaces
  <2>2. \A k \in 2 .. Len(input) : k - 1 \in 1 .. Len(input) - 1 /\ (k - 1) + 1 = k
    BY <1>1
  <2>3. QED BY <1>1, <2>1, <2>2
<1>4. m.id \in ConnIds /\ m.gen \in Gens /\ m.gen = o[m.id]
  BY <1>2, <1>3 DEF Notice, Owns
<1> HIDE DEF m
<1>5. \A c \in ConnIds : /\ Opening(c)' => Opening(c) /\ c # m.id
                         /\ Gone(c) /\ ~(c = m.id /\ m.type = "NET_NORECV") => Gone(c)'
  <2>1. ASSUME NEW c \in ConnIds, Opening(c)' PROVE Opening(c) /\ c # m.id
    <3>1. PICK k \in 1 .. Len(input') : input'[k].id = c /\ input'[k].type = "NET_ACCEPTED"
      BY <2>1 DEF Opening
    <3>2. input[k + 1].id = c /\ input[k + 1].type = "NET_ACCEPTED" /\ k + 1 \in 1 .. Len(input) /\ 1 < k + 1
      BY <1>1, <1>3, <3>1
    <3>3. QED BY <1>3, <3>2 DEF Opening, Clean, OpeningFirst
  <2>2. ASSUME NEW c \in ConnIds, Gone(c), ~(c = m.id /\ m.type = "NET_NORECV") PROVE Gone(c)'
    <3>1. PICK k \in 1 .. Len(input) : input[k].id = c /\ input[k].type = "NET_NORECV"
      BY <2>2 DEF Gone
    <3>2. k \in 2 .. Len(input)
      BY <1>1, <1>3, <2>2, <3>1
    <3>3. QED BY <1>3, <3>1, <3>2 DEF Gone
  <2>3. QED BY <2>1, <2>2
<1>6. \A k \in 1 .. Len(output') :
        \/ k \in 1 .. Len(output) /\ output'[k] = output[k]
        \/ output'[k].id = m.id /\ output'[k].gen = m.gen
  <2>1. CASE output' = output
    BY <2>1
  <2>2. ASSUME NEW t \in {"LAYER_DISCONN", "MSG"}, output' = Append(output, Msg(t, m.id, m.gen))
        PROVE  \A k \in 1 .. Len(output') :
                 \/ k \in 1 .. Len(output) /\ output'[k] = output[k]
                 \/ output'[k].id = m.id /\ output'[k].gen = m.gen
    <3> DEFINE e == Msg(t, m.id, m.gen)
    <3>1. e \in Command /\ e.id = m.id /\ e.gen = m.gen
      BY <1>4 DEF Msg, Command
    <3> HIDE DEF e
    <3>2. /\ Len(output') = Len(output) + 1 /\ output'[Len(output) + 1] = e
          /\ \A k \in 1 .. Len(output) : output'[k] = output[k]
      BY <1>1, <2>2, <3>1, AppendPlaces DEF e
    <3>3. QED BY <1>1, <3>1, <3>2
  <2>3. QED BY <2>1, <2>2 DEF m
<1>7. \A c \in ConnIds : Closing(c)' => Closing(c) \/ c = m.id
  BY <1>6 DEF Closing
<1>8. Owns(o)'
  <2>1. \A id \in ConnIds : conn'[id].gen \in {0, o[id]} /\ sess'[id] \in {0, o[id]}
    BY <1>2, <1>4 DEF Owns, m
  <2>2. \A k \in 1 .. Len(input') : input'[k].gen = o[input'[k].id]
    BY <1>2, <1>3 DEF Owns
  <2>3. \A k \in 1 .. Len(output') : output'[k].gen = o[output'[k].id]
    BY <1>2, <1>4, <1>6 DEF Owns
  <2>4. QED BY <2>1, <2>2, <2>3 DEF Owns
<1>9. OpeningFirst'
  <2>1. ASSUME NEW j \in 1 .. Len(input'), NEW k \in 1 .. Len(input'), j < k, input'[k].type = "NET_ACCEPTED"
        PROVE  input'[j].id # input'[k].id
    <3>1. j + 1 < k + 1
      BY <1>1, <1>3, <2>1
    <3>2. QED BY <1>3, <2>1, <3>1 DEF Clean, OpeningFirst
  <2>2. QED BY <2>1 DEF OpeningFirst
<1>10. OpeningAlone'
  <2>1. ASSUME NEW c \in ConnIds, Opening(c)'
        PROVE  /\ sess'[c] = 0 /\ ~Closing(c)' /\ (c \in used' \/ Gone(c)')
               /\ \A k \in 1 .. Len(output') : output'[k].id # c
    <3>1. /\ c # m.id /\ sess[c] = 0 /\ ~Closing(c) /\ (c \in used \/ Gone(c))
          /\ \A k \in 1 .. Len(output) : output[k].id # c
      BY <1>5, <2>1 DEF Clean, OpeningAlone
    <3>2. sess'[c] = 0
      BY <3>1 DEF m
    <3>3. QED BY <1>5, <1>6, <1>7, <3>1, <3>2
  <2>2. QED BY <2>1 DEF OpeningAlone
<1>11. SessionOpen'
  <2>1. ASSUME NEW c \in ConnIds, sess'[c] # 0
        PROVE  ~Closing(c)' /\ (c \in used' \/ Gone(c)')
    <3>1. CASE c = m.id
      BY <2>1, <3>1 DEF m
    <3>2. CASE c # m.id
      <4>1. sess[c] # 0
        BY <2>1, <3>2 DEF m
      <4>2. ~Closing(c) /\ (c \in used \/ Gone(c))
        BY <4>1 DEF Clean, SessionOpen
      <4>3. QED BY <1>5, <1>7, <3>2, <4>2
    <3>3. QED BY <3>1, <3>2
  <2>2. QED BY <2>1 DEF SessionOpen
<1>12. QED
  BY <1>8, <1>9, <1>10, <1>11 DEF Clean, Owned

\* Under Clean every message and command meets what it was meant for.
LEMMA CleanMeetsItsOwn ==
  ASSUME TypeInv, Clean
  PROVE  /\ input # <<>> => ~WrongSession(Head(input))
         /\ output # <<>> => ~Missed(Head(output))
<1>1. /\ input \in Seq(Notice) /\ output \in Seq(Command)
      /\ \A k \in 1 .. Len(input) : input[k].id \in ConnIds
      /\ \A k \in 1 .. Len(output) : output[k].id \in ConnIds
  BY Shapes
<1>2. PICK o \in [ConnIds -> Nat] : Owns(o)
  BY DEF Clean, Owned
<1>3. ASSUME input # <<>> PROVE ~WrongSession(Head(input))
  <2>1. Head(input) = input[1] /\ 1 \in 1 .. Len(input)
    BY <1>1, <1>3
  <2>2. QED BY <1>1, <1>2, <2>1 DEF WrongSession, Owns
<1>4. ASSUME output # <<>> PROVE ~Missed(Head(output))
  <2>1. Head(output) = output[1] /\ 1 \in 1 .. Len(output)
    BY <1>1, <1>4
  <2>2. QED BY <1>1, <1>2, <2>1 DEF Missed, Owns
<1>5. QED BY <1>3, <1>4

\* What is left of the kill list was on it.
LEMMA KillListShrinks ==
  ASSUME NEW s \in Seq(ConnIds), NEW S, NEW c, Contains(Keep(s, S), c)
  PROVE  Contains(s, c) /\ c \in S
<1>1. PICK i \in 1 .. Len(Keep(s, S)) : Keep(s, S)[i] = c
  BY DEF Contains
<1>2. Keep(s, S)[i] \in S /\ \E j \in 1 .. Len(s) : s[j] = Keep(s, S)[i]
  BY KeepWithin
<1>3. QED BY <1>1, <1>2 DEF Contains

LEMMA ReuseNext == ReuseInv /\ [Next]_vars => ReuseInv'
<1> SUFFICES ASSUME ReuseInv, [Next]_vars PROVE ReuseInv'
  OBVIOUS
<1>0. TypeInv /\ TypeInv' /\ (reused \/ Clean)
  BY TypeNext DEF ReuseInv
<1> SUFFICES ASSUME ~reused' PROVE Clean'
  BY <1>0 DEF ReuseInv
<1>a. ~reused
  BY DEF Next, Accept, AcceptFail, ReadMsg, ReadError, EventCb, TimerDetect, IoHandle, IoDisconn, IoKill,
         IoSend, LogicHandle, OnAccepted, OnDisconn, OnNoRecv, OnMsg, SendNet, KillSession, vars
<1>b. Clean
  BY <1>0, <1>a
<1>c. /\ input \in Seq(Notice) /\ output \in Seq(Command) /\ mapkill \in Seq(ConnIds)
      /\ Len(input) \in Nat /\ Len(output) \in Nat /\ Len(mapkill) \in Nat
      /\ \A k \in 1 .. Len(input) : input[k] \in Notice /\ input[k].id \in ConnIds /\ input[k].gen \in Nat
      /\ \A k \in 1 .. Len(output) : output[k] \in Command /\ output[k].id \in ConnIds /\ output[k].gen \in Nat
      /\ used \subseteq ConnIds /\ gens \in Nat
      /\ \A id \in ConnIds : /\ conn[id].gen \in Gens /\ sess[id] \in Gens /\ (id \in used <=> conn[id].gen # 0)
      /\ sess \in [ConnIds -> Gens] /\ Gens \subseteq Nat
      /\ conn \in [ConnIds -> [gen : Gens, parse : {"OK", "ERROR", "CUS_KILL"}]]
  BY <1>0, Shapes
<1>d. /\ ~mixed
      /\ \A id \in ConnIds : Opening(id) =>
           /\ sess[id] = 0 /\ ~Closing(id) /\ (id \in used \/ Gone(id))
           /\ \A k \in 1 .. Len(output) : output[k].id # id
      /\ \A id \in ConnIds : sess[id] # 0 => ~Closing(id) /\ (id \in used \/ Gone(id))
  BY <1>b DEF Clean, OpeningAlone, SessionOpen
<1>1. ASSUME NEW doomed \in SUBSET ConnIds, NEW id \in ConnIds, Accept(doomed, id) PROVE Clean'
  <2> DEFINE e == Msg("NET_ACCEPTED", id, gens')
  <2>1. /\ ~Named(id) /\ ~Contains(mapkill', id) /\ UNCHANGED <<output, sess, mixed>>
        /\ gens' = gens + 1 /\ input' = Append(input, e)
        /\ used' = (used \ doomed) \cup {id} /\ id \notin used \ doomed
        /\ mapkill' = KillListAfter(doomed) /\ doomed \in Doomed
    BY <1>1 DEF Accept
  <2>2. /\ conn'[id].gen = gens + 1
        /\ \A c \in ConnIds \ {id} : conn'[c].gen \in {0, conn[c].gen}
    BY <1>1, <2>1 DEF Accept, Released
  <2>3. e \in Notice /\ e.id = id /\ e.gen = gens + 1 /\ e.type = "NET_ACCEPTED"
    <3>1. gens' \in Gens
      BY <1>0 DEF TypeInv, TypeOK
    <3>2. QED BY <2>1, <3>1 DEF Msg, Notice
  <2> HIDE DEF e
  <2>4. /\ Len(input') = Len(input) + 1 /\ input'[Len(input) + 1] = e
        /\ \A k \in 1 .. Len(input) : input'[k] = input[k]
    BY <1>c, <2>1, <2>3, AppendPlaces
  <2>5. /\ \A k \in 1 .. Len(input) : input[k].id # id
        /\ \A k \in 1 .. Len(output) : output[k].id # id
    BY <2>1 DEF Named
  <2>6. ~Opening(id) /\ ~Gone(id)
    BY <2>5 DEF Opening, Gone
  <2>7. \A c \in doomed : Closing(c)
    <3>1. doomed \subseteq ToSet(mapkill)
      BY <2>1 DEF Doomed
    <3>2. QED BY <1>c, <3>1 DEF ToSet, Closing, Contains
  <2>8. sess[id] = 0
    BY <1>d, <2>1, <2>6, <2>7
  <2>9. \A c \in ConnIds : Closing(c)' => Closing(c)
    BY <2>1 DEF Closing, KillListAfter, Contains
  <2>10. \A c \in ConnIds : (Opening(c)' => Opening(c) \/ c = id) /\ (Gone(c) => Gone(c)')
    <3>1. \A k \in 1 .. Len(input') : k \in 1 .. Len(input) \/ input'[k] = e
      BY <1>c, <2>4
    <3>2. \A k \in 1 .. Len(input) : k \in 1 .. Len(input')
      BY <1>c, <2>4
    <3>3. \A c \in ConnIds : Opening(c)' => Opening(c) \/ c = id
      BY <2>3, <2>4, <3>1 DEF Opening
    <3>4. \A c \in ConnIds : Gone(c) => Gone(c)'
      BY <2>4, <3>2 DEF Gone
    <3>5. QED BY <3>3, <3>4
  <2>11. Owned'
    <3>1. PICK o \in [ConnIds -> Nat] : Owns(o)
      BY <1>b DEF Clean, Owned
    <3> DEFINE p == [o EXCEPT ![id] = gens + 1]
    <3>2. p \in [ConnIds -> Nat] /\ p[id] = gens + 1 /\ \A c \in ConnIds \ {id} : p[c] = o[c]
      BY <1>c
    <3> HIDE DEF p
    <3>3. \A c \in ConnIds : conn'[c].gen \in {0, p[c]} /\ sess'[c] \in {0, p[c]}
      <4>1. conn'[id].gen = p[id] /\ sess'[id] = 0
        BY <2>1, <2>2, <2>8, <3>2
      <4>2. \A c \in ConnIds \ {id} : conn'[c].gen \in {0, p[c]} /\ sess'[c] \in {0, p[c]}
        BY <2>1, <2>2, <3>1, <3>2 DEF Owns
      <4>3. QED BY <4>1, <4>2
    <3>4. \A k \in 1 .. Len(input') : input'[k].gen = p[input'[k].id]
      <4>1. \A k \in 1 .. Len(input) : input'[k].gen = p[input'[k].id]
        BY <1>c, <2>4, <2>5, <3>1, <3>2 DEF Owns
      <4>2. input'[Len(input) + 1].gen = p[input'[Len(input) + 1].id]
        BY <2>3, <2>4, <3>2
      <4>3. QED BY <1>c, <2>4, <4>1, <4>2
    <3>5. \A k \in 1 .. Len(output') : output'[k].gen = p[output'[k].id]
      BY <1>c, <2>1, <2>5, <3>1, <3>2 DEF Owns
    <3>6. QED BY <3>2, <3>3, <3>4, <3>5 DEF Owned, Owns
  <2>12. OpeningFirst'
    <3>1. ASSUME NEW j \in 1 .. Len(input'), NEW k \in 1 .. Len(input'), j < k, input'[k].type = "NET_ACCEPTED"
          PROVE  input'[j].id # input'[k].id
      <4>1. j \in 1 .. Len(input) /\ input'[j] = input[j]
        BY <1>c, <2>4, <3>1
      <4>2. CASE k = Len(input) + 1
        BY <2>3, <2>4, <2>5, <4>1, <4>2
      <4>3. CASE k \in 1 .. Len(input)
        BY <1>b, <2>4, <3>1, <4>1, <4>3 DEF Clean, OpeningFirst
      <4>4. QED BY <1>c, <2>4, <4>2, <4>3
    <3>2. QED BY <3>1 DEF OpeningFirst
  <2>13. ~Closing(id)' /\ id \in used'
    BY <2>1, <2>5 DEF Closing
  <2>14. \A c \in ConnIds \ {id} : ~Closing(c) /\ (c \in used \/ Gone(c)) =>
                                   ~Closing(c)' /\ (c \in used' \/ Gone(c)')
    BY <2>1, <2>7, <2>9, <2>10
  <2>15. OpeningAlone'
    <3>1. ASSUME NEW c \in ConnIds, Opening(c)'
          PROVE  /\ sess'[c] = 0 /\ ~Closing(c)' /\ (c \in used' \/ Gone(c)')
                 /\ \A k \in 1 .. Len(output') : output'[k].id # c
      <4>1. CASE c = id
        BY <2>1, <2>5, <2>8, <2>13, <4>1
      <4>2. CASE c # id
        BY <1>d, <2>1, <2>10, <2>14, <3>1, <4>2
      <4>3. QED BY <4>1, <4>2
    <3>2. QED BY <3>1 DEF OpeningAlone
  <2>16. SessionOpen'
    <3>1. ASSUME NEW c \in ConnIds, sess'[c] # 0
          PROVE  ~Closing(c)' /\ (c \in used' \/ Gone(c)')
      <4>1. c # id /\ sess[c] # 0
        BY <2>1, <2>8, <3>1
      <4>2. QED BY <1>d, <2>14, <4>1
    <3>2. QED BY <3>1 DEF SessionOpen
  <2>17. QED BY <1>d, <2>1, <2>11, <2>12, <2>15, <2>16 DEF Clean
<1>2. ASSUME NEW doomed \in SUBSET ConnIds, NEW id \in ConnIds, AcceptFail(doomed, id) PROVE Clean'
  <2>1. /\ UNCHANGED <<input, output, sess, mixed>> /\ used' = used \ doomed /\ doomed \in Doomed
        /\ \A c \in ConnIds : conn'[c].gen \in {0, conn[c].gen}
        /\ mapkill' = Keep(KillListAfter(doomed), ConnIds \ {id})
    BY <1>2 DEF AcceptFail, Released
  <2>2. \A c \in doomed : Closing(c)
    <3>1. doomed \subseteq ToSet(mapkill)
      BY <2>1 DEF Doomed
    <3>2. QED BY <1>c, <3>1 DEF ToSet, Closing, Contains
  <2>3. \A c \in ConnIds : Closing(c)' => Closing(c)
    <3>1. \A c \in ConnIds : Contains(mapkill', c) => Contains(KillListAfter(doomed), c)
      <4>1. KillListAfter(doomed) \in Seq(ConnIds)
        BY <1>c DEF KillListAfter
      <4>2. QED BY <2>1, <4>1, KillListShrinks
    <3>2. \A c \in ConnIds : Contains(KillListAfter(doomed), c) => Contains(mapkill, c)
      BY DEF KillListAfter, Contains
    <3>3. QED BY <2>1, <3>1, <3>2 DEF Closing
  <2>4. /\ Len(input') \in Nat /\ Len(input) <= Len(input') /\ \A k \in 1 .. Len(input) : input'[k] = input[k]
        /\ Len(input) + 1 .. Len(input') = {}
    BY <1>c, <2>1
  <2>5. \A k \in 1 .. Len(output') : \E j \in 1 .. Len(output) : output'[k] = output[j]
    BY <2>1
  <2>6. \A c \in used \ used' : Closing(c) \/ Gone(c)'
    BY <2>1, <2>2
  <2>7. QED BY <1>0, <1>b, <1>d, <2>1, <2>3, <2>4, <2>5, <2>6, IoKeepsClean
<1>3. ASSUME NEW id \in ConnIds, ReadMsg(id) \/ ReadError(id) \/ EventCb(id) PROVE Clean'
  <2>1. /\ id \in used /\ UNCHANGED <<used, mapkill, output, sess, mixed>>
        /\ conn' = conn \/ conn' = [conn EXCEPT ![id].parse = "ERROR"]
    BY <1>3 DEF ReadMsg, ReadError, EventCb
  <2>2. PICK t \in {"MSG", "NET_DISCONN"} : input' = Append(input, Msg(t, id, conn[id].gen))
    BY <1>3 DEF ReadMsg, ReadError, EventCb
  <2> DEFINE e == Msg(t, id, conn[id].gen)
  <2>3. e \in Notice /\ e.type # "NET_ACCEPTED" /\ e.id = id /\ e.gen = conn[id].gen
    BY <1>c DEF Msg, Notice, NewsTypes
  <2> HIDE DEF e
  <2>4. /\ Len(input') = Len(input) + 1 /\ input'[Len(input) + 1] = e
        /\ \A k \in 1 .. Len(input) : input'[k] = input[k]
    BY <1>c, <2>2, <2>3, AppendPlaces DEF e
  <2>5. \A c \in ConnIds : conn'[c].gen \in {0, conn[c].gen}
    <3>1. CASE conn' = conn
      BY <3>1
    <3>2. CASE conn' = [conn EXCEPT ![id].parse = "ERROR"]
      <4>1. ASSUME NEW c \in ConnIds PROVE conn'[c].gen = conn[c].gen
        <5>1. conn[c] \in [gen : Gens, parse : {"OK", "ERROR", "CUS_KILL"}] /\ c \in DOMAIN conn
          BY <1>c
        <5>2. QED BY <3>2, <5>1
      <4>2. QED BY <4>1
    <3>3. QED BY <2>1, <3>1, <3>2
  <2>6. \A c \in ConnIds : Closing(c)' => Closing(c)
    BY <2>1 DEF Closing
  <2>7. /\ Len(input') \in Nat /\ Len(input) <= Len(input')
        /\ \A k \in Len(input) + 1 .. Len(input') :
             /\ input'[k].type # "NET_ACCEPTED" /\ input'[k].id \in used
             /\ input'[k].gen = conn[input'[k].id].gen
    <3>1. \A k \in Len(input) + 1 .. Len(input') : k = Len(input) + 1
      BY <1>c, <2>4
    <3>2. QED BY <1>c, <2>1, <2>3, <2>4, <3>1
  <2>8. \A k \in 1 .. Len(output') : \E j \in 1 .. Len(output) : output'[k] = output[j]
    BY <2>1
  <2>9. QED BY <1>0, <1>b, <1>d, <2>1, <2>4, <2>5, <2>6, <2>7, <2>8, IoKeepsClean
<1>4. ASSUME NEW idle \in SUBSET ConnIds, NEW due \in 0 .. Cardinality(ConnIds), TimerDetect(idle, due)
      PROVE  Clean'
  <2> DEFINE left == Keep(mapkill, ConnIds \ idle)
             killed == ToSet(SubSeq(left, 1, due))
  <2>1. /\ idle \subseteq used /\ due <= Len(left) /\ DelConns(idle \cup killed)
        /\ UNCHANGED <<output, sess, mixed>>
    BY <1>4 DEF TimerDetect
  <2>2. left \in Seq(ConnIds)
    <3>1. left \in Seq(ConnIds \cap (ConnIds \ idle))
      BY <1>c, KeepEmbeds
    <3>2. QED BY <3>1
  <2>3. \A c \in killed : Closing(c)
    <3>1. due \in 0 .. Len(left)
      BY <2>1, <2>2
    <3>2. \A k \in DOMAIN SubSeq(left, 1, due) : k \in 1 .. Len(left) /\ SubSeq(left, 1, due)[k] = left[k]
      BY <2>2, <3>1, SubSeqProperties
    <3>3. ASSUME NEW c \in killed PROVE Closing(c)
      <4>1. Contains(left, c)
        BY <3>2, <3>3 DEF ToSet, Contains
      <4>2. Contains(mapkill, c)
        BY <1>c, <4>1, KillListShrinks
      <4>3. QED BY <4>2 DEF Closing
    <3>4. QED BY <3>3
  <2> HIDE DEF left, killed
  <2>4. PICK order \in SetToSeqs(idle) :
          input' = input \o [k \in 1 .. Len(order) |-> Msg("NET_NORECV", order[k], conn[order[k]].gen)]
    BY <1>4 DEF TimerDetect
  <2> DEFINE news == [k \in 1 .. Len(order) |-> Msg("NET_NORECV", order[k], conn[order[k]].gen)]
             n == Len(input)
  <2>5. /\ Len(order) \in Nat /\ \A k \in 1 .. Len(order) : order[k] \in idle
        /\ \A c \in idle : \E k \in 1 .. Len(order) : order[k] = c
    <3>1. IsFiniteSet(idle)
      BY ConnAssumption, FS_Subset
    <3>2. QED BY <3>1, OrderOfSet, FS_CardinalityType
  <2>6. /\ news \in Seq(Notice) /\ Len(news) = Len(order)
        /\ \A k \in 1 .. Len(order) : /\ news[k].type = "NET_NORECV" /\ news[k].id = order[k]
                                      /\ news[k].gen = conn[order[k]].gen
    <3>1. \A c \in ConnIds : Msg("NET_NORECV", c, conn[c].gen) \in Notice
      BY <1>c DEF Msg, Notice, NewsTypes
    <3>2. QED BY <2>5, <3>1 DEF Msg
  <2>7. /\ Len(input') = n + Len(order)
        /\ \A k \in 1 .. n : input'[k] = input[k]
        /\ \A k \in n + 1 .. n + Len(order) : input'[k] = news[k - n]
        /\ \A k \in 1 .. Len(order) : input'[n + k] = news[k]
    <3>1. input' = input \o news
      BY <2>4
    <3> HIDE DEF news
    <3>2. /\ Len(input \o news) = Len(input) + Len(news)
          /\ \A k \in 1 .. Len(input) : (input \o news)[k] = input[k]
          /\ \A k \in 1 .. Len(news) : (input \o news)[Len(input) + k] = news[k]
          /\ \A k \in Len(input) + 1 .. Len(input) + Len(news) : (input \o news)[k] = news[k - Len(input)]
      <4>1. input \in Seq(Notice) /\ news \in Seq(Notice)
        BY <1>c, <2>6
      <4>2. QED BY <4>1, ConcatPlaces
    <3>3. QED BY <2>6, <3>1, <3>2
  <2> HIDE DEF news
  <2>8. \A k \in n + 1 .. Len(input') :
          /\ input'[k].type # "NET_ACCEPTED" /\ input'[k].id \in used
          /\ input'[k].gen = conn[input'[k].id].gen
    <3>1. \A k \in n + 1 .. Len(input') : k - n \in 1 .. Len(order) /\ input'[k] = news[k - n]
      BY <1>c, <2>5, <2>7
    <3>2. ASSUME NEW k \in n + 1 .. Len(input')
          PROVE  /\ input'[k].type # "NET_ACCEPTED" /\ input'[k].id \in used
                 /\ input'[k].gen = conn[input'[k].id].gen
      <4>1. k - n \in 1 .. Len(order) /\ input'[k] = news[k - n]
        BY <3>1
      <4>2. order[k - n] \in used
        BY <2>1, <2>5, <4>1
      <4>3. QED BY <2>6, <4>1, <4>2
    <3>3. QED BY <3>2
  <2>9. \A c \in idle : Gone(c)'
    <3>1. ASSUME NEW c \in idle PROVE Gone(c)'
      <4>1. PICK k \in 1 .. Len(order) : order[k] = c
        BY <2>5
      <4>2. n + k \in 1 .. Len(input')
        BY <1>c, <2>5, <2>7
      <4>3. input'[n + k].id = c /\ input'[n + k].type = "NET_NORECV"
        BY <2>6, <2>7, <4>1
      <4>4. QED BY <4>2, <4>3 DEF Gone
    <3>2. QED BY <3>1
  <2>10. /\ \A c \in ConnIds : conn'[c].gen \in {0, conn[c].gen}
         /\ used' = used \ (idle \cup killed)
    BY <2>1 DEF DelConns, Released
  <2>11. \A c \in ConnIds : Closing(c)' => Closing(c)
    <3>1. \A c : Contains(mapkill', c) => Contains(mapkill, c)
      BY <1>c, <2>1, KillListShrinks DEF DelConns
    <3>2. QED BY <2>1, <3>1 DEF Closing
  <2>12. \A c \in used \ used' : Closing(c) \/ Gone(c)'
    BY <2>3, <2>9, <2>10
  <2>13. Len(input') \in Nat /\ Len(input) <= Len(input')
    BY <1>c, <2>5, <2>7
  <2>14. \A k \in 1 .. Len(output') : \E j \in 1 .. Len(output) : output'[k] = output[j]
    BY <2>1
  <2>15. QED BY <1>0, <1>b, <1>d, <2>1, <2>7, <2>8, <2>10, <2>11, <2>12, <2>13, <2>14, IoKeepsClean
<1>5. CASE IoHandle
  <2> DEFINE h == Head(output).id
  <2>1. output # <<>> /\ output' = Tail(output) /\ UNCHANGED <<input, sess>>
    BY <1>5 DEF IoHandle, IoDisconn, IoKill, IoSend
  <2>2. ~mixed'
    BY <1>0, <1>b, <1>d, <1>5, CleanMeetsItsOwn DEF IoHandle, IoDisconn, IoKill, IoSend
  <2>3. /\ Len(output') = Len(output) - 1 /\ Head(output) = output[1] /\ 1 \in 1 .. Len(output)
        /\ \A k \in 1 .. Len(output') : output'[k] = output[k + 1] /\ k + 1 \in 1 .. Len(output)
    BY <1>c, <2>1, TailPlaces
  <2>4. h \in ConnIds
    BY <1>c, <2>3
  <2>5. /\ \A c \in ConnIds : conn'[c].gen \in {0, conn[c].gen}
        /\ \A c \in used \ used' : c = h /\ Head(output).type # "MSG"
        /\ \A c \in ConnIds : Contains(mapkill', c) =>
             Contains(mapkill, c) \/ (c = h /\ Head(output).type # "MSG")
    <3>1. CASE IoDisconn
      <4>1. DelConns({h}) /\ Head(output).type # "MSG"
        BY <3>1 DEF IoDisconn
      <4>2. \A c : Contains(mapkill', c) => Contains(mapkill, c)
        BY <1>c, <4>1, KillListShrinks DEF DelConns
      <4>3. QED BY <4>1, <4>2 DEF DelConns, Released
    <3>2. CASE IoKill
      <4>1. /\ conn' = [conn EXCEPT ![h].parse = "CUS_KILL"] /\ UNCHANGED used
            /\ mapkill' = IF Contains(mapkill, h) THEN mapkill ELSE Append(mapkill, h)
            /\ Head(output).type # "MSG"
        BY <3>2 DEF IoKill
      <4> HIDE DEF h
      <4>2. \A c \in ConnIds : conn'[c].gen = conn[c].gen
        BY <1>c, <2>4, <4>1
      <4>3. \A c \in ConnIds : Contains(mapkill', c) => Contains(mapkill, c) \/ c = h
        <5>1. CASE Contains(mapkill, h)
          BY <4>1, <5>1
        <5>2. CASE ~Contains(mapkill, h)
          BY <1>c, <2>4, <4>1, <5>2, AppendPlaces DEF Contains
        <5>3. QED BY <5>1, <5>2
      <4>4. QED BY <4>1, <4>2, <4>3 DEF h
    <3>3. CASE IoSend
      BY <3>3 DEF IoSend
    <3>4. QED BY <1>5, <3>1, <3>2, <3>3 DEF IoHandle
  <2>6. Head(output).type # "MSG" => Closing(h)
    BY <2>3 DEF Closing
  <2>7. \A c \in ConnIds : Closing(c)' => Closing(c)
    <3>1. ASSUME NEW c \in ConnIds, NEW k \in 1 .. Len(output'), output'[k].id = c, output'[k].type # "MSG"
          PROVE  Closing(c)
      BY <2>3, <3>1 DEF Closing
    <3>2. ASSUME NEW c \in ConnIds, Contains(mapkill', c) PROVE Closing(c)
      BY <2>5, <2>6, <3>2 DEF Closing
    <3>3. QED BY <3>1, <3>2 DEF Closing
  <2> HIDE DEF h
  <2>8. \A k \in 1 .. Len(output') : \E j \in 1 .. Len(output) : output'[k] = output[j]
    BY <2>3
  <2>9. \A c \in used \ used' : Closing(c) \/ Gone(c)'
    BY <2>5, <2>6
  <2>10. /\ Len(input') \in Nat /\ Len(input) <= Len(input') /\ \A k \in 1 .. Len(input) : input'[k] = input[k]
         /\ Len(input) + 1 .. Len(input') = {}
    BY <1>c, <2>1
  <2>11. QED BY <1>0, <1>b, <2>1, <2>2, <2>5, <2>7, <2>8, <2>9, <2>10, IoKeepsClean
<1>6. CASE LogicHandle
  <2> DEFINE m == Head(input)
  <2>1. input # <<>> /\ input' = Tail(input) /\ UNCHANGED <<conn, used, mapkill>>
    BY <1>6 DEF LogicHandle, OnAccepted, OnDisconn, OnNoRecv, OnMsg, Logic
  <2>2. ~mixed'
    BY <1>0, <1>b, <1>d, <1>6, <2>1, CleanMeetsItsOwn DEF LogicHandle, OnAccepted, OnDisconn, OnNoRecv, OnMsg
  <2>3. m = input[1] /\ 1 \in 1 .. Len(input) /\ m.id \in ConnIds
    BY <1>c, <2>1, TailPlaces
  <2>4. /\ Len(input') = Len(input) - 1
        /\ \A k \in 2 .. Len(input) : input'[k - 1] = input[k] /\ k - 1 \in 1 .. Len(input')
    <3>1. /\ Len(input') = Len(input) - 1
          /\ \A k \in 1 .. Len(input) - 1 : input'[k] = input[k + 1]
      BY <1>c, <2>1, TailPlaces
    <3>2. \A k \in 2 .. Len(input) : k - 1 \in 1 .. Len(input) - 1 /\ (k - 1) + 1 = k
      BY <1>c
    <3>3. QED BY <3>1, <3>2
  <2>d. PICK d \in ConnIds : d = m.id
    BY <2>3
  <2>5. m.type # "NET_NORECV" => (Gone(d) => Gone(d)')
    <3>1. ASSUME m.type # "NET_NORECV", NEW k \in 1 .. Len(input), input[k].id = d, input[k].type = "NET_NORECV"
          PROVE  Gone(d)'
      <4>1. k # 1
        BY <2>3, <3>1
      <4>2. k \in 2 .. Len(input)
        BY <1>c, <4>1
      <4>3. QED BY <2>4, <3>1, <4>2 DEF Gone
    <3>2. QED BY <3>1 DEF Gone
  <2>6. CASE OnAccepted
    <3>1. /\ sess' = IF sess[m.id] = 0 THEN [sess EXCEPT ![m.id] = m.gen] ELSE sess
          /\ m.type = "NET_ACCEPTED" /\ UNCHANGED output
      BY <2>6 DEF OnAccepted, Logic
    <3>2. Opening(d)
      BY <2>3, <2>d, <3>1 DEF Opening
    <3>3. /\ ~Closing(d) /\ (d \in used \/ Gone(d))
      BY <1>d, <2>3, <3>2
    <3>4. ~Closing(d)' /\ (d \in used \/ Gone(d)')
      BY <2>1, <2>5, <3>1, <3>3 DEF Closing
    <3>5. /\ \A c \in ConnIds \ {m.id} : sess'[c] = sess[c]
          /\ sess'[m.id] \in {0, sess[m.id], m.gen} /\ m.type # "NET_NORECV"
      BY <1>c, <2>3, <3>1
    <3>6. QED BY <1>0, <1>b, <2>1, <2>2, <3>1, <3>4, <3>5, LogicKeepsClean, <2>d
  <2>7. CASE OnDisconn \/ OnNoRecv
    <3>1. /\ sess' = [sess EXCEPT ![m.id] = 0]
          /\ output' = output \/ output' = Append(output, Msg("LAYER_DISCONN", m.id, m.gen))
      BY <2>7 DEF OnDisconn, OnNoRecv
    <3>2. /\ \A c \in ConnIds \ {m.id} : sess'[c] = sess[c]
          /\ sess'[m.id] = 0
      BY <1>c, <2>3, <3>1
    <3>3. QED BY <1>0, <1>b, <2>1, <2>2, <3>1, <3>2, LogicKeepsClean, <2>d
  <2>8. CASE \E ping \in BOOLEAN : OnMsg(ping)
    <3>1. /\ UNCHANGED sess /\ m.type = "MSG"
          /\ output' = output \/ output' = Append(output, Msg("MSG", m.id, m.gen))
      BY <2>8 DEF OnMsg, Logic
    <3>2. ASSUME sess[d] # 0 PROVE ~Closing(d)' /\ (d \in used \/ Gone(d)')
      <4>1. ~Closing(d) /\ (d \in used \/ Gone(d))
        BY <1>d, <2>3, <3>2
      <4>2. ASSUME NEW k \in 1 .. Len(output'), output'[k].id = d, output'[k].type # "MSG"
            PROVE  FALSE
        <5>1. CASE output' = output
          BY <4>1, <4>2, <5>1 DEF Closing
        <5>2. CASE output' = Append(output, Msg("MSG", m.id, m.gen))
          <6> DEFINE e == Msg("MSG", m.id, m.gen)
          <6>1. e \in Command /\ e.type = "MSG"
            <7>1. m.id \in ConnIds /\ m.gen \in Gens
              BY <1>c, <2>3 DEF Notice
            <7>2. QED BY <7>1 DEF Msg, Command
          <6> HIDE DEF e
          <6>2. /\ Len(output') = Len(output) + 1 /\ output'[Len(output) + 1] = e
                /\ \A j \in 1 .. Len(output) : output'[j] = output[j]
            BY <1>c, <5>2, <6>1, AppendPlaces DEF e
          <6>3. k \in 1 .. Len(output)
            BY <1>c, <4>2, <6>1, <6>2
          <6>4. QED BY <4>1, <4>2, <6>2, <6>3 DEF Closing
        <5>3. QED BY <3>1, <5>1, <5>2
      <4>3. ~Closing(d)'
        BY <2>1, <4>1, <4>2 DEF Closing
      <4>4. QED BY <2>5, <3>1, <4>1, <4>3
    <3>3. /\ \A c \in ConnIds \ {m.id} : sess'[c] = sess[c]
          /\ sess'[m.id] \in {0, sess[m.id], m.gen} /\ m.type # "NET_NORECV"
      BY <3>1
    <3>4. QED BY <1>0, <1>b, <2>1, <2>2, <3>1, <3>2, <3>3, LogicKeepsClean, <2>d
  <2>9. QED BY <1>6, <2>6, <2>7, <2>8 DEF LogicHandle
<1>7. ASSUME NEW id \in ConnIds, SendNet(id) \/ KillSession(id) PROVE Clean'
  <2>1. /\ sess[id] # 0 /\ UNCHANGED <<conn, used, mapkill, input, mixed>>
    BY <1>7 DEF SendNet, KillSession
  <2>2. PICK t \in {"LAYER_KILL", "MSG"} :
          /\ output' = Append(output, Msg(t, id, sess[id]))
          /\ t = "MSG" => sess' = sess
          /\ t # "MSG" => sess' = [sess EXCEPT ![id] = 0]
    BY <1>7 DEF SendNet, KillSession
  <2> DEFINE e == Msg(t, id, sess[id])
  <2>3. e \in Command /\ e.id = id /\ e.gen = sess[id] /\ e.type = t
    BY <1>c DEF Msg, Command
  <2> HIDE DEF e
  <2>4. /\ Len(output') = Len(output) + 1 /\ output'[Len(output) + 1] = e
        /\ \A k \in 1 .. Len(output) : output'[k] = output[k]
    BY <1>c, <2>2, <2>3, AppendPlaces DEF e
  <2>5. \A c \in ConnIds : sess'[c] \in {0, sess[c]} /\ (t # "MSG" => sess'[id] = 0)
    BY <1>c, <2>2
  <2>6. \A k \in 1 .. Len(output') : (k \in 1 .. Len(output) /\ output'[k] = output[k]) \/ output'[k] = e
    BY <1>c, <2>4
  <2>7. \A c \in ConnIds : Closing(c)' => Closing(c) \/ (c = id /\ t # "MSG")
    BY <2>1, <2>3, <2>6 DEF Closing
  <2>8. Owned'
    <3>1. PICK o \in [ConnIds -> Nat] : Owns(o)
      BY <1>b DEF Clean, Owned
    <3>2. \A k \in 1 .. Len(output') : output'[k].gen = o[output'[k].id]
      <4>1. sess[id] = o[id]
        BY <2>1, <3>1 DEF Owns
      <4>2. QED BY <2>3, <2>6, <3>1, <4>1 DEF Owns
    <3>3. \A c \in ConnIds : conn'[c].gen \in {0, o[c]} /\ sess'[c] \in {0, o[c]}
      BY <2>1, <2>5, <3>1 DEF Owns
    <3>4. QED BY <2>1, <3>1, <3>2, <3>3 DEF Owned, Owns
  <2>9. OpeningFirst'
    BY <1>b, <2>1 DEF Clean, OpeningFirst
  <2>10. OpeningAlone'
    <3>1. ASSUME NEW c \in ConnIds, Opening(c)'
          PROVE  /\ sess'[c] = 0 /\ ~Closing(c)' /\ (c \in used' \/ Gone(c)')
                 /\ \A k \in 1 .. Len(output') : output'[k].id # c
      <4>1. Opening(c)
        BY <2>1, <3>1 DEF Opening
      <4>2. c # id
        BY <1>d, <2>1, <4>1
      <4>3. Gone(c) => Gone(c)'
        BY <2>1 DEF Gone
      <4>4. QED BY <1>d, <2>1, <2>3, <2>5, <2>6, <2>7, <4>1, <4>2, <4>3
    <3>2. QED BY <3>1 DEF OpeningAlone
  <2>11. SessionOpen'
    <3>1. ASSUME NEW c \in ConnIds, sess'[c] # 0
          PROVE  ~Closing(c)' /\ (c \in used' \/ Gone(c)')
      <4>1. sess[c] # 0 /\ (c = id => t = "MSG")
        BY <2>5, <3>1
      <4>2. Gone(c) => Gone(c)'
        BY <2>1 DEF Gone
      <4>3. QED BY <1>d, <2>1, <2>7, <4>1, <4>2
    <3>2. QED BY <3>1 DEF SessionOpen
  <2>12. QED BY <1>d, <2>1, <2>8, <2>9, <2>10, <2>11 DEF Clean
<1>8. CASE UNCHANGED vars
  BY <1>b, <1>8 DEF vars, Clean, Owned, Owns, OpeningFirst, OpeningAlone, SessionOpen, Opening, Gone, Closing, Contains
<1>9. QED
  BY <1>1, <1>2, <1>3, <1>4, <1>5, <1>6, <1>7, <1>8 DEF Next

LEMMA ReuseInit == Init => ReuseInv
<1> SUFFICES ASSUME Init PROVE Clean
  BY TypeInit DEF ReuseInv
<1>1. /\ input = <<>> /\ output = <<>> /\ mixed = FALSE /\ sess = [id \in ConnIds |-> 0]
      /\ conn = [id \in ConnIds |-> Released]
  BY DEF Init
<1>2. Len(input) = 0 /\ Len(output) = 0
  BY <1>1
<1>3. Owned
  <2>1. [id \in ConnIds |-> 0] \in [ConnIds -> Nat]
    OBVIOUS
  <2>2. Owns([id \in ConnIds |-> 0])
    BY <1>1, <1>2 DEF Owns, Released
  <2>3. QED BY <2>1, <2>2 DEF Owned
<1>4. OpeningFirst /\ OpeningAlone /\ SessionOpen
  BY <1>1, <1>2 DEF OpeningFirst, OpeningAlone, SessionOpen, Opening
<1>5. QED BY <1>1, <1>3, <1>4 DEF Clean

\* A message is handled by the session of another connection, or a command meets another
\* connection, only after an id was given away too early (NetConnPool::NewConn).
THEOREM OnlyReuse == Spec => []OnlyReuseMixes
<1>1. ReuseInv => OnlyReuseMixes
  BY DEF ReuseInv, Clean, OnlyReuseMixes
<1>2. QED
  BY ReuseInit, ReuseNext, <1>1, PTL DEF Spec

\* ... and up to then the session of a slot is that of the connection that has the id, or the
\* news of the end of its connection is on the way (LogicHandle::AddSession, _RemoveSession).
THEOREM SessionsMatch == Spec => []SessionMatchesConn
<1>1. ReuseInv => SessionMatchesConn
  <2> SUFFICES ASSUME ReuseInv, ~reused, NEW id \in ConnIds, sess[id] # 0
               PROVE  \/ id \in used /\ conn[id].gen = sess[id]
                      \/ \E k \in 1 .. Len(input) :
                           input[k].gen = sess[id] /\ input[k].type = "NET_NORECV"
    BY DEF SessionMatchesConn
  <2>1. PICK o \in [ConnIds -> Nat] : Owns(o)
    BY DEF ReuseInv, Clean, Owned
  <2>2. sess[id] = o[id]
    BY <2>1 DEF Owns
  <2>3. id \in used \/ Gone(id)
    BY DEF ReuseInv, Clean, SessionOpen
  <2>4. CASE id \in used
    <3>1. conn[id].gen # 0
      BY <2>4 DEF ReuseInv, TypeInv, OpenHasGen
    <3>2. QED BY <2>1, <2>2, <2>4, <3>1 DEF Owns
  <2>5. CASE Gone(id)
    BY <2>1, <2>2, <2>5 DEF Gone, Owns
  <2>6. QED BY <2>3, <2>4, <2>5
<1>2. QED
  BY ReuseInit, ReuseNext, <1>1, PTL DEF Spec
=============================================================================
