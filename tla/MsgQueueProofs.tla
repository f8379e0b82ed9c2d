--------------------------- MODULE MsgQueueProofs ---------------------------
(***************************************************************************)
(* Proofs about MsgQueue, for every set of producers, every ring size,     *)
(* every socket capacity and any number of messages.                       *)
(***************************************************************************)
EXTENDS MsgQueue, SequenceTheorems, TLAPS

---------------------------------------------------------------------------
(* Type correctness *)

\* Every variable keeps its type: in particular no producer numbers a
\* message beyond MaxSend and the socket never holds more than SockCap.
\* (Push hands over messages p has counted: CountedBeforePush.)
CountedBeforePush ==
  \A p \in Producers : ppc[p] # "idle" => sent[p] > 0

TypeInv == TypeOK /\ CountedBeforePush

LEMMA TypeInit == Init => TypeInv
  BY QueueAssumption DEF Init, TypeInv, TypeOK, CountedBeforePush

LEMMA TypeNext == TypeInv /\ [Next]_vars => TypeInv'
<1> SUFFICES ASSUME TypeInv, [Next]_vars PROVE TypeInv'
  OBVIOUS
<1> USE QueueAssumption DEF TypeInv, TypeOK, CountedBeforePush
<1>1. ASSUME NEW p \in Producers, CallPush(p) PROVE TypeInv'
  BY <1>1 DEF CallPush
<1>2. ASSUME NEW p \in Producers, PushStored(p) PROVE TypeInv'
  <2>1. sent[p] \in 0 .. MaxSend /\ sent[p] > 0
    BY <1>2 DEF PushStored
  <2> HIDE DEF TypeInv, TypeOK, CountedBeforePush
  <2>2. <<p, sent[p]>> \in Message
    BY <2>1 DEF Message
  <2>3. QED BY <1>2, <2>2 DEF PushStored, TypeInv, TypeOK, CountedBeforePush
<1>3. ASSUME NEW p \in Producers, PushFull(p) PROVE TypeInv'
  BY <1>3 DEF PushFull
<1>4. ASSUME NEW p \in Producers, Retry(p) PROVE TypeInv'
  BY <1>4 DEF Retry
<1>5. ASSUME NEW p \in Producers, WakeConsumer(p) PROVE TypeInv'
  BY <1>5 DEF WakeConsumer, WriteByte
<1>6. CASE ReadEvent
  BY <1>6 DEF ReadEvent
<1>7. CASE SerPop
  <2>1. CASE kind = "MUL_ONE" /\ ring # <<>>
    BY <1>7, <2>1 DEF SerPop
  <2>2. CASE ~(kind = "MUL_ONE" /\ ring # <<>>)
    BY <1>7, <2>2 DEF SerPop
  <2>3. QED BY <2>1, <2>2
<1>8. CASE PopBatch
  BY <1>8 DEF PopBatch
<1>9. CASE PopRing
  BY <1>9 DEF PopRing
<1>10. CASE PopEmpty
  BY <1>10 DEF PopEmpty
<1>11. CASE RunMsg
  BY <1>11 DEF RunMsg
<1>12. CASE CheckStop
  BY <1>12 DEF CheckStop
<1>13. CASE SetStop
  BY <1>13 DEF SetStop
<1>14. CASE StopWrite
  BY <1>14 DEF StopWrite, WriteByte
<1>15. CASE UNCHANGED vars
  BY <1>15 DEF vars
<1>16. QED
  BY <1>1, <1>2, <1>3, <1>4, <1>5, <1>6, <1>7, <1>8, <1>9, <1>10, <1>11,
     <1>12, <1>13, <1>14, <1>15 DEF Next, Producer, Consumer, Stopper

\* Type correctness of the queue: the type invariant holds in every
\* reachable state.
THEOREM TypeCorrect == SafeSpec => []TypeOK
<1>1. TypeInv => TypeOK
  BY DEF TypeInv
<1>2. QED
  BY TypeInit, TypeNext, <1>1, PTL DEF SafeSpec

---------------------------------------------------------------------------
(* No wake-up is lost *)

\* The consumer leaves its loop only for a stop.
OffMeansStopped == cpc = "off" => spc # "running"

WakeInv == TypeInv /\ OffMeansStopped /\ NoLostWakeup

LEMMA WakeNext == WakeInv /\ [Next]_vars => WakeInv'
<1> SUFFICES ASSUME WakeInv, [Next]_vars PROVE WakeInv'
  OBVIOUS
<1>0. TypeInv /\ TypeInv'
  BY TypeNext DEF WakeInv
<1> SUFFICES (OffMeansStopped /\ NoLostWakeup)'
  BY <1>0 DEF WakeInv
<1>a. /\ OffMeansStopped /\ NoLostWakeup
      /\ TypeOK /\ TypeOK'
  BY <1>0 DEF WakeInv, TypeInv
<1> USE QueueAssumption DEF TypeOK, OffMeansStopped, NoLostWakeup, KINDS
<1>1. ASSUME NEW p \in Producers, CallPush(p)
      PROVE (OffMeansStopped /\ NoLostWakeup)'
  BY <1>a, <1>1 DEF CallPush
<1>2. ASSUME NEW p \in Producers, PushStored(p)
      PROVE (OffMeansStopped /\ NoLostWakeup)'
  <2>1. ring # <<>> \/ ppc'[p] = "write"
    BY <1>a, <1>2 DEF PushStored
  <2>2. \A q \in Producers : ppc[q] = "write" => ppc'[q] = "write"
    BY <1>a, <1>2 DEF PushStored
  <2>3. QED BY <1>a, <1>2, <2>1, <2>2 DEF PushStored
<1>3. ASSUME NEW p \in Producers, PushFull(p)
      PROVE (OffMeansStopped /\ NoLostWakeup)'
  BY <1>a, <1>3 DEF PushFull
<1>4. ASSUME NEW p \in Producers, Retry(p)
      PROVE (OffMeansStopped /\ NoLostWakeup)'
  BY <1>a, <1>4 DEF Retry
<1>5. ASSUME NEW p \in Producers, WakeConsumer(p)
      PROVE (OffMeansStopped /\ NoLostWakeup)'
  <2>1. sock' > 0 \/ cpc' = "off"
    BY <1>a, <1>5 DEF WakeConsumer, WriteByte
  <2>2. QED BY <1>a, <1>5, <2>1 DEF WakeConsumer
<1>6. CASE ReadEvent
  BY <1>a, <1>6 DEF ReadEvent
<1>7. CASE SerPop
  BY <1>a, <1>7 DEF SerPop
<1>8. CASE PopBatch
  BY <1>a, <1>8 DEF PopBatch
<1>9. CASE PopRing
  BY <1>a, <1>9 DEF PopRing
<1>10. CASE PopEmpty
  BY <1>a, <1>10 DEF PopEmpty
<1>11. CASE RunMsg
  BY <1>a, <1>11 DEF RunMsg
<1>12. CASE CheckStop
  BY <1>a, <1>12 DEF CheckStop
<1>13. CASE SetStop
  BY <1>a, <1>13 DEF SetStop
<1>14. CASE StopWrite
  <2>1. sock' > 0 \/ cpc' = "off"
    BY <1>a, <1>14 DEF StopWrite, WriteByte
  <2>2. QED BY <1>a, <1>14, <2>1 DEF StopWrite
<1>15. CASE UNCHANGED vars
  BY <1>a, <1>15 DEF vars
<1>16. QED
  BY <1>1, <1>2, <1>3, <1>4, <1>5, <1>6, <1>7, <1>8, <1>9, <1>10, <1>11,
     <1>12, <1>13, <1>14, <1>15 DEF Next, Producer, Consumer, Stopper

\* In every reachable state of every instance, messages waiting in the ring
\* have a wake-up on its way (MsgQueue::Push, NetSocketPair::_EventPop).
THEOREM WakeupNeverLost == SafeSpec => []NoLostWakeup
<1>1. Init => WakeInv
  <2>1. Init => OffMeansStopped /\ NoLostWakeup
    BY DEF Init, OffMeansStopped, NoLostWakeup
  <2>2. QED BY <2>1, TypeInit DEF WakeInv
<1>2. WakeInv => NoLostWakeup
  BY DEF WakeInv
<1>3. QED
  BY <1>1, <1>2, WakeNext, PTL DEF SafeSpec

---------------------------------------------------------------------------
(* Order: what has been run, held, batched and stored is what was accepted *)

\* The consumer holds a message exactly between Pop and the end of Run.
HandHeld ==
  /\ cpc = "run" => Len(hand) = 1
  /\ cpc # "run" => hand = <<>>

OrderInv == TypeInv /\ HandHeld /\ BatchDrained /\ InOrder

\* A sequence is its head followed by its tail.
LEMMA HeadTail ==
  ASSUME NEW S, NEW s \in Seq(S), s # <<>>
  PROVE  /\ <<Head(s)>> \in Seq(S)
         /\ Tail(s) \in Seq(S)
         /\ <<Head(s)>> \o Tail(s) = s
  OBVIOUS

LEMMA ConcatIsSeq ==
  ASSUME NEW S, NEW s \in Seq(S), NEW t \in Seq(S)
  PROVE  s \o t \in Seq(S)
  BY ConcatProperties

LEMMA Singleton ==
  ASSUME NEW s \in Seq(Message), Len(s) = 1
  PROVE  s[1] \in Message /\ s = <<s[1]>>
<1>1. s[1] \in Message
  BY ElementOfSeq
<1> DEFINE e == s[1]
           t == <<e>>
<1> HIDE DEF e
<1>2. t \in Seq(Message) /\ Len(t) = 1
  BY <1>1 DEF e
<1>3. \A i \in 1 .. Len(s) : s[i] = t[i]
  BY DEF e
<1> HIDE DEF t
<1>4. s = t
  BY <1>2, <1>3, SeqEqual
<1>5. QED
  BY <1>1, <1>4 DEF e, t

LEMMA ConcatAssoc ==
  \A s, t, u \in Seq(Message) : (s \o t) \o u = s \o (t \o u)
  BY ConcatAssociative

LEMMA AppendAsConcat ==
  ASSUME NEW S, NEW s \in Seq(S), NEW e \in S
  PROVE  Append(s, e) = s \o <<e>> /\ <<e>> \in Seq(S)
  OBVIOUS

LEMMA OrderNext == OrderInv /\ [Next]_vars => OrderInv'
<1> SUFFICES ASSUME OrderInv, [Next]_vars PROVE OrderInv'
  OBVIOUS
<1>0. TypeInv /\ TypeInv'
  BY TypeNext DEF OrderInv
<1> SUFFICES (HandHeld /\ BatchDrained /\ InOrder)'
  BY <1>0 DEF OrderInv
<1>a. /\ HandHeld /\ BatchDrained /\ InOrder
      /\ TypeOK /\ TypeOK'
  BY <1>0 DEF OrderInv, TypeInv
<1>b. /\ ring \in Seq(Message) /\ batch \in Seq(Message)
      /\ hand \in Seq(Message) /\ ran \in Seq(Message)
      /\ accepted \in Seq(Message) /\ <<>> \in Seq(Message)
      /\ ring' \in Seq(Message) /\ batch' \in Seq(Message)
      /\ hand' \in Seq(Message) /\ ran' \in Seq(Message)
      /\ accepted' \in Seq(Message)
  BY <1>a DEF TypeOK
<1>c. kind \in KINDS
  BY <1>a DEF TypeOK
<1> USE DEF HandHeld, BatchDrained, KINDS
<1>1. ASSUME NEW p \in Producers, PushStored(p)
      PROVE (HandHeld /\ BatchDrained /\ InOrder)'
  <2> DEFINE m == <<p, sent[p]>>
             front == (ran \o hand) \o batch
  <2>1. (HandHeld /\ BatchDrained)'
    BY <1>a, <1>1 DEF PushStored
  <2>2. m \in Message
    <3>1. sent[p] \in 0 .. MaxSend /\ sent[p] > 0
      BY <1>0, <1>1, QueueAssumption
      DEF PushStored, TypeInv, TypeOK, CountedBeforePush
    <3>2. QED BY <3>1 DEF Message
  <2>3. /\ ring' = ring \o <<m>> /\ accepted' = accepted \o <<m>>
        /\ <<m>> \in Seq(Message)
    <3>1. ring' = Append(ring, m) /\ accepted' = Append(accepted, m)
      BY <1>1 DEF PushStored
    <3> HIDE DEF m
    <3>2. QED BY <3>1, <2>2, <1>b, AppendAsConcat
  <2>4. front \in Seq(Message) /\ accepted = front \o ring
    BY <1>a, <1>b, ConcatIsSeq DEF InOrder
  <2>5. front' = front
    BY <1>1 DEF PushStored
  <2> HIDE DEF m, front
  <2>6. accepted' = front \o ring'
    <3>1. <<m>> \in Seq(Message) /\ front \in Seq(Message) /\ ring \in Seq(Message)
      BY <1>b, <2>3, <2>4
    <3>2. (front \o ring) \o <<m>> = front \o (ring \o <<m>>)
      BY <3>1, ConcatAssoc, Zenon
    <3>3. QED BY <3>2, <2>3, <2>4, Zenon
  <2>7. QED BY <2>1, <2>5, <2>6 DEF InOrder, front
<1>2. CASE SerPop
  <2>1. CASE kind = "MUL_ONE" /\ ring # <<>>
    <3>1. batch = <<>> /\ hand = <<>> /\ batch' = ring /\ ring' = <<>>
      BY <1>a, <1>2, <2>1 DEF SerPop
    <3>2. ran \o hand = ran /\ (ran \o hand) \o batch = ran
      BY <3>1, <1>b, ConcatEmptySeq
    <3>3. ran \o ring \in Seq(Message)
      BY <1>b, ConcatIsSeq
    <3>4. InOrder'
      BY <1>a, <1>b, <1>2, <3>1, <3>2, <3>3, ConcatEmptySeq DEF SerPop, InOrder
    <3>5. (HandHeld /\ BatchDrained)'
      BY <1>a, <1>2, <2>1 DEF SerPop
    <3>6. QED BY <3>4, <3>5
  <2>2. CASE ~(kind = "MUL_ONE" /\ ring # <<>>)
    BY <1>a, <1>2, <2>2 DEF SerPop, InOrder
  <2>3. QED BY <2>1, <2>2
<1>3. CASE PopBatch
  <2>1. hand = <<>> /\ hand' = <<Head(batch)>> /\ batch' = Tail(batch)
    BY <1>a, <1>3 DEF PopBatch
  <2>2. hand' \o batch' = batch
    BY <1>b, <1>3, <2>1, HeadTail DEF PopBatch
  <2>3. ran \o hand = ran
    BY <2>1, <1>b, ConcatEmptySeq
  <2>4. (ran \o hand') \o batch' = ran \o batch
    <3>1. ran \in Seq(Message) /\ hand' \in Seq(Message) /\ batch' \in Seq(Message)
      BY <1>b
    <3>2. (ran \o hand') \o batch' = ran \o (hand' \o batch')
      BY <3>1, ConcatAssoc, Zenon
    <3>3. QED BY <3>2, <2>2, Zenon
  <2>5. InOrder'
    BY <1>a, <1>3, <2>3, <2>4 DEF PopBatch, InOrder
  <2>6. (HandHeld /\ BatchDrained)'
    BY <1>a, <1>3, <2>1 DEF PopBatch
  <2>7. QED BY <2>5, <2>6
<1>4. CASE PopRing
  <2>1. /\ hand = <<>> /\ batch = <<>> /\ batch' = <<>>
        /\ hand' = <<Head(ring)>> /\ ring' = Tail(ring)
    BY <1>a, <1>4 DEF PopRing
  <2>2. hand' \o ring' = ring
    BY <1>b, <1>4, <2>1, HeadTail DEF PopRing
  <2>3. /\ ran \o hand = ran /\ (ran \o hand) \o batch = ran
        /\ (ran \o hand') \o batch' = ran \o hand'
    BY <2>1, <1>b, ConcatEmptySeq, ConcatIsSeq
  <2>4. (ran \o hand') \o ring' = ran \o ring
    <3>1. ran \in Seq(Message) /\ hand' \in Seq(Message) /\ ring' \in Seq(Message)
      BY <1>b
    <3>2. (ran \o hand') \o ring' = ran \o (hand' \o ring')
      BY <3>1, ConcatAssoc, Zenon
    <3>3. QED BY <3>2, <2>2, Zenon
  <2>5. InOrder'
    BY <1>a, <1>4, <2>3, <2>4 DEF PopRing, InOrder
  <2>6. (HandHeld /\ BatchDrained)'
    BY <1>a, <1>4, <2>1 DEF PopRing
  <2>7. QED BY <2>5, <2>6
<1>5. CASE RunMsg
  <2>1. ran' = ran \o hand /\ hand' = <<>>
    BY <1>5 DEF RunMsg
  <2>2. ran' \o hand' = ran \o hand
    BY <2>1, <1>b, ConcatEmptySeq
  <2>3. InOrder'
    BY <1>a, <1>5, <2>2 DEF RunMsg, InOrder
  <2>4. (HandHeld /\ BatchDrained)'
    BY <1>a, <1>5 DEF RunMsg
  <2>5. QED BY <2>3, <2>4
<1>6. CASE PopEmpty
  BY <1>a, <1>c, <1>6 DEF PopEmpty, InOrder
<1>7. CASE ReadEvent \/ CheckStop
  BY <1>a, <1>7 DEF ReadEvent, CheckStop, InOrder
<1>8. CASE SetStop \/ StopWrite
  BY <1>a, <1>8 DEF SetStop, StopWrite, InOrder
<1>9. ASSUME NEW p \in Producers,
             CallPush(p) \/ PushFull(p) \/ Retry(p) \/ WakeConsumer(p)
      PROVE (HandHeld /\ BatchDrained /\ InOrder)'
  BY <1>a, <1>9 DEF CallPush, PushFull, Retry, WakeConsumer, InOrder
<1>10. CASE UNCHANGED vars
  BY <1>a, <1>10 DEF vars, InOrder
<1>11. QED
  BY <1>1, <1>2, <1>3, <1>4, <1>5, <1>6, <1>7, <1>8, <1>9, <1>10
  DEF Next, Producer, Consumer, Stopper

LEMMA OrderInit == Init => OrderInv
<1>1. Init => InOrder
  <2>1. <<>> \o <<>> = <<>>
    BY <<>> \in Seq({}), ConcatEmptySeq
  <2>2. QED BY <2>1 DEF Init, InOrder
<1>2. Init => HandHeld /\ BatchDrained
  BY DEF Init, HandHeld, BatchDrained
<1>3. QED BY <1>1, <1>2, TypeInit DEF OrderInv

\* Nothing is lost, duplicated or reordered between Push and the callback.
THEOREM OrderKept == SafeSpec => []InOrder
<1>1. OrderInv => InOrder
  BY DEF OrderInv
<1>2. QED
  BY <1>1, OrderInit, OrderNext, PTL DEF SafeSpec

\* SerPop never swaps out an array that still holds messages.
THEOREM SwapSafe == SafeSpec => []BatchDrained
<1>1. OrderInv => BatchDrained
  BY DEF OrderInv
<1>2. QED
  BY <1>1, OrderInit, OrderNext, PTL DEF SafeSpec

---------------------------------------------------------------------------
(* The queue implements the abstract channel *)

LEMMA ChannelStep ==
  ASSUME OrderInv, [Next]_vars
  PROVE  [Channel!Next]_(Channel!chan)
<1> DEFINE stutter == UNCHANGED <<accepted, ran, cpc # "off">>
<1>0. stutter => [Channel!Next]_(Channel!chan)
  BY DEF Channel!chan
<1>1. ASSUME NEW p \in Producers, PushStored(p)
      PROVE [Channel!Next]_(Channel!chan)
  <2>1. sent[p] \in 0 .. MaxSend /\ sent[p] > 0
    BY <1>1, QueueAssumption
    DEF OrderInv, PushStored, TypeInv, TypeOK, CountedBeforePush
  <2>2. <<p, sent[p]>> \in Message
    BY <2>1 DEF Message
  <2>3. Channel!Accept(<<p, sent[p]>>)
    BY <1>1 DEF PushStored, Channel!Accept
  <2>4. QED BY <2>2, <2>3 DEF Channel!Next
<1>2. CASE RunMsg
  <2>1. /\ cpc = "run" /\ cpc' = "pop"
        /\ ran' = ran \o hand /\ accepted' = accepted /\ Len(hand) = 1
    BY <1>2 DEF RunMsg, OrderInv, HandHeld
  <2>2. /\ ran \in Seq(Message) /\ hand \in Seq(Message)
        /\ batch \in Seq(Message) /\ ring \in Seq(Message)
    BY DEF OrderInv, TypeInv, TypeOK
  <2> DEFINE held == ran \o hand
  <2>3. /\ held \in Seq(Message) /\ Len(held) = Len(ran) + 1
        /\ held[Len(ran) + 1] = hand[1]
        /\ held = Append(ran, hand[1])
    <3>1. hand[1] \in Message /\ hand = <<hand[1]>>
      <4>1. hand \in Seq(Message) /\ Len(hand) = 1
        BY <2>1, <2>2
      <4>2. QED BY <4>1, Singleton
    <3>2. held = Append(ran, hand[1])
      BY <2>2, <3>1, AppendAsConcat, Zenon
    <3>3. Append(ran, hand[1]) \in Seq(Message)
      BY <2>2, <3>1
    <3>4. /\ Len(Append(ran, hand[1])) = Len(ran) + 1
          /\ Append(ran, hand[1])[Len(ran) + 1] = hand[1]
      BY <2>2, <3>1
    <3>5. QED BY <3>2, <3>3, <3>4, Zenon
  <2>4. accepted = (held \o batch) \o ring
    BY DEF OrderInv, InOrder
  <2> HIDE DEF held
  <2>5. /\ held \o batch \in Seq(Message)
        /\ Len(held \o batch) >= Len(ran) + 1
        /\ (held \o batch)[Len(ran) + 1] = hand[1]
    BY <2>2, <2>3
  <2>6. /\ Len(accepted) >= Len(ran) + 1
        /\ accepted[Len(ran) + 1] = hand[1]
    BY <2>2, <2>4, <2>5
  <2>7. ran' = held
    BY <2>1 DEF held
  <2>8. Len(ran) \in Nat /\ Len(accepted) \in Nat
    BY DEF OrderInv, TypeInv, TypeOK
  <2>9. Channel!Run
    BY <2>1, <2>3, <2>6, <2>7, <2>8 DEF Channel!Run
  <2>10. QED BY <2>9 DEF Channel!Next
<1>3. CASE CheckStop
  <2>1. CASE spc = "running"
    BY <1>0, <1>3, <2>1 DEF CheckStop
  <2>2. CASE spc # "running"
    <3>1. Channel!Close
      BY <1>3, <2>2 DEF CheckStop, Channel!Close
    <3>2. QED BY <3>1 DEF Channel!Next
  <2>3. QED BY <2>1, <2>2
<1>4. CASE ReadEvent \/ SerPop \/ PopBatch \/ PopRing \/ PopEmpty
  BY <1>0, <1>4 DEF ReadEvent, SerPop, PopBatch, PopRing, PopEmpty
<1>5. CASE SetStop \/ StopWrite
  BY <1>0, <1>5 DEF SetStop, StopWrite
<1>6. ASSUME NEW p \in Producers,
             CallPush(p) \/ PushFull(p) \/ Retry(p) \/ WakeConsumer(p)
      PROVE [Channel!Next]_(Channel!chan)
  BY <1>0, <1>6 DEF CallPush, PushFull, Retry, WakeConsumer
<1>7. CASE UNCHANGED vars
  BY <1>0, <1>7 DEF vars
<1>8. QED
  BY <1>1, <1>2, <1>3, <1>4, <1>5, <1>6, <1>7
  DEF Next, Producer, Consumer, Stopper

\* The queue between two threads implements the abstract channel: every
\* step of a producer, of the consumer or of Stop is an Accept, a Run, a
\* Close or a step the channel does not see.
THEOREM Implements == SafeSpec => ChannelSafety
<1>1. Init => Channel!Init
  BY DEF Init, Channel!Init
<1>2. OrderInv /\ [Next]_vars => [Channel!Next]_(Channel!chan)
  BY ChannelStep
<1>3. QED
  BY <1>1, <1>2, OrderInit, OrderNext, PTL
  DEF SafeSpec, ChannelSafety, Channel!Safety
=============================================================================
