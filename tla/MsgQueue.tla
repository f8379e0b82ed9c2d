------------------------------ MODULE MsgQueue ------------------------------
(***************************************************************************)
(* The queue between two threads of the network layer (net/base/MsgQueue   *)
(* .cpp), over the two mutex-protected rings CirQueueMul (MUL_ONE) and     *)
(* CirQueueGen (MUL_MUL), with the socket pair that wakes the consumer's   *)
(* event loop (NetSocketPair.cpp).                                         *)
(*                                                                         *)
(* One step is one critical section, one system call or one run of the     *)
(* callback, so that every interleaving of the producers, the consumer     *)
(* and the thread that calls Stop is a behaviour.  A ring is the sequence  *)
(* of the messages it holds, oldest first: its length is _cur_count.       *)
(*                                                                         *)
(* The consumer's event is EET_READ|EET_PERSIST, level-triggered: it fires *)
(* as long as a byte is in the socket pair.                                *)
(***************************************************************************)
EXTENDS Naturals, Sequences, FiniteSets

CONSTANTS
  Producers,  \* the threads that call Push
  MaxCount,   \* _max_count, the size of the ring
  SockCap,    \* the bytes the socket pair holds before send() fails
  MaxSend     \* bound: the messages each producer pushes

ASSUME QueueAssumption ==
  /\ MaxCount \in Nat \ {0}
  /\ SockCap \in Nat \ {0}
  /\ MaxSend \in Nat

VARIABLES
  kind,       \* the ECirType Init was given
  ring,       \* the messages of _elems
  batch,      \* the messages of _elemspop not popped yet (MUL_ONE)
  hand,       \* the message Pop returned and Run has not finished with
  sock,       \* the bytes in the socket pair
  sent,       \* sent[p]: how many messages p has handed to Push
  ppc,        \* ppc[p]: where p is in Push
  cpc,        \* where the consumer is in its event loop
  spc,        \* where the thread that stops the queue is in Stop
  accepted,   \* history: the messages stored by Push, oldest first
  ran         \* history: the messages the callback was run on

KINDS == {"MUL_ONE", "MUL_MUL"}

vars == <<kind, ring, batch, hand, sock, sent, ppc, cpc, spc, accepted, ran>>

Message == Producers \X (1 .. MaxSend)

Init ==
  /\ kind \in KINDS
  /\ ring = <<>>
  /\ batch = <<>>
  /\ hand = <<>>
  /\ sock = 0
  /\ sent = [p \in Producers |-> 0]
  /\ ppc = [p \in Producers |-> "idle"]
  /\ cpc = "loop"
  /\ spc = "running"
  /\ accepted = <<>>
  /\ ran = <<>>

---------------------------------------------------------------------------
(* Operators named X_Y are mutants of X: plausible errors, which no action *)
(* uses, that the properties at the end must be able to tell from X.       *)

\* The socket pair is taken to hold any number of bytes.
WriteByte_NoLimit == sock' = IF cpc = "off" THEN sock ELSE sock + 1

---------------------------------------------------------------------------
(* NetSocketPair::Write: one byte with MSG_DONTWAIT.  A full socket only   *)
(* logs an error; after Release the call returns at once.                  *)
WriteByte ==
  sock' = IF cpc = "off" \/ sock = SockCap THEN sock ELSE sock + 1

---------------------------------------------------------------------------
(* The producers *)

\* A thread calls Push with its next message.
CallPush(p) ==
  /\ ppc[p] = "idle"
  /\ sent[p] < MaxSend
  /\ sent' = [sent EXCEPT ![p] = @ + 1]
  /\ ppc' = [ppc EXCEPT ![p] = "push"]
  /\ UNCHANGED <<kind, ring, batch, hand, sock, cpc, spc, accepted, ran>>

\* A message is taken not to need a wake-up while a batch is being run.
PushStored_CountsBatch(p) ==
  /\ ppc[p] = "push"
  /\ Len(ring) < MaxCount
  /\ ring' = Append(ring, <<p, sent[p]>>)
  /\ accepted' = Append(accepted, <<p, sent[p]>>)
  /\ ppc' = [ppc EXCEPT ![p] = IF Len(ring') + Len(batch) = 1 THEN "write" ELSE "idle"]
  /\ UNCHANGED <<kind, batch, hand, sock, sent, cpc, spc, ran>>

\* CirQueueXxx::Push stored the message.  It returns 1, "wake the consumer",
\* when the ring was empty, and 2 when a wake-up is already on its way.
PushStored(p) ==
  /\ ppc[p] = "push"
  /\ Len(ring) < MaxCount
  /\ ring' = Append(ring, <<p, sent[p]>>)
  /\ accepted' = Append(accepted, <<p, sent[p]>>)
  /\ ppc' = [ppc EXCEPT ![p] = IF Len(ring') = 1 THEN "write" ELSE "idle"]
  /\ UNCHANGED <<kind, batch, hand, sock, sent, cpc, spc, ran>>

\* CirQueueXxx::Push returned -1: MsgQueue::Push sleeps 100 ms ...
PushFull(p) ==
  /\ ppc[p] = "push"
  /\ Len(ring) >= MaxCount
  /\ ppc' = [ppc EXCEPT ![p] = "sleep"]
  /\ UNCHANGED <<kind, ring, batch, hand, sock, sent, cpc, spc, accepted, ran>>

\* ... and tries again, for ever.
Retry(p) ==
  /\ ppc[p] = "sleep"
  /\ ppc' = [ppc EXCEPT ![p] = "push"]
  /\ UNCHANGED <<kind, ring, batch, hand, sock, sent, cpc, spc, accepted, ran>>

WakeConsumer(p) ==
  /\ ppc[p] = "write"
  /\ WriteByte
  /\ ppc' = [ppc EXCEPT ![p] = "idle"]
  /\ UNCHANGED <<kind, ring, batch, hand, sent, cpc, spc, accepted, ran>>

Producer(p) ==
  CallPush(p) \/ PushStored(p) \/ PushFull(p) \/ Retry(p) \/ WakeConsumer(p)

---------------------------------------------------------------------------
(* The consumer: NetSocketPair::_EventPop, which drains the socket before  *)
(* it looks at the ring                                                    *)

ReadEvent ==
  /\ cpc = "loop"
  /\ sock > 0
  /\ sock' = 0
  /\ cpc' = "serpop"
  /\ UNCHANGED <<kind, ring, batch, hand, sent, ppc, spc, accepted, ran>>

\* CirQueueMul takes the whole ring by swapping its two arrays; the other
\* rings have nothing to do.
SerPop ==
  /\ cpc = "serpop"
  /\ IF kind = "MUL_ONE" /\ ring # <<>>
       THEN batch' = ring /\ ring' = <<>>
       ELSE UNCHANGED <<batch, ring>>
  /\ cpc' = "pop"
  /\ UNCHANGED <<kind, hand, sock, sent, ppc, spc, accepted, ran>>

\* The batch is taken from the wrong end.
PopBatch_Newest ==
  /\ cpc = "pop"
  /\ kind = "MUL_ONE"
  /\ batch # <<>>
  /\ hand' = <<batch[Len(batch)]>>
  /\ batch' = SubSeq(batch, 1, Len(batch) - 1)
  /\ cpc' = "run"
  /\ UNCHANGED <<kind, ring, sock, sent, ppc, spc, accepted, ran>>

\* CirQueueMul::Pop takes from the swapped-out array, without the lock.
PopBatch ==
  /\ cpc = "pop"
  /\ kind = "MUL_ONE"
  /\ batch # <<>>
  /\ hand' = <<Head(batch)>>
  /\ batch' = Tail(batch)
  /\ cpc' = "run"
  /\ UNCHANGED <<kind, ring, sock, sent, ppc, spc, accepted, ran>>

\* CirQueueGen::Pop takes from the ring itself, under the lock.
PopRing ==
  /\ cpc = "pop"
  /\ kind = "MUL_MUL"
  /\ ring # <<>>
  /\ hand' = <<Head(ring)>>
  /\ ring' = Tail(ring)
  /\ cpc' = "run"
  /\ UNCHANGED <<kind, batch, sock, sent, ppc, spc, accepted, ran>>

\* The loop may end before the batch does.
PopEmpty_Early ==
  /\ cpc = "pop"
  /\ cpc' = "check"
  /\ UNCHANGED <<kind, ring, batch, hand, sock, sent, ppc, spc, accepted, ran>>

\* Pop returned nullptr: the loop of MsgQueue::Pop ends.
PopEmpty ==
  /\ cpc = "pop"
  /\ IF kind = "MUL_ONE" THEN batch = <<>> ELSE ring = <<>>
  /\ cpc' = "check"
  /\ UNCHANGED <<kind, ring, batch, hand, sock, sent, ppc, spc, accepted, ran>>

\* MsgQueue::Run: the callback, then MSG_FREE.
RunMsg ==
  /\ cpc = "run"
  /\ ran' = ran \o hand
  /\ hand' = <<>>
  /\ cpc' = "pop"
  /\ UNCHANGED <<kind, ring, batch, sock, sent, ppc, spc, accepted>>

\* The socket is drained after the callbacks, not before them.
CheckStop_DrainAfter ==
  /\ cpc = "check"
  /\ cpc' = IF spc = "running" THEN "loop" ELSE "off"
  /\ sock' = 0
  /\ UNCHANGED <<kind, ring, batch, hand, sent, ppc, spc, accepted, ran>>

\* IsStop() after the callbacks: release the event and both sockets, or
\* return to the event loop.
CheckStop ==
  /\ cpc = "check"
  /\ IF spc = "running"
       THEN cpc' = "loop" /\ UNCHANGED sock
       ELSE cpc' = "off" /\ sock' = 0
  /\ UNCHANGED <<kind, ring, batch, hand, sent, ppc, spc, accepted, ran>>

Consumer ==
  ReadEvent \/ SerPop \/ PopBatch \/ PopRing \/ PopEmpty \/ RunMsg \/ CheckStop

---------------------------------------------------------------------------
(* NetSocketPair::Stop: set _bStop, then write a byte. *)

SetStop ==
  /\ spc = "running"
  /\ spc' = "write"
  /\ UNCHANGED <<kind, ring, batch, hand, sock, sent, ppc, cpc, accepted, ran>>

\* Stop only sets the flag.
StopWrite_NoByte ==
  /\ spc = "write"
  /\ spc' = "stopped"
  /\ UNCHANGED <<kind, ring, batch, hand, sock, sent, ppc, cpc, accepted, ran>>

StopWrite ==
  /\ spc = "write"
  /\ WriteByte
  /\ spc' = "stopped"
  /\ UNCHANGED <<kind, ring, batch, hand, sent, ppc, cpc, accepted, ran>>

Stopper == SetStop \/ StopWrite

---------------------------------------------------------------------------
Next ==
  \/ \E p \in Producers : Producer(p)
  \/ Consumer
  \/ Stopper

SafeSpec == Init /\ [][Next]_vars

\* The operating system runs every thread; nobody has to call Push again or
\* to call Stop.
Fairness ==
  /\ \A p \in Producers :
       WF_vars(PushStored(p) \/ PushFull(p) \/ Retry(p) \/ WakeConsumer(p))
  /\ WF_vars(Consumer)
  /\ WF_vars(StopWrite)

Spec == SafeSpec /\ Fairness

---------------------------------------------------------------------------
(* Properties *)

TypeOK ==
  /\ kind \in KINDS
  /\ ring \in Seq(Message)
  /\ batch \in Seq(Message)
  /\ hand \in Seq(Message)
  /\ sock \in 0 .. SockCap
  /\ sent \in [Producers -> 0 .. MaxSend]
  /\ ppc \in [Producers -> {"idle", "push", "sleep", "write"}]
  /\ cpc \in {"loop", "serpop", "pop", "run", "check", "off"}
  /\ spc \in {"running", "write", "stopped"}
  /\ accepted \in Seq(Message)
  /\ ran \in Seq(Message)

\* No wake-up is lost: while messages wait in the ring, a byte is in the
\* socket, or a producer is about to write one, or the consumer has yet to
\* look at the ring in the event it is handling.  This is what lets Push
\* skip the byte when it finds the ring not empty (its result 2).
NoLostWakeup ==
  ring # <<>> =>
    \/ sock > 0
    \/ \E p \in Producers : ppc[p] = "write"
    \/ cpc = "serpop"
    \/ kind = "MUL_MUL" /\ cpc \in {"pop", "run"}
    \/ cpc \in {"check", "off"} /\ spc # "running"

\* CirQueueMul::SerPop swaps the arrays whatever the other one holds: the
\* consumer must have emptied it, or the rest of a batch would be swapped
\* back under a count of zero and never run.
BatchDrained ==
  /\ cpc \in {"loop", "serpop", "check", "off"} => batch = <<>>
  /\ kind = "MUL_MUL" => batch = <<>>

\* Nothing is lost, duplicated or reordered on the way: what has been run,
\* then what the consumer holds, its batch and the ring are together the
\* messages accepted, in their order.
InOrder == accepted = ran \o hand \o batch \o ring

\* The abstract channel.
Channel == INSTANCE MsgChannel WITH open <- cpc # "off"

ChannelSafety == Channel!Safety

\* Every message accepted is run unless the queue is stopped.
ChannelSpec == Channel!Spec

\* Stop is honoured: once _bStop is set the consumer releases its end, even
\* when the stop's own byte did not fit in the socket.
StopHonoured == (spc # "running") ~> (cpc = "off")
=============================================================================
