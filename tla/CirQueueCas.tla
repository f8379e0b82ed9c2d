---------------------------- MODULE CirQueueCas ----------------------------
(***************************************************************************)
(* CirQueueCas (net/base/CirQueueCas.cpp), the ring a MsgQueue uses by     *)
(* default (NetSetting.cir = ONE_ONE): one thread pushes, one thread pops, *)
(* there is no lock.                                                       *)
(*                                                                         *)
(* _head belongs to the consumer and _tail to the producer; _cur_count is  *)
(* read and written by both.  It is a volatile int32_t, so                 *)
(* "_cur_count = _cur_count + 1" is a load and a later store: each is a    *)
(* step of its own here, and so is each access to a slot.  Only the steps  *)
(* of one thread are in program order.                                     *)
(*                                                                         *)
(* The wake-up is that of MsgQueue.cpp: Push writes a byte when it reads   *)
(* back a count of 1, and the consumer pops until Pop returns nullptr.     *)
(***************************************************************************)
EXTENDS Naturals, Sequences

CONSTANTS
  MaxCount,   \* _max_count
  MaxPush,    \* bound: the elements the producer hands to Push
  NULL        \* an empty slot

VARIABLES
  elems,      \* the slots of _elems
  head, tail, \* _head and _tail
  count,      \* _cur_count
  ppc, pload, \* the producer: where it is, and the count it has loaded
  cpc, cload, \* the consumer: the same
  elem,       \* the element the consumer has read from its slot
  wake,       \* a byte is in the socket pair
  next,       \* the next element to push; elements are 1, 2, 3, ...
  popped      \* history: the elements Pop has returned

vars == <<elems, head, tail, count, ppc, pload, cpc, cload, elem, wake, next, popped>>

Slots == 0 .. MaxCount - 1

\* _tail + 1 and _head + 1, back to 0 at _max_count.
Advance(i) == IF i + 1 >= MaxCount THEN 0 ELSE i + 1

Init ==
  /\ elems = [i \in Slots |-> NULL]
  /\ head = 0 /\ tail = 0 /\ count = 0
  /\ ppc = "check" /\ pload = 0
  /\ cpc = "wait" /\ cload = 0
  /\ elem = NULL
  /\ wake = FALSE
  /\ next = 1
  /\ popped = <<>>

---------------------------------------------------------------------------
(* Push.  When the ring is full it returns -1 and MsgQueue::Push calls it  *)
(* again, so the test is simply taken again.                               *)

PushCheck ==
  /\ ppc = "check"
  /\ next <= MaxPush
  /\ count < MaxCount
  /\ ppc' = "store"
  /\ UNCHANGED <<elems, head, tail, count, pload, cpc, cload, elem, wake, next, popped>>

PushStore ==
  /\ ppc = "store"
  /\ elems' = [elems EXCEPT ![tail] = next]
  /\ tail' = Advance(tail)
  /\ next' = next + 1
  /\ ppc' = "load"
  /\ UNCHANGED <<head, count, pload, cpc, cload, elem, wake, popped>>

PushLoad ==
  /\ ppc = "load"
  /\ pload' = count
  /\ ppc' = "add"
  /\ UNCHANGED <<elems, head, tail, count, cpc, cload, elem, wake, next, popped>>

PushAdd ==
  /\ ppc = "add"
  /\ count' = pload + 1
  /\ ppc' = "test"
  /\ UNCHANGED <<elems, head, tail, pload, cpc, cload, elem, wake, next, popped>>

\* "if (_cur_count == 1)" reads the count again.
PushTest ==
  /\ ppc = "test"
  /\ wake' = (wake \/ count = 1)
  /\ ppc' = "check"
  /\ UNCHANGED <<elems, head, tail, count, pload, cpc, cload, elem, next, popped>>

Push == PushCheck \/ PushStore \/ PushLoad \/ PushAdd \/ PushTest

---------------------------------------------------------------------------
(* Pop, called until it returns nullptr: when it finds a count of zero or  *)
(* a null slot.                                                            *)

ReadEvent ==
  /\ cpc = "wait"
  /\ wake
  /\ wake' = FALSE
  /\ cpc' = "check"
  /\ UNCHANGED <<elems, head, tail, count, ppc, pload, cload, elem, next, popped>>

PopCheck ==
  /\ cpc = "check"
  /\ cpc' = IF count > 0 THEN "read" ELSE "wait"
  /\ UNCHANGED <<elems, head, tail, count, ppc, pload, cload, elem, wake, next, popped>>

PopRead ==
  /\ cpc = "read"
  /\ elem' = elems[head]
  /\ IF elems[head] = NULL
       THEN cpc' = "wait" /\ UNCHANGED <<elems, head>>
       ELSE /\ cpc' = "test"
            /\ elems' = [elems EXCEPT ![head] = NULL]
            /\ head' = Advance(head)
  /\ UNCHANGED <<tail, count, ppc, pload, cload, wake, next, popped>>

\* "if (_cur_count > 0)" and its two branches.
PopTest ==
  /\ cpc = "test"
  /\ cpc' = IF count > 0 THEN "load" ELSE "clear"
  /\ UNCHANGED <<elems, head, tail, count, ppc, pload, cload, elem, wake, next, popped>>

PopLoad ==
  /\ cpc = "load"
  /\ cload' = count
  /\ cpc' = "sub"
  /\ UNCHANGED <<elems, head, tail, count, ppc, pload, elem, wake, next, popped>>

PopSub ==
  /\ cpc \in {"sub", "clear"}
  /\ count' = IF cpc = "sub" THEN cload - 1 ELSE 0
  /\ popped' = Append(popped, elem)
  /\ cpc' = "check"
  /\ UNCHANGED <<elems, head, tail, ppc, pload, cload, elem, wake, next>>

Pop == ReadEvent \/ PopCheck \/ PopRead \/ PopTest \/ PopLoad \/ PopSub

---------------------------------------------------------------------------
Next == Push \/ Pop

\* Both threads run; nobody has to push again.
Spec ==
  /\ Init /\ [][Next]_vars
  /\ WF_vars(PushStore \/ PushLoad \/ PushAdd \/ PushTest)
  /\ WF_vars(Pop)

\* "One in, one out, lock-free" (CirQueueCas.h): with one thread on each
\* side, an element put into the queue comes out of it.
Delivered ==
  \A e \in 1 .. MaxPush :
    (next > e) ~> (\E i \in 1 .. Len(popped) : popped[i] = e)
=============================================================================
