------------------------------ MODULE RingBuf ------------------------------
(***************************************************************************)
(* A ring_buf (text/ring_buf.h) in memory two processes share, as          *)
(* ProgMqBase sets it up (is_ring FALSE): one process writes, the other    *)
(* runs for_each once a millisecond.  There is no lock; _head, _tail and   *)
(* _count are volatile, so each access is a step of its own, and ++_count  *)
(* and --_count are a load and a store.  The content is kept byte by byte, *)
(* a byte being <<id, size, i>>: byte i of message id, which begins with   *)
(* the LEN_SIZE bytes of its size.  A torn or overwritten message shows.   *)
(* A process may die between any two steps; it comes back with InitLoad,   *)
(* which takes the ring as it is.                                          *)
(***************************************************************************)
EXTENDS Integers, Sequences

CONSTANTS
  Max,        \* _max_size
  LEN_SIZE,   \* the bytes of a length
  Sizes,      \* the lengths of the messages written
  Times,      \* how many messages one for_each may run, 100 in MainLoop
  MaxWrites,  \* bound: messages accepted
  MaxDeaths   \* bound: deaths of a process

ASSUME RingAssumption ==
  /\ LEN_SIZE \in Nat \ {0} /\ Max \in Nat /\ LEN_SIZE <= Max
  /\ Sizes \subseteq Nat
  /\ Times \in Nat \ {0} /\ MaxWrites \in Nat \ {0} /\ MaxDeaths \in Nat

VARIABLES
  head, tail, count, content,   \* the shared memory
  wpc, wmsg, wcount,            \* the writer: its place in write, the message it has copied, and
                                \* the count it loaded
  rpc, rhead, rmsg, rtodo, rcount, result,
                                \* the reader: its place in for_each, its head, the message it is
                                \* at, how many it may still run, the count it loaded, and what
                                \* the last for_each returned
  accepted,                     \* history: every message whose tail was published
  ran,                          \* history: the ids of the messages the reader has put behind its head
  clashed,                      \* history: an update of _count was lost
  deaths                        \* history: deaths of a process

shared == <<head, tail, count, content>>
writer == <<wpc, wmsg, wcount>>
reader == <<rpc, rhead, rmsg, rtodo, rcount, result>>
history == <<accepted, ran, clashed, deaths>>
vars == <<shared, writer, reader, history>>

\* The bytes there are: the marker may lie behind the end of the ring.
Places == 0 .. Max + LEN_SIZE - 1

Marker == 0                     \* the id of MAX_VALID in the place of a length
Fresh == <<0, 0, LEN_SIZE>>     \* no byte of any message

NoMsg == [at |-> 0, size |-> 0]
End(m) == m.at + LEN_SIZE + m.size

Size(h, t) == (t - h + Max) % Max
Unused(h, t) == Max - Size(h, t) - 1

Init ==
  /\ head = 0 /\ tail = 0 /\ count = 0
  /\ content = [p \in Places |-> Fresh]
  /\ wpc = "idle" /\ wmsg = NoMsg /\ wcount = 0
  /\ rpc = "idle" /\ rhead = 0 /\ rmsg = NoMsg /\ rtodo = 0 /\ rcount = 0 /\ result = 1
  /\ accepted = <<>> /\ ran = <<>> /\ clashed = FALSE /\ deaths = 0

(***************************************************************************)
(* The writer                                                              *)
(***************************************************************************)
Wraps(t, total) == t + total > Max

\* The test that the front of the ring has room.
MayWrap_Tight(h, t, total) == h > total + LEN_SIZE + 1 /\ h <= t
MayWrap_Behind(h, t, total) == h > total + 1
MayWrap(h, t, total) == h > total + 1 /\ h <= t

\* _write_chunk finds room for len bytes.
Room_Full(h, t, len) == len <= Unused(h, t) + 1
Room(h, t, len) == len <= Unused(h, t)

Start_Never(t, total) == t
Start(t, total) == IF Wraps(t, total) THEN 0 ELSE t

MayStart(h, t, total) == Wraps(t, total) => MayWrap(h, t, total)
Accepts(h, t, total) == MayStart(h, t, total) /\ Room(h, Start(t, total), total)

\* The content c with the first len bytes of message id, of that size, at p.
Put(c, id, size, p, len) ==
  [q \in Places |-> IF q \in p .. p + len - 1 THEN <<id, size, q - p>> ELSE c[q]]

Marked(c, t, total) == IF Wraps(t, total) THEN Put(c, Marker, 0, t, LEN_SIZE) ELSE c

\* What write has put into the ring when len bytes of the message have room.
Copied(s, len) ==
  LET total == LEN_SIZE + s
  IN  Put(Marked(content, tail, total), Len(accepted) + 1, s, Start(tail, total), len)

\* write up to _tail = tail: none of what it copies is visible yet.
WriteCopy(s) ==
  LET total == LEN_SIZE + s
  IN  /\ wpc = "idle" /\ Len(accepted) < MaxWrites
      /\ Accepts(head, tail, total)
      /\ content' = Copied(s, total)
      /\ wmsg' = [at |-> Start(tail, total), size |-> s]
      /\ wpc' = "publish"
      /\ UNCHANGED <<head, tail, count, wcount, reader, history>>

\* write returns 0: its length may be in the ring, behind the tail.
WriteFail(s) ==
  LET total == LEN_SIZE + s
  IN  /\ wpc = "idle" /\ Len(accepted) < MaxWrites
      /\ ~Accepts(head, tail, total)
      /\ MayStart(head, tail, total) /\ Room(head, Start(tail, total), LEN_SIZE)
      /\ content' = Copied(s, LEN_SIZE)
      /\ UNCHANGED <<head, tail, count, writer, reader, history>>

\* _tail = tail
WritePublish ==
  /\ wpc = "publish"
  /\ tail' = End(wmsg)
  /\ accepted' = Append(accepted, wmsg)
  /\ wpc' = "load" /\ wmsg' = NoMsg
  /\ UNCHANGED <<head, count, content, wcount, reader, ran, clashed, deaths>>

\* ++_count
WriteLoad ==
  /\ wpc = "load"
  /\ wcount' = count
  /\ wpc' = "store"
  /\ UNCHANGED <<shared, wmsg, reader, history>>

WriteStore ==
  /\ wpc = "store"
  /\ count' = wcount + 1
  /\ clashed' = (clashed \/ count # wcount)
  /\ wpc' = "idle" /\ wcount' = 0
  /\ UNCHANGED <<head, tail, content, wmsg, reader, accepted, ran, deaths>>

(***************************************************************************)
(* The reader                                                              *)
(***************************************************************************)
Return(code) ==
  /\ result' = code
  /\ rpc' = "idle" /\ rhead' = 0 /\ rmsg' = NoMsg /\ rtodo' = 0 /\ rcount' = 0

\* for_each up to its loop
ReadBegin ==
  /\ rpc = "idle"
  /\ IF count = 0
     THEN Return(2)
     ELSE /\ rpc' = "loop" /\ rhead' = head
          /\ rtodo' = IF count < Times THEN count ELSE Times
          /\ UNCHANGED <<rmsg, rcount, result>>
  /\ UNCHANGED <<shared, writer, history>>

\* The LEN_SIZE bytes at p are those of one length; Marker's is the MAX_VALID.
IsLength(p) ==
  \A i \in 0 .. LEN_SIZE - 1 : content[p + i] = <<content[p][1], content[p][2], i>>

\* The rest of the ring is too short for a length, or has the marker in its place.
RestUnused_Short(h) == h + LEN_SIZE > Max
RestUnused(h) == h + LEN_SIZE > Max \/ (IsLength(h) /\ content[h][1] = Marker)

\* _read_chunk_head succeeds with the length at LengthAt.
LengthAt(h) == IF RestUnused(h) THEN 0 ELSE h

HasLength(h, t) ==
  /\ h + LEN_SIZE <= Max => LEN_SIZE <= Size(h, t)
  /\ RestUnused(h) => t >= LEN_SIZE /\ h >= t
  /\ LEN_SIZE <= Size(LengthAt(h), t)

\* The message there, whatever it is, is complete below the tail.
HasMessage(h, t) ==
  LET p == LengthAt(h)
  IN  HasLength(h, t) /\ IsLength(p) /\ content[p][2] <= Size(p + LEN_SIZE, t)

\* There is nothing between the head and the tail.
Drained_Wrapped(h, t) == t <= h
Drained(h, t) == t = h

\* One turn of the loop, which reads the tail anew, up to the call of func.
ReadNext ==
  /\ rpc = "loop"
  /\ CASE rtodo = 0 -> Return(1)
       [] rtodo > 0 /\ Drained(rhead, tail) -> Return(3)
       [] rtodo > 0 /\ ~Drained(rhead, tail) /\ ~HasMessage(rhead, tail) -> Return(0)
       [] OTHER ->
            /\ rmsg' = [at |-> LengthAt(rhead), size |-> content[LengthAt(rhead)][2]]
            /\ rpc' = "call"
            /\ UNCHANGED <<rhead, rtodo, rcount, result>>
  /\ UNCHANGED <<shared, writer, history>>

\* func returns true, or false: then for_each leaves with the message still at the head.
ReadCall ==
  /\ rpc = "call"
  /\ rpc' = "advance"
  /\ UNCHANGED <<shared, writer, rhead, rmsg, rtodo, rcount, result, history>>

ReadRefuse_Counts ==
  /\ rpc = "call"
  /\ Return(4)
  /\ count' = count - 1
  /\ UNCHANGED <<head, tail, content, writer, history>>

ReadRefuse ==
  /\ rpc = "call"
  /\ Return(4)
  /\ UNCHANGED <<shared, writer, history>>

\* _head = head
ReadAdvance ==
  /\ rpc = "advance"
  /\ rhead' = End(rmsg) /\ head' = End(rmsg)
  /\ ran' = Append(ran, content[rmsg.at][1])
  /\ rpc' = "load" /\ rmsg' = NoMsg
  /\ UNCHANGED <<tail, count, content, writer, rtodo, rcount, result, accepted, clashed, deaths>>

\* --_count
ReadLoad ==
  /\ rpc = "load"
  /\ rcount' = count
  /\ rpc' = "store"
  /\ UNCHANGED <<shared, writer, rhead, rmsg, rtodo, result, history>>

ReadStore ==
  /\ rpc = "store"
  /\ count' = rcount - 1
  /\ clashed' = (clashed \/ count # rcount)
  /\ rtodo' = rtodo - 1 /\ rcount' = 0
  /\ rpc' = "loop"
  /\ UNCHANGED <<head, tail, content, writer, rhead, rmsg, result, accepted, ran, deaths>>

(***************************************************************************)
(* Deaths                                                                  *)
(***************************************************************************)
WriterDies ==
  /\ wpc # "idle" /\ deaths < MaxDeaths
  /\ deaths' = deaths + 1
  /\ wpc' = "idle" /\ wmsg' = NoMsg /\ wcount' = 0
  /\ UNCHANGED <<shared, reader, accepted, ran, clashed>>

ReaderDies ==
  /\ rpc # "idle" /\ deaths < MaxDeaths
  /\ deaths' = deaths + 1
  /\ Return(result)
  /\ UNCHANGED <<shared, writer, accepted, ran, clashed>>

Write == WritePublish \/ WriteLoad \/ WriteStore
Read == ReadBegin \/ ReadNext \/ ReadCall \/ ReadAdvance \/ ReadLoad \/ ReadStore

Next ==
  \/ \E s \in Sizes : WriteCopy(s) \/ WriteFail(s)
  \/ Write \/ Read \/ ReadRefuse
  \/ WriterDies \/ ReaderDies

\* for_each is called again and again, and func does not refuse a message for ever.
Fairness == WF_vars(Write) /\ WF_vars(Read) /\ SF_vars(ReadCall)

Spec == Init /\ [][Next]_vars /\ Fairness

(***************************************************************************)
(* Properties                                                              *)
(***************************************************************************)
Messages == [at : Places, size : Sizes]

TypeOK ==
  /\ head \in 0 .. Max /\ tail \in 0 .. Max /\ count \in Nat
  /\ content \in [Places -> (0 .. MaxWrites) \X (Sizes \cup {0}) \X (0 .. Max + LEN_SIZE)]
  /\ wpc \in {"idle", "publish", "load", "store"}
  /\ wmsg \in Messages \cup {NoMsg} /\ wcount \in Nat
  /\ rpc \in {"idle", "loop", "call", "advance", "load", "store"}
  /\ rhead \in 0 .. Max /\ rmsg \in Messages \cup {NoMsg}
  /\ rtodo \in Nat /\ rcount \in Nat /\ result \in 0 .. 4
  /\ accepted \in Seq(Messages) /\ ran \in Seq(0 .. MaxWrites)
  /\ clashed \in BOOLEAN /\ deaths \in 0 .. MaxDeaths

\* Message i is in the ring as write put it there.
Intact(i) ==
  LET m == accepted[i]
  IN  \A b \in 0 .. LEN_SIZE + m.size - 1 : content[m.at + b] = <<i, m.size, b>>

\* Whatever write does, also when it fails or its process dies, every message that was accepted
\* and not yet put behind the head is in the ring with all its bytes: the writer never reaches
\* the part the reader has not left.
UnreadIntact == \A i \in Len(ran) + 1 .. Len(accepted) : Intact(i)

\* func is called with the oldest message it has not accepted, from its first byte to its
\* last: none is skipped by a jump to the front, none run twice but after a refusal or a
\* death, and the length is never taken from other bytes.  Nor is the ring ever found damaged
\* (for_each returns 0).
CallsNext ==
  /\ result # 0
  /\ rpc \in {"call", "advance"} => Len(ran) < Len(accepted) /\ rmsg = accepted[Len(ran) + 1]

\* for_each takes a ring for empty (a head equal to the tail) exactly when it is: a full ring
\* never looks like an empty one.
EmptyIsEmpty == (Size(head, tail) = 0) <=> (Len(ran) = Len(accepted))

\* _count is the number of messages in the ring but for the update each side is at, as long
\* as no two updates met and no process died.
Counted(n) ==
  count = n + (IF rpc \in {"load", "store"} THEN 1 ELSE 0) - (IF wpc \in {"load", "store"} THEN 1 ELSE 0)
CountExact == ~clashed /\ deaths = 0 => Counted(Len(accepted) - Len(ran))

\* A message that would fit into the ring twice and one byte more is not refused by an empty
\* one, wherever its head and tail have come to lie.
EmptyAccepts ==
  head = tail => \A s \in Sizes : 2 * (LEN_SIZE + s) < Max => Accepts(head, tail, LEN_SIZE + s)

\* A message that was accepted is run, unless _count has lost it.
EachIsRead ==
  \A i \in 1 .. MaxWrites :
    (Len(accepted) >= i) ~> (Len(ran) >= i \/ ((clashed \/ deaths > 0) /\ count = 0))

\* The ring is a channel between the processes: what was accepted comes out once, in order.
Channel == INSTANCE MsgChannel WITH
  Message <- 1 .. MaxWrites, accepted <- [i \in 1 .. Len(accepted) |-> i], ran <- ran, open <- TRUE
ImplementsChannel == Channel!Safety
=============================================================================
