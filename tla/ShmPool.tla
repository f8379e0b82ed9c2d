------------------------------ MODULE ShmPool ------------------------------
(***************************************************************************)
(* A pool of objects of one type in shared memory (shm/shm_mgr.cpp).  It   *)
(* grows by nodes, segments of a fixed number of items each, and gives     *)
(* them back when all their items are free.  An object is named by its     *)
(* mid: the node, the place in it, and the serial number of the            *)
(* allocation, which is to tell it from objects that had the place before. *)
(*                                                                         *)
(* The segments outlive the process: one that dies is followed by another, *)
(* which resumes with all the objects or starts afresh.                    *)
(*                                                                         *)
(* Sizes of segments are counted in items.  The number of free items of a  *)
(* node, free_item_num, is the length of its free list.                    *)
(***************************************************************************)
EXTENDS Integers, Sequences, FiniteSets, SequencesExt, FiniteSetsExt

CONSTANTS
  NodeCount,  \* POOL_NODE_COUNT
  Base,       \* item_base_num
  Growth,     \* growth_type: "EXP", "LINEAR" or "DEFAULT"
  Total,      \* item_total_num, -1 for no limit
  SerialMax,  \* UNIT_SERIAL_MASK
  HeadSize,   \* sizeof(SHM_STRUCT_HEAD)
  FirstItem,  \* the offset of lst_struct in it, where the items begin
  ItemSize    \* item_real_data_size

\* A pool without items is not used: each operation refuses item_base_num <= 0.
ASSUME PoolAssumption ==
  /\ NodeCount \in Nat \ {0} /\ Base \in Nat \ {0} /\ SerialMax \in Nat \ {0}
  /\ Growth \in {"EXP", "LINEAR", "DEFAULT"} /\ Total \in Int

VARIABLES
  pool,       \* the SHM_STRUCT_POOL and its nodes
  torn,       \* the nodes of which an munmap has cut memory off
  owned       \* history: the mids given by alloc_x and not freed

vars == <<pool, torn, owned>>

Nodes == 0 .. NodeCount - 1

\* The power of 2 that 1 << k is.
Shifted[k \in 0 .. NodeCount] == IF k = 0 THEN 1 ELSE 2 * Shifted[k - 1]

\* get_growth_mem_size.
NodeSize(k) ==
  CASE Growth = "EXP"     -> Base * Shifted[k]
    [] Growth = "LINEAR"  -> Base * (k + 1)
    [] Growth = "DEFAULT" -> Base

\* What the system decides in an operation: whether a segment can be created, and
\* where the serial numbers of a new node begin (the time).
Envs == [creates : BOOLEAN, serial : 0 .. SerialMax]

Unmapped == [items |-> <<>>, free |-> <<>>, serial |-> 0]
NewNode(k, serial) ==
  [items  |-> [i \in 1 .. NodeSize(k) |-> 0],   \* the item_serial of each item
   free   |-> [i \in 1 .. NodeSize(k) |-> i],   \* from head_item_offset on
   serial |-> serial]                           \* the serial given last

Valid(p, k)     == p.node[k].items # <<>>
Size(p, k)      == Len(p.node[k].items)
FreeItems(p, k) == Len(p.node[k].free)
FullyFree(p, k) == FreeItems(p, k) = Size(p, k)
HalfFree(p, k)  == FreeItems(p, k) * 2 >= Size(p, k)

\* The pool before its first node is mapped.
Empty == [node |-> [k \in Nodes |-> Unmapped], cur |-> 0, dirty |-> FALSE,
          mapped |-> 0, free |-> 0, real |-> 0]

---------------------------------------------------------------------------
(* The growth of the pool.  Operators named X_Y are mutants of X, which no  *)
(* action uses: the properties at the end must be able to tell them apart.  *)

Done(p)   == [ok |-> TRUE, pool |-> p]
Failed(p) == [ok |-> FALSE, pool |-> p]

Mapped(p, k, env) ==
  [p EXCEPT !.node[k] = NewNode(k, env.serial), !.cur = k, !.dirty = FALSE,
            !.mapped = @ + NodeSize(k), !.free = @ + NodeSize(k), !.real = NodeSize(k)]

\* The first node from k on that is not full becomes the current one; it is
\* mapped if it is not.  pool_real_mem_size is written even when nothing is
\* mapped.
_shm_try_to_map_node(p, k, env) ==
  LET stop == Min({j \in k .. NodeCount : j = NodeCount \/ p.node[j].free # <<>> \/ ~Valid(p, j)})
  IN CASE k >= NodeCount                        -> Failed(p)
       [] k < NodeCount /\ stop = NodeCount     -> Failed([p EXCEPT !.real = NodeSize(stop)])
       [] stop < NodeCount /\ Valid(p, stop)    -> Done([p EXCEPT !.cur = stop])
       [] stop < NodeCount /\ ~Valid(p, stop)   ->
            IF env.creates THEN Done(Mapped(p, stop, env))
                           ELSE Failed([p EXCEPT !.real = NodeSize(stop)])

\* A current node that is more than half used gives way to a lower one that is
\* not.
_shm_try_to_move_backward_node(p) ==
  LET lower == {i \in 0 .. p.cur - 1 : Valid(p, i) /\ HalfFree(p, i)}
  IN IF lower # {} /\ ~HalfFree(p, p.cur) THEN [p EXCEPT !.cur = Max(lower)] ELSE p

\* The node's items are not taken off item_free_num.
Release_KeepsFreeNum(p, n) ==
  [p EXCEPT !.node[n] = Unmapped, !.mapped = @ - Size(p, n)]

Release(p, n) ==
  [p EXCEPT !.node[n] = Unmapped, !.mapped = @ - Size(p, n), !.free = @ - FreeItems(p, n)]

\* The current node is left to be current.
NewCurrent_None(p, n, env) == p

\* The node before the current one, or another below, takes its place; if there
\* is none the first is mapped again.
NewCurrent(p, n, env) ==
  LET below == {i \in 0 .. n - 1 : Valid(p, i)}
      again == _shm_try_to_map_node(p, 0, env)
  IN IF below # {} THEN [p EXCEPT !.cur = Max(below)]
     ELSE IF again.ok THEN again.pool ELSE [again.pool EXCEPT !.cur = -1]

_shm_try_to_unmap_node(p, n, env) ==
  LET q == _shm_try_to_move_backward_node(p)
  IN IF ~FullyFree(q, n) \/ (n = 0 /\ q.cur = 0) THEN q
     ELSE IF n # q.cur THEN Release(q, n)
     ELSE IF ~Valid(q, n - 1) \/ HalfFree(q, n - 1) THEN NewCurrent(Release(q, n), n, env)
     ELSE q

\* Each segment that was unmapped was so with the size that was computed last
\* for any: one that is smaller may take memory of others, behind it, along.
TornAfter(before, after) ==
  LET released == {k \in Nodes : Valid(before, k) /\ ~Valid(after, k)}
      intact   == {k \in Nodes : Valid(before, k) /\ Valid(after, k)}
      behind   == IF \E k \in released : before.real > Size(before, k) THEN SUBSET intact ELSE {{}}
  IN {(torn \ released) \cup hit : hit \in behind}

---------------------------------------------------------------------------
(* The operations *)

Used(p) == p.mapped - p.free

\* What alloc_x does before it takes an item: the pool it takes it from, or
\* that it fails.
Ready(p, env) ==
  LET first == IF p.cur = -1 THEN _shm_try_to_map_node(p, 0, env) ELSE Done(p)
      q     == first.pool
  IN IF ~first.ok \/ ~Valid(q, q.cur) \/ (Total >= 0 /\ Used(q) >= Total) THEN Failed(q)
     ELSE IF q.node[q.cur].free = <<>> THEN _shm_try_to_map_node(q, q.cur + 1, env)
     ELSE Done(q)

\* The bits above the mask are not cleared.
NextSerial_NoMask(serial) == serial + 1

\* Serial 0 is for free items.
NextSerial(serial) == IF serial < SerialMax THEN serial + 1 ELSE 1

Take(p) ==
  LET k      == p.cur
      n      == p.node[k]
      serial == NextSerial(n.serial)
      item   == Head(n.free)
      given  == [items  |-> [n.items EXCEPT ![item] = serial],
                 free   |-> Tail(n.free),
                 serial |-> serial]
  IN [pool |-> [p EXCEPT !.node[k] = given, !.free = @ - 1],
      mid  |-> [node |-> k, item |-> item, serial |-> serial]]

alloc_x(env) ==
  LET ready == Ready(pool, env)
  IN /\ \A k \in torn : k < pool.cur
     /\ IF ready.ok
          THEN /\ pool' = Take(ready.pool).pool
               /\ owned' = owned \cup {Take(ready.pool).mid}
          ELSE pool' = ready.pool /\ UNCHANGED owned
     /\ UNCHANGED torn

Mids == {m \in [node : Nodes, item : 1 .. NodeSize(NodeCount - 1), serial : 1 .. SerialMax] :
           m.item <= NodeSize(m.node)}

\* The serial of a mid is that of its item: all free_x asks for, and the last
\* thing mid2ptr does.
SerialMatches(mid) ==
  Valid(pool, mid.node) /\ pool.node[mid.node].items[mid.item] = mid.serial

\* The item keeps its serial.
Freed_KeepsSerial(p, mid) ==
  [p EXCEPT !.node[mid.node].free = <<mid.item>> \o @, !.free = @ + 1]

Freed(p, mid) ==
  LET n     == p.node[mid.node]
      given == [items  |-> [n.items EXCEPT ![mid.item] = 0],
                free   |-> <<mid.item>> \o n.free,
                serial |-> n.serial]
  IN [p EXCEPT !.node[mid.node] = given, !.free = @ + 1]

\* Any mid may be passed, one that was freed long ago too: it is refused unless
\* its serial is that of the item.
free_x(mid, env) ==
  LET p     == Freed(pool, mid)
      dirty == p.dirty \/ FullyFree(p, mid.node)
      q     == [p EXCEPT !.dirty = dirty]
  IN /\ mid.node \notin torn
     /\ dirty => torn = {}
     /\ SerialMatches(mid)
     /\ pool' = IF dirty THEN _shm_try_to_unmap_node(q, mid.node, env) ELSE q
     /\ torn' \in TornAfter(pool, pool')
     /\ owned' = owned \ {mid}

\* The loop over the nodes comes to node j.
Visit(p, j, env) == IF j <= p.cur /\ Valid(p, j) THEN _shm_try_to_unmap_node(p, j, env) ELSE p

\* The pool when the loop has been at the nodes below j, for each j.
Swept(env) ==
  LET swept[j \in 0 .. NodeCount] ==
        IF j = 0 THEN pool ELSE Visit(swept[j - 1], j - 1, env)
  IN  swept

main_loop(env) ==
  /\ torn = {}
  /\ pool.dirty
  /\ pool' = [Swept(env)[NodeCount] EXCEPT !.dirty = FALSE]
  /\ torn' \in TornAfter(pool, pool')
  /\ UNCHANGED owned

\* The process dies, at the latest when it touches memory that is gone, and
\* the next one maps every node again (shm_init_resume).
Resume ==
  /\ torn' = {}
  /\ UNCHANGED <<pool, owned>>

\* The next process starts afresh: it was asked to (shm_init_start), or there
\* were too many resumes of late.
Start(env) ==
  /\ env.creates
  /\ pool' = _shm_try_to_map_node(Empty, 0, env).pool
  /\ torn' = {}
  /\ owned' = {}

---------------------------------------------------------------------------
(* Reading *)

Offset(item) == FirstItem + ItemSize * (item - 1)

ALIGN8(x) == ((x + 7) \div 8) * 8

\* Whether mid2ptr returns the object.
mid2ptr(mid) ==
  LET offset == Offset(mid.item)
  IN /\ SerialMatches(mid)
     /\ offset >= HeadSize
     /\ offset < ALIGN8(HeadSize + ItemSize * Size(pool, mid.node))
     /\ (offset - HeadSize) % ItemSize = 0

\* The sum of f over the nodes below k, for each k.
SumBelow(f) ==
  LET sum[k \in 0 .. NodeCount] == IF k = 0 THEN 0 ELSE sum[k - 1] + f[k - 1]
  IN  sum

Sizes(p) == [k \in Nodes |-> Size(p, k)]
Frees(p) == [k \in Nodes |-> FreeItems(p, k)]

\* A node that is not mapped is not passed over.
ItemsBelow_All(k) == SumBelow([j \in Nodes |-> NodeSize(j)])[k]

ItemsBelow(k) == SumBelow(Sizes(pool))[k]

\* The mid of the object at a place in all the nodes together, as a set of one;
\* none if the item there is free.
idx2mid(idx) ==
  {m \in Mids : SerialMatches(m) /\ ItemsBelow(m.node) + m.item - 1 = idx}

---------------------------------------------------------------------------
Init ==
  /\ \E env \in Envs : env.creates /\ pool = _shm_try_to_map_node(Empty, 0, env).pool
  /\ torn = {}
  /\ owned = {}

Next ==
  \/ \E env \in Envs :
       \/ alloc_x(env)
       \/ \E mid \in Mids : free_x(mid, env)
       \/ main_loop(env)
       \/ Start(env)
  \/ Resume

Spec == Init /\ [][Next]_vars

---------------------------------------------------------------------------
(* Properties *)

TypeOK ==
  /\ pool.cur \in Nodes \cup {-1}
  /\ pool.dirty \in BOOLEAN
  /\ pool.mapped \in Nat /\ pool.free \in Nat /\ pool.real \in Nat
  /\ \A k \in Nodes : LET n == pool.node[k] IN
       /\ Len(n.items) \in {0, NodeSize(k)}
       /\ \A i \in 1 .. Len(n.items) : n.items[i] \in 0 .. SerialMax
       /\ ToSet(n.free) \subseteq 1 .. Len(n.items)
       /\ n.serial \in 0 .. SerialMax
  /\ torn \subseteq Nodes
  /\ owned \subseteq Mids

\* The serial of a mid is that of its item as long as the object it was given
\* for is not freed, and not after: no object is given twice, none is lost with
\* its node, and no stale mid is taken for a live one (by free_x or mid2ptr),
\* unless the serials have come round and it was given again.
MidsNameObjects == \A mid \in Mids : SerialMatches(mid) <=> mid \in owned

\* Through every way a node comes and goes the node to allocate from is there (-1 stands only
\* for a pool that has to map its first node again), the counters agree with the nodes, and
\* the free list of a node holds each of its free items once.
PoolSound ==
  /\ pool.cur = -1 \/ Valid(pool, pool.cur)
  /\ pool.mapped = SumBelow(Sizes(pool))[NodeCount]
  /\ pool.free = SumBelow(Frees(pool))[NodeCount]
  /\ \A k \in Nodes : LET n == pool.node[k] IN
       /\ IsInjective(n.free)
       /\ ToSet(n.free) = {i \in 1 .. Len(n.items) : n.items[i] = 0}
  /\ Used(pool) = Cardinality(owned)
  /\ Total >= 0 => Used(pool) <= Total

\* The places 0 .. item_mapped_num - 1 are those of all the objects, each once:
\* what is found after a resume is what there was.
IndexCoversAll ==
  /\ UNION {idx2mid(i) : i \in 0 .. pool.mapped - 1} = owned
  /\ \A i \in 0 .. pool.mapped - 1 : Cardinality(idx2mid(i)) <= 1

\* add_head, add_tail and del_node assert that the mid of a live object leads
\* to it (shm_mid_list.cpp:11, 35 and 59).
LiveResolves == \A mid \in owned : mid2ptr(mid)

\* item_mapped_num is the number of items whose memory is mapped (shm_def.h:37).
MappedIsMapped == torn = {}
=============================================================================
