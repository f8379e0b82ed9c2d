# A verification project for the xr server framework

The repository (`libev_test`) is a C++ framework for game servers on top of libevent, and a few
servers built on it. This directory holds TLA+ models of its core, TLC configurations that check
them on small instances, and proofs, checked by TLAPS, of what holds for every instance.

The code has no tests and no specification: every definition here is translated from the source
(paths below are relative to `src/src/xrbase/` unless they begin with another directory), and
`PROJECT.json` names the lines each one stands for.

## The system

A server process has one *listen* thread, some *IO* threads and one *logic* thread, each with a
libevent loop. They share no lock: they exchange messages over queues.

    listen thread --AcceptConnQueue--> IO thread --InputQueue--> logic thread (sessions, application)
                                       IO thread <--OutputQueue-- logic thread
    logic thread <--lists--> database threads      process <--ring in shared memory--> process

| Component | State | Operations | What is hard | What makes it correct |
|---|---|---|---|---|
| Message queues (`net/base/MsgQueue`, `CirQueueMul`, `CirQueueGen`, `CirQueueCas`, `NetSocketPair`) | a ring per queue, a socket pair, the stop flag | `Push`, `Pop`, `Run`, `Stop` | producers, consumer and stopping thread interleave; the wake-up byte is skipped when the ring is not empty and dropped when the socket is full | no wake-up is lost, every accepted message is run once and in order, a stop is honoured |
| Id allocator (`container/fix_id_alloc.h`) | free stack, flags | `alloc`, `free`, `can_used` | ids are freed twice on many paths, `can_used` takes from the middle | never an id in use, failure only when full |
| Connections and sessions (`net/base/NetConnPool`, `NetConn`, `NetEventCb`, `IoThread`, `net/LogicHandle`, `MsgParser`) | the connections and the kill list of an IO thread, the session table of the logic thread | accept, read, error, idle detection, kill, disconnect, send | two threads, messages in flight while ids are reused | a message and a command meet their own connection, a session ends with its connection |
| Reconnecting client (`net/base/ReConnEvent`, `net/NetClient`) | two flags, two bufferevents on one descriptor, a cache | connect, timer, disconnect, send | two owners of one socket, results not looked at | it connects again in the end, no message overtakes a cached one |
| Thread control (`EventThread`, `IoThreadControl`, `ListenThread`, `LogicThread`, `server/SvrAppBase`) | stop and break flags, a start counter, full queues | start, loop, push, stop, free and join | a stop at any moment, from a signal handler; threads waiting for each other's queues | a stop ends the process, or hangs it in a way that is known; no base is freed under a thread that was not told to stop |
| Shared-memory pools (`shm/`) | nodes of fixed objects in shared-memory segments, mids with a serial | `alloc_x`, `free_x`, growth, release, resume | crash and resume, stale mids | a mid names the object it was given for, or nothing |
| Timer wheel and lists in shared memory (`time/timer_wheel`, `shm/shm_mid_list`) | five wheels, the current tick | `add`, `del`, `main_loop`, callbacks | cascades, callbacks that add and delete, a crash inside one | a timer fires at its tick, once, unless deleted |
| Queues between processes (`text/ring_buf.h`, `mq/shared`, `server/mq`) | a byte ring in shared memory | `write`, `for_each`, `InitLoad` | two processes without a lock, jumps to the front, death of either | messages arrive whole, once, in order, and an accepted one is read |
| Database threads (`db/`) | request and result lists | push, update, pop, shutdown | shutdown with work outstanding | every request is answered |
| Object pool (`memory/object_pool.h`), containers (`container/`, `stl/`) | free lists, arrays | alloc, free, insert, erase | sequential | those of the data structure |
| Kafka, HTTP, logging, configuration, strings, Lua, compression, platform, `kcp` | - | - | calls of libraries, pure computation, vendored code | - |
| Servers (`xrgate`, `xrlog`, `xrhttp`, `xrclient`), `xrpublic` | the gate: players, accounts, sessions | login, forward, disconnect | a second login before the first session ends | the player in the map is the one that is there |

Every part, with its sources and what of it is modelled, is in `PROJECT.json` under `components`;
the places where testing hardly reaches are there under `hazards`, each with the properties that
watch it or the reason why none does.

## The modules

| Module | Code | What it is |
|---|---|---|
| `MsgChannel` | - | the abstract queue: accept, run, close |
| `MsgQueue` | `net/base/MsgQueue.cpp`, `CirQueueMul.cpp`, `CirQueueGen.cpp`, `NetSocketPair.cpp` | implements `MsgChannel` |
| `MsgQueueProofs` | | theorems about `MsgQueue` |
| `CirQueueCas` | `net/base/CirQueueCas.cpp` | the lock-free ring, one step per memory access |
| `IdSet` | - | the abstract allocator: a set of ids given out |
| `IdAlloc` | `container/fix_id_alloc.h` | implements `IdSet` |
| `ConnLife`, `MCConnLife` | `net/base/NetConnPool.cpp`, `NetConn.cpp`, `NetEventCb.cpp`, `IoThread.cpp`, `net/LogicHandle.cpp` | connections, sessions and the two queues between them |
| `ConnLifeProofs` | | theorems about `ConnLife` |
| `SeqFilter` | `stl/map_list.h` | taking elements out of a sequence |
| `SeqFacts` | | theorems about `SeqFilter`, sequences, and induction over the naturals |
| `TimerWheel` | `time/timer_wheel.cpp`, `shm/shm_mid_list.cpp` | timers in shared memory |
| `TimerWheelProofs` | | theorems about `TimerWheel` |
| `ShmPool` | `shm/shm_mgr.cpp` | one pool of objects in shared memory |
| `AllocProofs` | | theorems about `IdAlloc` and `ShmPool` |
| `RingBuf` | `text/ring_buf.h`, `mq/shared/ProgMqBase.cpp` | the byte ring between two processes, implements `MsgChannel` |
| `RingBufProofs` | | theorems about `RingBuf` |
| `Reconn` | `net/base/ReConnEvent.cpp`, `net/NetClient.cpp`, with `IoThread`, `LogicHandle` | a client session that connects again by itself |
| `ReconnProofs` | | theorems about `Reconn` |
| `NetThreads`, `MCNetThreads` | `net/base/EventThread.cpp`, `IoThreadControl.cpp`, `ListenThread.cpp`, `net/LogicThread.cpp`, `server/SvrAppBase.cpp` | the threads of a server from start to end, and their queues as lengths |
| `NetThreadsProofs` | | theorems about `NetThreads` |

### How the models correspond to the code

**`MsgQueue`.** A producer's program counter `ppc` is the place it has reached in `Push`: the
insertion under the ring's mutex is one step (`PushStored` and `PushFull`, the two outcomes),
writing the wake-up byte is another (`WakeConsumer`), so that everyone may run between them. The
consumer is split the same way: reading the byte (`ReadEvent`), the pop (`SerPop`, `PopBatch`,
`PopRing`, `PopEmpty`), the callback (`RunMsg`), the look at the stop flag (`CheckStop`). `kind`, chosen once
in `Init`, is the ring: the one with a batch array, which `SerPop` swaps under the mutex (`MUL_ONE`), or the
one with the mutex around each pop (`MUL_MUL`). `Stop` sets the flag (`SetStop`) and writes
a byte (`StopWrite`). The socket pair is the number of bytes in it, `WriteByte` drops a byte when
`SockCap` is reached, as the non-blocking `send` does. `accepted` and `ran` are history variables.

**`CirQueueCas`.** Each load and store of `_cur_count` is a step of its own: the variable is a plain
`volatile int` changed by two threads, and the model has the outcomes the compiled code can have
when each access is indivisible.

**`IdAlloc`.** `freeids`, `nalloc` and `flags` are the members; `alloc`, `free` and `can_used` are
one action each and take every value of the id type, in the range or not. `got` and `claimed` are
the results the caller sees.

**`ConnLife`.** The state is what the two threads hold: `conn`, `used` and `mapkill` for an IO
thread, `sess` for the logic thread, and the queues `input` and `output` between them. `gen` is a
history value: which of the connections that had an id is meant. An action is a whole callback of libevent
(`ReadMsg`, `ReadError`, `EventCb`), a timer (`TimerDetect`, which also empties the
kill list), a command taken from the output queue (`IoDisconn`, `IoKill`, `IoSend`), or a message
taken from the input queue (`OnAccepted`, `OnDisconn`, `OnNoRecv`, `OnMsg`). Callbacks are whole
because each thread runs one at a time and shares nothing else. `remove_killed` and the idle detection erase
elements of containers they iterate over; where the outcome is undefined, `Doomed` leaves it open.
The history flags `mixed` (a message or command met another connection than its own)
and `reused` (an id was given out again while a queue or the kill list still named its former
owner) carry the main property.

**`TimerWheel`.** `lists` maps each slot of each wheel to the sequence of its timers, `where` is
the list a timer believes it is on. `main_loop` is split at the callbacks, the only place where
other code runs: `BeginTick` (the cascade of all wheels that turn, and the step of `cur_tick`),
`DropCrashed` (a timer whose callback was running when the process died), `StartCallback`,
`EndCallback` (what is done with the timer afterwards), `EndTick`. `add` and `del` are enabled
between ticks and in callbacks. `Crash` ends a callback; the tick and the lists stay in
shared memory. Mids are taken to resolve here; whether they do is a question to `ShmPool`.
The nodes come from a pool with room for `MaxTimers` at a time and are used again (`FreeNode`); how many are added in
all is not bounded, so that callbacks can go on adding. The arguments of `add` are any unsigned words; the interval and the
count are kept in signed ones (`Narrowed`, `timer_wheel.cpp:320`, `:322`), where a word is what the last wheel reaches, 2^32 ticks in
the code. `asked` and `runs` are history: what was asked for and what has been run.

**`ShmPool`.** `pool` is the `SHM_STRUCT_POOL` with its nodes, each a sequence of the serials of its items
and the free list; sizes are counted in items. `alloc_x`, `free_x` and `main_loop` are whole actions: one
process has the pool at a time. Helpers that may fail return a record of the outcome and the
pool as they left it (`Done`, `Failed`), which keeps the order of the error paths. `Resume` and
`Start` are what the next process does with the segments it finds. `mid2ptr` computes with
the three numbers of the real layout, `HeadSize`, `FirstItem` and `ItemSize`. `torn` holds the nodes an
`munmap` with too large a size has reached into.

**`RingBuf`.** `head`, `tail`, `count` and `content` are the shared memory; `wpc` and `rpc` are the places the
writer has reached in `write` and the reader in `for_each`. A step is one access to what the other
process may change meanwhile: the writer copies the message where nobody looks yet (`WriteCopy`), publishes the tail
(`WritePublish`), then loads and stores the count; the reader reads the count and its head (`ReadBegin`), the tail
at each turn (`ReadNext`), calls the callback (`ReadCall`, `ReadRefuse`), stores the head
(`ReadAdvance`) and loads and stores the count. A byte of the content is `<<message, size, i>>`, so that a byte of the
wrong message, or of the right one in the wrong place, shows. Accesses are taken to happen in
program order, as `volatile` on the x86 machines the code is built for gives it. A process that dies leaves the ring as it is.

**`Reconn`.** The logic thread's `ReconnEvent` (`connected`, `connecting`, and the attempt its bufferevent is for), its
session (`state`, `hd`, `slots`, `cache`), the IO thread's connections (`conn`) and three queues.
`fd` and `holder` are the descriptors: both threads free a bufferevent on the same one, and each closes
the number, whoever holds it then (`Closed`). `lost` is a history flag for the three events after which the client may wait for
news that cannot come: a connection refused without a word, a connection deleted in place of
another, a socket closed under an attempt. The idle detection is two steps, in the order of the code: it tells the logic thread
(`IoIdle`) and then deletes the connection (`IoDrop`); the IO thread does nothing in between, the logic thread may (`idle`).

**`NetThreads`.** `mpc` and `wpc` say where each thread is: before its loop, in it, waiting in `Push`, past it. `todo` is
what the signal handler has still to do; it runs on the main thread, which stands still meanwhile,
also when it was interrupted in `Push`. A break flag is cleared when a loop begins, as `event_base_dispatch` does;
`missed` records a thread that lost a break in this way. The signal comes at any instruction of the main thread, which may hold a
lock then (`held`, any of `MayHold`): that of the log, which `PushLog` takes wherever something is logged, with the locks of the allocator and the C
library under it, or the mutex of a ring, in the middle of `Push` or `SerPop`. The handler takes the same locks: `_OnStop` logs
first (`LogStop`), then `PushExit` locks a ring. A mutex that is held also keeps the consumer of the ring out (`TakeOutput`, `CanPush`).
The seconds that `Stop` and `_Fini` sleep are left out, because they bound nothing: a callback that drains a ring may take longer. `FreeBase`
frees a base whatever its thread does, and what a thread does on freed memory is undefined (`UseFreed`): it goes on, ends, or ends the
process. The rings are those with a mutex (`MUL_ONE`, `MUL_MUL`). Logging has no action of its own but `LogStop`: it changes nothing else the model has. `IoThreads` may be read as the IO threads of the server and of its reconnecting clients one after
the other, in the order in which they are stopped.

## The runs

| Run | Instance | States | What it shows |
|---|---|---|---|
| `queue` | 2 producers with 2 messages each, ring of 2, room for 1 byte, both kinds of ring | 11546 | no message waits without a wake-up on its way (`NoLostWakeup`), the batch is empty when it is swapped (`BatchDrained`), nothing is lost, doubled or reordered (`InOrder`), `Stop` ends the consumer (`StopHonoured`), the queue implements `MsgChannel` with its liveness (`ChannelSpec`) |
| `cas_wakeup` | ring of 4, 3 messages | - | finding: `Delivered` is violated |
| `id_alloc` | 4 ids from 2 on, all arguments up to 7 | 8240 | the assertions of `to_string` (`FreeListSound`); never an id twice, no failure unless full (`AllocatesIds`) |
| `conn_safety` | 2 ids, 3 connections, queues of 2 and 3, symmetric ids | 574606 | messages and commands meet their own connection unless an id was reused too early (`OnlyReuseMixes`); a session has its connection or the news of its end on the way (`SessionMatchesConn`); no message comes behind the news of the end (`NothingAfterGoodbye`) |
| `conn_live` | 2 ids, 2 connections, queues of 2 | 20289 | a dead connection is deleted although the kill list may forget it (`DeadConnDeleted`), and its session ends (`SessionFollowsConn`) |
| `timer` | 3 wheels of 2 lists (a word is 8), a pool of 2 timers, 5 ticks from tick 0, 1 crash | 273610 | a timer is on the list it believes it is on and on no other (`ListsSound`), is run at its tick (`OnTime`), as often as asked if the count fits into a signed word (`RunsAsAsked`), never after `del` (`DeletedStaysDead`), and a tick comes to an end unless callbacks keep adding timers for it (`TickEnds`) |
| `shm` | 3 nodes of 1, 2 and 3 items, at most 5 in use, serials up to 2 | 46348 | the mids that pass the tests of `free_x` are those given out (`MidsNameObjects`), the counters agree with the nodes and their free lists, and the current node can be allocated from (`PoolSound`), `idx2mid` finds every object at one index (`IndexCoversAll`) |
| `shm_mid` | the same | - | finding: `LiveResolves` is violated |
| `shm_torn` | the same with exponential growth | - | finding: `MappedIsMapped` is violated |
| `ring` | 8 bytes, lengths of 2 bytes, messages of 1 and 2, 5 of them, at most 2 per `for_each`, 1 death | 211674 | an accepted message stays whole until it is read (`UnreadIntact`), the callback gets the next one and the ring is never found damaged (`CallsNext`), a full ring does not look empty (`EmptyIsEmpty`), the count is exact unless an update was lost or a process died (`CountExact`), an empty ring takes what fits into it twice (`EmptyAccepts`), every message is read unless the count has lost it (`EachIsRead`), the ring implements the safety of `MsgChannel` (`ImplementsChannel`) |
| `reconn` | 2 ids, 2 descriptors, 3 attempts, 2 messages, a cache of 1 | 879891 | no message overtakes another or is sent twice (`OnceInOrder`), the flags that keep the timer from connecting tell the truth (`FlagsTrue`), the client is connected again in the end (`Reconnects`), both unless it was left waiting (`lost`) |
| `threads` | 1 IO thread, the listen thread and the main thread, queues of 1 place, one stop at any moment, with any lock the main thread may hold | 46733 | an event base is freed only when its thread has left, was told to break, or lost its break (`FreedWhenTold`); a stop ends the process or hangs it in one of four ways (`StopEnds`) |

### Bounds, and why they are enough

- *Queues.* With two messages each, two producers overfill a ring of two, overtake each other and find
  the socket full while the ring is empty or not; the retry after a full ring, the swap with a full and with
  a partly full ring, and a stop at every step all occur. The safety results are proved for every size.
- *Id allocator.* Four ids from 2 on leave ids below, in and above the range, and free stacks of
  every length; the results are proved for every size.
- *Connections.* One id is held by up to three connections in turn and a second id runs beside it, so that a
  message of the first may be overtaken by an accept of the second and of the third. `InMax` bounds
  the queue to the logic thread, except that the idle detection adds what it finds in one go (one message per
  connection) on top; when the queues are full their producers wait, which the code does too. The liveness run has one generation less, without symmetry, which is not sound for liveness.
- *Timers.* Wheels of two lists turn every second and every fourth tick, so that five ticks from tick 0 include
  ticks at which one wheel and at which two wheels turn. The first-call intervals 0, 2 and 4 put timers on each of the
  three wheels. The word is 8: of the repeat intervals 0, 3 and 5 the last is negative as a signed word, of the counts 0, 1, 2 and 5
  too; 0 is the timer that fires at once, respectively for ever. `MaxTimers` is the room of the pool and no bound on the adds: a
  node that is freed is used again, within a tick too, so that a callback can add a timer for the running tick each time. `TickEnds` must
  therefore say "unless". `MaxTicks` and `MaxCrash` bound the ticks and the crashes.
- *Pools.* Three nodes suffice for a current node with a released one below and an unmapped one above it;
  the total of 5 is below the 6 the nodes hold, so that the limit on the total occurs. `SerialMax` of 2 makes the
  serial numbers come round after two allocations.

- *Ring.* Eight bytes hold two messages of three or four bytes, not three: five messages go round it more than
  twice, end at the end of the ring, one and two bytes before it, and leave room for a length or not. `Times` of 2
  lets a `for_each` end with messages left. One death suffices for each place in either process.
- *Reconnection.* Two descriptors and three attempts let a descriptor be closed by the owner of an older
  attempt while a newer one uses it; two ids let a connection be deleted in place of another. With two messages and a
  cache of one, the cache overflows, and one message is cached while another is on its way.
  `InMax` and `OutMax` bound what the environment adds to a queue; what one handler adds to another queue goes in always.
- *Threads.* One place per queue makes every queue full after one message; all three threads can then
  wait for each other. One IO thread stands for several, which do not push to each other. A stop
  comes once: a second signal while the handler runs is not modelled.

`CHECK_DEADLOCK FALSE` stands where the system may stop: after all messages, connections or ticks of the
bounds.

### Fairness

- `MsgQueue`: weak fairness of each step of a producer that is inside `Push`, of the consumer, and of
  `StopWrite`: threads that run go on running. Nobody has to call `Push` or `Stop`. It is weak
  throughout: no mutex is held across a step, so a step that is possible stays so until it is taken or
  another thread makes it unnecessary.
- `CirQueueCas`: both threads run.
- `ConnLife`: weak fairness of the handling of the two queues, which their consumers read until
  empty, and of the detection of a dead connection, which a persistent timer repeats.
- `TimerWheel`: weak fairness of the steps of a tick: callbacks return. Nobody has to call `main_loop` again.
- `RingBuf`: weak fairness of both processes, `for_each` being called every millisecond; strong fairness of `ReadCall`:
  a callback that is asked again and again does not refuse the message for ever. A dead process need not come back as a
  writer, and the reader does.
- `Reconn`: weak fairness of the timer, of the outcome of an attempt (the system answers a `connect` in the end), of
  both queues, of the idle detection for a connection whose socket is gone, and of the deletion it has begun. Nothing is assumed of errors, idle
  timeouts of live connections, or sends.
- `NetThreads`: weak fairness of the threads and of the handler; strong fairness of leaving a loop
  whose break flag is set and of a worker's `Push` that finds room again and again (it tries every 100 ms; with one
  producer per queue, as here, nobody takes the room away).
- `IdAlloc`, `ShmPool`: none, only safety is stated.

## The proofs

`tlapm` proves every theorem from the assumptions of the modules only, which TLC evaluates on each run:

- `QueueAssumption`: at least one place in the ring, and so on. `IdAssumption`: at least one id, the last below
  `MaxN`; `init` checks the first and not the second, and the one user of the allocator begins at 0.
- `ConnAssumption`: finitely many ids, the bounds are numbers. `ReconnAssumption`: there are ids and descriptors, and 0, which stands
  for none, is not among them. `ThreadsAssumption`: at least one IO thread, queues with at least one place.
- `RingAssumption`: the length field has at least one byte and is not longer than the ring; nothing is
  assumed of the lengths of messages, which `write` itself refuses.
- `WheelsAssumption` and `ArgumentsAssumption`: wheels of any number and size. The arguments of `add` are any words, from 0 to one
  less than what the last wheel reaches: a `uint32_t` and 2^32 ticks in the code. That the signed fields cannot hold all of them is modelled,
  not assumed away.
- `PoolAssumption`: at least one node and one serial number, and a positive `item_base_num`, without which every operation
  refuses the pool (`shm_mgr.cpp:277`, `:559`). Nothing is assumed of the limit, or of the layout, which only `mid2ptr` uses.

All theorems hold for every value of the constants, the bounds of the environment (`MaxGen`, `MaxTries`, `MaxTimers` and the
like) included. They are invariants and implementations; no liveness is among them.

**`SeqFacts`.** `SetInduction` is induction over the naturals as a fact about sets: a set with 0, and with
*n* + 1 for each *n* of it below a bound, has every number up to the bound. It carries the facts about `Keep`,
the sequence without the elements outside a set (`KeepEmbeds`, `KeepWithin`, `KeepInjective`, `KeepAll`), and `Recursion` and `RecursionFromZero`, that a
function given at each place by its value at the place before exists. For their sake the models say `Keep` and recursive functions
where one might write `SelectSeq` and a fold; TLC checks in `MCConnLife` that `Keep` is `SelectSeq` (`KeepIsSelectSeq`).

**`MsgQueueProofs`**, for any set of producers, ring size, socket capacity and number of messages.

- `TypeCorrect`: `TypeOK` is not inductive, because `PushStored` appends the message
  `<<p, sent[p]>>` and the message numbers begin at 1. `CountedBeforePush` adds that a producer inside `Push` has counted.
- `WakeupNeverLost`: the interesting case is the push to a ring that is not empty, which writes no byte: the wake-up
  of the message before it is still on its way, or the consumer is awake. The consumer may leave without emptying
  the ring, so that the invariant needs `OffMeansStopped`: it does so only for a stop.
- `OrderKept`, `SwapSafe`: `InOrder` is kept by the swap only if the batch is empty there (`BatchDrained`) and by the pop
  only if the consumer holds no message (`HandHeld`); `OrderInv` is the conjunction.
- `Implements`: under `OrderInv` every step is a step of `MsgChannel` or a stutter (`ChannelStep`).
  This is the safety half of `ChannelSpec`; the other half, that the messages are run in the end, is checked by TLC.

**`AllocProofs`**, about `IdAlloc`, for any number of ids and any first id.

- `StackCorrect`: the inductive invariant `StackInv` says that the free part of the array has no id twice and
  holds an id exactly if its flag is clear. It says nothing of the other part of the array:
  `free` may have overwritten it, and the ids there need not be those in use.
- `AssertionsHold`: the number of clear flags is the length of the free part, by a bijection between them.
- `ImplementsIdSet`: each call is one step of `IdSet`.

**`ConnLifeProofs`**, for any number of ids and connections and queues of any length.

- `TypeCorrect`: the bound on the Input queue is not inductive, since the idle detection adds its messages whether there is
  room or not. `RoomForNews` counts the queue and the open connections together: the detection deletes a connection for each message.
- `GoodbyeIsLast`: the code looks at the parse code of a connection only. `NotYetEnded` is what makes that enough: as long
  as the code is OK, no news of the end is queued. A message of a *later* connection must not be taken for it, hence
  `Numbered` and `DistinctGens`.
- `OnlyReuse`, `SessionsMatch`: `ReuseInv` says that either an id was given away too early (`reused`) or the state is `Clean`. Its heart is
  `Owned`: there is a function that names one connection for each id, and whatever names the id (the connection, the session, every
  entry of both queues) means that one. Accepting a connection changes the function at its id, which is sound because nothing named
  the id. The other conjuncts order what is in flight: first the news that the connection is open (`OpeningFirst`),
  before it nothing done with it (`OpeningAlone`), and no deletion asked for while its session is open (`SessionOpen`).

**`RingBufProofs`**, for any capacity, length field, message lengths, number of turns of the ring and of deaths.

- `Layout` says where each message that is not behind the head lies: its bytes are there, it begins where the one
  before it ended or at the front after a jump, between the head and the tail, the messages in order round the ring. `LayoutInv` adds
  the bytes that `write` has copied behind the tail and has not published. `HeadMoves`, and its
  counterparts for a tail that moves on or jumps, are the geometry; the rest is which process does it.
- `UnreadStays`, `NextIsCalled`, `EmptyLooksEmpty`, `EmptyRingAccepts` are consequences. That a full ring does not look
  empty rests on the one byte that `write` leaves free, and, for a head at 0, on a tail that never comes to the end of the ring.
- `CountsExact` needs `CountLasts` as well: `for_each` never takes more messages than the count it has read.
- `RingIsChannel`: every step, a death included, is a step of `MsgChannel` or a stutter.

**`ReconnProofs`**, for any number of attempts, ids, descriptors and messages and any cache.

- `TypeCorrect`: that a message sent has a connection needs `HdNamed`.
- `FlagsTell`: `IdleTold` says that word of a connection's end is on its way when the detection is about to delete it. `FlagInv` relates the two flags to everything on its way between the threads: one flag at a time, which belongs to
  one attempt (`OneFlag`); a connection handed over is that of this attempt (`Handed`); at most one `NET_CONNECTED` is on its way,
  and it is about this attempt (`Announced`); news of this attempt comes under an id the session knows or will know
  (`OwnNews`); no command to end it is on its way (`NotEnded`). `TrackInv` then is the property, unless `lost`.
- `SentOnceInOrder`: `OrderInv` orders what was written, what is on its way and what is cached, and says that a connected session has an
  empty cache, which keeps a new message from overtaking a cached one.

**`NetThreadsProofs`**, for any number of IO threads and any size of the queues.

- `TypeCorrect`: no queue ever holds more than it has places for, with the handler's messages in it and a push that was interrupted.
- `FreedAfterTold`: the bases are freed without a look at their threads, so that it rests on the order of `Stop` alone. `ToldInv`: the
  main thread leaves its loop only when every thread was told directly to stop, or the handler is still at it. `BreakInv`: a thread that was stopped
  has its break, or lost it. `FreedInv`: only bases of such threads are freed, after the loop of the main thread. That the thread no longer runs is not true, and not stated.

**`TimerWheelProofs`**, for wheels of any number and size, any intervals, timers and crashes. `WheelInv` is inductive and has as parts:

- `LinkInv`: each timer is on the list that `where` has for it, once, and nothing else is on a list.
  `AddedLinked`, `UnlinkedLinked` and a lemma on `Spreads` say it of each operation on lists.
- `PlacedInv`: `OnTime` is not inductive: that a timer comes out at its tick depends on which list it was put on
  turns of the wheel earlier. A timer that expires at *e* is `Placed` on the list of wheel *l* if that is the list of *l* for *e*, *e* is within the
  wheel's reach, and the tick at which the list is spread (`Opens`, *e* rounded down to the step of the wheel) is not past. In
  the middle of a tick, when the wheels up to *n* have been spread, it must be later than this tick for wheels 2 to *n*. That what is
  on a list when it is run or spread is due is arithmetic: its slot fixes *e* up to a turn of the wheel and the reach allows
  only one turn (`RunNow`, `SpreadNow`). This is where `<` instead of `<=` in `find_handle_list` matters. `CascadedSettles` goes up the wheels one
  by one.
- `RunningInv`: what a timer must be like that waits, is deleted, or runs.

`FiresInTime` and `ListsAgree` follow from it, and the action properties `CountsRight` and `StaysDeleted`. `FiresInTime` holds for every argument: a timer set
into the past by a narrowed interval lies on a list of the last wheel and is not run before the tick it was set to, which never comes. Only that no timer is
left behind needs the interval not to be negative, as `CountsRight` needs the count to fit.

**`AllocProofs`**, about `ShmPool`, for any number, size and growth of nodes, any limit and any serial numbers.

- `PoolHolds`: `PoolInv` says of the pool what `PoolSound` says (`Counted`, `CurMapped`), and that the objects that are out are `Live`, the
  mids whose serial is that of their item. A helper is proved once, for every pool it may be given, to keep the counts and to
  leave `Live` and what is used as they were: `MapKeeps`, `BackwardKeeps`, `ReleaseKeeps`, `NewCurrentKeeps`, `UnmapKeeps`, and
  `SweptKeeps` for the loop. Only `TakeKeeps` and `FreedKeeps` change them, by one mid.
- The counters are sums over the nodes; `SumChanges` follows one node. That a node with as many free items as items has
  no object in it, so that its release loses none, is a pigeonhole argument (`FullyFreeZero`): the free list names no item twice.
- `MidsNameThem`, `PoolIsSound`, `TypeCorrect` are parts of the invariant. `IndexCovers` needs that the nodes lie one behind
  the other (`SumGrows`), so that an index is in one node only.

Model-checked only: all liveness (`ChannelSpec`'s second half, `StopHonoured`, `DeadConnDeleted`,
`SessionFollowsConn`, `TickEnds`, `EachIsRead`, `Reconnects`, `StopEnds`), which rests on fairness and `ENABLED`, out of the prover's
reach; the findings, which are counterexamples; and that `Keep` is `SelectSeq`.


## Findings

1. **The lock-free ring loses updates of its counter** (`cas_wakeup`). `Push` and `Pop` both change `_cur_count`
   with a plain load and store (`CirQueueCas.cpp:64`, `:95`). A lost update leaves the counter wrong for good: `Push` never sees
   it become 1 again and wakes nobody, and the consumer sleeps with messages waiting. This ring is the default of the server's
   settings (`ONE_ONE`).
2. **No mid leads to its object** (`shm_mid`). The allocation counts offsets from `lst_struct` (28 bytes into the head),
   `mid2ptr` from `sizeof(SHM_STRUCT_HEAD)` (32, for alignment). `mid2ptr` returns `nullptr` for every mid, and
   `timer_wheel::add` fails at an assertion of `shm_mid_list`. `TimerWheel` describes the timers as they are meant to
   be, with mids that resolve.
3. **The release of a node may unmap another** (`shm_torn`). `munmap` is given the size of the node mapped last.
What the passing runs had to leave room for, and what a reader of the code should know:

- *A stop can hang* (`StopEnds`). Of the four ways its formula `Hangs` names, TLC reaches each, and the property fails without any one
  of them: the signal comes before the logic thread is in its loop, whose start clears the break (`EventThread.cpp:105`); the handler waits
  for a lock that the thread it has interrupted holds, that of the log (`LogMgr.cpp:150`) or the mutex of a ring (`CirQueueMul.cpp:61`); the
  handler, or the push it interrupted, waits for room in a queue whose consumer has left or waits for the main thread itself
  (`MsgQueue.cpp:96`); or the main thread joins a thread that is stuck, or that was still busy when its event base was freed
  (`EventThread.cpp:50`). The third needs no stop: with both queues between them full, the logic thread and an IO thread wait for each other in
  normal operation.
- *An event base may be freed under a thread that is busy* (`FreedWhenTold` says no more than that the thread was told). The fixed
  sleeps of one and two seconds (`LogicThread.cpp:169`, `SvrAppBase.cpp:377`) do not exclude it: one callback drains a whole ring
  (`MsgQueue.cpp:140`), and `LOG_MINE` sleeps 200 ms each time (`LogMgr.h:144`).
- *Timers keep their interval and count in signed fields* (`OnTime`, `RunsAsAsked`). `add` takes both as `uint32_t`
  (`timer_wheel.h:40`) and stores them in `int32_t` (`:25`). An interval from 2^31 up is negative: the timer is set into the past after its
  first run and stays on a list. A count above 2^31 is negative: the timer is freed after its first run. The model does both.
- *A tick ends only if callbacks let it* (`TickEnds`). A callback that adds a timer for the running tick each time keeps `main_loop` from
  returning (`timer_wheel.cpp:184`); `add` refuses only the endless timer without an interval.
- *A reconnecting client can wait for ever* (`lost`). A connection the IO thread refuses is reported to nobody
  (`IoThread.cpp:137`), and `_bConnected` stays set.
- *The count of a ring between processes can lose messages* (`EachIsRead`). `++_count` and `--_count` of two processes may meet, and a
  death between `_tail` and `++_count` has the same effect: the ring then holds a message that `for_each`, which asks the count, does not see
  until another one comes.

Smaller observations without a run: the comment at `NetClient.cpp:45` says that only what is sent after a sudden loss is cached,
the code caches from the start; a cached message is reported as not sent (`NetClient.cpp:70`); the size
`ProgMqBase.cpp:41` gives the ring counts its header, so that the last bytes of the ring lie behind the segment's;
the gate forgets a player by account only (`xrgate/session/GatePlayerMgr.cpp:28`); the comment at `shm_mgr.cpp:118` speaks of the fifth resume where
the code stops at the sixth; a pool with `pool0_alloc` off never allocates, because the sign of node 0 cannot be turned; timers of one tick
do not run in the order they were added in when a cascade brings some of them.

## Not modelled, and why

- The `ONE` kind of queue, whose `Push` runs the callback itself; `Init` and the destructor.
- Of the connections: the limits of the write buffer and of messages per second, multicast. TCP is present as events (data,
  error, end) in any order the code can meet.
- Of the reconnecting client: `KillReconSession` and `RemoveReconn`, `SendPing`, `StopTimer`, the ownership of the memory of
  cached messages, and bytes of an old connection that reach the new socket when a descriptor is reused.
- Of the ring: `read` and the ring that splits messages, which no queue between processes uses; `SvrProgMq`, which makes two processes known to each other.
- Of the threads: the sleeping of libevent's loop (the program never calls `evthread_use_pthreads`, so that a break set by another
  thread takes effect at the next event only; the IO threads have timers, the listen thread has none), the handler's push in the
  middle of a push to the same ring when that has no mutex (the default, `CirQueueCas.cpp:58`: messages overwrite each other and the count is
  wrong, as it may be without a signal), a second signal, the race on `_bStop` in `ListenThread::Stop`, and the Accept and Output queue of a
  thread being given up one after the other.
- Database threads, object pool, the other containers, the gate: sequential, or up to a client library; the components' notes say so.
- Of the timers: `reload` and the offset of the clock (`main_loop` may run any number of ticks), the functions that only read.
- Of the pools: pools without a first node, the limit on resumes, `fini_shm`, `stop_shm`, a crash inside
  `alloc_x` or `free_x`, and the system calls of `shm_x`.
- Kafka, HTTP, logging, configuration, strings, Lua, compression, platform layer, generated code, `kcp`: calls of
  libraries, pure computation and input/output; the components' notes say so one by one. The generated protocol code and
  the vendored libraries are three quarters of the repository's lines, so that the share of all lines that is modelled is small
  whatever is added; of the files that are modelled it is nearly half.

## The plan

In this order, the most important behaviour first:

1. `MsgChannel`, `MsgQueue`, `CirQueueCas`, with proofs of safety and of the implementation. *Done.*
2. `IdSet`, `IdAlloc`, with the same. *Done.*
3. `ConnLife`: *modelled, checked, and its safety proved.*
4. `TimerWheel`: *modelled, checked, and its safety proved.*
5. `ShmPool`: *modelled, checked, and its safety proved.* To add: a crash inside `alloc_x` and `free_x`.
6. `Reconn`: *modelled, checked, and its safety proved.*
7. `RingBuf`: *modelled, checked, and its safety proved*, with the implementation of `MsgChannel`.
8. `NetThreads`: *modelled, checked, and its safety proved*, with the queues that wait for each other.
9. Left: `DbThread` with the batch that `UnInit` overtakes, and the gate's players when its login is written.
