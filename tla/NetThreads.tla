----------------------------- MODULE NetThreads -----------------------------
(***************************************************************************)
(* The threads of a server with a port, from their start to their end: the *)
(* main thread, which runs the logic, the IO threads and the listen        *)
(* thread, and the bounded queues between them.  A full queue makes its    *)
(* producer wait in Push for ever.  LogicThread::Stop runs in a signal     *)
(* handler, on the main thread, which it has interrupted somewhere, with a *)
(* lock it holds perhaps; it tells the other threads to stop, over their   *)
(* queues and then directly.  At the end the event bases are freed after   *)
(* fixed sleeps, which are left out: a thread may take longer.             *)
(*                                                                         *)
(* What flows in the queues is left to MsgQueue and ConnLife: here a queue *)
(* has a length, and the Output queues hold a NET_EXIT or not.  The rings  *)
(* are those with a mutex (MUL_ONE and MUL_MUL); CirQueueCas is about what *)
(* becomes of the counter of the one without.                              *)
(***************************************************************************)
EXTENDS Naturals, Sequences, SequencesExt

CONSTANTS
  IoThreads,  \* the IO threads, in a sequence
  Listen,     \* the listen thread
  Cap         \* the places of each queue

Ios == ToSet(IoThreads)
Workers == Ios \cup {Listen}

ASSUME ThreadsAssumption ==
  IoThreads \in Seq(Ios) \ {<<>>} /\ Listen \notin Ios /\ Cap \in Nat \ {0}

VARIABLES
  mpc, mto,      \* the main thread, and the thread whose Output queue it pushes to
  todo,          \* what the signal handler has still to do; the main thread stands still meanwhile
  held,          \* the lock the main thread held when the handler interrupted it
  signalled,     \* the signal was delivered
  mbreak,        \* the break flag of the logic thread's event base
  wpc, wto,      \* each other thread, and the IO thread it pushes for: its own Input queue or,
                 \* of the listen thread, the Accept queue of that IO thread
  wbreak,        \* the break flags of their event bases
  stopped,       \* the threads whose _bStop is set
  inp, acc, out, \* the lengths of the Input and Accept queues, the Output queues
  inClosed,      \* the Input queues the main thread listens to no more
  ownClosed,     \* the threads that listen to their own queues no more
  freed,         \* the threads whose event base is freed
  missed         \* history: the threads that lost their break, having entered the loop after it

main == <<mpc, mto, mbreak>>
handler == <<todo, held, signalled>>
workers == <<wpc, wto, wbreak, stopped>>
queues == <<inp, acc, out, inClosed, ownClosed>>
vars == <<main, handler, workers, queues, freed, missed>>

\* The lock of the log, with those under it (the allocator's, the C library's), the mutexes of the
\* ring of an Output queue and of an Input queue, or none.  No lock is held while another is taken.
Lock(kind, w) == <<kind, w>>
Locks == {"none", "log", "out", "inp"} \X Workers
NoLock == Lock("none", Listen)
LogLock == Lock("log", Listen)

Init ==
  /\ mpc = "wait" /\ mto = Listen /\ todo = <<>> /\ held = NoLock /\ signalled = FALSE /\ mbreak = FALSE
  /\ wpc = [w \in Workers |-> IF w = Listen THEN "none" ELSE "spawned"]
  /\ wto = [w \in Workers |-> IF w = Listen THEN Head(IoThreads) ELSE w]
  /\ wbreak = [w \in Workers |-> FALSE] /\ stopped = {}
  /\ inp = [i \in Ios |-> 0] /\ acc = [i \in Ios |-> 0] /\ out = [w \in Workers |-> <<>>]
  /\ inClosed = {} /\ ownClosed = {} /\ freed = {} /\ missed = {}

(***************************************************************************)
(* The other threads                                                       *)
(***************************************************************************)
Counted == {i \in Ios : wpc[i] # "spawned"}

\* io_thread_fn: AddInitCount
AddInitCount(i) ==
  /\ wpc[i] = "spawned" /\ i \in Ios
  /\ wpc' = [wpc EXCEPT ![i] = "counted"]
  /\ UNCHANGED <<main, handler, wto, wbreak, stopped, queues, freed, missed>>

\* MainLoop: event_base_dispatch begins with its break flag cleared, whoever has set it.
MainLoop(w) ==
  /\ wpc[w] = IF w = Listen THEN "spawned" ELSE "counted"
  /\ w \notin freed
  /\ wpc' = [wpc EXCEPT ![w] = "loop"]
  /\ wbreak' = [wbreak EXCEPT ![w] = FALSE]
  /\ missed' = IF wbreak[w] THEN missed \cup {w} ELSE missed
  /\ UNCHANGED <<main, handler, wto, stopped, queues, freed>>

Looping(w) == wpc[w] = "loop" /\ w \notin freed

\* A connection to accept, or one that has something to say: the thread goes to push.
\* ListenThread::Stop frees the listener.
Event(w, i) ==
  /\ Looping(w) /\ IF w = Listen THEN w \notin stopped ELSE i = w
  /\ wpc' = [wpc EXCEPT ![w] = "push"] /\ wto' = [wto EXCEPT ![w] = i]
  /\ UNCHANGED <<main, handler, wbreak, stopped, queues, freed, missed>>

\* _OnMsgAcceptFunc, which tells the logic thread
TakeAccept(i) ==
  /\ i \in Ios /\ Looping(i) /\ acc[i] > 0 /\ i \notin ownClosed
  /\ acc' = [acc EXCEPT ![i] = @ - 1]
  /\ wpc' = [wpc EXCEPT ![i] = "push"]
  /\ UNCHANGED <<main, handler, wto, wbreak, stopped, inp, out, inClosed, ownClosed, freed, missed>>

\* There is room in the ring the thread pushes to, and its mutex is free.
CanPush(w) ==
  IF w = Listen THEN acc[wto[w]] < Cap ELSE inp[wto[w]] < Cap /\ held # Lock("inp", wto[w])

\* What the thread runs on is deleted: its own event base, or the IO thread it dispatches to.
Dangling(w) == w \in freed \/ (wpc[w] = "push" /\ wto[w] \in freed)

\* Push, when it succeeds
WorkerPush(w) ==
  /\ wpc[w] = "push" /\ ~Dangling(w) /\ CanPush(w)
  /\ IF w = Listen THEN acc' = [acc EXCEPT ![wto[w]] = @ + 1] /\ UNCHANGED inp
                   ELSE inp' = [inp EXCEPT ![wto[w]] = @ + 1] /\ UNCHANGED acc
  /\ wpc' = [wpc EXCEPT ![w] = "loop"]
  /\ UNCHANGED <<main, handler, wto, wbreak, stopped, out, inClosed, ownClosed, freed, missed>>

\* Only the flag is set: the event loop goes on.
StopThread_NoBreak(w) == stopped' = stopped \cup {w} /\ UNCHANGED wbreak

\* IoThread::Stop and ListenThread::Stop, with EventThread::Stop: only the first call counts.
StopThread(w) ==
  /\ stopped' = stopped \cup {w}
  /\ wbreak' = IF w \in stopped THEN wbreak ELSE [wbreak EXCEPT ![w] = TRUE]

\* A message of the Output queue: NET_EXIT stops the thread.
TakeOutput(w) ==
  /\ Looping(w) /\ out[w] # <<>> /\ w \notin ownClosed /\ held # Lock("out", w)
  /\ out' = [out EXCEPT ![w] = Tail(@)]
  /\ IF Head(out[w]) = "NET_EXIT" THEN StopThread(w) ELSE UNCHANGED <<stopped, wbreak>>
  /\ UNCHANGED <<main, handler, wpc, wto, inp, acc, inClosed, ownClosed, freed, missed>>

\* The queues were stopped: their consumer sees it after an event and listens no more.
CloseOwn(w) ==
  /\ Looping(w) /\ w \in stopped /\ w \notin ownClosed
  /\ ownClosed' = ownClosed \cup {w}
  /\ UNCHANGED <<main, handler, workers, inp, acc, out, inClosed, freed, missed>>

Leave(w) ==
  /\ Looping(w) /\ wbreak[w]
  /\ wpc' = [wpc EXCEPT ![w] = "left"]
  /\ UNCHANGED <<main, handler, wto, wbreak, stopped, queues, freed, missed>>

(***************************************************************************)
(* The main thread                                                         *)
(***************************************************************************)
\* IoThreadControl::Start has seen all IO threads; _CreateListener starts the listen thread.
StartListen ==
  /\ mpc = "wait" /\ todo = <<>> /\ Counted = Ios
  /\ mpc' = "init"
  /\ wpc' = [wpc EXCEPT ![Listen] = "spawned"]
  /\ UNCHANGED <<mto, mbreak, handler, wto, wbreak, stopped, queues, freed, missed>>

\* SvrAppBase::MainLoop, when Init succeeds: the break flag is cleared here too.
Run ==
  /\ mpc = "init" /\ todo = <<>>
  /\ mpc' = "loop" /\ mbreak' = FALSE
  /\ missed' = IF mbreak THEN missed \cup {"main"} ELSE missed
  /\ UNCHANGED <<mto, handler, workers, queues, freed>>

Idle == mpc = "loop" /\ todo = <<>>

\* A message of an Input queue
Handle(i) ==
  /\ Idle /\ inp[i] > 0 /\ i \notin inClosed
  /\ inp' = [inp EXCEPT ![i] = @ - 1]
  /\ UNCHANGED <<main, handler, workers, acc, out, inClosed, ownClosed, freed, missed>>

CloseInput(i) ==
  /\ Idle /\ i \in stopped \ inClosed
  /\ inClosed' = inClosed \cup {i}
  /\ UNCHANGED <<main, handler, workers, inp, acc, out, ownClosed, freed, missed>>

\* A handler or a timer sends.
SendMsg(i) ==
  /\ Idle
  /\ mpc' = "push" /\ mto' = i
  /\ UNCHANGED <<mbreak, handler, workers, queues, freed, missed>>

\* The ring has taken the message: its mutex makes this one step for the consumer, while the
\* handler can come before it, or after it, with the mutex held (MayHold).
MainPush ==
  /\ mpc = "push" /\ todo = <<>> /\ Len(out[mto]) < Cap
  /\ out' = [out EXCEPT ![mto] = Append(@, "MSG")]
  /\ mpc' = "pushed"
  /\ UNCHANGED <<mto, mbreak, handler, workers, inp, acc, inClosed, ownClosed, freed, missed>>

\* The mutex is unlocked, the byte written, and the handler or timer that sent returns.
PushReturns ==
  /\ mpc = "pushed" /\ todo = <<>>
  /\ mpc' = "loop"
  /\ UNCHANGED <<mto, mbreak, handler, workers, queues, freed, missed>>

MainLeave ==
  /\ Idle /\ mbreak
  /\ mpc' = "left"
  /\ UNCHANGED <<mto, mbreak, handler, workers, queues, freed, missed>>

(***************************************************************************)
(* LogicThread::Stop                                                       *)
(***************************************************************************)
Do(op, w) == [op |-> op, to |-> w]
Each(op, ws) == [k \in 1 .. Len(ws) |-> Do(op, ws[k])]

ToldThreads == (IF wpc[Listen] = "none" THEN <<>> ELSE <<Listen>>) \o IoThreads

\* The messages are trusted to stop the threads.
StopTasks_ByMessage ==
  <<Do("log", "main")>> \o Each("exit", ToldThreads) \o <<Do("break", "main")>>

\* The listen thread is told only if it has been started.
StopTasks ==
  <<Do("log", "main")>> \o Each("exit", ToldThreads) \o Each("stop", ToldThreads) \o <<Do("break", "main")>>

\* The locks the main thread may hold where it is: PushLog takes that of the log everywhere, Push
\* and SerPop those of the rings.
MayHold ==
  {NoLock, LogLock}
    \cup (IF mpc \in {"push", "pushed"} THEN {Lock("out", mto)} ELSE {})
    \cup (IF mpc = "loop" THEN {Lock("inp", i) : i \in Ios \ inClosed} ELSE {})

\* The signal comes at any instruction of the main thread.
Signal ==
  /\ ~signalled /\ mpc \in {"wait", "init", "loop", "push", "pushed"}
  /\ signalled' = TRUE /\ todo' = StopTasks /\ held' \in MayHold
  /\ UNCHANGED <<main, workers, queues, freed, missed>>

\* SvrAppBase::MainLoop, when Init fails: Stop is called without a signal and the loop is not run.
InitFails ==
  /\ ~signalled /\ mpc = "init"
  /\ signalled' = TRUE /\ todo' = StopTasks
  /\ mpc' = "left"
  /\ UNCHANGED <<mto, mbreak, held, workers, queues, freed, missed>>

Doing(op) == todo # <<>> /\ Head(todo).op = op /\ todo' = Tail(todo)

\* _OnStop writes to the log before anything else.
LogStop ==
  /\ Doing("log") /\ held # LogLock
  /\ UNCHANGED <<main, held, signalled, workers, queues, freed, missed>>

\* NET_EXIT goes in whether there is room or not.
PushExit_NoRoom ==
  /\ Doing("exit")
  /\ LET w == Head(todo).to
     IN  out' = [out EXCEPT ![w] = Append(@, "NET_EXIT")]
  /\ UNCHANGED <<main, held, signalled, workers, inp, acc, inClosed, ownClosed, freed, missed>>

\* logic_notify_io_conn_msg and logic_notify_listen_conn_msg wait for room too, and for the mutex.
PushExit ==
  /\ Doing("exit")
  /\ LET w == Head(todo).to
     IN  Len(out[w]) < Cap /\ held # Lock("out", w) /\ out' = [out EXCEPT ![w] = Append(@, "NET_EXIT")]
  /\ UNCHANGED <<main, held, signalled, workers, inp, acc, inClosed, ownClosed, freed, missed>>

StopDirectly ==
  /\ Doing("stop")
  /\ StopThread(Head(todo).to)
  /\ UNCHANGED <<main, held, signalled, wpc, wto, queues, freed, missed>>

\* The handler returns: the main thread goes on and releases what it held.
BreakMain ==
  /\ Doing("break")
  /\ mbreak' = TRUE /\ held' = NoLock
  /\ UNCHANGED <<mpc, mto, signalled, workers, queues, freed, missed>>

(***************************************************************************)
(* ~LogicThread: the IO threads, then the listen thread                    *)
(***************************************************************************)
Order == IoThreads \o <<Listen>>
Joined(w) == wpc[w] \in {"none", "left"} /\ w \in freed

\* EventThread::Fini frees the event base and only then waits for the thread, wherever that is: the
\* sleeps before it are none that every callback is sure to end in.
FreeBase(k) ==
  /\ mpc = "left" /\ todo = <<>>
  /\ \A j \in 1 .. k - 1 : Joined(Order[j])
  /\ Order[k] \notin freed
  /\ freed' = freed \cup {Order[k]}
  /\ UNCHANGED <<main, handler, workers, queues, missed>>

End ==
  /\ mpc = "left" /\ \A w \in Workers : Joined(w)
  /\ mpc' = "ended"
  /\ UNCHANGED <<mto, mbreak, handler, workers, queues, freed, missed>>

\* What a thread does on deleted memory is undefined: it goes on, ends, or ends the process.
UseFreed(w) ==
  /\ Dangling(w) /\ wpc[w] \notin {"none", "left"}
  /\ \/ \E pc \in {"loop", "left"} : wpc' = [wpc EXCEPT ![w] = pc] /\ UNCHANGED mpc
     \/ wpc' = [v \in Workers |-> "left"] /\ mpc' = "ended"
  /\ UNCHANGED <<mto, mbreak, handler, wto, wbreak, stopped, queues, freed, missed>>

WorkerStep(w) ==
  \/ AddInitCount(w) \/ MainLoop(w) \/ WorkerPush(w) \/ TakeAccept(w) \/ TakeOutput(w) \/ Leave(w)

MainStep ==
  \/ StartListen \/ Run \/ MainPush \/ PushReturns \/ MainLeave
  \/ \E i \in Ios : Handle(i)

StopStep == LogStop \/ PushExit \/ StopDirectly \/ BreakMain
EndStep == End \/ \E k \in 1 .. Len(Order) : FreeBase(k)

Next ==
  \/ \E w \in Workers : WorkerStep(w) \/ CloseOwn(w) \/ UseFreed(w) \/ (\E i \in Ios : Event(w, i))
  \/ MainStep \/ (\E i \in Ios : CloseInput(i) \/ SendMsg(i))
  \/ Signal \/ InitFails \/ StopStep \/ EndStep

\* The threads run, and a loop that is to break does so at its next turn.
Fairness ==
  /\ \A w \in Workers : WF_vars(WorkerStep(w)) /\ SF_vars(Leave(w)) /\ SF_vars(WorkerPush(w))
  /\ WF_vars(MainStep) /\ SF_vars(MainLeave)
  /\ WF_vars(StopStep) /\ WF_vars(EndStep)

Spec == Init /\ [][Next]_vars /\ Fairness

(***************************************************************************)
(* Properties                                                              *)
(***************************************************************************)
TypeOK ==
  /\ mpc \in {"wait", "init", "loop", "push", "pushed", "left", "ended"} /\ mto \in Workers
  /\ todo \in Seq([op : {"exit", "stop"}, to : Workers] \cup {Do("log", "main"), Do("break", "main")})
  /\ held \in Locks
  /\ signalled \in BOOLEAN /\ mbreak \in BOOLEAN
  /\ wpc \in [Workers -> {"none", "spawned", "counted", "loop", "push", "left"}]
  /\ wto \in [Workers -> Ios] /\ wbreak \in [Workers -> BOOLEAN] /\ stopped \subseteq Workers
  /\ inp \in [Ios -> 0 .. Cap] /\ acc \in [Ios -> 0 .. Cap]
  /\ out \in [Workers -> Seq({"MSG", "NET_EXIT"})] /\ \A w \in Workers : Len(out[w]) <= Cap
  /\ inClosed \subseteq Ios /\ ownClosed \subseteq Workers
  /\ freed \subseteq Workers /\ missed \subseteq Workers \cup {"main"}

\* No event base is freed under a thread that was not told to stop, however early the signal came:
\* the thread has left, its loop is to break, or lost its break when it was entered too late.
FreedWhenTold == \A w \in freed : wpc[w] \in {"none", "left"} \/ wbreak[w] \/ w \in missed

\* A thread that will never leave its loop: it lost its break, or waits in Push for a consumer
\* that stands still.
Stuck(w) == w \in missed \/ (wpc[w] = "push" /\ ~CanPush(w))

\* The handler waits for a lock that the thread it has interrupted holds.
Relocks ==
  /\ todo # <<>>
  /\ \/ Head(todo).op = "log" /\ held = LogLock
     \/ Head(todo).op = "exit" /\ held = Lock("out", Head(todo).to)

\* The main thread, or the handler on it, waits for room in the queue of a thread that takes
\* nothing out of it: one that has left, or that itself waits in Push.
MainWaits(w) ==
  /\ \/ mpc = "push" /\ mto = w /\ todo = <<>>
     \/ todo # <<>> /\ Head(todo) = Do("exit", w)
  /\ Len(out[w]) = Cap
  /\ wpc[w] = "left" \/ w \in ownClosed \/ Stuck(w)

\* The main thread waits for the end of a thread that is stuck, or whose base it freed before the
\* thread had done what the break asked of it.
JoinWaits(w) == w \in freed /\ wpc[w] \notin {"none", "left"} /\ (wbreak[w] \/ Stuck(w))

Hangs == "main" \in missed \/ Relocks \/ \E w \in Workers : MainWaits(w) \/ JoinWaits(w)

\* A stop ends the process, or leaves it hanging for good in one of four ways: the main thread lost
\* its break, the handler waits for a lock of the thread it interrupted, the main thread waits for
\* room in a queue nobody empties, or for the end of a thread that is stuck or lost its base early.
StopEnds == signalled ~> (mpc = "ended" \/ []Hangs)
=============================================================================
