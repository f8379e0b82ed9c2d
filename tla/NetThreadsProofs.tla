--------------------------- MODULE NetThreadsProofs ---------------------------
(***************************************************************************)
(* Proofs about NetThreads, for any number of IO threads and queues of any *)
(* length.                                                                 *)
(***************************************************************************)
EXTENDS NetThreads, SeqFacts

Tasks == [op : {"exit", "stop"}, to : Workers] \cup {Do("log", "main"), Do("break", "main")}
Notes == {"MSG", "NET_EXIT"}
MainPcs == {"wait", "init", "loop", "push", "pushed", "left", "ended"}
WorkerPcs == {"none", "spawned", "counted", "loop", "push", "left"}

---------------------------------------------------------------------------
(* Types *)

LEMMA Places == Cap \in Nat /\ 0 < Cap
  BY ThreadsAssumption

LEMMA Threads ==
  /\ IoThreads \in Seq(Ios) /\ IoThreads # <<>> /\ Head(IoThreads) \in Ios
  /\ Workers = Ios \cup {Listen} /\ Listen \notin Ios /\ Listen \in Workers /\ Ios \subseteq Workers
  /\ \A i \in Ios : \E k \in 1 .. Len(IoThreads) : IoThreads[k] = i
  /\ Cap \in Nat \ {0} /\ 0 \in 0 .. Cap
<1>1. IoThreads \in Seq(Ios) /\ IoThreads # <<>> /\ Cap \in Nat \ {0} /\ Listen \notin Ios
  BY ThreadsAssumption
<1>2. Head(IoThreads) \in Ios
  BY <1>1, TailPlaces
<1>3. DOMAIN IoThreads = 1 .. Len(IoThreads)
  BY <1>1
<1>4. \A i \in Ios : \E k \in 1 .. Len(IoThreads) : IoThreads[k] = i
  BY <1>3 DEF Ios, ToSet
<1>5. 0 \in 0 .. Cap
  BY <1>1
<1>6. QED BY <1>1, <1>2, <1>4, <1>5 DEF Workers

LEMMA TaskShape ==
  ASSUME NEW t \in Tasks, t.op \in {"exit", "stop"}
  PROVE  t.to \in Workers
BY DEF Tasks, Do

\* LogicThread::Stop has a task for every thread it tells, and breaks its own loop last.
LEMMA StopTasksShape ==
  /\ StopTasks \in Seq(Tasks)
  /\ wpc[Listen] # "none" =>
       \A w \in Workers : \E k \in 1 .. Len(StopTasks) : StopTasks[k] = Do("stop", w)
<1> DEFINE told == ToldThreads
<1>1. told \in Seq(Workers) /\ IoThreads \in Seq(Workers)
  <2>1. IoThreads \in Seq(Workers) /\ Listen \in Workers
    BY Threads
  <2>2. CASE wpc[Listen] = "none"
    BY <2>1, <2>2 DEF ToldThreads
  <2>3. CASE wpc[Listen] # "none"
    <3>1. told = <<Listen>> \o IoThreads /\ <<Listen>> \in Seq(Workers)
      BY <2>1, <2>3 DEF ToldThreads
    <3>2. QED BY <2>1, <3>1
  <2>4. QED BY <2>2, <2>3
<1> PICK t \in Seq(Workers) : t = told
  BY <1>1, Zenon
<1>2. Len(t) \in Nat /\ \A k \in 1 .. Len(t) : t[k] \in Workers
  OBVIOUS
<1>3. \A w \in Workers : Do("exit", w) \in Tasks /\ Do("stop", w) \in Tasks
  BY DEF Do, Tasks
<1>4. Each("exit", t) \in Seq(Tasks) /\ Each("stop", t) \in Seq(Tasks)
  BY <1>2, <1>3 DEF Each
<1> PICK x \in Seq(Tasks) : x = Each("exit", t)
  BY <1>4, Zenon
<1> PICK g \in Seq(Tasks) : g = <<Do("log", "main")>>
  <2>1. Do("log", "main") \in Tasks
    BY DEF Tasks
  <2>2. <<Do("log", "main")>> \in Seq(Tasks)
    BY <2>1
  <2>3. QED BY <2>2, Zenon
<1>16. g \o x \in Seq(Tasks)
  BY ONLY g \in Seq(Tasks), x \in Seq(Tasks), ConcatPlaces
<1> PICK e \in Seq(Tasks) : e = g \o x
  BY <1>16, Zenon
<1> PICK s \in Seq(Tasks) : s = Each("stop", t)
  BY <1>4, Zenon
<1>5. <<Do("break", "main")>> \in Seq(Tasks)
  <2>1. Do("break", "main") \in Tasks
    BY DEF Tasks
  <2>2. QED BY <2>1
<1> PICK b \in Seq(Tasks) : b = <<Do("break", "main")>>
  BY <1>5, Zenon
<1>6. StopTasks = (e \o s) \o b
  BY DEF StopTasks
<1>7. e \o s \in Seq(Tasks)
  BY ONLY e \in Seq(Tasks), s \in Seq(Tasks), ConcatPlaces
<1> PICK u \in Seq(Tasks) : u = e \o s
  BY <1>7, Zenon
<1>8. u \o b \in Seq(Tasks)
  BY ONLY u \in Seq(Tasks), b \in Seq(Tasks), ConcatPlaces
<1> PICK v \in Seq(Tasks) : v = u \o b
  BY <1>8, Zenon
<1>9. /\ Len(e) \in Nat /\ Len(s) \in Nat /\ Len(u) = Len(e) + Len(s)
      /\ \A k \in 1 .. Len(s) : u[Len(e) + k] = s[k]
  BY ONLY e \in Seq(Tasks), s \in Seq(Tasks), u = e \o s, ConcatPlaces
<1>10. /\ Len(u) \in Nat /\ Len(b) \in Nat /\ Len(v) = Len(u) + Len(b)
       /\ \A k \in 1 .. Len(u) : v[k] = u[k]
  BY ONLY u \in Seq(Tasks), b \in Seq(Tasks), v = u \o b, ConcatPlaces
<1>11. Len(s) = Len(t) /\ \A k \in 1 .. Len(t) : s[k] = Do("stop", t[k])
  BY <1>2 DEF Each
<1>12. ASSUME NEW w \in Workers, NEW k \in 1 .. Len(t), t[k] = w
       PROVE  \E j \in 1 .. Len(v) : v[j] = Do("stop", w)
  <2>1. Len(e) + k \in 1 .. Len(u) /\ Len(e) + k \in 1 .. Len(v) /\ k \in 1 .. Len(s)
    BY <1>2, <1>9, <1>10, <1>11
  <2>2. v[Len(e) + k] = Do("stop", w)
    <3>1. v[Len(e) + k] = u[Len(e) + k]
      BY <1>10, <2>1, Zenon
    <3>2. u[Len(e) + k] = s[k]
      BY <1>9, <2>1, Zenon
    <3>3. s[k] = Do("stop", w)
      BY <1>11, <1>12, Zenon
    <3>4. QED BY <3>1, <3>2, <3>3, Zenon
  <2>3. QED BY <2>1, <2>2, Zenon
<1>13. ASSUME wpc[Listen] # "none", NEW w \in Workers
       PROVE  \E k \in 1 .. Len(t) : t[k] = w
  <2> PICK l \in Seq(Workers) : l = <<Listen>>
    <3>1. <<Listen>> \in Seq(Workers)
      BY Threads
    <3>2. QED BY <3>1, Zenon
  <2>1. Len(l) = 1 /\ l[1] = Listen
    OBVIOUS
  <2>2. t = l \o IoThreads
    BY <1>13 DEF ToldThreads
  <2> PICK a \in Seq(Workers) : a = IoThreads
    BY <1>1, Zenon
  <2>7. t = l \o a
    BY <2>2
  <2>8. /\ Len(l) \in Nat /\ Len(a) \in Nat /\ Len(t) = Len(l) + Len(a)
        /\ \A k \in 1 .. Len(l) : t[k] = l[k]
        /\ \A k \in 1 .. Len(a) : t[Len(l) + k] = a[k]
    BY ONLY l \in Seq(Workers), a \in Seq(Workers), t = l \o a, <2>7, ConcatPlaces
  <2>3. /\ Len(l) \in Nat /\ Len(IoThreads) \in Nat /\ Len(t) = Len(l) + Len(IoThreads)
        /\ \A k \in 1 .. Len(l) : t[k] = l[k]
        /\ \A k \in 1 .. Len(IoThreads) : t[Len(l) + k] = IoThreads[k]
    BY <2>8, Zenon
  <2>4. CASE w = Listen
    <3>1. 1 \in 1 .. Len(t) /\ t[1] = w
      BY <2>1, <2>3, <2>4
    <3>2. QED BY <3>1
  <2>5. CASE w \in Ios
    <3>1. PICK k \in 1 .. Len(IoThreads) : IoThreads[k] = w
      BY <2>5, Threads
    <3>2. Len(l) + k \in 1 .. Len(t) /\ t[Len(l) + k] = w
      BY <2>1, <2>3, <3>1
    <3>3. QED BY <3>2
  <2>6. QED BY <2>4, <2>5, Threads
<1>14. StopTasks = v
  BY <1>6
<1>15. QED BY <1>12, <1>13, <1>14, Zenon

LEMMA TypeInit == Init => TypeOK
<1> SUFFICES ASSUME Init PROVE TypeOK
  OBVIOUS
<1>1. /\ wpc \in [Workers -> WorkerPcs] /\ wto \in [Workers -> Ios]
      /\ wbreak \in [Workers -> BOOLEAN] /\ out \in [Workers -> Seq(Notes)]
      /\ mto \in Workers
  BY Threads DEF Init, WorkerPcs
<1>2. \A w \in Workers : Len(out[w]) <= Cap
  BY Threads DEF Init
<1>3. inp \in [Ios -> 0 .. Cap] /\ acc \in [Ios -> 0 .. Cap] /\ todo \in Seq(Tasks)
  BY Threads DEF Init
<1>4. held \in Locks
  BY Threads DEF Init, Locks, NoLock, Lock
<1>5. QED BY <1>1, <1>2, <1>3, <1>4 DEF Init, TypeOK, WorkerPcs, Notes, Tasks

\* Stop marks the thread and lets its loop break.
LEMMA StopTypes ==
  ASSUME TypeOK, NEW w \in Workers, StopThread(w)
  PROVE  stopped' \subseteq Workers /\ wbreak' \in [Workers -> BOOLEAN]
BY DEF TypeOK, StopThread

\* The queue of a thread with one more note.
LEMMA OutTypes ==
  ASSUME TypeOK, NEW w \in Workers, NEW m \in Notes, Len(out[w]) < Cap,
         out' = [out EXCEPT ![w] = Append(@, m)]
  PROVE  out' \in [Workers -> Seq(Notes)] /\ \A v \in Workers : Len(out'[v]) <= Cap
<1>1. out \in [Workers -> Seq(Notes)] /\ \A v \in Workers : Len(out[v]) <= Cap
  BY DEF TypeOK, Notes
<1>2. PICK q \in Seq(Notes) : q = out[w]
  BY <1>1
<1>3. Append(q, m) \in Seq(Notes) /\ Len(q) \in Nat /\ Len(Append(q, m)) = Len(q) + 1
  BY AppendPlaces
<1>4. out' = [out EXCEPT ![w] = Append(q, m)]
  BY <1>2
<1>5. Len(Append(q, m)) <= Cap
  BY <1>2, <1>3, Threads
<1>6. out' \in [Workers -> Seq(Notes)]
  BY <1>1, <1>3, <1>4
<1>7. ASSUME NEW v \in Workers PROVE Len(out'[v]) <= Cap
  <2>1. CASE v = w
    <3>1. out'[v] = Append(q, m)
      BY <1>1, <1>4, <2>1
    <3>2. QED BY <1>5, <3>1
  <2>2. CASE v # w
    <3>1. out'[v] = out[v]
      BY <1>1, <1>4, <2>2
    <3>2. QED BY <1>1, <3>1
  <2>3. QED BY <2>1, <2>2
<1>8. QED BY <1>6, <1>7

LEMMA TypeWorker == ASSUME TypeOK, NEW w \in Workers, WorkerStep(w) PROVE TypeOK'
<1>a. /\ wpc \in [Workers -> WorkerPcs] /\ wto \in [Workers -> Ios] /\ wbreak \in [Workers -> BOOLEAN]
      /\ inp \in [Ios -> 0 .. Cap] /\ acc \in [Ios -> 0 .. Cap]
  BY DEF TypeOK, WorkerPcs
<1>1. CASE AddInitCount(w)
  <2>1. wpc' \in [Workers -> WorkerPcs]
    BY <1>1, <1>a DEF AddInitCount, WorkerPcs
  <2>2. QED BY <1>1, <2>1 DEF AddInitCount, main, handler, queues, TypeOK, WorkerPcs
<1>2. CASE MainLoop(w)
  <2>1. wpc' \in [Workers -> WorkerPcs] /\ wbreak' \in [Workers -> BOOLEAN]
    BY <1>2, <1>a DEF MainLoop, WorkerPcs
  <2>2. missed' \subseteq Workers \cup {"main"}
    BY <1>2 DEF MainLoop, TypeOK
  <2>3. QED BY <1>2, <2>1, <2>2 DEF MainLoop, main, handler, queues, TypeOK, WorkerPcs
<1>3. CASE WorkerPush(w)
  <2>1. wpc' \in [Workers -> WorkerPcs]
    BY <1>3, <1>a DEF WorkerPush, WorkerPcs
  <2> PICK i \in Ios : i = wto[w]
    BY <1>a
  <2>2. inp' \in [Ios -> 0 .. Cap] /\ acc' \in [Ios -> 0 .. Cap]
    <3>1. inp[i] \in 0 .. Cap /\ acc[i] \in 0 .. Cap
      BY <1>a
    <3>2. CASE w = Listen
      <4>1. acc[i] < Cap /\ acc' = [acc EXCEPT ![i] = @ + 1] /\ inp' = inp
        BY <1>3, <3>2 DEF WorkerPush, CanPush
      <4>2. acc[i] + 1 \in 0 .. Cap
        BY <3>1, <4>1, Places
      <4>3. QED BY <1>a, <4>1, <4>2
    <3>3. CASE w # Listen
      <4>1. inp[i] < Cap /\ inp' = [inp EXCEPT ![i] = @ + 1] /\ acc' = acc
        BY <1>3, <3>3 DEF WorkerPush, CanPush
      <4>2. inp[i] + 1 \in 0 .. Cap
        BY <3>1, <4>1, Places
      <4>3. QED BY <1>a, <4>1, <4>2
    <3>4. QED BY <3>2, <3>3
  <2>3. QED BY <1>3, <2>1, <2>2 DEF WorkerPush, main, handler, TypeOK, WorkerPcs
<1>4. CASE TakeAccept(w)
  <2>1. wpc' \in [Workers -> WorkerPcs] /\ w \in Ios
    BY <1>4, <1>a DEF TakeAccept, WorkerPcs
  <2>2. PICK n \in 0 .. Cap : n = acc[w]
    BY <1>a, <2>1
  <2>3. acc' \in [Ios -> 0 .. Cap]
    <3>1. n > 0 /\ acc' = [acc EXCEPT ![w] = n - 1]
      BY <1>4, <2>2 DEF TakeAccept
    <3>2. n - 1 \in 0 .. Cap
      BY <3>1, Places
    <3>3. QED BY <1>a, <2>1, <3>1, <3>2
  <2>4. QED BY <1>4, <2>1, <2>3 DEF TakeAccept, main, handler, TypeOK, WorkerPcs
<1>5. CASE TakeOutput(w)
  <2>1. stopped' \subseteq Workers /\ wbreak' \in [Workers -> BOOLEAN]
    <3>1. CASE Head(out[w]) = "NET_EXIT"
      BY <1>5, <3>1, StopTypes DEF TakeOutput
    <3>2. CASE Head(out[w]) # "NET_EXIT"
      BY <1>5, <3>2 DEF TakeOutput, TypeOK
    <3>3. QED BY <3>1, <3>2
  <2>2. out \in [Workers -> Seq(Notes)] /\ \A v \in Workers : Len(out[v]) <= Cap
    BY DEF TypeOK, Notes
  <2>3. PICK q \in Seq(Notes) : q = out[w]
    BY <2>2
  <2>4. q # <<>> /\ out' = [out EXCEPT ![w] = Tail(q)]
    BY <1>5, <2>3 DEF TakeOutput
  <2>5. Tail(q) \in Seq(Notes) /\ Len(q) \in Nat /\ Len(Tail(q)) = Len(q) - 1
    BY <2>4, TailPlaces
  <2>6. Len(Tail(q)) <= Cap
    <3>1. Len(q) <= Cap
      BY <2>2, <2>3
    <3>2. QED BY <2>5, <3>1, Places
  <2>7. out' \in [Workers -> Seq(Notes)]
    BY <2>2, <2>4, <2>5
  <2>8. ASSUME NEW v \in Workers PROVE Len(out'[v]) <= Cap
    <3>1. out'[v] = IF v = w THEN Tail(q) ELSE out[v]
      BY <2>2, <2>4
    <3>2. QED BY <2>2, <2>6, <3>1
  <2>9. QED BY <1>5, <2>1, <2>7, <2>8 DEF TakeOutput, main, handler, TypeOK, Notes
<1>6. CASE Leave(w)
  <2>1. wpc' \in [Workers -> WorkerPcs]
    BY <1>6, <1>a DEF Leave, WorkerPcs
  <2>2. QED BY <1>6, <2>1 DEF Leave, main, handler, queues, TypeOK, WorkerPcs
<1>7. QED BY <1>1, <1>2, <1>3, <1>4, <1>5, <1>6 DEF WorkerStep

LEMMA TypeMain == ASSUME TypeOK, MainStep PROVE TypeOK'
<1>1. CASE StartListen
  <2>1. wpc' \in [Workers -> WorkerPcs]
    BY <1>1, Threads DEF StartListen, TypeOK, WorkerPcs
  <2>2. QED BY <1>1, <2>1 DEF StartListen, handler, queues, TypeOK, WorkerPcs
<1>2. CASE Run
  <2>1. missed' \subseteq Workers \cup {"main"}
    BY <1>2 DEF Run, TypeOK
  <2>2. QED BY <1>2, <2>1 DEF Run, handler, workers, queues, TypeOK
<1>3. CASE MainPush
  <2>1. "MSG" \in Notes /\ mto \in Workers
    BY DEF Notes, TypeOK
  <2>2. out' \in [Workers -> Seq(Notes)] /\ \A v \in Workers : Len(out'[v]) <= Cap
    BY <1>3, <2>1, OutTypes DEF MainPush
  <2>3. QED BY <1>3, <2>2 DEF MainPush, handler, workers, TypeOK, Notes
<1>4. CASE MainLeave \/ PushReturns
  BY <1>4 DEF MainLeave, PushReturns, handler, workers, queues, TypeOK
<1>5. ASSUME NEW i \in Ios, Handle(i) PROVE TypeOK'
  <2>1. inp \in [Ios -> 0 .. Cap]
    BY DEF TypeOK
  <2>2. PICK n \in 0 .. Cap : n = inp[i]
    BY <2>1
  <2>3. inp' \in [Ios -> 0 .. Cap]
    <3>1. n > 0 /\ inp' = [inp EXCEPT ![i] = n - 1]
      BY <1>5, <2>2 DEF Handle
    <3>2. n - 1 \in 0 .. Cap
      BY <3>1, Places
    <3>3. QED BY <2>1, <3>1, <3>2
  <2>4. QED BY <1>5, <2>3 DEF Handle, main, handler, workers, TypeOK
<1>6. QED BY <1>1, <1>2, <1>3, <1>4, <1>5 DEF MainStep

LEMMA TypeStop == ASSUME TypeOK, Signal \/ InitFails \/ StopStep \/ EndStep PROVE TypeOK'
<1>a. todo \in Seq(Tasks)
  BY DEF TypeOK, Tasks
<1>1. CASE Signal
  <2>1. todo' \in Seq(Tasks)
    BY <1>1, StopTasksShape DEF Signal
  <2>3. held' \in Locks
    <3>3. \A w \in Workers : \A kind \in {"none", "log", "out", "inp"} : Lock(kind, w) \in Locks
      BY DEF Locks, Lock
    <3>4. mto \in Workers /\ Listen \in Workers /\ Ios \subseteq Workers
      BY Threads DEF TypeOK
    <3>1. MayHold \subseteq Locks
      BY <3>3, <3>4 DEF MayHold, NoLock, LogLock
    <3>2. QED BY <1>1, <3>1 DEF Signal
  <2>2. QED BY <1>1, <2>1, <2>3 DEF Signal, main, workers, queues, TypeOK, Tasks
<1>2. CASE InitFails
  <2>1. todo' \in Seq(Tasks)
    BY <1>2, StopTasksShape DEF InitFails
  <2>2. QED BY <1>2, <2>1 DEF InitFails, workers, queues, TypeOK, Tasks
<1>3. ASSUME todo # <<>> PROVE Tail(todo) \in Seq(Tasks) /\ Head(todo) \in Tasks
  BY <1>3, <1>a, TailPlaces
<1>4. CASE PushExit
  <2>1. /\ todo # <<>> /\ Head(todo).op = "exit" /\ todo' = Tail(todo)
        /\ Len(out[Head(todo).to]) < Cap
        /\ out' = [out EXCEPT ![Head(todo).to] = Append(@, "NET_EXIT")]
    BY <1>4 DEF PushExit, Doing
  <2>2. Head(todo).to \in Workers /\ "NET_EXIT" \in Notes
    BY <1>3, <2>1, TaskShape DEF Notes
  <2>3. out' \in [Workers -> Seq(Notes)] /\ \A v \in Workers : Len(out'[v]) <= Cap
    BY <2>1, <2>2, OutTypes
  <2>4. todo' \in Seq(Tasks)
    BY <1>3, <2>1
  <2>5. QED BY <1>4, <2>3, <2>4 DEF PushExit, main, workers, TypeOK, Tasks, Notes
<1>5. CASE StopDirectly
  <2>1. todo # <<>> /\ Head(todo).op = "stop" /\ todo' = Tail(todo) /\ StopThread(Head(todo).to)
    BY <1>5 DEF StopDirectly, Doing
  <2>2. Head(todo).to \in Workers /\ todo' \in Seq(Tasks)
    BY <1>3, <2>1, TaskShape
  <2>3. stopped' \subseteq Workers /\ wbreak' \in [Workers -> BOOLEAN]
    BY <2>1, <2>2, StopTypes
  <2>4. QED BY <1>5, <2>2, <2>3 DEF StopDirectly, main, queues, TypeOK, Tasks
<1>6. CASE BreakMain
  <2>1. todo' \in Seq(Tasks)
    BY <1>3, <1>6 DEF BreakMain, Doing
  <2>3. held' \in Locks
    BY <1>6, Threads DEF BreakMain, Locks, NoLock, Lock
  <2>2. QED BY <1>6, <2>1, <2>3 DEF BreakMain, workers, queues, TypeOK, Tasks
<1>7. CASE End
  BY <1>7 DEF End, handler, workers, queues, TypeOK
<1>8. ASSUME NEW k \in 1 .. Len(Order), FreeBase(k) PROVE TypeOK'
  <2>1. Order \in Seq(Workers)
    BY Threads DEF Order
  <2>2. Order[k] \in Workers
    BY <2>1, ElementOfSeq, Zenon
  <2>3. freed' \subseteq Workers
    BY <1>8, <2>2 DEF FreeBase, TypeOK
  <2>4. QED BY <1>8, <2>3 DEF FreeBase, main, handler, workers, queues, TypeOK
<1>9. CASE LogStop
  <2>1. todo' \in Seq(Tasks)
    BY <1>3, <1>9 DEF LogStop, Doing
  <2>2. QED BY <1>9, <2>1 DEF LogStop, main, workers, queues, TypeOK, Tasks
<1>10. QED BY <1>1, <1>2, <1>4, <1>5, <1>6, <1>7, <1>8, <1>9 DEF StopStep, EndStep

LEMMA TypeNext == TypeOK /\ [Next]_vars => TypeOK'
<1> SUFFICES ASSUME TypeOK, [Next]_vars PROVE TypeOK'
  OBVIOUS
<1>1. ASSUME NEW w \in Workers, CloseOwn(w) PROVE TypeOK'
  BY <1>1 DEF CloseOwn, main, handler, workers, TypeOK
<1>2. ASSUME NEW w \in Workers, NEW i \in Ios, Event(w, i) PROVE TypeOK'
  <2>1. wpc' \in [Workers -> WorkerPcs] /\ wto' \in [Workers -> Ios]
    BY <1>2 DEF Event, TypeOK, WorkerPcs
  <2>2. QED BY <1>2, <2>1 DEF Event, main, handler, queues, TypeOK, WorkerPcs
<1>3. ASSUME NEW i \in Ios, CloseInput(i) PROVE TypeOK'
  BY <1>3 DEF CloseInput, main, handler, workers, TypeOK
<1>4. ASSUME NEW i \in Ios, SendMsg(i) PROVE TypeOK'
  BY <1>4, Threads DEF SendMsg, handler, workers, queues, TypeOK
<1>5. ASSUME NEW w \in Workers, UseFreed(w) PROVE TypeOK'
  <2>1. wpc' \in [Workers -> WorkerPcs] /\ mpc' \in MainPcs
    <3>1. wpc \in [Workers -> WorkerPcs] /\ mpc \in MainPcs
      BY DEF TypeOK, WorkerPcs, MainPcs
    <3>2. ASSUME NEW pc \in {"loop", "left"}, wpc' = [wpc EXCEPT ![w] = pc]
          PROVE  wpc' \in [Workers -> WorkerPcs]
      BY <3>1, <3>2 DEF WorkerPcs
    <3>3. CASE wpc' = [v \in Workers |-> "left"] /\ mpc' = "ended"
      BY <3>3 DEF WorkerPcs, MainPcs
    <3>4. QED BY <1>5, <3>1, <3>2, <3>3 DEF UseFreed
  <2>2. QED BY <1>5, <2>1 DEF UseFreed, handler, queues, TypeOK, WorkerPcs, MainPcs
<1>6. CASE UNCHANGED vars
  BY <1>6 DEF vars, main, handler, workers, queues, TypeOK
<1>7. QED BY <1>1, <1>2, <1>3, <1>4, <1>5, <1>6, TypeWorker, TypeMain, TypeStop DEF Next

\* The variables keep their types: no queue is longer than Cap, whoever pushes to it.
THEOREM TypeCorrect == Spec => []TypeOK
  BY TypeInit, TypeNext, PTL DEF Spec

---------------------------------------------------------------------------
(* The order of the end: every thread is told, then the bases are freed *)

Asked(w) == \E k \in 1 .. Len(todo) : todo[k] = Do("stop", w)

\* Every thread is stopped, or the signal handler has still to do it.
Told == \A w \in Workers : w \in stopped \/ Asked(w)

\* The main thread leaves its loop only when every thread was told to stop: a signal that comes
\* before the listen thread is started does not tell it, but then the break is lost too.
ToldInv ==
  /\ mpc = "wait" <=> wpc[Listen] = "none"
  /\ mpc \in {"left", "ended"} => Told
  /\ mpc \in {"loop", "push", "pushed"} /\ (mbreak \/ todo # <<>>) => Told

\* A thread that was stopped has its break flag, or lost it.
BreakInv == \A w \in stopped : wbreak[w] \/ w \in missed

\* The bases are freed when the handler has done all it had to do.
FreedInv == freed # {} => mpc \in {"left", "ended"} /\ todo = <<>> /\ freed \subseteq stopped

LEMMA ToldByTasks ==
  ASSUME wpc[Listen] # "none", todo' = StopTasks
  PROVE  \A w \in Workers : Asked(w)'
<1>1. \A w \in Workers : \E k \in 1 .. Len(StopTasks) : StopTasks[k] = Do("stop", w)
  BY StopTasksShape
<1>2. QED BY <1>1 DEF Asked

\* A task that is done is no stop of another thread.
LEMMA TaskDone ==
  ASSUME TypeOK, todo # <<>>, todo' = Tail(todo), NEW w \in Workers, Asked(w)
  PROVE  Asked(w)' \/ Head(todo) = Do("stop", w)
<1>1. todo \in Seq(Tasks)
  BY DEF TypeOK, Tasks
<1>2. PICK k \in 1 .. Len(todo) : todo[k] = Do("stop", w)
  BY DEF Asked
<1>3. /\ Len(todo) \in Nat \ {0} /\ Len(Tail(todo)) = Len(todo) - 1 /\ Head(todo) = todo[1]
      /\ \A j \in 1 .. Len(todo) - 1 : Tail(todo)[j] = todo[j + 1]
  BY <1>1, TailPlaces
<1>4. CASE k = 1
  BY <1>2, <1>3, <1>4
<1>5. CASE k # 1
  <2>1. k - 1 \in 1 .. Len(Tail(todo)) /\ k - 1 \in 1 .. Len(todo) - 1 /\ (k - 1) + 1 = k
    BY <1>3, <1>5
  <2>2. Tail(todo)[k - 1] = Do("stop", w)
    BY <1>2, <1>3, <2>1
  <2>3. QED BY <2>1, <2>2 DEF Asked
<1>6. QED BY <1>4, <1>5

\* While the handler does its tasks every thread stays told.
LEMMA ToldStays ==
  ASSUME TypeOK, Told, LogStop \/ PushExit \/ StopDirectly \/ BreakMain
  PROVE  Told'
<1>1. todo # <<>> /\ todo' = Tail(todo)
  BY DEF LogStop, PushExit, StopDirectly, BreakMain, Doing
<1>2. stopped \subseteq stopped'
  BY DEF LogStop, PushExit, StopDirectly, BreakMain, workers, StopThread
<1>3. ASSUME NEW w \in Workers, Head(todo) = Do("stop", w) PROVE w \in stopped'
  <2>1. Head(todo).op = "stop" /\ Head(todo).to = w
    BY <1>3 DEF Do
  <2>2. StopDirectly
    BY <2>1 DEF LogStop, PushExit, BreakMain, Doing
  <2>3. QED BY <2>1, <2>2 DEF StopDirectly, StopThread
<1>4. QED BY <1>1, <1>2, <1>3, TaskDone DEF Told

LEMMA StopBreaks ==
  ASSUME TypeOK, BreakInv, NEW w \in Workers, StopThread(w), missed' = missed
  PROVE  BreakInv'
<1>1. wbreak \in [Workers -> BOOLEAN] /\ stopped \subseteq Workers
  BY DEF TypeOK
<1>2. QED BY <1>1 DEF BreakInv, StopThread

LEMMA ThreadInit == Init => ToldInv /\ BreakInv /\ FreedInv
<1> SUFFICES ASSUME Init PROVE ToldInv /\ BreakInv /\ FreedInv
  OBVIOUS
<1>1. mpc = "wait" /\ wpc[Listen] = "none" /\ stopped = {} /\ freed = {}
  BY Threads DEF Init
<1>2. QED BY <1>1 DEF ToldInv, BreakInv, FreedInv

LEMMA ToldNext == TypeOK /\ ToldInv /\ FreedInv /\ [Next]_vars => ToldInv'
<1> SUFFICES ASSUME TypeOK, ToldInv, FreedInv, [Next]_vars PROVE ToldInv'
  OBVIOUS
<1>a. wpc \in [Workers -> WorkerPcs] /\ Listen \in Workers
  BY Threads DEF TypeOK, WorkerPcs
<1>1. ASSUME mpc' = mpc, mbreak' = mbreak, todo' = todo, stopped \subseteq stopped',
             wpc[Listen] = "none" <=> wpc'[Listen] = "none"
      PROVE  ToldInv'
  <2>1. Told => Told'
    BY <1>1 DEF Told, Asked
  <2>2. QED BY <1>1, <2>1 DEF ToldInv
<1>2. ASSUME NEW w \in Workers, WorkerStep(w) \/ CloseOwn(w) \/ \E i \in Ios : Event(w, i) PROVE ToldInv'
  <2>1. mpc' = mpc /\ mbreak' = mbreak /\ todo' = todo /\ stopped \subseteq stopped'
    BY <1>2 DEF WorkerStep, AddInitCount, MainLoop, WorkerPush, TakeAccept, TakeOutput, Leave,
                CloseOwn, Event, StopThread, main, handler, workers
  <2>2. wpc' = wpc \/ \E p \in WorkerPcs \ {"none"} : wpc[w] # "none" /\ wpc' = [wpc EXCEPT ![w] = p]
    <3>1. CASE AddInitCount(w) \/ MainLoop(w)
      BY <3>1 DEF AddInitCount, MainLoop, WorkerPcs
    <3>2. CASE WorkerPush(w) \/ TakeAccept(w) \/ Leave(w)
      BY <3>2 DEF WorkerPush, TakeAccept, Leave, Looping, WorkerPcs
    <3>3. CASE TakeOutput(w) \/ CloseOwn(w)
      BY <3>3 DEF TakeOutput, CloseOwn, workers
    <3>4. CASE \E i \in Ios : Event(w, i)
      BY <3>4 DEF Event, Looping, WorkerPcs
    <3>5. QED BY <1>2, <3>1, <3>2, <3>3, <3>4 DEF WorkerStep
  <2>3. wpc[Listen] = "none" <=> wpc'[Listen] = "none"
    BY <1>a, <2>2
  <2>4. QED BY <1>1, <2>1, <2>3
<1>3. CASE StartListen
  <2>1. mpc' = "init" /\ wpc'[Listen] = "spawned"
    BY <1>3, <1>a DEF StartListen
  <2>2. QED BY <2>1 DEF ToldInv
<1>4. CASE Run
  BY <1>4 DEF Run, workers, handler, ToldInv
<1>5. CASE MainPush \/ PushReturns \/ (\E i \in Ios : Handle(i) \/ CloseInput(i) \/ SendMsg(i))
  <2>1. /\ mbreak' = mbreak /\ todo' = todo /\ stopped' = stopped /\ wpc' = wpc
        /\ mpc \in {"loop", "push", "pushed"} /\ mpc' \in {"loop", "push", "pushed"}
    BY <1>5 DEF MainPush, PushReturns, Handle, CloseInput, SendMsg, Idle, main, handler, workers
  <2>2. Told => Told'
    BY <2>1 DEF Told, Asked
  <2>3. QED BY <2>1, <2>2 DEF ToldInv
<1>6. CASE MainLeave
  <2>1. mpc = "loop" /\ mbreak /\ mpc' = "left" /\ todo' = todo /\ stopped' = stopped /\ wpc' = wpc
    BY <1>6 DEF MainLeave, Idle, handler, workers
  <2>2. Told'
    BY <2>1 DEF ToldInv, Told, Asked
  <2>3. QED BY <2>1, <2>2 DEF ToldInv
<1>7. CASE Signal
  <2>1. mpc' = mpc /\ mbreak' = mbreak /\ wpc' = wpc /\ todo' = StopTasks /\ mpc \notin {"left", "ended"}
    BY <1>7 DEF Signal, main, workers
  <2>2. wpc[Listen] # "none" => Told'
    BY <2>1, ToldByTasks DEF Told
  <2>3. QED BY <2>1, <2>2 DEF ToldInv
<1>8. CASE InitFails
  <2>1. mpc = "init" /\ mpc' = "left" /\ wpc' = wpc /\ todo' = StopTasks
    BY <1>8 DEF InitFails, workers
  <2>2. wpc[Listen] # "none"
    BY <2>1 DEF ToldInv
  <2>3. Told'
    BY <2>1, <2>2, ToldByTasks DEF Told
  <2>4. QED BY <2>1, <2>2, <2>3 DEF ToldInv
<1>9. CASE StopStep
  <2>1. mpc' = mpc /\ wpc' = wpc /\ todo # <<>>
    BY <1>9 DEF StopStep, LogStop, PushExit, StopDirectly, BreakMain, Doing, main, workers
  <2>2. Told => Told'
    BY <1>9, ToldStays DEF StopStep
  <2>3. QED BY <2>1, <2>2 DEF ToldInv
<1>10. CASE EndStep
  <2>1. /\ mpc = "left" /\ mpc' \in {"left", "ended"} /\ todo' = todo /\ stopped' = stopped /\ wpc' = wpc
    BY <1>10 DEF EndStep, End, FreeBase, main, handler, workers
  <2>2. Told'
    BY <2>1 DEF ToldInv, Told, Asked
  <2>3. QED BY <2>1, <2>2 DEF ToldInv
<1>11. ASSUME NEW w \in Workers, UseFreed(w) PROVE ToldInv'
  <2>1. mbreak' = mbreak /\ todo' = todo /\ stopped' = stopped
    BY <1>11 DEF UseFreed, handler
  <2>2. Told => Told'
    BY <2>1 DEF Told, Asked
  <2>3. CASE mpc' = mpc /\ \E p \in {"loop", "left"} : wpc' = [wpc EXCEPT ![w] = p]
    <3>1. wpc[w] # "none"
      BY <1>11 DEF UseFreed
    <3>2. wpc[Listen] = "none" <=> wpc'[Listen] = "none"
      BY <1>a, <2>3, <3>1
    <3>3. QED BY <2>1, <2>2, <2>3, <3>2 DEF ToldInv
  <2>4. CASE mpc' = "ended" /\ wpc' = [v \in Workers |-> "left"]
    <3>1. freed # {}
      BY <1>11 DEF UseFreed, Dangling
    <3>2. Told
      BY <3>1 DEF FreedInv, ToldInv
    <3>3. wpc'[Listen] = "left"
      BY <1>a, <2>4
    <3>4. QED BY <2>2, <2>4, <3>2, <3>3 DEF ToldInv
  <2>5. QED BY <1>11, <2>3, <2>4 DEF UseFreed
<1>12. CASE UNCHANGED vars
  BY <1>1, <1>12 DEF vars, main, handler, workers
<1>13. QED BY <1>2, <1>3, <1>4, <1>5, <1>6, <1>7, <1>8, <1>9, <1>10, <1>11, <1>12 DEF Next, MainStep

LEMMA BreakNext == TypeOK /\ BreakInv /\ [Next]_vars => BreakInv'
<1> SUFFICES ASSUME TypeOK, BreakInv, [Next]_vars PROVE BreakInv'
  OBVIOUS
<1>a. wbreak \in [Workers -> BOOLEAN] /\ stopped \subseteq Workers
  BY DEF TypeOK
<1>1. CASE stopped' = stopped /\ wbreak' = wbreak /\ missed \subseteq missed'
  BY <1>1 DEF BreakInv
<1>2. ASSUME NEW w \in Workers, MainLoop(w) PROVE BreakInv'
  <2>1. /\ stopped' = stopped /\ wbreak' = [wbreak EXCEPT ![w] = FALSE]
        /\ missed \subseteq missed' /\ (wbreak[w] => w \in missed')
    BY <1>2 DEF MainLoop
  <2>2. ASSUME NEW v \in stopped PROVE wbreak'[v] \/ v \in missed'
    <3>1. wbreak[v] \/ v \in missed
      BY DEF BreakInv
    <3>2. CASE v = w
      BY <2>1, <3>1, <3>2
    <3>3. CASE v # w
      BY <1>a, <2>1, <3>1, <3>3
    <3>4. QED BY <3>2, <3>3
  <2>3. QED BY <2>1, <2>2 DEF BreakInv
<1>3. ASSUME NEW w \in Workers, TakeOutput(w) PROVE BreakInv'
  <2>1. CASE Head(out[w]) = "NET_EXIT"
    BY <1>3, <2>1, StopBreaks DEF TakeOutput
  <2>2. CASE Head(out[w]) # "NET_EXIT"
    BY <1>1, <1>3, <2>2 DEF TakeOutput
  <2>3. QED BY <2>1, <2>2
<1>4. ASSUME NEW w \in Workers,
             AddInitCount(w) \/ WorkerPush(w) \/ TakeAccept(w) \/ Leave(w) \/ CloseOwn(w)
               \/ UseFreed(w) \/ \E i \in Ios : Event(w, i)
      PROVE  BreakInv'
  BY <1>1, <1>4 DEF UseFreed, AddInitCount, WorkerPush, TakeAccept, Leave, CloseOwn, Event, workers
<1>5. CASE MainStep \/ \E i \in Ios : CloseInput(i) \/ SendMsg(i)
  BY <1>1, <1>5 DEF MainStep, StartListen, Run, MainPush, PushReturns, MainLeave, Handle, CloseInput, SendMsg, workers
<1>6. CASE Signal \/ InitFails \/ LogStop \/ PushExit \/ BreakMain \/ EndStep
  BY <1>1, <1>6 DEF Signal, LogStop, InitFails, PushExit, BreakMain, EndStep, End, FreeBase, workers
<1>7. CASE StopDirectly
  <2>1. todo # <<>> /\ Head(todo).op = "stop" /\ StopThread(Head(todo).to) /\ missed' = missed
    BY <1>7 DEF StopDirectly, Doing
  <2>2. Head(todo) \in Tasks
    BY <2>1, TailPlaces DEF TypeOK, Tasks
  <2>3. Head(todo).to \in Workers
    BY <2>1, <2>2, TaskShape
  <2>4. QED BY <2>1, <2>3, StopBreaks
<1>8. CASE UNCHANGED vars
  BY <1>1, <1>8 DEF vars, workers
<1>9. QED BY <1>2, <1>3, <1>4, <1>5, <1>6, <1>7, <1>8 DEF Next, WorkerStep, StopStep

LEMMA FreedNext == TypeOK /\ ToldInv /\ FreedInv /\ [Next]_vars => FreedInv'
<1> SUFFICES ASSUME TypeOK, ToldInv, FreedInv, [Next]_vars PROVE FreedInv'
  OBVIOUS
<1>1. ASSUME freed' = freed, stopped \subseteq stopped', todo' = todo,
             mpc' = mpc \/ mpc' \in {"left", "ended"} \/ freed = {}
      PROVE  FreedInv'
  BY <1>1 DEF FreedInv
<1>2. ASSUME NEW w \in Workers,
             WorkerStep(w) \/ CloseOwn(w) \/ UseFreed(w) \/ \E i \in Ios : Event(w, i)
      PROVE  FreedInv'
  <2>1. freed' = freed /\ todo' = todo /\ stopped \subseteq stopped' /\ (mpc' = mpc \/ mpc' = "ended")
    BY <1>2 DEF WorkerStep, AddInitCount, MainLoop, WorkerPush, TakeAccept, TakeOutput, Leave,
                CloseOwn, UseFreed, Event, StopThread, main, handler, workers
  <2>2. QED BY <1>1, <2>1
<1>3. CASE MainStep \/ \E i \in Ios : CloseInput(i) \/ SendMsg(i)
  <2>1. freed' = freed /\ mpc \notin {"left", "ended"}
    BY <1>3 DEF MainStep, StartListen, Run, MainPush, PushReturns, MainLeave, Handle, CloseInput, SendMsg, Idle
  <2>2. QED BY <2>1 DEF FreedInv
<1>4. CASE Signal \/ InitFails
  <2>1. freed' = freed /\ mpc \notin {"left", "ended"}
    BY <1>4 DEF Signal, InitFails
  <2>2. QED BY <2>1 DEF FreedInv
<1>5. CASE StopStep
  <2>1. freed' = freed /\ todo # <<>>
    BY <1>5 DEF StopStep, LogStop, PushExit, StopDirectly, BreakMain, Doing
  <2>2. QED BY <2>1 DEF FreedInv
<1>6. CASE End
  BY <1>1, <1>6 DEF End, handler, workers
<1>7. ASSUME NEW k \in 1 .. Len(Order), FreeBase(k) PROVE FreedInv'
  <2>1. /\ mpc = "left" /\ todo = <<>> /\ mpc' = mpc /\ todo' = todo /\ stopped' = stopped
        /\ freed' = freed \cup {Order[k]}
    BY <1>7 DEF FreeBase, main, handler, workers
  <2>2. Workers \subseteq stopped
    BY <2>1 DEF ToldInv, Told, Asked
  <2>3. freed' \subseteq Workers
    BY TypeNext DEF TypeOK
  <2>4. QED BY <2>1, <2>2, <2>3 DEF FreedInv
<1>8. CASE UNCHANGED vars
  BY <1>1, <1>8 DEF vars, main, handler, workers
<1>9. QED BY <1>2, <1>3, <1>4, <1>5, <1>6, <1>7, <1>8 DEF Next, EndStep

\* No event base is freed under a thread that was not told to stop, however early the signal came
\* and however slow the thread is.
THEOREM FreedAfterTold == Spec => []FreedWhenTold
<1> DEFINE Inv == TypeOK /\ ToldInv /\ BreakInv /\ FreedInv
<1>1. Init => Inv
  BY TypeInit, ThreadInit
<1>2. Inv /\ [Next]_vars => Inv'
  BY TypeNext, ToldNext, BreakNext, FreedNext
<1>3. Inv => FreedWhenTold
  BY DEF BreakInv, FreedInv, FreedWhenTold
<1>4. QED BY <1>1, <1>2, <1>3, PTL DEF Spec
=============================================================================
