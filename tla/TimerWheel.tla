----------------------------- MODULE TimerWheel -----------------------------
(***************************************************************************)
(* The timers of a server (time/timer_wheel.cpp): five wheels of lists of  *)
(* timers in shared memory (shm/shm_mid_list.cpp), the first with a list   *)
(* per tick, each of the others with one for a whole turn of the wheel     *)
(* before it.  When a wheel has gone round, one list of the next wheel is  *)
(* spread over the wheels below it.                                        *)
(*                                                                         *)
(* Callbacks add and delete timers, their own among them, and the process  *)
(* may die in one: the timers live in shared memory and the next process   *)
(* goes on with them at the same tick.                                     *)
(*                                                                         *)
(* A timer has a number of its own here; in the code it has a mid, which   *)
(* is taken to lead to it until it is freed (that is what ShmPool is       *)
(* about).  Lists that the code links by the mids of their nodes are       *)
(* sequences, in the same order.                                           *)
(*                                                                         *)
(* The last wheel reaches as far as 32 bits go, which makes the word of    *)
(* the model Reach[Wheels].  add takes unsigned words and keeps the        *)
(* interval and the count in signed ones: from half the word up they       *)
(* become negative.                                                        *)
(***************************************************************************)
EXTENDS Integers, Sequences, FiniteSets, SequencesExt, FiniteSetsExt, SeqFilter

CONSTANTS
  TVR,        \* TVR_SIZE, the lists of the first wheel
  TVN,        \* TVN_SIZE, the lists of each other wheel
  Wheels,     \* how many wheels there are (tv1 .. tv5)
  Firsts,     \* the values of firstcall_interval
  Intervals,  \* the values of repeat_interval
  Nums,       \* the values of repeat_num; 0 is REPEAT_FOREVER
  MaxTimers,  \* the timers the pool has room for at a time
  Heads,      \* the values of to_head
  StartTicks, \* the ticks at which the server may be started
  MaxTicks,   \* bound: the ticks run
  MaxCrash    \* bound: the crashes

VARIABLES
  tick,       \* cur_tick
  lists,      \* the list of timers of each slot of each wheel
  where,      \* lst_offset: the slot whose list the timer is on
  timer,      \* the fields of each timer_node
  live,       \* the timers allocated and not freed
  pc,         \* "idle" between two ticks, "scan" in the loop of
              \*   internal_run_timer, "call" in a callback
  cur,        \* the timer whose callback runs, or None
  left,       \* bound: the ticks that may still be run
  crashes,    \* bound: the crashes so far
  deleted,    \* history: the timers del was called for since they were added
  asked,      \* history: the repeat_num each timer was added with
  runs        \* history: how often the callback of each timer was started,
              \*   of those that are not to be repeated for ever

vars == <<tick, lists, where, timer, live, pc, cur, left, crashes, deleted, asked, runs>>

Timers == 1 .. MaxTimers
None == 0

\* TVl_MAX: how far ahead wheel l reaches.
Reach[l \in 1 .. Wheels] == IF l = 1 THEN TVR ELSE TVN * Reach[l - 1]

ASSUME WheelsAssumption ==
  /\ TVR \in Nat \ {0} /\ TVN \in Nat \ {0, 1} /\ Wheels \in Nat \ {0, 1}
  /\ MaxTimers \in Nat /\ Heads \subseteq BOOLEAN

\* The arguments of add are any unsigned words (uint32_t).
ASSUME ArgumentsAssumption ==
  /\ Firsts \subseteq 0 .. Reach[Wheels] - 1
  /\ Intervals \subseteq 0 .. Reach[Wheels] - 1
  /\ Nums \subseteq 0 .. Reach[Wheels] - 1
  /\ StartTicks \subseteq Nat

\* 2^31, and the values of an int32_t.
Half == Reach[Wheels] \div 2
Signed == Half - Reach[Wheels] .. Half - 1

\* An unsigned word assigned to a signed one.
Narrowed(x) == IF x < Half THEN x ELSE x - Reach[Wheels]

\* A signed word counted down: below the least value the build wraps around.
Lessened(x) == IF x = Half - Reach[Wheels] THEN Half - 1 ELSE x - 1

Slots == ({1} \X (0 .. TVR - 1)) \cup ((2 .. Wheels) \X (0 .. TVN - 1))

\* TVl_IDX.
SlotAt(l, t) == IF l = 1 THEN <<1, t % TVR>> ELSE <<l, (t \div Reach[l - 1]) % TVN>>

Unused == [expires |-> 0, interval |-> 0, repeats |-> 0, is_forever |-> FALSE, is_running |-> FALSE]

Init ==
  /\ tick \in StartTicks
  /\ lists = [s \in Slots |-> <<>>]
  /\ where = [t \in Timers |-> <<1, 0>>]
  /\ timer = [t \in Timers |-> Unused]
  /\ live = {}
  /\ pc = "idle"
  /\ cur = None
  /\ left = MaxTicks
  /\ crashes = 0
  /\ deleted = {}
  /\ asked = [t \in Timers |-> 0]
  /\ runs = [t \in Timers |-> 0]

---------------------------------------------------------------------------
(* Operators named X_Y are mutants of X: plausible errors, which no action *)
(* uses, that the properties at the end must be able to tell from X.       *)

\* The bound of a wheel is taken to belong to it.
find_handle_list_Inclusive(expires) ==
  SlotAt(Min({l \in 1 .. Wheels : expires - tick <= Reach[l]} \cup {Wheels}), expires)

\* The list for a timer that expires then: the first wheel that reaches so far
\* ahead.  The distance is unsigned: a moment in the past is taken for one
\* beyond every wheel, and that for the last moment they reach.
find_handle_list(expires) ==
  LET idx == expires - tick
  IN IF idx \in 0 .. Reach[Wheels] - 1
       THEN SlotAt(Min({l \in 1 .. Wheels : idx < Reach[l]}), expires)
       ELSE SlotAt(Wheels, tick + Reach[Wheels] - 1)

Without(list, t) == Keep(list, Timers \ {t})

\* Where each timer of a list goes: to the tail of the list that is right for
\* it now.  The list itself is emptied.
Spread(w, src) ==
  [s \in Slots |->
     IF s = src THEN <<>>
     ELSE w.lists[s] \o
          Keep(w.lists[src], {t \in Timers : find_handle_list(timer[t].expires) = s})]

\* lst_offset is not brought up to date.
cascade_KeepsOffset(w, src) == [w EXCEPT !.lists = Spread(w, src)]

cascade(w, src) ==
  [lists |-> Spread(w, src),
   where |-> [t \in Timers |-> IF Contains(w.lists[src], t)
                                THEN find_handle_list(timer[t].expires) ELSE w.where[t]]]

\* The wheels whose list for this tick is spread: the second when the first is
\* at its beginning, the third when both are, and so on.
Turning == {l \in 2 .. Wheels : \A k \in 1 .. l - 1 : SlotAt(k, tick)[2] = 0}

\* The lists when the wheels up to l have been spread, of those that turn.
Cascaded[l \in 1 .. Wheels] ==
  IF l = 1 THEN [lists |-> lists, where |-> where]
  ELSE IF l \in Turning THEN cascade(Cascaded[l - 1], SlotAt(l, tick))
  ELSE Cascaded[l - 1]

Head1 == SlotAt(1, tick)

---------------------------------------------------------------------------
(* What the program does with timers, in a callback or between two ticks *)

\* The program's code runs: nothing but a callback interrupts the loop.
InCode == pc \in {"idle", "call"}

\* The node that alloc_x finds.  Which one it is of those that are free does not
\* matter here; when all are taken there is none and add returns at once.
FreeNode == IF live = Timers THEN None ELSE Min(Timers \ live)

NewTimer(t, first, interval, num, to_head) ==
  LET expires == tick + first
      slot    == find_handle_list(expires)
  IN /\ timer' = [timer EXCEPT ![t] =
                    [expires |-> expires, interval |-> Narrowed(interval), repeats |-> Narrowed(num),
                     is_forever |-> num = 0, is_running |-> FALSE]]
     /\ where' = [where EXCEPT ![t] = slot]
     /\ lists' = [lists EXCEPT ![slot] = IF to_head THEN <<t>> \o @ ELSE Append(@, t)]
     /\ live' = live \cup {t}
     /\ deleted' = deleted \ {t}
     /\ asked' = [asked EXCEPT ![t] = num]
     /\ runs' = [runs EXCEPT ![t] = 0]
     /\ UNCHANGED <<tick, pc, cur, left, crashes>>

\* A timer to be repeated for ever without an interval is not refused.
add_AnyInterval(t, first, interval, num, to_head) ==
  /\ InCode
  /\ t = FreeNode
  /\ NewTimer(t, first, interval, num, to_head)

add(t, first, interval, num, to_head) ==
  /\ InCode
  /\ t = FreeNode
  /\ ~(interval = 0 /\ num = 0)
  /\ NewTimer(t, first, interval, num, to_head)

\* t is taken off a list and freed; nothing reads the node until it is
\* allocated again.
Unlink(t, slot) ==
  /\ lists' = [lists EXCEPT ![slot] = Without(@, t)]
  /\ live' = live \ {t}
  /\ where' = [where EXCEPT ![t] = <<1, 0>>]
  /\ timer' = [timer EXCEPT ![t] = Unused]
  /\ asked' = [asked EXCEPT ![t] = 0]
  /\ runs' = [runs EXCEPT ![t] = 0]

\* A timer is freed in its own callback.
del_FreesRunning(t) ==
  /\ InCode
  /\ t \in live
  /\ deleted' = deleted \cup {t}
  /\ Unlink(t, where[t])
  /\ UNCHANGED <<tick, pc, cur, left, crashes>>

\* is_forever is left as it was.
del_KeepsForever(t) ==
  /\ InCode
  /\ t \in live
  /\ deleted' = deleted \cup {t}
  /\ IF timer[t].is_running
       THEN /\ timer' = [timer EXCEPT ![t].repeats = 0]
            /\ UNCHANGED <<lists, where, live, asked, runs>>
       ELSE Unlink(t, where[t])
  /\ UNCHANGED <<tick, pc, cur, left, crashes>>

\* A timer whose callback runs, or was running when the process died, is only
\* told not to come again: the loop frees it.
del(t) ==
  /\ InCode
  /\ t \in live
  /\ deleted' = deleted \cup {t}
  /\ IF timer[t].is_running
       THEN /\ timer' = [timer EXCEPT ![t].repeats = 0, ![t].is_forever = FALSE]
            /\ UNCHANGED <<lists, where, live, asked, runs>>
       ELSE Unlink(t, where[t])
  /\ UNCHANGED <<tick, pc, cur, left, crashes>>

---------------------------------------------------------------------------
(* internal_run_timer *)

BeginTick ==
  /\ pc = "idle"
  /\ left > 0
  /\ LET w == Cascaded[Wheels]
     IN lists' = w.lists /\ where' = w.where
  /\ pc' = "scan"
  /\ UNCHANGED <<tick, timer, live, cur, left, crashes, deleted, asked, runs>>

Spent(t) == timer[t].repeats <= 0 /\ ~timer[t].is_forever

\* A timer found running was in its callback when the process died.  It is
\* dropped if that was its last run, and else run as if nothing had happened.
DropCrashed ==
  /\ pc = "scan"
  /\ lists[Head1] # <<>>
  /\ LET t == Head(lists[Head1])
     IN /\ timer[t].is_running
        /\ Spent(t)
        /\ Unlink(t, Head1)
  /\ UNCHANGED <<tick, pc, cur, left, crashes, deleted>>

CallbackOf(t) ==
  /\ timer' = [timer EXCEPT ![t].is_running = TRUE, ![t].repeats = Lessened(@)]
  /\ runs' = [runs EXCEPT ![t] = IF timer[t].is_forever THEN @ ELSE @ + 1]
  /\ cur' = t
  /\ pc' = "call"
  /\ UNCHANGED <<tick, lists, where, live, left, crashes, deleted, asked>>

\* The mark of a crashed callback is not looked at.
StartCallback_AfterCrash ==
  /\ pc = "scan"
  /\ lists[Head1] # <<>>
  /\ CallbackOf(Head(lists[Head1]))

StartCallback ==
  /\ pc = "scan"
  /\ lists[Head1] # <<>>
  /\ LET t == Head(lists[Head1])
     IN ~(timer[t].is_running /\ Spent(t)) /\ CallbackOf(t)

\* The callback returns.
EndCallback ==
  LET t       == cur
      expires == tick + timer[t].interval
      slot    == find_handle_list(expires)
      rest    == [lists EXCEPT ![Head1] = Without(@, t)]
  IN /\ pc = "call"
     /\ IF Spent(t)
          THEN Unlink(t, Head1)
          ELSE /\ lists' = [rest EXCEPT ![slot] = Append(@, t)]
               /\ where' = [where EXCEPT ![t] = slot]
               /\ timer' = [timer EXCEPT ![t].is_running = FALSE, ![t].expires = expires]
               /\ UNCHANGED <<live, asked, runs>>
     /\ cur' = None
     /\ pc' = "scan"
     /\ UNCHANGED <<tick, left, crashes, deleted>>

EndTick ==
  /\ pc = "scan"
  /\ lists[Head1] = <<>>
  /\ tick' = tick + 1
  /\ left' = left - 1
  /\ pc' = "idle"
  /\ UNCHANGED <<lists, where, timer, live, cur, crashes, deleted, asked, runs>>

\* The process dies in a callback and another one resumes from the shared
\* memory (init with is_resume): the tick is run again from its beginning.
Crash ==
  /\ pc = "call"
  /\ crashes < MaxCrash
  /\ crashes' = crashes + 1
  /\ cur' = None
  /\ pc' = "idle"
  /\ UNCHANGED <<tick, lists, where, timer, live, left, deleted, asked, runs>>

---------------------------------------------------------------------------
Run == DropCrashed \/ StartCallback \/ EndCallback \/ EndTick

Next ==
  \/ \E t \in Timers, first \in Firsts, interval \in Intervals, num \in Nums, to_head \in Heads :
       add(t, first, interval, num, to_head)
  \/ \E t \in Timers : del(t)
  \/ BeginTick
  \/ Run
  \/ Crash

\* Callbacks return; nobody has to call main_loop again.
Spec == Init /\ [][Next]_vars /\ WF_vars(Run)

---------------------------------------------------------------------------
(* Properties *)

TypeOK ==
  /\ tick \in Nat
  /\ lists \in [Slots -> Seq(Timers)]
  /\ where \in [Timers -> Slots]
  /\ timer \in [Timers -> [expires : Int, interval : Signed \cup {0}, repeats : Signed \cup {0},
                           is_forever : BOOLEAN, is_running : BOOLEAN]]
  /\ live \subseteq Timers
  /\ pc \in {"idle", "scan", "call"}
  /\ cur \in live \cup {None}
  /\ (pc = "call") = (cur # None)
  /\ deleted \subseteq Timers
  /\ asked \in [Timers -> Nums \cup {0}] /\ runs \in [Timers -> Nat]

\* Each timer is on one list, once, and it is the list del would take it from
\* by its lst_offset; no list holds a timer that was freed.  A mid that is
\* still linked after its timer was freed would make internal_run_timer throw,
\* at assert_continue, in this tick and in every later one.
ListsSound ==
  /\ \A s \in Slots : \A i, j \in 1 .. Len(lists[s]) :
       i # j => lists[s][i] # lists[s][j]
  /\ \A s \in Slots : ToSet(lists[s]) = {t \in live : where[t] = s}

\* No timer runs early or late: when a callback is started its time is this
\* very tick, through all the wheels the timer came down.  And none is left
\* behind, but for timers whose interval the narrowing has made negative: they
\* are set into the past and not run a second time.
OnTime ==
  /\ \A t \in live : timer[t].interval >= 0 => timer[t].expires >= tick
  /\ cur # None => timer[cur].expires = tick

\* A timer that is not deleted, and not asked to run for ever, has run as often
\* as it was asked to when it is freed, and never oftener, a run that crashed
\* included: crashing again and again in one callback ends by itself.
CountKept(t) ==
  asked[t] # 0 /\ t \notin deleted' =>
    IF t \in live' THEN runs'[t] <= asked[t] ELSE runs[t] = asked[t]

\* So it is with counts that fit into an int32_t.  A larger one is negative,
\* and the timer is freed after its first run.
RunsAsAsked == [][\A t \in live : asked[t] < Half => CountKept(t)]_vars

\* Once del has returned, the callback of the timer is not started again, be
\* it called from a callback, from the timer's own, or after a crash in it.
DeletedStaysDead ==
  [][\A t \in deleted : cur' = t => cur = t]_vars

\* A timer is added for the very tick that is being run.
AddsToTick == \E t \in live' \ live : timer'[t].expires = tick

\* internal_run_timer returns, unless callbacks go on adding timers for the
\* tick it runs: whatever timers there are, with whatever intervals and counts,
\* they do not keep it going by themselves.
TickEnds == <>[][~AddsToTick]_vars => (pc # "idle" ~> pc = "idle")
=============================================================================
