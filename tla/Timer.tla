------------------------------- MODULE Timer -------------------------------
(***************************************************************************)
(* The hard timers of timer.c: a list of timers in the order in which they *)
(* expire, the wrap-around of the tick counter, one-shot and periodic      *)
(* timers, and timer functions that stop or start their own timer.         *)
(*                                                                         *)
(* rt_timer_check runs with interrupts disabled.  rt_timer_start and       *)
(* rt_timer_stop enable them between their sections, so that ticks and the *)
(* calls of other threads come in between; each timer has one thread that  *)
(* starts and stops it, and pc is the place of that thread.                *)
(***************************************************************************)
EXTENDS Integers, Sequences, FiniteSets, SequencesExt

CONSTANTS
  Timer,      \* the timers
  TickRange,  \* the number of values of rt_tick_t (2^32)
  InitTicks,  \* values of timer->init_tick
  MaxLate,    \* bound: ticks that a thread is held up inside rt_timer_start
  Callbacks   \* what timer functions do with their timer: "none", "stop", "start"

TICK_MAX == TickRange - 1

ASSUME TickRangeAssumption == TickRange \in Nat /\ TickRange > 3
ASSUME InitTicksAssumption == InitTicks \subseteq 1 .. (TICK_MAX \div 2) - 1
ASSUME MaxLateAssumption   == MaxLate \in Nat /\ \A n \in InitTicks : n + MaxLate < TICK_MAX \div 2
ASSUME CallbacksAssumption == Callbacks \subseteq {"none", "stop", "start"}

VARIABLES
  tick,          \* rt_tick
  list,          \* rt_timer_list: the linked timers, first to expire first
  timeout_tick, init_tick, activated, periodic,   \* fields of struct rt_timer
  pc,            \* the place of the thread that uses the timer
  isr            \* "check" while SysTick_Handler is in rt_timer_check

vars == <<tick, list, timeout_tick, init_tick, activated, periodic, pc, isr>>
fields == <<init_tick, periodic>>

TimerTypeOK ==
  /\ tick \in 0 .. TICK_MAX
  /\ list \in Seq(Timer)
  /\ timeout_tick \in [Timer -> 0 .. TICK_MAX]
  /\ init_tick \in [Timer -> InitTicks]
  /\ activated \in [Timer -> BOOLEAN]
  /\ periodic \in [Timer -> BOOLEAN]
  /\ pc \in [Timer -> {"run", "start_tick", "start_insert", "stop_remove", "stop_flag"}]
  /\ isr \in {"none", "check"}

\* rt_timer_init of each timer, at any value of the tick counter.
Init ==
  /\ tick \in 0 .. TICK_MAX
  /\ list = << >>
  /\ timeout_tick = [t \in Timer |-> 0]
  /\ init_tick \in [Timer -> InitTicks]
  /\ activated = [t \in Timer |-> FALSE]
  /\ periodic \in [Timer -> BOOLEAN]
  /\ pc = [t \in Timer |-> "run"]
  /\ isr = "none"

-----------------------------------------------------------------------------
(* Tick arithmetic and the list. *)

\* Mutant: plain comparison.
After_NoWrap(a, b) == a > b

\* Unsigned a - b is in the first half of the range and not 0: a is after b.
After(a, b) == (a - b) % TickRange \in 1 .. (TICK_MAX \div 2) - 1

\* Mutant: plain comparison.
Expired_NoWrap(now, t) == now >= timeout_tick[t]

\* now - timeout_tick is in the first half of the range.
Expired(now, t) == (now - timeout_tick[t]) % TickRange < TICK_MAX \div 2

\* The list s without the node of t (s itself when t is not on it): the nodes
\* behind it move up.
Place(s, t) == CHOOSE i \in 1 .. Len(s) : s[i] = t
Unlink(s, t) ==
  IF Contains(s, t)
  THEN [i \in 1 .. Len(s) - 1 |-> IF i < Place(s, t) THEN s[i] ELSE s[i + 1]]
  ELSE s

\* Mutant: the search stops at a timer that expires at the same tick.
Later_OrEqual(s, at) ==
  {i \in 1 .. Len(s) : timeout_tick[s[i]] = at \/ After(timeout_tick[s[i]], at)}

\* The linked timers that expire after the tick at.
Later(s, at) == {i \in 1 .. Len(s) : After(timeout_tick[s[i]], at)}

\* The search of rt_timer_start ends before the first timer that expires later:
\* behind those that expire at the same tick.
Inserted(s, t, at) ==
  IF Later(s, at) = {} THEN Append(s, t)
  ELSE InsertAt(s, Min(Later(s, at)), t)

-----------------------------------------------------------------------------
(* rt_timer_start and rt_timer_stop called by a thread; RT_TIMER_CTRL_SET_* *)

Move(t, p, q) == isr = "none" /\ pc[t] = p /\ pc' = [pc EXCEPT ![t] = q]

\* Nothing reads timeout_tick of a timer that is not linked; it is kept at 0.
Forget(t) == [timeout_tick EXCEPT ![t] = 0]

StartRemove(t) ==
  /\ Move(t, "run", "start_tick")
  /\ list' = Unlink(list, t)
  /\ timeout_tick' = Forget(t)
  /\ activated' = [activated EXCEPT ![t] = FALSE]
  /\ UNCHANGED <<tick, isr, fields>>

\* With interrupts enabled.
StartTick(t) ==
  /\ Move(t, "start_tick", "start_insert")
  /\ timeout_tick' = [timeout_tick EXCEPT ![t] = (tick + init_tick[t]) % TickRange]
  /\ UNCHANGED <<tick, list, activated, isr, fields>>

StartInsert(t) ==
  /\ Move(t, "start_insert", "run")
  /\ list' = Inserted(list, t, timeout_tick[t])
  /\ activated' = [activated EXCEPT ![t] = TRUE]
  /\ UNCHANGED <<tick, timeout_tick, isr, fields>>

\* rt_timer_stop fails, and does nothing, if the timer is not activated.
StopTest(t) ==
  /\ Move(t, "run", "stop_remove")
  /\ activated[t]
  /\ UNCHANGED <<tick, list, timeout_tick, activated, isr, fields>>

\* Mutant: the timer stays linked.
StopRemove_StaysLinked(t) ==
  /\ Move(t, "stop_remove", "stop_flag")
  /\ UNCHANGED <<tick, list, timeout_tick, activated, isr, fields>>

StopRemove(t) ==
  /\ Move(t, "stop_remove", "stop_flag")
  /\ list' = Unlink(list, t)
  /\ timeout_tick' = Forget(t)
  /\ UNCHANGED <<tick, activated, isr, fields>>

\* The flag is cleared with interrupts enabled.
StopFlag(t) ==
  /\ Move(t, "stop_flag", "run")
  /\ activated' = [activated EXCEPT ![t] = FALSE]
  /\ UNCHANGED <<tick, list, timeout_tick, isr, fields>>

\* rt_timer_control
Control(t) ==
  /\ Move(t, "run", "run")
  /\ \/ /\ \E n \in InitTicks : init_tick' = [init_tick EXCEPT ![t] = n]
        /\ UNCHANGED periodic
     \/ /\ \E b \in BOOLEAN : periodic' = [periodic EXCEPT ![t] = b]
        /\ UNCHANGED init_tick
  /\ UNCHANGED <<tick, list, timeout_tick, activated, isr>>

-----------------------------------------------------------------------------
(* The tick interrupt. *)

DueHead(s, now) == s # << >> /\ Expired(now, Head(s))

\* How far behind the tick counter a thread inside rt_timer_start is.
Late(t) == pc[t] = "start_insert" /\ (tick - timeout_tick[t]) % TickRange = MaxLate

\* Mutant: the counter stops at its largest value.
SysTick_Saturates ==
  /\ isr = "none"
  /\ \A t \in Timer : ~Late(t)
  /\ tick' = IF tick = TICK_MAX THEN tick ELSE tick + 1
  /\ isr' = IF DueHead(list, tick') THEN "check" ELSE "none"
  /\ UNCHANGED <<list, timeout_tick, activated, pc, fields>>

\* rt_tick_increase
SysTick ==
  /\ isr = "none"
  /\ \A t \in Timer : ~Late(t)
  /\ tick' = (tick + 1) % TickRange
  /\ isr' = IF DueHead(list, tick') THEN "check" ELSE "none"
  /\ UNCHANGED <<list, timeout_tick, activated, pc, fields>>

\* After the timer function a periodic timer that is still activated is started.
Rearmed(t, flag) == periodic[t] /\ flag

\* One turn of the loop: the timer is unlinked, its function runs and may stop
\* or start it (cb), and it is started again or its flag is cleared.
Expire(cb) ==
  /\ isr = "check"
  /\ LET t    == Head(list)
         next == (tick + init_tick[t]) % TickRange
         rest == Unlink(list, t)
         run  == IF cb = "start" THEN Inserted(rest, t, next) ELSE rest
         flag == cb = "start" \/ (activated[t] /\ cb # "stop")
     IN  /\ IF Rearmed(t, flag)
            THEN list' = Inserted(Unlink(run, t), t, next)
            ELSE list' = run
         /\ timeout_tick' = IF cb = "start" \/ Rearmed(t, flag)
                            THEN [timeout_tick EXCEPT ![t] = next] ELSE Forget(t)
         /\ activated' = [activated EXCEPT ![t] = Rearmed(t, flag)]
         /\ isr' = IF list' # << >> /\ (tick - timeout_tick'[Head(list')]) % TickRange
                                         < TICK_MAX \div 2
                   THEN "check" ELSE "none"
  /\ UNCHANGED <<tick, pc, fields>>

-----------------------------------------------------------------------------
Next ==
  \/ SysTick
  \/ \E cb \in Callbacks : Expire(cb)
  \/ \E t \in Timer : \/ StartRemove(t) \/ StartTick(t) \/ StartInsert(t)
                      \/ StopTest(t) \/ StopRemove(t) \/ StopFlag(t) \/ Control(t)

Spec == Init /\ [][Next]_vars

\* The hardware timer keeps interrupting, its handler runs to the end, and a
\* thread that is held up inside rt_timer_start goes on (MaxLate bounds by how
\* much); nothing is assumed of what threads start, stop or change.
FairSpec ==
  /\ Spec
  /\ WF_vars(SysTick)
  /\ WF_vars(\E cb \in Callbacks : Expire(cb))
  /\ \A t \in Timer : WF_vars(StartInsert(t))

-----------------------------------------------------------------------------
(* Properties *)

\* Ticks until a timer expires, negative when it is overdue.
Remaining(t) ==
  LET d == (timeout_tick[t] - tick) % TickRange
  IN  IF d < TICK_MAX \div 2 THEN d ELSE d - TickRange

\* The list is sorted by the time that is really left, across the wrap-around of
\* the counter: rt_timer_check looks no further than its head (timer.c:507-547).
Sorted ==
  /\ TimerTypeOK
  /\ IsInjective(list)
  /\ \A i, j \in 1 .. Len(list) : i < j => Remaining(list[i]) <= Remaining(list[j])

\* No timer is missed or early: when the tick interrupt is over no linked timer is
\* due, and the one that expires was due (timer.c:516).
Punctual ==
  [][/\ (isr = "check" \/ tick' # tick) /\ isr' = "none" =>
          \A t \in ToSet(list') : Remaining(t)' > 0
     /\ isr = "check" => Remaining(Head(list)) <= 0]_vars

\* Of two timers that expire at the same tick the one started first is called
\* first ("the timer inserted early get called early", timer.c:355).
EarlyFirst ==
  [][\A t \in ToSet(list') \ ToSet(list) :
       \A u \in ToSet(list) \cap ToSet(list') :
         timeout_tick'[u] = timeout_tick'[t] =>
           \E i, j \in 1 .. Len(list') : i < j /\ list'[i] = u /\ list'[j] = t]_vars

\* Every timer that is linked has its turn, or is taken off the list: none is
\* hidden for ever behind others, also across the wrap-around (timer.c:507-547).
TimersExpire ==
  \A t \in Timer :
    t \in ToSet(list) ~> t \notin ToSet(list) \/ (isr = "check" /\ Head(list) = t)

\* RT_TIMER_FLAG_ACTIVATED says whether the timer is linked, whenever its thread
\* is in neither rt_timer_start nor rt_timer_stop: rt_timer_stop relies on it
\* (timer.c:430), and a periodic timer goes on until it is stopped.
FlagTellsLinked ==
  \A t \in Timer : pc[t] = "run" => (activated[t] <=> t \in ToSet(list))

=============================================================================
