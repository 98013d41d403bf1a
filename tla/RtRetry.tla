------------------------------ MODULE RtRetry ------------------------------
(***************************************************************************)
(* What the calls that wait in a loop have in common (rt_mp_alloc,         *)
(* rt_mb_send_wait, rt_mb_recv, rt_mq_recv): a thread that is resumed has  *)
(* got nothing yet.  It looks again, and when another thread was faster it *)
(* waits for the time that is left.                                        *)
(***************************************************************************)
EXTENDS RtIpc

CONSTANT Times    \* waiting times: -1 for ever, 0 not at all, else ticks

ASSUME TimesAssumption == Times \subseteq Int

VARIABLE time     \* the waiting time that is left to the call of each thread

SetTime(n) == time' = [time EXCEPT ![k.cur] = n]

\* The end of a call.  (Nobody reads thread->error or the waiting time of a call
\* that is over; both are kept at RT_EOK and 0.)
Over == Then_return([k EXCEPT !.error[k.cur] = "EOK"], "none") /\ SetTime(0)

\* After the rt_schedule of a wait at place p, with interrupts still enabled: an
\* error (timeout, reset, delete) ends the call, else the loop goes on at place q.
WakeUp(p, q) ==
  /\ Inside(p)
  /\ \/ k.error[k.cur] # "EOK" /\ Over
     \/ k.error[k.cur] = "EOK" /\ Then_return(k, q) /\ UNCHANGED time

\* The time that is left after a tick to the threads at the given places, which
\* have read the tick before they were suspended and have not read it again:
\* timeout - (rt_tick_get() - tick_delta), and no less than 0.
TimeAfterTick(places) ==
  [t \in Thread |-> IF op[t] \in places /\ time[t] > 0 THEN time[t] - 1 ELSE time[t]]

\* The threads that were resumed for what they wait for on list w, at one of the
\* given places, and have not looked yet.
OnTheWay(w, places) ==
  {t \in Thread : op[t] \in places /\ ~Waiting(w, t) /\ k.error[t] = "EOK"}

\* No wake-up is lost on list w: while threads wait there is no more of what
\* they wait for than there are threads on their way to it.
NoneForgotten(w, available, places) ==
  k.wait[w] # << >> => available <= Cardinality(OnTheWay(w, places))

=============================================================================
