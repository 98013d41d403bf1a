------------------------------- MODULE Event -------------------------------
(***************************************************************************)
(* One event object of ipc.c: a word of bits, and threads that wait until  *)
(* all, or one, of the bits they want are set.                             *)
(***************************************************************************)
EXTENDS RtIpc

CONSTANTS
  Bit,         \* the bits of event->set that are used
  Option,      \* the receive options: all for AND, clear for CLEAR
  Request,     \* the receives: a set of bits and an option
  Times,       \* waiting times: -1 for ever, 0 not at all, else ticks
  EventFlag,   \* RT_IPC_FLAG_FIFO or RT_IPC_FLAG_PRIO
  Services     \* the calls that are made

ASSUME OptionAssumption    == Option \subseteq [all : BOOLEAN, clear : BOOLEAN]
ASSUME RequestAssumption   == Request \subseteq ((SUBSET Bit) \ {{}}) \X Option
ASSUME TimesAssumption     == Times \subseteq Int
ASSUME EventFlagAssumption == EventFlag \in {"FIFO", "PRIO"}
ASSUME ServicesAssumption  ==
  Services \subseteq {"send", "irq_send", "recv", "reset", "delete"}

Ev == "event"     \* event->parent.suspend_thread
ASSUME EvAssumption == Ev \in WaitList

VARIABLES
  set,           \* event->set
  event_set,     \* thread->event_set
  event_info,    \* thread->event_info
  recved,        \* *recved, once the call of the thread has got its bits
  alive          \* FALSE once rt_event_delete has been called

evVars == <<k, pc, tgt, isr, op, set, event_set, event_info, recved, alive>>

NoOption == [all |-> FALSE, clear |-> FALSE]

EventTypeOK ==
  /\ TypeOK
  /\ op \in [Thread -> {"none", "recv_wait", "recv_done", "delete", "delete_resume"}]
  /\ set \in SUBSET Bit
  /\ event_set \in [Thread -> SUBSET Bit]
  /\ event_info \in [Thread -> Option \union {NoOption}]
  /\ recved \in [Thread -> SUBSET Bit]
  /\ alive \in BOOLEAN

\* rt_event_init
EventInit ==
  /\ IpcInit
  /\ set = {}
  /\ event_set = [t \in Thread |-> {}]
  /\ event_info = [t \in Thread |-> NoOption]
  /\ recved = [t \in Thread |-> {}]
  /\ alive = TRUE

EvCall(c) == Outside /\ c \in Services /\ alive

\* The test of rt_event_send and rt_event_recv.
Satisfied(S, want, option) == IF option.all THEN want \subseteq S ELSE want \cap S # {}

-----------------------------------------------------------------------------
(* rt_event_send *)

\* Mutant: the bits are cleared after the walk, and go to several threads.
Serve_SharesBits(u, t) ==
  LET got == IF event_info[t].all THEN u.event_set[t] ELSE u.event_set[t] \cap u.set
  IN  IF ~Satisfied(u.set, u.event_set[t], event_info[t]) THEN u
      ELSE [u EXCEPT !.event_set[t] = got, !.kernel = rt_thread_resume(@, t)]

\* One turn of the walk: thread t is resumed if what it wants is set now, and
\* takes the bits with it if it asked for that.
Serve(u, t) ==
  LET got == IF event_info[t].all THEN u.event_set[t] ELSE u.event_set[t] \cap u.set
  IN  IF ~Satisfied(u.set, u.event_set[t], event_info[t]) THEN u
      ELSE [u EXCEPT !.event_set[t] = got,
                     !.set = IF event_info[t].clear THEN @ \ got ELSE @,
                     !.kernel = rt_thread_resume(@, t)]

\* Mutant: the walk ends at the first thread.
Walk_First(S) ==
  LET u == [kernel |-> k, set |-> set \union S, event_set |-> event_set]
  IN  IF k.wait[Ev] = << >> THEN u ELSE Serve(u, Head(k.wait[Ev]))

\* The bits S are set, and the waiting threads are served in the order of the list:
\* what each turn leaves, and what the last one leaves.
WalkTurns(S) ==
  LET s == k.wait[Ev]
      turn[i \in 0 .. Len(s)] ==
        IF i = 0 THEN [kernel |-> k, set |-> set \union S, event_set |-> event_set]
        ELSE Serve(turn[i - 1], s[i])
  IN  turn
Walk(S) == WalkTurns(S)[Len(k.wait[Ev])]

\* A resumed thread is no longer on the list: rt_schedule only if there is one.
Send(S) ==
  /\ EvCall("send")
  /\ LET u == Walk(S)
     IN  /\ set' = u.set /\ event_set' = u.event_set
         /\ IF u.kernel = k THEN Then_return(k, "none") ELSE Then_schedule(u.kernel, "none")
  /\ UNCHANGED <<event_info, recved, alive>>

\* rt_event_send in an interrupt handler.
IrqSend(S) ==
  /\ "irq_send" \in Services /\ alive
  /\ LET u == Walk(S)
     IN  /\ set' = u.set /\ event_set' = u.event_set
         /\ Interrupt(IF u.kernel = k THEN k ELSE rt_schedule(u.kernel))
  /\ UNCHANGED <<event_info, recved, alive>>

-----------------------------------------------------------------------------
(* rt_event_recv *)

RecvNow(want, option) ==
  /\ EvCall("recv")
  /\ Satisfied(set, want, option)
  /\ recved' = [recved EXCEPT ![k.cur] = set \cap want]
  /\ set' = IF option.clear THEN set \ want ELSE set
  /\ Then_return(k, "recv_done")
  /\ UNCHANGED <<event_set, event_info, alive>>

\* -RT_ETIMEOUT at once, or the thread waits.
RecvWait(want, option, n) ==
  /\ EvCall("recv")
  /\ ~Satisfied(set, want, option)
  /\ IF n = 0
     THEN /\ Then_return(k, "none")
          /\ UNCHANGED <<event_set, event_info>>
     ELSE /\ event_set' = [event_set EXCEPT ![k.cur] = want]
          /\ event_info' = [event_info EXCEPT ![k.cur] = option]
          /\ Then_schedule(WaitOn(k, Ev, k.cur, EventFlag, n), "recv_wait")
  /\ UNCHANGED <<set, recved, alive>>

\* After the rt_schedule: an error is returned, else the bits that rt_event_send
\* has left in event_set.  (Nobody reads event_set, event_info and thread->error
\* of a call that is over; they are kept as they were at first.)
RecvWake ==
  /\ Inside("recv_wait")
  /\ IF k.error[k.cur] # "EOK"
     THEN Then_return([k EXCEPT !.error[k.cur] = "EOK"], "none") /\ UNCHANGED recved
     ELSE Then_return(k, "recv_done") /\ recved' = [recved EXCEPT ![k.cur] = event_set[k.cur]]
  /\ event_set' = [event_set EXCEPT ![k.cur] = {}]
  /\ event_info' = [event_info EXCEPT ![k.cur] = NoOption]
  /\ UNCHANGED <<set, alive>>

RecvReturn ==
  /\ Inside("recv_done")
  /\ Then_return(k, "none")
  /\ recved' = [recved EXCEPT ![k.cur] = {}]
  /\ UNCHANGED <<set, event_set, event_info, alive>>

-----------------------------------------------------------------------------
(* rt_event_control(RT_IPC_CMD_RESET) and rt_event_delete *)

Reset ==
  /\ EvCall("reset")
  /\ set' = {}
  /\ Then_schedule(rt_ipc_list_resume_all(k, Ev), "none")
  /\ UNCHANGED <<event_set, event_info, recved, alive>>

Delete_call ==
  /\ EvCall("delete")
  /\ alive' = FALSE
  /\ Then_return(k, "delete")
  /\ UNCHANGED <<set, event_set, event_info, recved>>

DeleteLoop ==
  /\ \/ ResumeAllTest(Ev, "delete", "delete_resume", "none")
     \/ ResumeAllBody(Ev, "delete_resume", "delete")
  /\ UNCHANGED <<set, event_set, event_info, recved, alive>>

-----------------------------------------------------------------------------
EventNext ==
  \/ SystemStep /\ UNCHANGED <<set, event_set, event_info, recved, alive>>
  \/ \E S \in (SUBSET Bit) \ {{}} : Send(S) \/ IrqSend(S)
  \/ \E r \in Request :
       RecvNow(r[1], r[2]) \/ \E n \in Times : RecvWait(r[1], r[2], n)
  \/ RecvWake \/ RecvReturn
  \/ Reset \/ Delete_call \/ DeleteLoop

EventSpecification == EventInit /\ [][EventNext]_evVars

-----------------------------------------------------------------------------
(* Properties *)

\* No event is missed: no thread sits on the list while the bits that it waits
\* for are set, although every send serves several threads in one walk and each
\* of them may clear bits that the next ones wait for (ipc.c:1054-1099).
NoMissedEvent ==
  /\ EventTypeOK
  /\ alive => \A t \in ToSet(k.wait[Ev]) :
       op[t] = "recv_wait" /\ ~Satisfied(set, event_set[t], event_info[t])

\* The event object does what EventSpec promises: whatever times out or preempts
\* between the walk of a send and the return of the receive, a receive returns
\* the bits it was given, and bits that were cleared for one receive go to no other.
RecvState(t) ==
  CASE op[t] = "recv_done" -> [at |-> "got", bits |-> recved[t]]
    [] op[t] = "recv_wait" /\ Waiting(Ev, t) ->
         [at |-> "wait", want |-> event_set[t], option |-> event_info[t]]
    [] op[t] = "recv_wait" /\ ~Waiting(Ev, t) /\ k.error[t] = "EOK" ->
         [at |-> "got", bits |-> event_set[t]]
    [] op[t] = "recv_wait" /\ ~Waiting(Ev, t) /\ k.error[t] # "EOK" -> [at |-> "failed"]
    [] OTHER -> [at |-> "out"]
Promise == INSTANCE EventSpec WITH flags <- set, call <- [t \in Thread |-> RecvState(t)]
ImplementsEvent == Promise!Spec

=============================================================================
