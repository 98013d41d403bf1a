------------------------------ MODULE Mailbox ------------------------------
(***************************************************************************)
(* One mailbox of ipc.c: a ring of mails, threads that wait for a mail and *)
(* threads that wait for a free slot, and an interrupt handler that sends. *)
(***************************************************************************)
EXTENDS RtRetry

CONSTANTS
  Mail,        \* the values that threads send
  IrqMail,     \* the values that the interrupt handler sends
  NoMail,
  Size,        \* mb->size
  MbFlag,      \* RT_IPC_FLAG_FIFO or RT_IPC_FLAG_PRIO
  Services     \* the mailbox calls that are made

ASSUME MailAssumption     == NoMail \notin Mail \union IrqMail
ASSUME SizeAssumption     == Size \in Nat /\ 0 < Size /\ Size <= 65535
ASSUME MbFlagAssumption   == MbFlag \in {"FIFO", "PRIO"}
ASSUME ServicesAssumption ==
  Services \subseteq {"send", "irq_send", "recv", "reset", "delete"}

Receivers == "mb_recv"    \* mb->parent.suspend_thread
Senders   == "mb_send"    \* mb->suspend_sender_thread
ASSUME MbListAssumption == {Receivers, Senders} \subseteq WaitList

VARIABLES
  msg_pool, entry, in_offset, out_offset,    \* fields of struct rt_mailbox
  mail,      \* the mail a call is about to put, or has taken: value or *value
  alive      \* FALSE once rt_mb_delete has been called

ringVars == <<msg_pool, entry, in_offset, out_offset>>
mbVars == <<k, pc, tgt, isr, op, time, ringVars, mail, alive>>

SendPlaces == {"send_wait", "send_retry"}
RecvPlaces == {"recv_wait", "recv_retry"}

MbTypeOK ==
  /\ TypeOK
  /\ op \in [Thread -> SendPlaces \union RecvPlaces \union
               {"none", "recv_done", "delete", "delete_recv", "delete2", "delete_send"}]
  /\ time \in [Thread -> Int]
  /\ msg_pool \in [0 .. Size - 1 -> Mail \union IrqMail \union {NoMail}]
  /\ entry \in 0 .. Size
  /\ in_offset \in 0 .. Size - 1 /\ out_offset \in 0 .. Size - 1
  /\ mail \in [Thread -> Mail \union IrqMail \union {NoMail}]
  /\ alive \in BOOLEAN

\* rt_mb_init
MbInit ==
  /\ IpcInit
  /\ time = [t \in Thread |-> 0]
  /\ msg_pool = [i \in 0 .. Size - 1 |-> NoMail]
  /\ entry = 0 /\ in_offset = 0 /\ out_offset = 0
  /\ mail = [t \in Thread |-> NoMail]
  /\ alive = TRUE

\* Nobody calls the mailbox after rt_mb_delete.
MbCall(c) == Outside /\ c \in Services /\ alive

SetMail(m) == mail' = [mail EXCEPT ![k.cur] = m]

\* An offset moves on, and around.
NextOffset(i) == IF i + 1 >= Size THEN 0 ELSE i + 1

\* The end of a section that has served list w: rt_schedule only if it resumed.
Served(w, p) ==
  IF k.wait[w] = << >> THEN Then_return(k, p) ELSE Then_schedule(rt_ipc_list_resume(k, w), p)

-----------------------------------------------------------------------------
(* rt_mb_send_wait *)

Full == entry = Size

\* The current thread enters the section of rt_mb_send_wait with mail m and n
\* ticks to wait: at its call, or after it was resumed.
Sending(m, n) ==
  \/ MbCall("send") /\ m \in Mail /\ n \in Times
  \/ Inside("send_retry") /\ m = mail[k.cur] /\ n = time[k.cur]

PutInRing(m) ==
  /\ msg_pool' = [msg_pool EXCEPT ![in_offset] = m]
  /\ in_offset' = NextOffset(in_offset)
  /\ entry' = entry + 1
  /\ UNCHANGED out_offset

\* Mutant: a sender that was resumed does not look again (if instead of while).
SendPut_NoRecheck(m, n) ==
  /\ Sending(m, n) /\ (~Full \/ op[k.cur] = "send_retry")
  /\ PutInRing(m)
  /\ Served(Receivers, "none")
  /\ SetMail(NoMail) /\ SetTime(0)
  /\ UNCHANGED alive

SendPut(m, n) ==
  /\ Sending(m, n) /\ ~Full
  /\ PutInRing(m)
  /\ Served(Receivers, "none")
  /\ SetMail(NoMail) /\ SetTime(0)
  /\ UNCHANGED alive

\* -RT_EFULL
SendFull(m, n) ==
  /\ Sending(m, n) /\ Full /\ n = 0
  /\ Over /\ SetMail(NoMail)
  /\ UNCHANGED <<ringVars, alive>>

SendWait(m, n) ==
  /\ Sending(m, n) /\ Full /\ n # 0
  /\ Then_schedule(WaitOn(k, Senders, k.cur, MbFlag, n), "send_wait")
  /\ SetMail(m) /\ SetTime(n)
  /\ UNCHANGED <<ringVars, alive>>

SendWake ==
  /\ WakeUp("send_wait", "send_retry")
  /\ SetMail(IF k.error[k.cur] = "EOK" THEN mail[k.cur] ELSE NoMail)
  /\ UNCHANGED <<ringVars, alive>>

\* rt_mb_send in an interrupt handler.
IrqSend(m) ==
  /\ "irq_send" \in Services /\ alive /\ ~Full
  /\ PutInRing(m)
  /\ IrqResume(Receivers)
  /\ UNCHANGED <<mail, time, alive>>

-----------------------------------------------------------------------------
(* rt_mb_recv *)

Receiving(n) ==
  \/ MbCall("recv") /\ n \in Times
  \/ Inside("recv_retry") /\ n = time[k.cur]

\* (Nothing reads a slot again before it is written; it is kept at NoMail.)
TakeFromRing ==
  /\ msg_pool' = [msg_pool EXCEPT ![out_offset] = NoMail]
  /\ out_offset' = NextOffset(out_offset)
  /\ entry' = entry - 1
  /\ UNCHANGED in_offset

\* Mutant: a waiting sender is not told of the free slot.
RecvTake_WakesNobody(n) ==
  /\ Receiving(n) /\ entry > 0
  /\ TakeFromRing
  /\ Then_return(k, "recv_done")
  /\ SetMail(msg_pool[out_offset]) /\ SetTime(0)
  /\ UNCHANGED alive

RecvTake(n) ==
  /\ Receiving(n) /\ entry > 0
  /\ TakeFromRing
  /\ Served(Senders, "recv_done")
  /\ SetMail(msg_pool[out_offset]) /\ SetTime(0)
  /\ UNCHANGED alive

\* The caller has its mail.
RecvReturn ==
  /\ Inside("recv_done")
  /\ Then_return(k, "none")
  /\ SetMail(NoMail)
  /\ UNCHANGED <<ringVars, time, alive>>

RecvEmpty(n) ==
  /\ Receiving(n) /\ entry = 0 /\ n = 0
  /\ Over
  /\ UNCHANGED <<ringVars, mail, alive>>

RecvWait(n) ==
  /\ Receiving(n) /\ entry = 0 /\ n # 0
  /\ Then_schedule(WaitOn(k, Receivers, k.cur, MbFlag, n), "recv_wait")
  /\ SetTime(n)
  /\ UNCHANGED <<ringVars, mail, alive>>

RecvWake ==
  /\ WakeUp("recv_wait", "recv_retry")
  /\ UNCHANGED <<ringVars, mail, alive>>

-----------------------------------------------------------------------------
(* rt_mb_control(RT_IPC_CMD_RESET) and rt_mb_delete *)

\* Mutant: the offset of the next mail to take is not reset.
Reset_KeepsOut ==
  /\ MbCall("reset")
  /\ entry' = 0 /\ in_offset' = 0
  /\ msg_pool' = [i \in 0 .. Size - 1 |-> NoMail]
  /\ Then_schedule(rt_ipc_list_resume_all(rt_ipc_list_resume_all(k, Receivers), Senders), "none")
  /\ UNCHANGED <<out_offset, mail, time, alive>>

Reset ==
  /\ MbCall("reset")
  /\ entry' = 0 /\ in_offset' = 0 /\ out_offset' = 0
  /\ msg_pool' = [i \in 0 .. Size - 1 |-> NoMail]
  /\ Then_schedule(rt_ipc_list_resume_all(rt_ipc_list_resume_all(k, Receivers), Senders), "none")
  /\ UNCHANGED <<mail, time, alive>>

Delete_call ==
  /\ MbCall("delete")
  /\ alive' = FALSE
  /\ Then_return(k, "delete")
  /\ UNCHANGED <<ringVars, mail, time>>

\* First the receivers, then the senders.
DeleteLoop ==
  /\ \/ ResumeAllTest(Receivers, "delete", "delete_recv", "delete2")
     \/ ResumeAllBody(Receivers, "delete_recv", "delete")
     \/ ResumeAllTest(Senders, "delete2", "delete_send", "none")
     \/ ResumeAllBody(Senders, "delete_send", "delete2")
  /\ UNCHANGED <<ringVars, mail, time, alive>>

-----------------------------------------------------------------------------
Tick ==
  /\ TickComes
  /\ time' = TimeAfterTick(SendPlaces \union RecvPlaces)
  /\ UNCHANGED <<ringVars, mail, alive>>

MbNext ==
  \/ Tick
  \/ OtherStep /\ UNCHANGED <<ringVars, mail, time, alive>>
  \/ \E m \in Mail, n \in Times \union Range(time) :
       SendPut(m, n) \/ SendFull(m, n) \/ SendWait(m, n)
  \/ SendWake
  \/ \E m \in IrqMail : IrqSend(m)
  \/ \E n \in Times \union Range(time) : RecvTake(n) \/ RecvEmpty(n) \/ RecvWait(n)
  \/ RecvReturn \/ RecvWake
  \/ Reset \/ Delete_call \/ DeleteLoop

MbSpec == MbInit /\ [][MbNext]_mbVars

-----------------------------------------------------------------------------
(* Properties *)

\* The ring is what its count and its two offsets say, every slot between them
\* holds a mail, and a thread that waits is inside the call that it waits for
\* (ipc.c:1535-1541, 1683-1690: three fields change in one section).
RingConsistent ==
  /\ MbTypeOK
  /\ in_offset = (out_offset + entry) % Size
  /\ \A i \in 0 .. entry - 1 : msg_pool[(out_offset + i) % Size] # NoMail
  /\ \A t \in ToSet(k.wait[Receivers]) : op[t] = "recv_wait"
  /\ \A t \in ToSet(k.wait[Senders]) : op[t] = "send_wait" /\ mail[t] # NoMail

\* No lost wake-up on either side: mails lie in the mailbox while receivers wait,
\* and slots are free while senders wait, only as long as as many resumed threads
\* are on their way to them (ipc.c:1546, 1695 resume one thread each, and a
\* resumed thread may come too late and wait again, 1472-1532, 1618-1680).
NoLostWakeup ==
  alive => /\ NoneForgotten(Receivers, entry, RecvPlaces)
           /\ NoneForgotten(Senders, Size - entry, SendPlaces)

\* The mailbox does what ChannelSpec promises: whatever times out, preempts, is
\* resumed in vain or wraps around, every mail goes to one receiver, in order.
Promise == INSTANCE ChannelSpec WITH
             Message <- Mail \union IrqMail, Urgents <- {}, Nothing <- NoMail, Capacity <- Size,
             chan <- [i \in 1 .. entry |-> msg_pool[(out_offset + i - 1) % Size]],
             hand <- [t \in Thread |-> IF op[t] = "recv_done" THEN mail[t] ELSE NoMail]
ImplementsMailbox == Promise!Spec

=============================================================================
