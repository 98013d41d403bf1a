---------------------------- MODULE MessageQueue ----------------------------
(***************************************************************************)
(* One message queue of ipc.c: nodes that are linked in the queue, linked  *)
(* in the free list, or in the hands of a thread that copies a message     *)
(* into them or out of them with interrupts enabled.                       *)
(***************************************************************************)
EXTENDS RtRetry

CONSTANTS
  Node,        \* the nodes of mq->msg_pool
  NULL,
  Message,     \* what rt_mq_send sends
  UrgentMessage, \* what rt_mq_urgent sends
  IrqMessage,  \* what an interrupt handler sends with rt_mq_send
  Nothing,     \* the contents of a node that holds no message
  MqFlag,      \* RT_IPC_FLAG_FIFO or RT_IPC_FLAG_PRIO
  Services     \* the calls that are made

Messages == Message \union UrgentMessage \union IrqMessage
ASSUME NodeAssumption     == IsFiniteSet(Node) /\ NULL \notin Node
ASSUME MessageAssumption  == Nothing \notin Messages
ASSUME MqFlagAssumption   == MqFlag \in {"FIFO", "PRIO"}
ASSUME ServicesAssumption == Services \subseteq {"send", "recv", "reset", "delete"}

Mq == "mq"     \* mq->parent.suspend_thread
ASSUME MqAssumption == Mq \in WaitList

VARIABLES
  next, data,             \* the link and the contents of every node
  msg_queue_head, msg_queue_tail, msg_queue_free, entry,
  msg,                    \* the node in the hands of each thread
  buffer,                 \* what the send of each thread sends
  alive                   \* FALSE once rt_mq_delete has been called

listVars == <<next, msg_queue_head, msg_queue_tail, msg_queue_free, entry>>
mqVars == <<k, pc, tgt, isr, op, time, listVars, data, msg, buffer, alive>>

RecvPlaces == {"recv_wait", "recv_retry"}

MqTypeOK ==
  /\ TypeOK
  /\ op \in [Thread -> RecvPlaces \union
               {"none", "send_link", "recv_copy", "delete", "delete_resume"}]
  /\ time \in [Thread -> Int]
  /\ next \in [Node -> Node \union {NULL}]
  /\ data \in [Node -> Messages \union {Nothing}]
  /\ {msg_queue_head, msg_queue_tail, msg_queue_free} \subseteq Node \union {NULL}
  /\ entry \in Nat
  /\ msg \in [Thread -> Node \union {NULL}]
  /\ buffer \in [Thread -> Messages \union {Nothing}]
  /\ alive \in BOOLEAN

\* The nodes that links nx lead to from x on, and NULL behind the last one (one
\* step more than there are nodes: a list that runs in a circle is too long).
NodesFrom(nx, x) ==
  LET node[i \in 1 .. Cardinality(Node) + 1] ==
        IF i = 1 THEN x ELSE IF node[i - 1] = NULL THEN NULL ELSE nx[node[i - 1]]
  IN  node
ChainIn(nx, x) ==
  LET node == NodesFrom(nx, x)
  IN  [i \in 1 .. Cardinality({i \in DOMAIN node : node[i] # NULL}) |-> node[i]]
Chain(x) == ChainIn(next, x)

\* rt_mq_init: every node is pushed onto the free list (the first node of the
\* pool may be called by any name).
MqInit ==
  /\ IpcInit
  /\ time = [t \in Thread |-> 0]
  /\ \E s \in SetToSeqs(Node) :
         /\ next = [x \in Node |-> LET i == CHOOSE i \in DOMAIN s : s[i] = x
                                   IN  IF i = 1 THEN NULL ELSE s[i - 1]]
         /\ msg_queue_free = IF s = << >> THEN NULL ELSE Last(s)
  /\ data = [x \in Node |-> Nothing]
  /\ msg_queue_head = NULL /\ msg_queue_tail = NULL /\ entry = 0
  /\ msg = [t \in Thread |-> NULL]
  /\ buffer = [t \in Thread |-> Nothing]
  /\ alive = TRUE

MqCall(c) == Outside /\ c \in Services /\ alive

Hold(x) == msg' = [msg EXCEPT ![k.cur] = x]

-----------------------------------------------------------------------------
(* rt_mq_send and rt_mq_urgent *)

\* The first section takes a free node.
SendTake(m) ==
  /\ MqCall("send")
  /\ msg_queue_free # NULL
  /\ msg_queue_free' = next[msg_queue_free]
  /\ Hold(msg_queue_free)
  /\ buffer' = [buffer EXCEPT ![k.cur] = m]
  /\ Then_return(k, "send_link")
  /\ UNCHANGED <<next, msg_queue_head, msg_queue_tail, entry, data, time, alive>>

\* -RT_EFULL
SendFull(m) ==
  /\ MqCall("send")
  /\ msg_queue_free = NULL
  /\ Then_return(k, "none")
  /\ UNCHANGED <<listVars, data, msg, buffer, time, alive>>

\* Mutant: the tail is not moved when the queue is not empty.
LinkTail_KeepsTail(x) ==
  /\ next' = IF msg_queue_tail = NULL THEN [next EXCEPT ![x] = NULL]
             ELSE [next EXCEPT ![x] = NULL, ![msg_queue_tail] = x]
  /\ msg_queue_tail' = IF msg_queue_tail = NULL THEN x ELSE msg_queue_tail
  /\ msg_queue_head' = IF msg_queue_head = NULL THEN x ELSE msg_queue_head

\* The node behind the last one, its own link cleared before.
LinkTail(x) ==
  /\ next' = IF msg_queue_tail = NULL THEN [next EXCEPT ![x] = NULL]
             ELSE [next EXCEPT ![x] = NULL, ![msg_queue_tail] = x]
  /\ msg_queue_tail' = x
  /\ msg_queue_head' = IF msg_queue_head = NULL THEN x ELSE msg_queue_head

\* Mutant: an urgent message is sent to the tail.
LinkHead_Tail(x) == LinkTail(x)

LinkHead(x) ==
  /\ next' = [next EXCEPT ![x] = msg_queue_head]
  /\ msg_queue_head' = x
  /\ msg_queue_tail' = IF msg_queue_tail = NULL THEN x ELSE msg_queue_tail

\* The message is copied into the node, the node is linked, and one waiting
\* thread is resumed.
Queued(x, m) ==
  /\ IF m \in UrgentMessage THEN LinkHead(x) ELSE LinkTail(x)
  /\ data' = [data EXCEPT ![x] = m]
  /\ entry' = entry + 1

\* Mutant: no waiting thread is resumed.
SendLink_WakesNobody ==
  /\ Inside("send_link")
  /\ Queued(msg[k.cur], buffer[k.cur])
  /\ Hold(NULL) /\ buffer' = [buffer EXCEPT ![k.cur] = Nothing]
  /\ Then_return(k, "none")
  /\ UNCHANGED <<msg_queue_free, time, alive>>

SendLink ==
  /\ Inside("send_link")
  /\ Queued(msg[k.cur], buffer[k.cur])
  /\ Hold(NULL) /\ buffer' = [buffer EXCEPT ![k.cur] = Nothing]
  /\ IF k.wait[Mq] = << >> THEN Then_return(k, "none")
     ELSE Then_schedule(rt_ipc_list_resume(k, Mq), "none")
  /\ UNCHANGED <<msg_queue_free, time, alive>>

\* rt_mq_send in an interrupt handler.
IrqSend(m) ==
  /\ alive
  /\ msg_queue_free # NULL
  /\ msg_queue_free' = next[msg_queue_free]
  /\ Queued(msg_queue_free, m)
  /\ IrqResume(Mq)
  /\ UNCHANGED <<msg, buffer, time, alive>>

-----------------------------------------------------------------------------
(* rt_mq_recv *)

\* The current thread enters the section of rt_mq_recv with n ticks to wait: at
\* its call, or after it was resumed.
Receiving(n) ==
  \/ MqCall("recv") /\ n \in Times
  \/ Inside("recv_retry") /\ n = time[k.cur]

\* The first node is unlinked; its message is copied with interrupts enabled.
RecvTake(n) ==
  /\ Receiving(n) /\ entry > 0
  /\ msg_queue_head' = next[msg_queue_head]
  /\ msg_queue_tail' = IF msg_queue_tail = msg_queue_head THEN NULL ELSE msg_queue_tail
  /\ entry' = entry - 1
  /\ Hold(msg_queue_head) /\ SetTime(0)
  /\ Then_return(k, "recv_copy")
  /\ UNCHANGED <<next, msg_queue_free, data, buffer, alive>>

\* The message has been copied, and its node goes back to the free list.
RecvFree ==
  /\ Inside("recv_copy")
  /\ next' = [next EXCEPT ![msg[k.cur]] = msg_queue_free]
  /\ msg_queue_free' = msg[k.cur]
  /\ data' = [data EXCEPT ![msg[k.cur]] = Nothing]
  /\ Hold(NULL)
  /\ Then_return(k, "none")
  /\ UNCHANGED <<msg_queue_head, msg_queue_tail, entry, buffer, time, alive>>

RecvEmpty(n) ==
  /\ Receiving(n) /\ entry = 0 /\ n = 0
  /\ Over
  /\ UNCHANGED <<listVars, data, msg, buffer, alive>>

RecvWait(n) ==
  /\ Receiving(n) /\ entry = 0 /\ n # 0
  /\ Then_schedule(WaitOn(k, Mq, k.cur, MqFlag, n), "recv_wait")
  /\ SetTime(n)
  /\ UNCHANGED <<listVars, data, msg, buffer, alive>>

RecvWake ==
  /\ WakeUp("recv_wait", "recv_retry")
  /\ UNCHANGED <<listVars, data, msg, buffer, alive>>

-----------------------------------------------------------------------------
(* rt_mq_control(RT_IPC_CMD_RESET) and rt_mq_delete *)

\* Every queued node is pushed onto the free list, in the order of the queue.
Reset ==
  /\ MqCall("reset")
  /\ LET q == Chain(msg_queue_head)
     IN  /\ next' = [x \in Node |->
                       IF ~Contains(q, x) THEN next[x]
                       ELSE IF x = Head(q) THEN msg_queue_free
                       ELSE q[(CHOOSE i \in DOMAIN q : q[i] = x) - 1]]
         /\ msg_queue_free' = IF q = << >> THEN msg_queue_free ELSE Last(q)
         /\ data' = [x \in Node |-> IF Contains(q, x) THEN Nothing ELSE data[x]]
  /\ msg_queue_head' = NULL /\ msg_queue_tail' = NULL /\ entry' = 0
  /\ Then_schedule(rt_ipc_list_resume_all(k, Mq), "none")
  /\ UNCHANGED <<msg, buffer, time, alive>>

Delete_call ==
  /\ MqCall("delete")
  /\ alive' = FALSE
  /\ Then_return(k, "delete")
  /\ UNCHANGED <<listVars, data, msg, buffer, time>>

DeleteLoop ==
  /\ \/ ResumeAllTest(Mq, "delete", "delete_resume", "none")
     \/ ResumeAllBody(Mq, "delete_resume", "delete")
  /\ UNCHANGED <<listVars, data, msg, buffer, time, alive>>

-----------------------------------------------------------------------------
Tick ==
  /\ TickComes
  /\ time' = TimeAfterTick(RecvPlaces)
  /\ UNCHANGED <<listVars, data, msg, buffer, alive>>

MqNext ==
  \/ Tick
  \/ OtherStep /\ UNCHANGED <<listVars, data, msg, buffer, time, alive>>
  \/ \E m \in Message \union UrgentMessage : SendTake(m) \/ SendFull(m)
  \/ SendLink
  \/ \E m \in IrqMessage : IrqSend(m)
  \/ \E n \in Times \union Range(time) : RecvTake(n) \/ RecvEmpty(n) \/ RecvWait(n)
  \/ RecvFree \/ RecvWake
  \/ Reset \/ Delete_call \/ DeleteLoop

MqSpec == MqInit /\ [][MqNext]_mqVars

-----------------------------------------------------------------------------
(* Properties *)

Queue == Chain(msg_queue_head)
Free  == Chain(msg_queue_free)
InHand == {t \in Thread : msg[t] # NULL}

\* No node is lost, shared or used twice, whatever comes between the sections of
\* a send or a receive: every node is in the queue, in the free list or in the
\* hands of one thread; the queue is as long as its count says, ends at its tail,
\* and holds a message in every node (ipc.c:1984-2020, 2238-2259, 2297-2314).
QueueConsistent ==
  /\ MqTypeOK
  /\ entry = Len(Queue)
  /\ msg_queue_tail = IF Queue = << >> THEN NULL ELSE Last(Queue)
  /\ \A x \in ToSet(Queue) : data[x] # Nothing
  /\ Len(Queue) + Len(Free) + Cardinality(InHand) = Cardinality(Node)
  /\ ToSet(Queue) \union ToSet(Free) \union {msg[t] : t \in InHand} = Node

\* No lost wake-up: messages lie in the queue while threads wait for one only as
\* long as as many resumed threads are on their way to them (one thread is
\* resumed per message, ipc.c:2025; it may come too late and wait, 2172-2235).
NoLostWakeup == alive => NoneForgotten(Mq, entry, RecvPlaces)

\* The message queue does what ChannelSpec promises: every message that was
\* linked goes to one receiver, the urgent ones first and the others in order,
\* and no send or reset touches a message that a receiver still copies.
Promise == INSTANCE ChannelSpec WITH
             Message <- Message \union IrqMessage, Urgents <- UrgentMessage,
             Capacity <- Cardinality(Node),
             chan <- [i \in 1 .. entry |-> data[Queue[i]]],
             hand <- [t \in Thread |-> IF op[t] = "recv_copy" THEN data[msg[t]] ELSE Nothing]
ImplementsQueue == Promise!Spec

=============================================================================
