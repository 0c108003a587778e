------------------------------- MODULE MqNotify -------------------------------
(***************************************************************************)
(* Four ways to be told of messages on a POSIX message queue, from         *)
(* Posix_message_queue/mqueue_test.cpp: a signal handler and sigsuspend    *)
(* ("signal"), sigwait ("sigwait"), a handler that writes to a pipe and    *)
(* select ("select"), and a new thread for each notification ("thread").   *)
(* All of them re-register first and then drain the queue; the menu of     *)
(* main.cpp starts one of them, and test_send_mq_notify sends.             *)
(*                                                                         *)
(* The queue and the signal mask are the kernel's: mq_notify registers for *)
(* one notification, sent when a message arrives at an empty queue, and    *)
(* fails (and Mq_notify then exits) while a registration is in place; a    *)
(* pending SIGUSR1 is not queued twice.                                    *)
(***************************************************************************)
EXTENDS Integers, FiniteSets

CONSTANTS
    Programs,   \* the consumers to start: a subset of AllPrograms
    MaxMsg,     \* mq_maxmsg, the capacity of the queue
    SendsNum    \* how many sends are followed (the sender never stops)

AllPrograms == {"signal", "sigwait", "select", "thread"}

ASSUME MqNotifyAssumption ==
    /\ Programs \subseteq AllPrograms
    /\ MaxMsg \in Nat \ {0}
    /\ SendsNum \in Nat

Process == 0                    \* the consumer's initial thread
Handlers == 1 .. SendsNum       \* the threads that run notify_thread
Actors == {Process} \cup Handlers

VARIABLES
    program,    \* the consumer that the menu started
    queued,     \* how many messages the queue holds
    registered, \* a notification is registered with the queue
    pending,    \* SIGUSR1 is pending for the consumer
    blocked,    \* SIGUSR1 is in the consumer's signal mask
    mqFlag,     \* mqFlag # 0
    pipe,       \* the bytes in the pipe
    pc,         \* what each thread of the consumer does next
    dead,       \* the consumer was killed or has exited
    sent,       \* how many sends were tried
    sender,     \* "sending", or "exited" after a send to a full queue
    received,   \* how many messages the consumer took (history)
    early       \* messages were there before the first registration (history)

vars == <<program, queued, registered, pending, blocked, mqFlag, pipe, pc,
          dead, sent, sender, received, early>>

Goto(a, there) == pc' = [pc EXCEPT ![a] = there]

\* Handler installed, queue created: the programs are about to call Mq_notify.
Init ==
    /\ program \in Programs
    /\ queued = 0
    /\ registered = FALSE
    /\ pending = FALSE
    /\ blocked = FALSE
    /\ mqFlag = FALSE
    /\ pipe = 0
    /\ pc = [a \in Actors |-> IF a = Process THEN "register" ELSE "unborn"]
    /\ dead = FALSE
    /\ sent = 0
    /\ sender = "sending"
    /\ received = 0
    /\ early = FALSE

-----------------------------------------------------------------------------
(* test_send_mq_notify, and what the kernel does with a message.           *)

\* The registration is used up; a thread is started or SIGUSR1 made pending.
Notification ==
    /\ registered' = FALSE
    /\ IF program = "thread"
       THEN /\ \E h \in Handlers :
                   /\ pc[h] = "unborn"
                   /\ \A g \in 1 .. h - 1 : pc[g] # "unborn"
                   /\ Goto(h, "renotify")
            /\ UNCHANGED pending
       ELSE pending' = TRUE /\ UNCHANGED pc

\* Wrong on purpose: a send that fails is only reported, and the loop goes on.
SendGoesOn ==
    /\ sender = "sending"
    /\ sent < SendsNum
    /\ sent' = sent + 1
    /\ IF queued = MaxMsg
       THEN UNCHANGED <<queued, registered, pending, pc>>
       ELSE /\ queued' = queued + 1
            /\ IF queued = 0 /\ registered /\ ~dead
               THEN Notification
               ELSE UNCHANGED <<registered, pending, pc>>
    /\ UNCHANGED <<program, blocked, mqFlag, pipe, dead, sender, received, early>>

\* O_NONBLOCK: mq_send to a full queue fails, and Mq_send then exits.
Send ==
    /\ sender = "sending"
    /\ sent < SendsNum
    /\ sent' = sent + 1
    /\ IF queued = MaxMsg
       THEN /\ sender' = "exited"
            /\ UNCHANGED <<queued, registered, pending, pc>>
       ELSE /\ queued' = queued + 1
            /\ IF queued = 0 /\ registered /\ ~dead
               THEN Notification
               ELSE UNCHANGED <<registered, pending, pc>>
            /\ UNCHANGED sender
    /\ UNCHANGED <<program, blocked, mqFlag, pipe, dead, received, early>>

-----------------------------------------------------------------------------
(* What the four programs share.                                           *)

\* Mq_notify: EBUSY while there is a registration, and err_sys then exits.
Notify(a, then) ==
    /\ registered' = TRUE
    /\ dead' = registered
    /\ Goto(a, then)
    /\ UNCHANGED <<program, queued, pending, blocked, mqFlag, pipe, sent, sender, received>>

\* The first call of Mq_notify.  No drain follows it.
Register ==
    /\ pc[Process] = "register"
    /\ early' = (queued > 0)
    /\ Notify(Process, CASE program \in {"signal", "sigwait"} -> "block"
                         [] program = "select" -> "select"
                         [] program = "thread" -> "pause")

Renotify(a) ==
    /\ pc[a] = "renotify"
    /\ Notify(a, "drain")
    /\ UNCHANGED early

\* Wrong on purpose: one message is read for a notification, if for while.
ReceiveOnce(a) ==
    /\ pc[a] = "drain"
    /\ queued > 0
    /\ queued' = queued - 1
    /\ received' = received + 1
    /\ Goto(a, CASE program = "signal" -> "unblock"
                 [] program = "sigwait" -> "sigwait"
                 [] program = "select" -> "select"
                 [] program = "thread" -> "done")
    /\ UNCHANGED <<program, registered, pending, blocked, mqFlag, pipe, dead,
                   sent, sender, early>>

Receive(a) ==
    /\ pc[a] = "drain"
    /\ queued > 0
    /\ queued' = queued - 1
    /\ received' = received + 1
    /\ UNCHANGED <<program, registered, pending, blocked, mqFlag, pipe, pc, dead,
                   sent, sender, early>>

\* Mq_receive returns -1234 (EAGAIN): the drain is over.
ReceiveNone(a) ==
    /\ pc[a] = "drain"
    /\ queued = 0
    /\ Goto(a, CASE program = "signal" -> "unblock"
                 [] program = "sigwait" -> "sigwait"
                 [] program = "select" -> "select"
                 [] program = "thread" -> "done")
    /\ UNCHANGED <<program, queued, registered, pending, blocked, mqFlag, pipe,
                   dead, sent, sender, received, early>>

\* SIGUSR1 is delivered as soon as it is not blocked: the handler sets the
\* flag or writes a byte, and where there is no handler the process is killed.
HandleSignal ==
    /\ pending
    /\ ~blocked
    /\ pending' = FALSE
    /\ mqFlag' = (mqFlag \/ program = "signal")
    /\ pipe' = IF program = "select" THEN pipe + 1 ELSE pipe
    /\ dead' = (program = "sigwait")
    /\ UNCHANGED <<program, queued, registered, blocked, pc, sent, sender, received, early>>

-----------------------------------------------------------------------------
(* test_mq_notify_signal and test_mq_notify_sigwait.                       *)

\* Wrong on purpose: the signal is left unblocked.
BlockNothing ==
    /\ pc[Process] = "block"
    /\ Goto(Process, IF program = "signal" THEN "test" ELSE "sigwait")
    /\ UNCHANGED <<program, queued, registered, pending, blocked, mqFlag, pipe,
                   dead, sent, sender, received, early>>

Block ==
    /\ pc[Process] = "block"
    /\ blocked' = TRUE
    /\ Goto(Process, IF program = "signal" THEN "test" ELSE "sigwait")
    /\ UNCHANGED <<program, queued, registered, pending, mqFlag, pipe, dead,
                   sent, sender, received, early>>

TestFlag ==
    /\ pc[Process] = "test"
    /\ Goto(Process, IF mqFlag THEN "reset" ELSE "suspend")
    /\ UNCHANGED <<program, queued, registered, pending, blocked, mqFlag, pipe,
                   dead, sent, sender, received, early>>

\* sigsuspend unblocks SIGUSR1, sleeps until the handler has run and blocks it
\* again, in one step.
Suspend ==
    /\ pc[Process] = "suspend"
    /\ pending
    /\ pending' = FALSE
    /\ mqFlag' = TRUE
    /\ Goto(Process, "test")
    /\ UNCHANGED <<program, queued, registered, blocked, pipe, dead, sent, sender, received, early>>

\* Wrong on purpose: the flag is not reset.
KeepFlag ==
    /\ pc[Process] = "reset"
    /\ Goto(Process, "renotify")
    /\ UNCHANGED <<program, queued, registered, pending, blocked, mqFlag, pipe,
                   dead, sent, sender, received, early>>

ResetFlag ==
    /\ pc[Process] = "reset"
    /\ mqFlag' = FALSE
    /\ Goto(Process, "renotify")
    /\ UNCHANGED <<program, queued, registered, pending, blocked, pipe, dead,
                   sent, sender, received, early>>

Unblock ==
    /\ pc[Process] = "unblock"
    /\ blocked' = FALSE
    /\ Goto(Process, "block")
    /\ UNCHANGED <<program, queued, registered, pending, mqFlag, pipe, dead,
                   sent, sender, received, early>>

Sigwait ==
    /\ pc[Process] = "sigwait"
    /\ pending
    /\ pending' = FALSE
    /\ Goto(Process, "renotify")
    /\ UNCHANGED <<program, queued, registered, blocked, mqFlag, pipe, dead,
                   sent, sender, received, early>>

-----------------------------------------------------------------------------
(* test_mq_notify_pipe_select.                                             *)

\* Interrupted by the signal, select is called again; it returns on a byte.
Select ==
    /\ pc[Process] = "select"
    /\ pipe > 0
    /\ Goto(Process, "read")
    /\ UNCHANGED <<program, queued, registered, pending, blocked, mqFlag, pipe,
                   dead, sent, sender, received, early>>

ReadPipe ==
    /\ pc[Process] = "read"
    /\ pipe' = pipe - 1
    /\ Goto(Process, "renotify")
    /\ UNCHANGED <<program, queued, registered, pending, blocked, mqFlag, dead,
                   sent, sender, received, early>>

-----------------------------------------------------------------------------
Thread(a) == Renotify(a) \/ Receive(a) \/ ReceiveNone(a)

Main == Register \/ Block \/ TestFlag \/ Suspend \/ ResetFlag \/ Unblock
          \/ Sigwait \/ Select \/ ReadPipe \/ Thread(Process)

Consumer == ~dead /\ (HandleSignal \/ Main \/ \E h \in Handlers : Thread(h))

Next == Send \/ Consumer

Spec == Init /\ [][Next]_vars

\* The kernel delivers a signal and the scheduler runs every thread that can
\* go on; nobody is obliged to send.
FairSpec ==
    /\ Spec
    /\ WF_vars(~dead /\ HandleSignal)
    /\ WF_vars(~dead /\ Main)
    /\ \A h \in Handlers : WF_vars(~dead /\ Thread(h))

-----------------------------------------------------------------------------
Count(b) == IF b THEN 1 ELSE 0

\* The values the variables take.  The pipe holds no more than one byte; every
\* message sent is in the queue or was received, but for the one that found the
\* queue full, and that one ended the sender (mqueue_test.cpp:435, 664).
TypeOK ==
    /\ program \in Programs
    /\ queued \in 0 .. MaxMsg
    /\ {registered, pending, blocked, mqFlag, dead, early} \subseteq BOOLEAN
    /\ pipe \in 0 .. 1
    /\ pc \in [Actors -> {"register", "unborn", "block", "test", "suspend", "reset",
                         "renotify", "drain", "unblock", "sigwait", "select",
                         "read", "pause", "done"}]
    /\ sent \in 0 .. SendsNum
    /\ received \in 0 .. SendsNum
    /\ sender \in {"sending", "exited"}
    /\ sent = queued + received + Count(sender = "exited")

\* There is one notification in the world: it is registered, or on its way as
\* a pending signal, a set flag or a byte in the pipe, or in the hands of the
\* one thread that registers it next.  So none is lost, none is doubled, and
\* two threads that drain at once do not both register.  No program is killed by
\* the signal or fails to register, but for the sigwait one, which registers
\* before it blocks the signal (mqueue_test.cpp:565).
OneNotification ==
    IF dead THEN program = "sigwait" /\ pc[Process] = "block"
    ELSE Count(registered) + Count(pending) + Count(mqFlag) + pipe
           + Cardinality({a \in Actors : pc[a] \in {"register", "renotify"}}) = 1

\* A message that arrives at a queue that is not empty fires nothing: whenever
\* the registration stands and messages wait, some thread is still draining.
\* Only messages that came before the very first registration are stranded.
NoMessageStranded ==
    ~dead /\ ~early /\ registered /\ queued > 0 => \E a \in Actors : pc[a] = "drain"

\* The queue is emptied again and again: no notification leaves a consumer
\* asleep on a queue with messages, unless they came before the registration.
MessagesReceived == queued > 0 ~> queued = 0 \/ dead \/ early

\* "我们希望从消息队列中获取消息": a message that was sent is received, whenever it
\* is sent after the queue was created.
EveryMessageReceived == queued > 0 ~> queued = 0 \/ dead
=============================================================================
