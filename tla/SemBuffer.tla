------------------------------ MODULE SemBuffer ------------------------------
(***************************************************************************)
(* Several producers and several consumers on one circular buffer guarded  *)
(* by three unnamed semaphores: namespace shared_unnamed_02 and            *)
(* test_semaphore_unnamed_02 of Posix_semaphore/semaphore_test.cpp.        *)
(*                                                                         *)
(* A step is one semaphore call, or the code between two of them: what a   *)
(* thread does between Sem_wait(mutex) and Sem_post(mutex) touches only    *)
(* what the mutex protects, so that it is one step.                        *)
(***************************************************************************)
EXTENDS Integers, Sequences, FiniteSets, Functions

CONSTANTS
    Producers,  \* the threads that run produce (MAXNTHREADS of them)
    Consumers,  \* the threads that run consume (MAXNTHREADS of them)
    BuffLen,    \* buff_len, the number of slots
    ItemsNum    \* items_num, the number of items to be produced

ASSUME SemBufferAssumption ==
    /\ IsFiniteSet(Producers)
    /\ IsFiniteSet(Consumers)
    /\ Producers \cap Consumers = {}
    /\ BuffLen \in Nat \ {0}
    /\ ItemsNum \in Nat

VARIABLES
    buff,            \* shared.buff
    total_produced,  \* shared.total_produced
    total_consumed,  \* shared.total_consumed
    mutex,           \* the value of shared.mutex
    empty_num,       \* the value of shared.empty_num
    stored_num,      \* the value of shared.stored_num
    pc,              \* what each thread does next
    run_count,       \* run_produce_count and run_consume_count
    main,            \* what the creating thread does next
    output           \* what the consumers log, in the order of the removals

vars == <<buff, total_produced, total_consumed, mutex, empty_num, stored_num,
          pc, run_count, main, output>>

Threads == Producers \cup Consumers
Slots == 0 .. BuffLen - 1
Empty == -1         \* what a consumer leaves in the slot it has emptied

Goto(t, there) == pc' = [pc EXCEPT ![t] = there]

\* Wrong on purpose: the first values of empty_num and stored_num swapped.
InitSwapped ==
    /\ buff = [s \in Slots |-> 0]
    /\ total_produced = 0
    /\ total_consumed = 0
    /\ mutex = 1
    /\ empty_num = 0
    /\ stored_num = BuffLen
    /\ pc = [t \in Threads |-> IF t \in Producers THEN "wait_empty" ELSE "wait_stored"]
    /\ run_count = [t \in Threads |-> 0]
    /\ main = "join_produce"
    /\ output = <<>>

Init ==
    /\ buff = [s \in Slots |-> 0]        \* bzero, not Empty
    /\ total_produced = 0
    /\ total_consumed = 0
    /\ mutex = 1
    /\ empty_num = BuffLen
    /\ stored_num = 0
    /\ pc = [t \in Threads |-> IF t \in Producers THEN "wait_empty" ELSE "wait_stored"]
    /\ run_count = [t \in Threads |-> 0]
    /\ main = "join_produce"
    /\ output = <<>>

-----------------------------------------------------------------------------
(* Semaphore calls.  Sem_wait blocks while the value is 0.                 *)

WaitMutex(t) ==
    /\ pc[t] = "wait_mutex"
    /\ mutex > 0
    /\ mutex' = mutex - 1
    /\ Goto(t, "critical")
    /\ UNCHANGED <<buff, total_produced, total_consumed, empty_num, stored_num,
                   run_count, main, output>>

\* Leave the critical section; then is what the thread does afterwards.
PostMutex(t, at, then) ==
    /\ pc[t] = at
    /\ mutex' = mutex + 1
    /\ Goto(t, then)
    /\ UNCHANGED <<buff, total_produced, total_consumed, empty_num, stored_num,
                   run_count, main, output>>

-----------------------------------------------------------------------------
(* The producer threads.                                                   *)

\* Wrong on purpose: Sem_trywait in place of Sem_wait, its failure ignored.
WaitEmptyUnchecked(p) ==
    /\ pc[p] = "wait_empty"
    /\ empty_num' = IF empty_num > 0 THEN empty_num - 1 ELSE empty_num
    /\ Goto(p, "wait_mutex")
    /\ UNCHANGED <<buff, total_produced, total_consumed, mutex, stored_num,
                   run_count, main, output>>

WaitEmpty(p) ==
    /\ pc[p] = "wait_empty"
    /\ empty_num > 0
    /\ empty_num' = empty_num - 1
    /\ Goto(p, "wait_mutex")
    /\ UNCHANGED <<buff, total_produced, total_consumed, mutex, stored_num,
                   run_count, main, output>>

\* Wrong on purpose: > in place of >= in the test for the last item.
ProduceOneTooMany(p) ==
    /\ pc[p] = "critical"
    /\ total_produced <= ItemsNum
    /\ buff' = [buff EXCEPT ![total_produced % BuffLen] = total_produced]
    /\ total_produced' = total_produced + 1
    /\ Goto(p, "post_mutex")
    /\ UNCHANGED <<total_consumed, mutex, empty_num, stored_num, run_count,
                   main, output>>

Produce(p) ==
    /\ pc[p] = "critical"
    /\ total_produced < ItemsNum
    /\ buff' = [buff EXCEPT ![total_produced % BuffLen] = total_produced]
    /\ total_produced' = total_produced + 1
    /\ Goto(p, "post_mutex")
    /\ UNCHANGED <<total_consumed, mutex, empty_num, stored_num, run_count,
                   main, output>>

PostStored(p) ==
    /\ pc[p] = "post_stored"
    /\ stored_num' = stored_num + 1
    /\ run_count' = [run_count EXCEPT ![p] = @ + 1]
    /\ Goto(p, "wait_empty")
    /\ UNCHANGED <<buff, total_produced, total_consumed, mutex, empty_num,
                   main, output>>

\* Wrong on purpose: the leaving producer wakes no consumer.
EndProduceSilent(p) ==
    /\ pc[p] = "critical"
    /\ total_produced >= ItemsNum
    /\ Goto(p, "end_empty")
    /\ UNCHANGED <<buff, total_produced, total_consumed, mutex, empty_num,
                   stored_num, run_count, main, output>>

\* All items are produced: wake a consumer and the next producer, then leave.
EndProduceStored(p) ==
    /\ pc[p] = "critical"
    /\ total_produced >= ItemsNum
    /\ stored_num' = stored_num + 1
    /\ Goto(p, "end_empty")
    /\ UNCHANGED <<buff, total_produced, total_consumed, mutex, empty_num,
                   run_count, main, output>>

\* Wrong on purpose: the leaving producer keeps the slot it reserved.
EndProduceKeepSlot(p) ==
    /\ pc[p] = "end_empty"
    /\ Goto(p, "end_mutex")
    /\ UNCHANGED <<buff, total_produced, total_consumed, mutex, empty_num,
                   stored_num, run_count, main, output>>

EndProduceEmpty(p) ==
    /\ pc[p] = "end_empty"
    /\ empty_num' = empty_num + 1
    /\ Goto(p, "end_mutex")
    /\ UNCHANGED <<buff, total_produced, total_consumed, mutex, stored_num,
                   run_count, main, output>>

Producer(p) ==
    \/ WaitEmpty(p)
    \/ WaitMutex(p)
    \/ Produce(p)
    \/ PostMutex(p, "post_mutex", "post_stored")
    \/ PostStored(p)
    \/ EndProduceStored(p)
    \/ EndProduceEmpty(p)
    \/ PostMutex(p, "end_mutex", "done")

-----------------------------------------------------------------------------
(* The consumer threads.                                                   *)

WaitStored(c) ==
    /\ pc[c] = "wait_stored"
    /\ stored_num > 0
    /\ stored_num' = stored_num - 1
    /\ Goto(c, "wait_mutex")
    /\ UNCHANGED <<buff, total_produced, total_consumed, mutex, empty_num,
                   run_count, main, output>>

\* Wrong on purpose: each consumer keeps its own index into the buffer.
ConsumeOwnIndex(c) ==
    LET val == run_count[c] % BuffLen
        stocked == total_consumed < total_produced /\ buff[val] # Empty
    IN  /\ pc[c] = "critical"
        /\ total_consumed < ItemsNum
        /\ buff' = IF stocked THEN [buff EXCEPT ![val] = Empty] ELSE buff
        /\ output' = IF stocked THEN Append(output, buff[val]) ELSE output
        /\ total_consumed' = IF stocked THEN total_consumed + 1 ELSE total_consumed
        /\ Goto(c, "post_mutex")
        /\ UNCHANGED <<total_produced, mutex, empty_num, stored_num, run_count, main>>

\* The slot's item is taken only if there is one; the pass goes on either way.
Consume(c) ==
    LET val == total_consumed % BuffLen
        stocked == total_consumed < total_produced /\ buff[val] # Empty
    IN  /\ pc[c] = "critical"
        /\ total_consumed < ItemsNum
        /\ buff' = IF stocked THEN [buff EXCEPT ![val] = Empty] ELSE buff
        /\ output' = IF stocked THEN Append(output, buff[val]) ELSE output
        /\ total_consumed' = IF stocked THEN total_consumed + 1 ELSE total_consumed
        /\ Goto(c, "post_mutex")
        /\ UNCHANGED <<total_produced, mutex, empty_num, stored_num, run_count, main>>

PostEmpty(c) ==
    /\ pc[c] = "post_empty"
    /\ empty_num' = empty_num + 1
    /\ run_count' = [run_count EXCEPT ![c] = @ + 1]
    /\ Goto(c, "wait_stored")
    /\ UNCHANGED <<buff, total_produced, total_consumed, mutex, stored_num,
                   main, output>>

\* All items are consumed: hand the token on to the next consumer, then leave.
EndConsumeStored(c) ==
    /\ pc[c] = "critical"
    /\ total_consumed >= ItemsNum
    /\ stored_num' = stored_num + 1
    /\ Goto(c, "end_mutex")
    /\ UNCHANGED <<buff, total_produced, total_consumed, mutex, empty_num,
                   run_count, main, output>>

Consumer(c) ==
    \/ WaitStored(c)
    \/ WaitMutex(c)
    \/ Consume(c)
    \/ PostMutex(c, "post_mutex", "post_empty")
    \/ PostEmpty(c)
    \/ EndConsumeStored(c)
    \/ PostMutex(c, "end_mutex", "done")

-----------------------------------------------------------------------------
(* The creating thread joins the producers, then the consumers, and then   *)
(* destroys the semaphores.                                                *)

Finished(S) == \A t \in S : pc[t] = "done"

JoinProducers ==
    /\ main = "join_produce"
    /\ Finished(Producers)
    /\ main' = "join_consume"
    /\ UNCHANGED <<buff, total_produced, total_consumed, mutex, empty_num,
                   stored_num, pc, run_count, output>>

JoinConsumers ==
    /\ main = "join_consume"
    /\ Finished(Consumers)
    /\ main' = "destroyed"
    /\ UNCHANGED <<buff, total_produced, total_consumed, mutex, empty_num,
                   stored_num, pc, run_count, output>>

\* The test has returned.
Terminated == main = "destroyed" /\ UNCHANGED vars

Next ==
    \/ \E p \in Producers : Producer(p)
    \/ \E c \in Consumers : Consumer(c)
    \/ JoinProducers
    \/ JoinConsumers
    \/ Terminated

Spec == Init /\ [][Next]_vars

\* No thread that can go on is passed over for ever: every thread runs a
\* finite program on a preemptive scheduler.
Fairness ==
    /\ \A p \in Producers : WF_vars(Producer(p))
    /\ \A c \in Consumers : WF_vars(Consumer(c))
    /\ WF_vars(JoinProducers \/ JoinConsumers)

FairSpec == Spec /\ Fairness
-----------------------------------------------------------------------------
(* What makes the buffer correct.                                          *)

\* The values the variables take: mutex is binary, and neither total runs past
\* items_num although every thread tests it in a pass of its own.
TypeOK ==
    /\ buff \in [Slots -> Int]
    /\ total_produced \in 0 .. ItemsNum
    /\ total_consumed \in 0 .. ItemsNum
    /\ mutex \in {0, 1}
    /\ empty_num \in Nat
    /\ stored_num \in Nat
    /\ pc \in [Threads -> {"wait_empty", "wait_stored", "wait_mutex", "critical",
                          "post_mutex", "post_stored", "post_empty",
                          "end_empty", "end_mutex", "done"}]
    /\ run_count \in [Threads -> Nat]
    /\ main \in {"join_produce", "join_consume", "destroyed"}
    /\ output \in Seq(Int)

At(S, places) == {t \in S : pc[t] \in places}

\* The items produced and not consumed are intact in their slots, and there
\* are no more of them than slots: no producer overwrites an item that no
\* consumer has taken, whatever the order in which the threads run.
BufferHoldsWindow ==
    /\ total_consumed <= total_produced
    /\ total_produced - total_consumed <= BuffLen
    /\ \A k \in total_consumed .. total_produced - 1 : buff[k % BuffLen] = k

\* Both semaphores account for the slots exactly, at every interleaving: a
\* free slot is a token of empty_num or in the hands of one thread, a stored
\* item is a token of stored_num or in the hands of one thread, and beside
\* those tokens there is one for each producer that left, no other.
TokensMatchSlots ==
    /\ empty_num
         + Cardinality(At(Producers, {"wait_mutex", "critical", "end_empty"}))
         + Cardinality(At(Consumers, {"post_mutex", "post_empty"}))
       = BuffLen - (total_produced - total_consumed)
    /\ stored_num
         + Cardinality(At(Consumers, {"wait_mutex", "critical"}))
         + Cardinality(At(Producers, {"post_mutex", "post_stored"}))
       = (total_produced - total_consumed)
         + Cardinality(At(Producers, {"end_empty", "end_mutex", "done"}))

\* The test for a stocked slot in consume never fails: the tokens that the
\* leaving producers post never send a consumer through a pass that takes
\* nothing, which would give away a slot that is not free.
EveryPassTakes ==
    \A c \in At(Consumers, {"critical"}) :
        total_consumed < ItemsNum =>
            /\ total_consumed < total_produced
            /\ buff[total_consumed % BuffLen] # Empty

\* The slots between the two totals are the queue of BoundedFifo, oldest
\* item first: each item is taken once, and in the order of production.
Fifo == INSTANCE BoundedFifo WITH
    Capacity <- BuffLen,
    queue <- [k \in 1 .. total_produced - total_consumed |->
                 buff[(total_consumed + k - 1) % BuffLen]],
    accepted <- total_produced,
    output <- output

ImplementsFifo == Fifo!Spec

\* Every thread leaves its loop and the test returns: the tokens that the
\* leaving threads hand on reach everyone who still waits.
Termination == <>(main = "destroyed")
=============================================================================
