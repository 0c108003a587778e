----------------------------- MODULE ShmMessages -----------------------------
(***************************************************************************)
(* Messages through a ring of slots in shared memory, from                 *)
(* Posix_shared_memory/mman_test.cpp: test_mman_3_consumer_service prints  *)
(* them, and every process that runs test_mman_3_producer_client writes    *)
(* LOOP_num of them.  A client does not wait for a free slot: it counts    *)
(* the message as an overflow and drops it.                                *)
(*                                                                         *)
(* The clients start when the service has set the segment up.              *)
(***************************************************************************)
EXTENDS Integers, Sequences, FiniteSets, Functions

CONSTANTS
    Clients,    \* the processes that run the producer client
    SlotsNum,   \* MESSAGE_num
    LoopNum,    \* LOOP_num, the messages of one client
    Blank       \* what a slot holds at first (bzero)

Messages == [client : Clients, number : 0 .. LoopNum - 1]

ASSUME ShmMessagesAssumption ==
    /\ IsFiniteSet(Clients)
    /\ SlotsNum \in Nat \ {0}
    /\ LoopNum \in Nat
    /\ Blank \notin Messages

VARIABLES
    slots,          \* msg_data at msg_offset[0], msg_offset[1], ...
    overflow,       \* the number of dropped messages
    overflowmutex,  \* the values of the four semaphores
    mutex,
    empty_num,
    stored_num,
    pc,             \* what each client does next
    i,              \* each client's loop counter
    index,          \* each client's own index of the next slot to write
    service,        \* what the service does next
    read_index,     \* the service's index of the next slot to print
    printed         \* the messages it has printed

vars == <<slots, overflow, overflowmutex, mutex, empty_num, stored_num,
          pc, i, index, service, read_index, printed>>

\* ++index, back to 0 at the end of the ring.
After(k) == IF k + 1 >= SlotsNum THEN 0 ELSE k + 1

Init ==
    /\ slots = [k \in 0 .. SlotsNum - 1 |-> Blank]
    /\ overflow = 0
    /\ overflowmutex = 1
    /\ mutex = 1
    /\ empty_num = SlotsNum
    /\ stored_num = 0
    /\ pc = [c \in Clients |-> "try_empty"]
    /\ i = [c \in Clients |-> 0]
    /\ index = [c \in Clients |-> 0]
    /\ service = "wait_stored"
    /\ read_index = 0
    /\ printed = <<>>

-----------------------------------------------------------------------------
(* test_mman_3_producer_client.                                            *)

Goto(c, there) == pc' = [pc EXCEPT ![c] = there]

\* Wrong on purpose: writes whether or not a slot is free.
TryEmptyUnchecked(c) ==
    /\ pc[c] = "try_empty"
    /\ i[c] < LoopNum
    /\ empty_num' = IF empty_num > 0 THEN empty_num - 1 ELSE empty_num
    /\ Goto(c, "wait_mutex")
    /\ UNCHANGED <<slots, overflow, overflowmutex, mutex, stored_num,
                   i, index, service, read_index, printed>>

\* Sem_trywait: EAGAIN, not a wait, when no slot is free.
TryEmpty(c) ==
    /\ pc[c] = "try_empty"
    /\ i[c] < LoopNum
    /\ IF empty_num > 0
       THEN empty_num' = empty_num - 1 /\ Goto(c, "wait_mutex")
       ELSE UNCHANGED empty_num /\ Goto(c, "wait_overflow")
    /\ UNCHANGED <<slots, overflow, overflowmutex, mutex, stored_num,
                   i, index, service, read_index, printed>>

WaitOverflow(c) ==
    /\ pc[c] = "wait_overflow"
    /\ overflowmutex > 0
    /\ overflowmutex' = overflowmutex - 1
    /\ Goto(c, "count_overflow")
    /\ UNCHANGED <<slots, overflow, mutex, empty_num, stored_num,
                   i, index, service, read_index, printed>>

CountOverflow(c) ==
    /\ pc[c] = "count_overflow"
    /\ overflow' = overflow + 1
    /\ overflowmutex' = overflowmutex + 1
    /\ i' = [i EXCEPT ![c] = @ + 1]
    /\ Goto(c, "try_empty")
    /\ UNCHANGED <<slots, mutex, empty_num, stored_num,
                   index, service, read_index, printed>>

WaitMutex(c) ==
    /\ pc[c] = "wait_mutex"
    /\ mutex > 0
    /\ mutex' = mutex - 1
    /\ Goto(c, "write")
    /\ UNCHANGED <<slots, overflow, overflowmutex, empty_num, stored_num,
                   i, index, service, read_index, printed>>

Write(c) ==
    /\ pc[c] = "write"
    /\ slots' = [slots EXCEPT ![index[c]] = [client |-> c, number |-> i[c]]]
    /\ Goto(c, "post_mutex")
    /\ UNCHANGED <<overflow, overflowmutex, mutex, empty_num, stored_num,
                   i, index, service, read_index, printed>>

PostMutex(c) ==
    /\ pc[c] = "post_mutex"
    /\ mutex' = mutex + 1
    /\ Goto(c, "post_stored")
    /\ UNCHANGED <<slots, overflow, overflowmutex, empty_num, stored_num,
                   i, index, service, read_index, printed>>

PostStored(c) ==
    /\ pc[c] = "post_stored"
    /\ stored_num' = stored_num + 1
    /\ index' = [index EXCEPT ![c] = After(@)]
    /\ i' = [i EXCEPT ![c] = @ + 1]
    /\ Goto(c, "try_empty")
    /\ UNCHANGED <<slots, overflow, overflowmutex, mutex, empty_num,
                   service, read_index, printed>>

Client(c) == TryEmpty(c) \/ WaitOverflow(c) \/ CountOverflow(c) \/ WaitMutex(c)
               \/ Write(c) \/ PostMutex(c) \/ PostStored(c)

-----------------------------------------------------------------------------
(* test_mman_3_consumer_service, from its loop on.                         *)

ServeWaitStored ==
    /\ service = "wait_stored"
    /\ stored_num > 0
    /\ stored_num' = stored_num - 1
    /\ service' = "wait_mutex"
    /\ UNCHANGED <<slots, overflow, overflowmutex, mutex, empty_num,
                   pc, i, index, read_index, printed>>

ServeWaitMutex ==
    /\ service = "wait_mutex"
    /\ mutex > 0
    /\ mutex' = mutex - 1
    /\ service' = "print"
    /\ UNCHANGED <<slots, overflow, overflowmutex, empty_num, stored_num,
                   pc, i, index, read_index, printed>>

PrintMessage ==
    /\ service = "print"
    /\ printed' = Append(printed, slots[read_index])
    /\ service' = "post_mutex"
    /\ UNCHANGED <<slots, overflow, overflowmutex, mutex, empty_num, stored_num,
                   pc, i, index, read_index>>

ServePostMutex ==
    /\ service = "post_mutex"
    /\ mutex' = mutex + 1
    /\ service' = "post_empty"
    /\ UNCHANGED <<slots, overflow, overflowmutex, empty_num, stored_num,
                   pc, i, index, read_index, printed>>

\* Wrong on purpose: the slot is given back twice.
ServePostEmptyTwice ==
    /\ service = "post_empty"
    /\ empty_num' = empty_num + 2
    /\ service' = "wait_overflow"
    /\ UNCHANGED <<slots, overflow, overflowmutex, mutex, stored_num,
                   pc, i, index, read_index, printed>>

ServePostEmpty ==
    /\ service = "post_empty"
    /\ empty_num' = empty_num + 1
    /\ service' = "wait_overflow"
    /\ UNCHANGED <<slots, overflow, overflowmutex, mutex, stored_num,
                   pc, i, index, read_index, printed>>

ServeWaitOverflow ==
    /\ service = "wait_overflow"
    /\ overflowmutex > 0
    /\ overflowmutex' = overflowmutex - 1
    /\ service' = "post_overflow"
    /\ UNCHANGED <<slots, overflow, mutex, empty_num, stored_num,
                   pc, i, index, read_index, printed>>

\* Wrong on purpose: overflowmutex is kept.
ServeKeepOverflow ==
    /\ service = "post_overflow"
    /\ read_index' = After(read_index)
    /\ service' = "wait_stored"
    /\ UNCHANGED <<slots, overflow, overflowmutex, mutex, empty_num, stored_num,
                   pc, i, index, printed>>

\* The overflow counter it has read is only printed.
ServePostOverflow ==
    /\ service = "post_overflow"
    /\ overflowmutex' = overflowmutex + 1
    /\ read_index' = After(read_index)
    /\ service' = "wait_stored"
    /\ UNCHANGED <<slots, overflow, mutex, empty_num, stored_num,
                   pc, i, index, printed>>

Service == ServeWaitStored \/ ServeWaitMutex \/ PrintMessage \/ ServePostMutex
             \/ ServePostEmpty \/ ServeWaitOverflow \/ ServePostOverflow

-----------------------------------------------------------------------------
Finished == \A c \in Clients : pc[c] = "try_empty" /\ i[c] = LoopNum

Next == Service \/ \E c \in Clients : Client(c)

Spec == Init /\ [][Next]_vars

\* Every process that can go on does so; a semaphore that is posted again and
\* again is not withheld from the service for ever.
FairSpec ==
    /\ Spec
    /\ WF_vars(Service)
    /\ \A c \in Clients : WF_vars(Client(c))
    /\ SF_vars(ServeWaitMutex)
    /\ SF_vars(ServeWaitOverflow)

-----------------------------------------------------------------------------
\* The values the variables take: the mutexes are binary, and the two counting
\* semaphores never exceed the number of slots.
TypeOK ==
    /\ slots \in [0 .. SlotsNum - 1 -> Messages \cup {Blank}]
    /\ overflow \in Nat
    /\ {overflowmutex, mutex} \subseteq {0, 1}
    /\ {empty_num, stored_num} \subseteq 0 .. SlotsNum
    /\ pc \in [Clients -> {"try_empty", "wait_overflow", "count_overflow",
                          "wait_mutex", "write", "post_mutex", "post_stored"}]
    /\ i \in [Clients -> 0 .. LoopNum]
    /\ index \in [Clients -> 0 .. SlotsNum - 1]
    /\ service \in {"wait_stored", "wait_mutex", "print", "post_mutex",
                    "post_empty", "wait_overflow", "post_overflow"}
    /\ read_index \in 0 .. SlotsNum - 1
    /\ printed \in Seq(Messages \cup {Blank})

\* What the service prints is what was sent, each message once and in the
\* order of sending: it never prints a slot before it is written, or twice.
\* The order between two clients is not fixed.
PrintedInOrder ==
    \A m, n \in 1 .. Len(printed) :
        /\ printed[m] # Blank
        /\ m < n /\ printed[m].client = printed[n].client
               => printed[m].number < printed[n].number

\* "用 overflow 标记 消息丢弃或数据溢出 的次数": when the clients are done, every
\* message that was neither printed nor waits in its slot is counted in
\* overflow, and nothing else is.
OverflowCountsLosses ==
    Finished =>
        overflow + Cardinality((Range(printed) \cup Range(slots)) \ {Blank})
            = LoopNum * Cardinality(Clients)

\* The clients get through their loops, and the service prints all that waits.
AllServed == <>(Finished /\ stored_num = 0 /\ service = "wait_stored")
=============================================================================
