----------------------------- MODULE BoundedFifo -----------------------------
(***************************************************************************)
(* What the circular buffers of Posix_semaphore/semaphore_test.cpp promise *)
(* to their users: a bounded queue that hands out the ItemsNum numbered    *)
(* items each once and in the order in which they were put in.  The        *)
(* semaphores, the slots, the threads and the critical sections are the    *)
(* business of the modules that implement this one.                        *)
(***************************************************************************)
EXTENDS Integers, Sequences

CONSTANTS
    ItemsNum,   \* how many items travel through the buffer (items_num)
    Capacity    \* how many of them it holds at most (buff_len)

VARIABLES
    queue,      \* the items put in and not taken yet, oldest first
    accepted,   \* how many items were put in
    output      \* the items taken, in the order of their removal

vars == <<queue, accepted, output>>

Init ==
    /\ queue = <<>>
    /\ accepted = 0
    /\ output = <<>>

\* Items are numbered in the order in which they are put in.
Put ==
    /\ accepted < ItemsNum
    /\ Len(queue) < Capacity
    /\ queue' = Append(queue, accepted)
    /\ accepted' = accepted + 1
    /\ UNCHANGED output

Get ==
    /\ queue # <<>>
    /\ queue' = Tail(queue)
    /\ output' = Append(output, Head(queue))
    /\ UNCHANGED accepted

Next == Put \/ Get

Spec == Init /\ [][Next]_vars
=============================================================================
