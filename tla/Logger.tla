-------------------------------- MODULE Logger --------------------------------
(***************************************************************************)
(* The logger of thread_C++/logger: threads push entries to a queue and a  *)
(* background thread writes them to a file; main is the program of         *)
(* main.cpp, whose Logger object is destroyed when main returns.           *)
(*                                                                         *)
(* log, ~Logger and processEntries touch the queue and mExit, and notify,  *)
(* only under mMutex.  A step is what happens between taking the mutex and *)
(* giving it back, so that the mutex is no state.                          *)
(***************************************************************************)
EXTENDS Integers, Sequences, FiniteSets

CONSTANTS
    Threads,    \* the threads that run logSomeMessages
    EntriesNum  \* how many entries each of them logs

ASSUME LoggerAssumption == IsFiniteSet(Threads) /\ EntriesNum \in Nat

VARIABLES
    mExit,      \* tells the background thread to end
    mQueue,     \* the entries logged and not written
    logFile,    \* the entries written to log.txt
    pc,         \* what the background thread does next
    count,      \* how many entries each thread has logged
    main,       \* what main does next
    logged      \* the entries logged so far, in the order of their pushes

vars == <<mExit, mQueue, logFile, pc, count, main, logged>>

Entries == [from : Threads, number : 0 .. EntriesNum - 1]

Init ==
    /\ mExit = FALSE
    /\ mQueue = <<>>
    /\ logFile = <<>>
    /\ pc = "open"
    /\ count = [t \in Threads |-> 0]
    /\ main = "join_threads"
    /\ logged = <<>>

-----------------------------------------------------------------------------
\* Wrong on purpose: log wakes nobody.
NotifyNone == UNCHANGED pc

\* notify_all: a background thread that waits goes on.
NotifyAll == pc' = IF pc = "waiting" THEN "draining" ELSE pc

\* Wrong on purpose: one entry too many.
LogOneTooMany(t) ==
    LET entry == [from |-> t, number |-> count[t]]
    IN  /\ count[t] <= EntriesNum
        /\ mQueue' = Append(mQueue, entry)
        /\ logged' = Append(logged, entry)
        /\ count' = [count EXCEPT ![t] = @ + 1]
        /\ NotifyAll
        /\ UNCHANGED <<mExit, logFile, main>>

\* logSomeMessages calls log, which pushes the entry and notifies.
Log(t) ==
    LET entry == [from |-> t, number |-> count[t]]
    IN  /\ count[t] < EntriesNum
        /\ mQueue' = Append(mQueue, entry)
        /\ logged' = Append(logged, entry)
        /\ count' = [count EXCEPT ![t] = @ + 1]
        /\ NotifyAll
        /\ UNCHANGED <<mExit, logFile, main>>

-----------------------------------------------------------------------------
(* processEntries.                                                         *)

\* The file may fail to open; the thread then ends at once.
OpenFile ==
    /\ pc = "open"
    /\ pc' \in {"opened", "failed"}
    /\ UNCHANGED <<mExit, mQueue, logFile, count, main, logged>>

\* Wrong on purpose: waits without a look at mExit.
BeginRegardless ==
    /\ pc = "opened"
    /\ pc' = "waiting"
    /\ UNCHANGED <<mExit, mQueue, logFile, count, main, logged>>

\* The first lock: wait without a look at the queue, unless mExit is set.
Begin ==
    /\ pc = "opened"
    /\ pc' = IF mExit THEN "draining" ELSE "waiting"
    /\ UNCHANGED <<mExit, mQueue, logFile, count, main, logged>>

\* condition_variable::wait without a predicate may return at any time.
SpuriousWakeup ==
    /\ pc = "waiting"
    /\ pc' = "draining"
    /\ UNCHANGED <<mExit, mQueue, logFile, count, main, logged>>

WriteEntry ==
    /\ pc = "draining"
    /\ mQueue # <<>>
    /\ logFile' = Append(logFile, Head(mQueue))
    /\ mQueue' = Tail(mQueue)
    /\ UNCHANGED <<mExit, pc, count, main, logged>>

\* Wrong on purpose: mExit is tested before the queue is.
DrainedOrExit ==
    /\ pc = "draining"
    /\ mExit \/ mQueue = <<>>
    /\ pc' = IF mExit THEN "ended" ELSE "waiting"
    /\ UNCHANGED <<mExit, mQueue, logFile, count, main, logged>>

\* The queue is found empty, and the mutex kept until the wait or the end.
Drained ==
    /\ pc = "draining"
    /\ mQueue = <<>>
    /\ pc' = IF mExit THEN "ended" ELSE "waiting"
    /\ UNCHANGED <<mExit, mQueue, logFile, count, main, logged>>

Background == OpenFile \/ Begin \/ WriteEntry \/ Drained

-----------------------------------------------------------------------------
JoinThreads ==
    /\ main = "join_threads"
    /\ \A t \in Threads : count[t] = EntriesNum
    /\ main' = "destroy"
    /\ UNCHANGED <<mExit, mQueue, logFile, pc, count, logged>>

\* ~Logger up to the join.
Destroy ==
    /\ main = "destroy"
    /\ mExit' = TRUE
    /\ NotifyAll
    /\ main' = "join_logger"
    /\ UNCHANGED <<mQueue, logFile, count, logged>>

JoinLogger ==
    /\ main = "join_logger"
    /\ pc \in {"ended", "failed"}
    /\ main' = "returned"
    /\ UNCHANGED <<mExit, mQueue, logFile, pc, count, logged>>

MainThread == JoinThreads \/ Destroy \/ JoinLogger

Terminated == main = "returned" /\ UNCHANGED vars

Next ==
    \/ \E t \in Threads : Log(t)
    \/ Background
    \/ SpuriousWakeup
    \/ MainThread
    \/ Terminated

Spec == Init /\ [][Next]_vars

FairSpec ==
    /\ Spec
    /\ \A t \in Threads : WF_vars(Log(t))
    /\ WF_vars(Background)
    /\ WF_vars(MainThread)

-----------------------------------------------------------------------------
\* The values the variables take; only entries that a thread logs are queued.
TypeOK ==
    /\ mExit \in BOOLEAN
    /\ mQueue \in Seq(Entries)
    /\ logFile \in Seq(Entries)
    /\ pc \in {"open", "opened", "failed", "waiting", "draining", "ended"}
    /\ count \in [Threads -> 0 .. EntriesNum]
    /\ main \in {"join_threads", "destroy", "join_logger", "returned"}
    /\ logged \in Seq(Entries)

\* The file and the queue together hold what was logged, in that order, and
\* when the destructor returns nothing is left in the queue, unless the file
\* could not be opened.
NothingLost ==
    /\ logFile \o mQueue = logged
    /\ main = "returned" => mQueue = <<>> \/ pc = "failed"

\* The background thread goes to sleep on entries only the first time, on
\* entries logged before it came to wait: afterwards it sleeps only on an
\* empty queue, and an entry wakes it.
SleepsOnEmptyQueue == pc = "waiting" /\ logFile # <<>> => mQueue = <<>>

\* The destructor returns, whenever it comes in the life of the background
\* thread: even when it ran before that thread first took the mutex.
DestructorReturns == <>(main = "returned")
=============================================================================
