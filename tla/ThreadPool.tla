------------------------------ MODULE ThreadPool ------------------------------
(***************************************************************************)
(* The thread pool of thread_C++/thread_pool/thread_pool.cpp, driven by    *)
(* the program in main.cpp beside it: one task list, one mutex, one        *)
(* condition variable and one exit flag, shared by the workers and the     *)
(* thread that adds the tasks and stops the pool.                          *)
(*                                                                         *)
(* The exit flag, the task's data and the size of the list are read or     *)
(* written without the mutex, so every such access is a step of its own.   *)
(* The number a worker gets from getfuncNum is only printed and left out.  *)
(***************************************************************************)
EXTENDS Integers, Sequences, FiniteSets

CONSTANTS
    Workers,    \* the threads that run funcThread_Control
    TasksNum,   \* how many times main adds its task (max)
    NoOne       \* the mutex is free

ASSUME ThreadPoolAssumption ==
    /\ Workers # {}
    /\ NoOne \notin Workers
    /\ TasksNum \in Nat

Main == "main"  \* the thread that owns the pool

VARIABLES
    tasklist,   \* tasklist_Control: numbers of the additions, oldest first
    data,       \* data_Task of main's only task: the index into valdata
    exit,       \* exit_Thread_Control
    mutex,      \* the thread that holds lock_Mutex_Control
    pc,         \* what each worker does next
    main,       \* what main does next
    added,      \* how many tasks main has added
    ran         \* for each task taken, in order, the data its worker printed

vars == <<tasklist, data, exit, mutex, pc, main, added, ran>>

\* The workers that sleep in pthread_cond_wait.
Waiting == {w \in Workers : pc[w] = "waiting"}

Goto(w, there) == pc' = [pc EXCEPT ![w] = there]

Init ==
    /\ tasklist = <<>>
    /\ data = 0
    /\ exit = FALSE
    /\ mutex = NoOne
    /\ pc = [w \in Workers |-> "lock"]
    /\ main = "set_data"
    /\ added = 0
    /\ ran = <<>>

-----------------------------------------------------------------------------
(* funcThread_Control.                                                     *)

\* Wrong on purpose: the wait returns past the loop, if in place of while.
LockOnce(w) ==
    /\ pc[w] \in {"lock", "relock"}
    /\ mutex = NoOne
    /\ mutex' = w
    /\ Goto(w, IF pc[w] = "lock" THEN "predicate" ELSE "test_exit")
    /\ UNCHANGED <<tasklist, data, exit, main, added, ran>>

\* pthread_mutex_lock, on entry and when pthread_cond_wait returns.
Lock(w) ==
    /\ pc[w] \in {"lock", "relock"}
    /\ mutex = NoOne
    /\ mutex' = w
    /\ Goto(w, "predicate")
    /\ UNCHANGED <<tasklist, data, exit, main, added, ran>>

\* while (tasklist_Control.empty() && !exit_Thread_Control)
TestPredicate(w) ==
    /\ pc[w] = "predicate"
    /\ Goto(w, IF tasklist = <<>> /\ ~exit THEN "wait" ELSE "test_exit")
    /\ UNCHANGED <<tasklist, data, exit, mutex, main, added, ran>>

\* pthread_cond_wait releases the mutex and joins the waiters in one step.
CondWait(w) ==
    /\ pc[w] = "wait"
    /\ mutex' = NoOne
    /\ Goto(w, "waiting")
    /\ UNCHANGED <<tasklist, data, exit, main, added, ran>>

\* POSIX lets pthread_cond_wait return without a signal.
SpuriousWakeup(w) ==
    /\ pc[w] = "waiting"
    /\ Goto(w, "relock")
    /\ UNCHANGED <<tasklist, data, exit, mutex, main, added, ran>>

TestExit(w) ==
    /\ pc[w] = "test_exit"
    /\ Goto(w, IF exit THEN "unlock_exit" ELSE "take")
    /\ UNCHANGED <<tasklist, data, exit, mutex, main, added, ran>>

\* begin() of an empty list is not dereferenceable: NoEmptyTake.
Take(w) ==
    /\ pc[w] = "take"
    /\ tasklist' = IF tasklist = <<>> THEN tasklist ELSE Tail(tasklist)
    /\ Goto(w, "run")
    /\ UNCHANGED <<data, exit, mutex, main, added, ran>>

\* The worker prints what the task's data is by now.
Run(w) ==
    /\ pc[w] = "run"
    /\ ran' = Append(ran, data)
    /\ Goto(w, "unlock")
    /\ UNCHANGED <<tasklist, data, exit, mutex, main, added>>

Unlock(w) ==
    /\ pc[w] \in {"unlock", "unlock_exit"}
    /\ mutex' = NoOne
    /\ Goto(w, IF pc[w] = "unlock" THEN "lock" ELSE "exited")
    /\ UNCHANGED <<tasklist, data, exit, main, added, ran>>

Worker(w) ==
    \/ Lock(w)
    \/ TestPredicate(w)
    \/ CondWait(w)
    \/ TestExit(w)
    \/ Take(w)
    \/ Run(w)
    \/ Unlock(w)

-----------------------------------------------------------------------------
(* main: add the tasks, then poll the list and stop the pool.              *)

\* Wrong on purpose: one addition more than there are data.
SetDataOneTooMany ==
    /\ main = "set_data"
    /\ added <= TasksNum
    /\ data' = added + 1
    /\ main' = "add"
    /\ UNCHANGED <<tasklist, exit, mutex, pc, added, ran>>

\* Wrong on purpose: the data of the addition before this one.
SetDataOneBehind ==
    /\ main = "set_data"
    /\ added < TasksNum
    /\ data' = added
    /\ main' = "add"
    /\ UNCHANGED <<tasklist, exit, mutex, pc, added, ran>>

\* setData_Task on the one task object, without the mutex.
SetData ==
    /\ main = "set_data"
    /\ added < TasksNum
    /\ data' = added + 1
    /\ main' = "add"
    /\ UNCHANGED <<tasklist, exit, mutex, pc, added, ran>>

\* addTask_Control up to the unlock: nobody sees the list in between.
AddTask ==
    /\ main = "add"
    /\ mutex = NoOne
    /\ tasklist' = Append(tasklist, added + 1)
    /\ added' = added + 1
    /\ main' = "signal"
    /\ UNCHANGED <<data, exit, mutex, pc, ran>>

\* Wrong on purpose: the task is queued without waking anyone.
SignalNobody ==
    /\ main = "signal"
    /\ main' = "set_data"
    /\ UNCHANGED <<tasklist, data, exit, mutex, pc, added, ran>>

\* pthread_cond_signal, after the unlock: one waiter, if there is any.
Signal ==
    /\ main = "signal"
    /\ IF Waiting = {} THEN UNCHANGED pc
                       ELSE \E w \in Waiting : Goto(w, "relock")
    /\ main' = "set_data"
    /\ UNCHANGED <<tasklist, data, exit, mutex, added, ran>>

\* Wrong on purpose: the pool is stopped without a look at the list.
PollNothing ==
    /\ \/ main = "set_data" /\ added = TasksNum
       \/ main = "poll"
    /\ main' = "stop"
    /\ UNCHANGED <<tasklist, data, exit, mutex, pc, added, ran>>

\* All tasks are added; the loop tests getTaskSize_Control, which does not lock.
Poll ==
    /\ \/ main = "set_data" /\ added = TasksNum
       \/ main = "poll"
    /\ main' = IF tasklist = <<>> THEN "stop" ELSE "poll"
    /\ UNCHANGED <<tasklist, data, exit, mutex, pc, added, ran>>

\* stopAllThread_Control: a second call returns -1 and main leaves its loop.
Stop ==
    /\ main = "stop"
    /\ exit' = TRUE
    /\ main' = IF exit THEN "returned" ELSE "broadcast"
    /\ UNCHANGED <<tasklist, data, mutex, pc, added, ran>>

Broadcast ==
    /\ main = "broadcast"
    /\ pc' = [w \in Workers |-> IF w \in Waiting THEN "relock" ELSE pc[w]]
    /\ main' = "join"
    /\ UNCHANGED <<tasklist, data, exit, mutex, added, ran>>

\* Join every worker, then destroy the mutex and the condition variable.
Join ==
    /\ main = "join"
    /\ \A w \in Workers : pc[w] = "exited"
    /\ main' = "poll"
    /\ UNCHANGED <<tasklist, data, exit, mutex, pc, added, ran>>

MainThread == SetData \/ AddTask \/ Signal \/ Poll \/ Stop \/ Broadcast \/ Join

Terminated == main = "returned" /\ UNCHANGED vars

Next ==
    \/ \E w \in Workers : Worker(w) \/ SpuriousWakeup(w)
    \/ MainThread
    \/ Terminated

Spec == Init /\ [][Next]_vars

\* The scheduler passes no thread over for ever, and main gets a mutex that
\* workers woken without cause release again and again.  Nothing makes such a
\* spurious wake-up happen.
Fairness ==
    /\ \A w \in Workers : WF_vars(Worker(w))
    /\ WF_vars(MainThread)
    /\ SF_vars(AddTask)

FairSpec == Spec /\ Fairness

-----------------------------------------------------------------------------
Locked == {"predicate", "wait", "test_exit", "take", "run", "unlock", "unlock_exit"}

\* The values the variables take; main adds no task beyond max.
TypeOK ==
    /\ tasklist \in Seq(1 .. TasksNum)
    /\ data \in 0 .. TasksNum
    /\ exit \in BOOLEAN
    /\ mutex \in Workers \cup {NoOne}
    /\ pc \in [Workers -> Locked \cup {"lock", "waiting", "relock", "exited"}]
    /\ main \in {"set_data", "add", "signal", "poll", "stop", "broadcast",
                 "join", "returned"}
    /\ added \in 0 .. TasksNum
    /\ ran \in Seq(0 .. TasksNum)

\* A worker that goes on to take a task finds one: neither a spurious wake-up,
\* nor another worker that was faster, nor the exit flag changing between its
\* two tests sends it to the front of an empty list.
NoEmptyTake == \A w \in Workers : pc[w] = "take" => tasklist # <<>>

\* Once all workers have left, every task that was added has been run: main
\* sets the exit flag, at which workers leave tasks behind, only after it saw
\* the list empty, and the tasks then taken but not yet run are still run.
PoolRanEverything ==
    (\A w \in Workers : pc[w] = "exited") => Len(ran) = TasksNum

\* All entries of the list are the same task, so that a worker may print the
\* data of a later addition, but it never prints that of an earlier one.
DataNeverOlder == \A k \in 1 .. Len(ran) : ran[k] >= k

\* Every task that main adds is run: no signal for a task is lost.
EveryTaskRuns == <>(Len(ran) = TasksNum)

\* "使线程池中的所有线程退出": once stopAllThread_Control waits for the workers,
\* each of them exits.
StopEndsAllThreads == main = "join" ~> \A w \in Workers : pc[w] = "exited"
=============================================================================
