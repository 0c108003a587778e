-------------------------- MODULE ThreadPool_proofs --------------------------
(***************************************************************************)
(* The safety properties of ThreadPool, proved for any number of workers   *)
(* and tasks.                                                              *)
(*                                                                         *)
(* A worker reads the list, the exit flag and the list again in separate   *)
(* steps; that the list is not empty at the third rests on mutual          *)
(* exclusion.  That every task is run rests on the balance of the tasks    *)
(* added against those queued, taken and run, and on main setting the flag *)
(* only when it has added all and saw the list empty.                      *)
(***************************************************************************)
EXTENDS ThreadPool, TLAPS

\* The worker that holds the mutex, and no other, is between lock and unlock.
MutualExclusion == \A w \in Workers : pc[w] \in Locked <=> mutex = w

\* Past the loop the list is not empty unless the pool is being stopped, and
\* a worker that goes on to take a task finds one.
ListWhenNeeded ==
    \A w \in Workers :
        /\ pc[w] = "test_exit" => tasklist # <<>> \/ exit
        /\ pc[w] = "take" => tasklist # <<>>

\* The tasks a worker has taken and not yet run: 0 or 1.
Taken == IF \E w \in Workers : pc[w] = "run" THEN 1 ELSE 0
Balance == added = Len(ran) + Taken + Len(tasklist)

\* The task's data is that of the last addition, or already of the next.
DataCurrent == data = IF main = "add" THEN added + 1 ELSE added

\* Main adds nothing after the last task, stops the pool only when it saw
\* the list empty, and workers leave only then.
StoppedWhenEmpty ==
    /\ main = "add" => added < TasksNum
    /\ main \in {"poll", "stop", "broadcast", "join", "returned"} => added = TasksNum
    /\ main \in {"stop", "broadcast", "join", "returned"} \/ exit => tasklist = <<>>
    /\ exit => main \in {"poll", "stop", "broadcast", "join", "returned"}
    /\ \A w \in Workers : pc[w] \in {"unlock_exit", "exited"} => exit

IInv ==
    /\ TypeOK
    /\ MutualExclusion
    /\ ListWhenNeeded
    /\ Balance
    /\ DataCurrent
    /\ StoppedWhenEmpty
    /\ DataNeverOlder

-----------------------------------------------------------------------------
(* Sequences and counting.                                                 *)

\* A task is queued.
LEMMA Queued ==
    ASSUME NEW S, NEW s \in Seq(S), NEW e \in S
    PROVE  /\ Append(s, e) \in Seq(S) /\ Append(s, e) # <<>>
           /\ Len(Append(s, e)) = Len(s) + 1
           /\ \A k \in 1 .. Len(s) : Append(s, e)[k] = s[k]
           /\ Append(s, e)[Len(s) + 1] = e
OBVIOUS

\* The oldest task is taken.
LEMMA Dequeued ==
    ASSUME NEW S, NEW s \in Seq(S), s # <<>>
    PROVE  Tail(s) \in Seq(S) /\ Len(Tail(s)) = Len(s) - 1 /\ Len(s) \in Nat
OBVIOUS

\* A length is a number, and that of an empty list is 0.
LEMMA Lengths ==
    ASSUME NEW S, NEW s \in Seq(S)
    PROVE  Len(s) \in Nat /\ (s = <<>> <=> Len(s) = 0)
OBVIOUS

\* A worker that neither begins nor ends a run leaves the count alone.
LEMMA TakenSame ==
    ASSUME NEW w \in Workers, TypeOK,
           pc' = [pc EXCEPT ![w] = pc'[w]], pc[w] # "run", pc'[w] # "run"
    PROVE  Taken' = Taken
<1>1. \A v \in Workers : pc'[v] = "run" <=> pc[v] = "run"
  BY DEF TypeOK
<1>. QED
  BY <1>1 DEF Taken

\* At most one worker runs a task, as it holds the mutex.
LEMMA TakenByHolder ==
    ASSUME MutualExclusion, NEW w \in Workers, pc[w] \in Locked
    PROVE  Taken = IF pc[w] = "run" THEN 1 ELSE 0
BY DEF MutualExclusion, Taken, Locked

-----------------------------------------------------------------------------
(* The invariant.                                                          *)

\* It holds initially.
LEMMA InitIInv == Init => IInv
<1>. SUFFICES ASSUME Init PROVE IInv
  OBVIOUS
<1>1. TypeOK
  <2>1. <<>> \in Seq(1 .. TasksNum) /\ <<>> \in Seq(0 .. TasksNum)
    OBVIOUS
  <2>2. 0 \in 0 .. TasksNum
    BY ThreadPoolAssumption
  <2>3. pc \in [Workers -> Locked \cup {"lock", "waiting", "relock", "exited"}]
    BY DEF Init
  <2>. QED
    BY <2>1, <2>2, <2>3 DEF Init, TypeOK
<1>2. MutualExclusion
  BY ThreadPoolAssumption DEF Init, MutualExclusion, Locked
<1>3. Balance
  BY DEF Init, Balance, Taken
<1>. QED
  BY <1>1, <1>2, <1>3
  DEF Init, IInv, ListWhenNeeded, DataCurrent, StoppedWhenEmpty, DataNeverOlder

\* A worker's step that moves it to another place keeps the mutual exclusion.
LEMMA WorkerExcludes ==
    ASSUME IInv, NEW w \in Workers, Worker(w) \/ SpuriousWakeup(w)
    PROVE  MutualExclusion'
<1>. USE DEF IInv, TypeOK, MutualExclusion, Locked, Goto
<1>1. CASE Lock(w)
  BY <1>1, ThreadPoolAssumption DEF Lock
<1>2. CASE TestPredicate(w)
  BY <1>2 DEF TestPredicate
<1>3. CASE CondWait(w)
  BY <1>3, ThreadPoolAssumption DEF CondWait
<1>4. CASE TestExit(w)
  BY <1>4 DEF TestExit
<1>5. CASE Take(w)
  BY <1>5 DEF Take
<1>6. CASE Run(w)
  BY <1>6 DEF Run
<1>7. CASE Unlock(w)
  BY <1>7, ThreadPoolAssumption DEF Unlock
<1>8. CASE SpuriousWakeup(w)
  BY <1>8 DEF SpuriousWakeup
<1>. QED
  BY <1>1, <1>2, <1>3, <1>4, <1>5, <1>6, <1>7, <1>8 DEF Worker

\* The steps of a worker that touch neither the list nor what was run.
LEMMA MoveIInv ==
    ASSUME IInv, NEW w \in Workers,
           \/ Lock(w) \/ TestPredicate(w) \/ CondWait(w) \/ TestExit(w)
           \/ Unlock(w) \/ SpuriousWakeup(w)
    PROVE  IInv'
<1>1. MutualExclusion'
  BY WorkerExcludes DEF Worker
<1>2. TypeOK'
  BY ThreadPoolAssumption
  DEF IInv, TypeOK, Goto, Locked, Lock, TestPredicate, CondWait, TestExit, Unlock, SpuriousWakeup
<1>3. /\ pc' = [pc EXCEPT ![w] = pc'[w]] /\ pc[w] # "run" /\ pc'[w] # "run"
      /\ UNCHANGED <<tasklist, data, exit, main, added, ran>>
  BY DEF IInv, TypeOK, Goto, Lock, TestPredicate, CondWait, TestExit, Unlock, SpuriousWakeup
<1>4. Balance'
  BY <1>3, TakenSame DEF IInv, Balance
<1>5. ListWhenNeeded'
  BY DEF IInv, TypeOK, ListWhenNeeded, Goto, Lock, TestPredicate, CondWait, TestExit, Unlock,
     SpuriousWakeup
<1>6. \A v \in Workers : pc'[v] \in {"unlock_exit", "exited"} => exit
  BY DEF IInv, TypeOK, StoppedWhenEmpty, Goto, Lock, TestPredicate, CondWait, TestExit, Unlock,
     SpuriousWakeup
<1>7. StoppedWhenEmpty' /\ DataCurrent' /\ DataNeverOlder'
  BY <1>3, <1>6 DEF IInv, StoppedWhenEmpty, DataCurrent, DataNeverOlder
<1>. QED
  BY <1>1, <1>2, <1>4, <1>5, <1>7 DEF IInv

\* A worker takes a task.
LEMMA TakeIInv ==
    ASSUME IInv, NEW w \in Workers, Take(w)
    PROVE  IInv'
<1>1. MutualExclusion'
  BY WorkerExcludes DEF Worker
<1>2. /\ tasklist # <<>> /\ tasklist' = Tail(tasklist) /\ pc[w] = "take"
      /\ pc' = [pc EXCEPT ![w] = "run"]
      /\ UNCHANGED <<data, exit, mutex, main, added, ran>>
  BY DEF IInv, ListWhenNeeded, Take, Goto
<1>3. /\ Tail(tasklist) \in Seq(1 .. TasksNum) /\ Len(Tail(tasklist)) = Len(tasklist) - 1
      /\ Len(tasklist) \in Nat /\ Len(ran) \in Nat
  BY <1>2, Dequeued, Lengths DEF IInv, TypeOK
<1>4. TypeOK'
  BY <1>2, <1>3 DEF IInv, TypeOK, Locked
<1>5. Taken = 0 /\ Taken' = 1
  <2>1. pc[w] \in Locked /\ pc'[w] = "run"
    BY <1>2 DEF Locked, IInv, TypeOK
  <2>. QED
    BY <1>2, <2>1, TakenByHolder DEF IInv, Taken
<1>6. Balance'
  BY <1>2, <1>3, <1>5 DEF IInv, TypeOK, Balance
<1>7. ListWhenNeeded'
  BY <1>2 DEF IInv, TypeOK, MutualExclusion, ListWhenNeeded, Locked
<1>8. StoppedWhenEmpty' /\ DataCurrent' /\ DataNeverOlder'
  BY <1>2 DEF IInv, TypeOK, StoppedWhenEmpty, DataCurrent, DataNeverOlder
<1>. QED
  BY <1>1, <1>4, <1>6, <1>7, <1>8 DEF IInv

\* A worker runs its task.
LEMMA RunIInv ==
    ASSUME IInv, NEW w \in Workers, Run(w)
    PROVE  IInv'
<1>1. MutualExclusion'
  BY WorkerExcludes DEF Worker
<1>2. /\ ran' = Append(ran, data) /\ pc[w] = "run" /\ pc' = [pc EXCEPT ![w] = "unlock"]
      /\ UNCHANGED <<tasklist, data, exit, mutex, main, added>>
  BY DEF Run, Goto
<1>3. /\ data \in 0 .. TasksNum /\ added \in 0 .. TasksNum /\ TasksNum \in Nat
      /\ ran \in Seq(0 .. TasksNum) /\ Len(ran) \in Nat /\ Len(tasklist) \in Nat
  BY ThreadPoolAssumption, Lengths DEF IInv, TypeOK
<1>4. TypeOK' /\ Len(ran') = Len(ran) + 1
  BY <1>2, <1>3, Queued DEF IInv, TypeOK, Locked
<1>5. Taken = 1 /\ Taken' = 0
  <2>1. pc[w] \in Locked /\ pc'[w] \in Locked /\ pc'[w] # "run"
    BY <1>2 DEF Locked, IInv, TypeOK
  <2>2. \A v \in Workers : pc'[v] # "run"
    BY <1>2, <2>1 DEF IInv, TypeOK, MutualExclusion, Locked
  <2>. QED
    BY <1>2, <2>2 DEF Taken
<1>6. Balance'
  BY <1>2, <1>3, <1>4, <1>5 DEF IInv, Balance
<1>7. data >= Len(ran) + 1
  BY <1>3, <1>5 DEF IInv, Balance, DataCurrent
<1>8. DataNeverOlder'
  <2>. SUFFICES ASSUME NEW k \in 1 .. Len(ran') PROVE ran'[k] >= k
    BY DEF DataNeverOlder
  <2>1. CASE k = Len(ran) + 1
    BY <1>2, <1>3, <1>7, <2>1, Queued
  <2>2. CASE k \in 1 .. Len(ran)
    <3>1. ran'[k] = ran[k]
      BY <1>2, <1>3, <2>2, Queued
    <3>. QED
      BY <2>2, <3>1 DEF IInv, DataNeverOlder
  <2>. QED
    BY <1>3, <1>4, <2>1, <2>2
<1>9. ListWhenNeeded' /\ StoppedWhenEmpty' /\ DataCurrent'
  BY <1>2 DEF IInv, TypeOK, ListWhenNeeded, StoppedWhenEmpty, DataCurrent
<1>. QED
  BY <1>1, <1>4, <1>6, <1>8, <1>9 DEF IInv

\* Main adds its task.
LEMMA AddIInv == IInv /\ (SetData \/ AddTask) => IInv'
<1>. SUFFICES ASSUME IInv, SetData \/ AddTask PROVE IInv'
  OBVIOUS
<1>1. /\ added \in 0 .. TasksNum /\ TasksNum \in Nat /\ tasklist \in Seq(1 .. TasksNum)
      /\ Len(tasklist) \in Nat /\ Len(ran) \in Nat
  BY ThreadPoolAssumption, Lengths DEF IInv, TypeOK
<1>2. CASE SetData
  <2>1. TypeOK'
    BY <1>1, <1>2 DEF IInv, TypeOK, SetData
  <2>2. Balance'
    BY <1>2 DEF IInv, Balance, Taken, SetData
  <2>. QED
    BY <1>1, <1>2, <2>1, <2>2
    DEF IInv, SetData, MutualExclusion, ListWhenNeeded, DataCurrent, StoppedWhenEmpty, DataNeverOlder
<1>3. CASE AddTask
  <2>1. /\ added < TasksNum /\ tasklist' = Append(tasklist, added + 1) /\ added' = added + 1
        /\ main = "add" /\ main' = "signal" /\ UNCHANGED <<data, exit, mutex, pc, ran>>
    BY <1>3 DEF IInv, StoppedWhenEmpty, AddTask
  <2>2. /\ tasklist' \in Seq(1 .. TasksNum) /\ tasklist' # <<>>
        /\ Len(tasklist') = Len(tasklist) + 1
    BY <1>1, <2>1, Queued
  <2>3. TypeOK'
    BY <1>1, <2>1, <2>2 DEF IInv, TypeOK
  <2>4. Taken' = Taken /\ Taken \in {0, 1}
    BY <2>1 DEF Taken
  <2>5. Balance'
    BY <1>1, <2>1, <2>2, <2>4 DEF IInv, Balance
  <2>6. StoppedWhenEmpty'
    BY <2>1 DEF IInv, StoppedWhenEmpty
  <2>. QED
    BY <2>1, <2>2, <2>3, <2>5, <2>6
    DEF IInv, MutualExclusion, ListWhenNeeded, DataCurrent, DataNeverOlder
<1>. QED
  BY <1>2, <1>3

\* Main polls the list, stops the pool and joins the workers.
LEMMA StopIInv == IInv /\ (Poll \/ Stop \/ Join) => IInv'
<1>. SUFFICES ASSUME IInv, Poll \/ Stop \/ Join PROVE IInv'
  OBVIOUS
<1>1. UNCHANGED <<tasklist, data, mutex, pc, added, ran>>
  BY DEF Poll, Stop, Join
<1>2. TypeOK'
  BY DEF IInv, TypeOK, Poll, Stop, Join
<1>3. Balance' /\ MutualExclusion' /\ DataNeverOlder'
  BY <1>1 DEF IInv, Balance, Taken, MutualExclusion, DataNeverOlder
<1>4. exit => exit'
  BY DEF Poll, Stop, Join
<1>5. ListWhenNeeded'
  BY <1>1, <1>4 DEF IInv, ListWhenNeeded
<1>6. DataCurrent'
  BY DEF IInv, DataCurrent, Poll, Stop, Join
<1>7. StoppedWhenEmpty'
  BY <1>1 DEF IInv, StoppedWhenEmpty, Poll, Stop, Join
<1>. QED
  BY <1>2, <1>3, <1>5, <1>6, <1>7 DEF IInv

\* Main wakes workers that wait.
LEMMA WakeIInv == IInv /\ (Signal \/ Broadcast) => IInv'
<1>. SUFFICES ASSUME IInv, Signal \/ Broadcast PROVE IInv'
  OBVIOUS
<1>1. UNCHANGED <<tasklist, data, exit, mutex, added, ran>>
  BY DEF Signal, Broadcast
<1>2. /\ pc' \in [Workers -> Locked \cup {"lock", "waiting", "relock", "exited"}]
      /\ \A w \in Workers : pc'[w] = pc[w] \/ (pc[w] = "waiting" /\ pc'[w] = "relock")
  BY DEF IInv, TypeOK, Signal, Broadcast, Goto, Waiting
<1>3. TypeOK'
  BY <1>1, <1>2 DEF IInv, TypeOK, Signal, Broadcast
<1>4. MutualExclusion' /\ ListWhenNeeded' /\ DataNeverOlder'
  BY <1>1, <1>2 DEF IInv, MutualExclusion, ListWhenNeeded, DataNeverOlder, Locked
<1>5. Taken' = Taken
  BY <1>2 DEF Taken
<1>6. Balance' /\ DataCurrent'
  BY <1>1, <1>5 DEF IInv, Balance, DataCurrent, Signal, Broadcast
<1>7. \A w \in Workers : pc'[w] \in {"unlock_exit", "exited"} => exit
  BY <1>2 DEF IInv, StoppedWhenEmpty
<1>8. StoppedWhenEmpty'
  BY <1>1, <1>7 DEF IInv, StoppedWhenEmpty, Signal, Broadcast
<1>. QED
  BY <1>3, <1>4, <1>6, <1>8 DEF IInv

\* A stuttering step changes nothing.
LEMMA StutterIInv == IInv /\ UNCHANGED vars => IInv'
BY DEF IInv, vars, TypeOK, MutualExclusion, ListWhenNeeded, Balance, Taken, DataCurrent,
   StoppedWhenEmpty, DataNeverOlder

\* Every step preserves the invariant.
LEMMA NextIInv == IInv /\ [Next]_vars => IInv'
<1>. SUFFICES ASSUME IInv, [Next]_vars PROVE IInv'
  OBVIOUS
<1>1. ASSUME NEW w \in Workers, Worker(w) \/ SpuriousWakeup(w) PROVE IInv'
  BY <1>1, MoveIInv, TakeIInv, RunIInv DEF Worker
<1>2. CASE MainThread
  BY <1>2, AddIInv, StopIInv, WakeIInv DEF MainThread
<1>3. CASE UNCHANGED vars
  BY <1>3, StutterIInv
<1>. QED
  BY <1>1, <1>2, <1>3 DEF Next, Terminated

\* Once the workers have left, the tasks were all added, taken and run.
LEMMA AllRun == IInv => PoolRanEverything
<1>. SUFFICES ASSUME IInv, \A w \in Workers : pc[w] = "exited" PROVE Len(ran) = TasksNum
  BY DEF PoolRanEverything
<1>1. exit /\ Taken = 0
  BY ThreadPoolAssumption DEF IInv, StoppedWhenEmpty, Taken
<1>2. added = TasksNum /\ tasklist = <<>>
  BY <1>1 DEF IInv, StoppedWhenEmpty
<1>3. Len(tasklist) = 0 /\ Len(ran) \in Nat
  BY <1>2, Lengths DEF IInv, TypeOK
<1>. QED
  BY <1>1, <1>2, <1>3 DEF IInv, Balance

\* It implies what it was strengthened for.
LEMMA IInvMeans == IInv => TypeOK /\ NoEmptyTake /\ PoolRanEverything /\ DataNeverOlder
BY AllRun DEF IInv, ListWhenNeeded, NoEmptyTake

LEMMA Invariant == Spec => []IInv
BY InitIInv, NextIInv, PTL DEF Spec

-----------------------------------------------------------------------------
(* thread_pool.cpp, main.cpp: the list holds numbers of added tasks, at     *)
(* most max of them, and the mutex one worker at most.                      *)
THEOREM PoolTypeCorrect == Spec => []TypeOK
BY Invariant, IInvMeans, PTL

(* thread_pool.cpp:66-83: no worker reads the front of an empty list.       *)
THEOREM PoolTakesTasks == Spec => []NoEmptyTake
BY Invariant, IInvMeans, PTL

(* main.cpp:45-58 and thread_pool.cpp:113-136: the pool is stopped only     *)
(* when every task was taken, and every taken task is run.                  *)
THEOREM PoolRunsAll == Spec => []PoolRanEverything
BY Invariant, IInvMeans, PTL

(* main.cpp:38-40: the data that the k-th worker prints is that of the k-th *)
(* addition or a later one.                                                 *)
THEOREM PoolDataNeverOlder == Spec => []DataNeverOlder
BY Invariant, IInvMeans, PTL
=============================================================================
