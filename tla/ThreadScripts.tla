---------------------------- MODULE ThreadScripts ----------------------------
(***************************************************************************)
(* The programs of thread_C++/ and thread_POSIX/pthread.cpp that start      *)
(* threads on shared variables.  A function of the source is a script of    *)
(* steps, each one atomic call or memory access; a program is the script of *)
(* its main function.  The jumps are relative.  Times of sleeping are left  *)
(* out: no step waits for another one but through a lock, a condition, a    *)
(* future or a join.                                                        *)
(***************************************************************************)
EXTENDS Integers, Sequences, FiniteSets

CONSTANTS
  Workers,  \* bound: threads of a crowd (3, 5 or 10 in the programs)
  Turns,    \* bound: iterations of a thread's loop
  Goods,    \* goodsmax
  Limit,    \* last value of num_global that goes on (100)
  Every     \* the waiter waits at the multiples of this (10)

Main == 0
Threads == 0..Workers
Locks == {"lock_VAL", "val_mutex", "gMutex", "sMutex", "mut1", "mut2"}
Names == {"goods", "cash", "num", "counter", "gInitialized", "resources", "inside",
          "promise", "started1", "started2", "error", "detached"}

-----------------------------------------------------------------------------
(* Steps *)

Step(op, on, how, n) == [op |-> op, on |-> on, how |-> how, n |-> n]
Lock(l) == Step("lock", l, "write", 0)
Rdlock(l) == Step("lock", l, "read", 0)
TryFor(l, jump) == Step("try", l, "write", jump)   \* jumps when it timed out
Unlock(l) == Step("unlock", l, "none", 0)
Destroy(l) == Step("destroy", l, "none", 0)
Wait(l) == Step("wait", l, "none", 0)                  \* releases l; a Lock(l) follows
Signal == Step("signal", "none", "none", 0)
Add(x, n) == Step("add", x, "none", n)
Read(x) == Step("read", x, "none", 0)                  \* into the thread's own copy
Store(x) == Step("store", x, "none", 1)                \* the own copy and one
If(x, how, jump) == Step("if", x, how, jump)       \* reads and tests
Loop(x, how, jump) == Step("loop", x, how, jump)   \* tests the own copy
Again(jump) == Step("again", "none", "none", jump)         \* counts Turns rounds
Jump(jump) == Step("jump", "none", "none", jump)
Once(x, jump) == Step("once", x, "none", jump)         \* jumps when done by another
Get(x) == Step("get", x, "none", 0)                    \* waits for a promise
Async(f, i) == Step("async", f, "none", i)
Spawn(i, f) == Step("spawn", f, "joinable", i)
SpawnDetached(i, f) == Step("spawn", f, "detached", i)
Join(i) == Step("join", "none", "none", i)
Detach(i) == Step("detach", "none", "none", i)             \* 0: the thread itself
State == Step("state", "detached", "none", 0)
Handle == Step("handle", "none", "none", 0)                \* signal(SIGQUIT, func_pth_signal)
Push == Step("push", "none", "none", 0)
Pop == Step("pop", "none", "none", 0)
Point == Step("point", "none", "none", 0)                  \* a cancellation point
Probe(i) == Step("probe", "none", "none", i)                 \* pthread_kill(.., 0): skips a step if gone
Kill(i) == Step("kill", "none", "none", i)
Cancel(i) == Step("cancel", "none", "none", i)
Return(v) == Step("return", v, "none", 0)              \* "value", "null"
UseValue(i) == Step("use_value", "none", "none", i)
Exit == Step("exit", "none", "none", 0)                    \* pthread_exit(nullptr)

SpawnAll(f) == [i \in 1..Workers |-> Spawn(i, f)]
JoinAll == [i \in 1..Workers |-> Join(i)]

-----------------------------------------------------------------------------
(* Locks and conditions *)

\* Wrong on purpose: the loop tests the number of goods from before the sale.
SellingTooMuch ==
  <<Read("goods"), Lock("lock_VAL"), Add("goods", -1), Add("cash", 10), Unlock("lock_VAL"),
    Loop("goods", "nonzero", -5)>>
mythread_Buddy_selling ==
  <<If("goods", "zero", 6), Lock("lock_VAL"), Add("goods", -1), Add("cash", 10),
    Unlock("lock_VAL"), Jump(-5)>>
\* Wrong on purpose: the boss does not lock.
BossWithoutLock ==
  <<Jump(1), Read("goods"), Read("cash"), Jump(1), Loop("goods", "nonzero", -4), Destroy("lock_VAL")>>
mythread_Boss_reconciliation ==
  <<Lock("lock_VAL"), Read("goods"), Read("cash"), Unlock("lock_VAL"),
    Loop("goods", "nonzero", -4), Destroy("lock_VAL")>>
mythread_sell ==
  <<Spawn(1, "mythread_Buddy_selling"), Detach(1),
    Spawn(2, "mythread_Boss_reconciliation"), Detach(2)>>

mythread_Buddy_selling_rw ==
  <<If("goods", "zero", 6), Lock("lock_VAL"), Add("goods", -1), Add("cash", 10),
    Unlock("lock_VAL"), Jump(-5)>>
mythread_Boss_reconciliation_rw ==
  <<Rdlock("lock_VAL"), Read("goods"), Read("cash"), Unlock("lock_VAL"),
    Loop("goods", "nonzero", -4), Destroy("lock_VAL")>>
mythread_sell_rw ==
  <<Spawn(1, "mythread_Buddy_selling_rw"), Detach(1),
    Spawn(2, "mythread_Boss_reconciliation_rw"), Detach(2)>>

\* Wrong on purpose: without pthread_cond_signal.
CountSilently ==
  <<Lock("val_mutex"), Add("num", 1), Jump(1), Read("num"), Unlock("val_mutex"),
    Loop("num", "within", -5)>>
mythread_cond_01_seed ==
  <<Lock("val_mutex"), Add("num", 1), Signal, Read("num"), Unlock("val_mutex"),
    Loop("num", "within", -5)>>
mythread_cond_02_seed ==
  <<Lock("val_mutex"), If("num", "between", 3), Wait("val_mutex"), Lock("val_mutex"),
    Read("num"), Unlock("val_mutex"), Loop("num", "within", -6)>>
mythread_cond ==
  <<Spawn(1, "mythread_cond_01_seed"), Detach(1), Spawn(2, "mythread_cond_02_seed"), Detach(2)>>

multiple_locks == <<Lock("mut1"), Lock("mut2"), Unlock("mut2"), Unlock("mut1")>>
scoped_lock == <<Lock("mut1"), Lock("mut2"), Unlock("mut2"), Unlock("mut1")>>

\* Once marks the work as begun, the second Add as done.
call_once ==
  <<Once("gInitialized", 3), Add("resources", 1), Add("gInitialized", 1), Read("resources")>>
double_checked ==
  <<If("gInitialized", "nonzero", 6), Lock("gMutex"), If("gInitialized", "nonzero", 3),
    Add("resources", 1), Add("gInitialized", 1), Unlock("gMutex"), Read("resources")>>
Counter_mutex ==
  <<Lock("sMutex"), Add("inside", 1), Add("inside", -1), Unlock("sMutex"), Again(-4)>>
Counter_timed ==
  <<TryFor("sMutex", 4), Add("inside", 1), Add("inside", -1), Unlock("sMutex"), Again(-4)>>

-----------------------------------------------------------------------------
(* Counters, futures, threads and their results *)

increment == <<Read("counter"), Store("counter"), Again(-2)>>
increment_atomic == <<Add("counter", 1), Again(-1)>>
increment_optimal == <<Add("counter", Turns)>>

DoWork == <<Add("promise", 42)>>
promise_future == <<Spawn(1, "DoWork"), Get("promise"), Join(1)>>
packaged_task == <<Spawn(1, "DoWork"), Get("promise"), Join(1)>>
\* async(calculate) runs in another thread, or here in get.
async == <<Async("DoWork", 1), Get("promise")>>
calculate_throws == <<Add("error", 1), Add("promise", 1)>>
async_error == <<Spawn(1, "calculate_throws"), Get("promise"), Read("error"), Join(1)>>
function1 == <<Add("started1", 1), Get("promise")>>
function2 == <<Add("started2", 1), Get("promise")>>
shared_future ==
  <<Spawn(1, "function1"), Spawn(2, "function2"), Get("started1"), Get("started2"),
    Add("promise", 42), Join(2), Join(1)>>

threadFunc == <<Add("error", 1)>>
doWorkInThread == <<Spawn(1, "threadFunc"), Join(1), Read("error")>>

thread_one == <<Point>>
thread_multiParameter == <<Point>>
mythread_join ==
  SpawnAll("thread_one") \o JoinAll \o <<Spawn(1, "thread_multiParameter"), Join(1)>>
thread_one_move == <<Read("num"), Store("num")>>
thread_join_move == <<Spawn(1, "thread_one_move"), Join(1), Read("num")>>
thread_none == <<Point, Point>>
thread_join_to_detach == <<Spawn(1, "thread_none"), Detach(1)>>

\* Threads from a function, function objects, a lambda and a member function
counter == <<Point, Again(-1)>>
thread_function == <<Spawn(1, "counter"), Spawn(2, "counter"), Join(1), Join(2)>>
function_objects == SpawnAll("counter") \o JoinAll
thread_lambda == <<Spawn(1, "counter"), Join(1)>>
member_function == <<Spawn(1, "thread_one"), Join(1)>>

-----------------------------------------------------------------------------
(* pthread.cpp *)

mypthread_seed_args == <<Read("num"), Store("num"), Return("null")>>
mypthread_join_args == <<Spawn(1, "mypthread_seed_args"), Join(1)>>
mypthread_seed_join_signal ==
  <<Handle, Point, Push, Point, Again(-1), Pop, Return("value")>>
mypthread_join_signal ==
  <<Spawn(1, "mypthread_seed_join_signal"), Probe(1), Kill(1), Join(1), UseValue(1)>>
mypthread_join_cancel ==
  <<Spawn(1, "mypthread_seed_join_signal"), Probe(1), Cancel(1), Join(1)>>
mythread_seed_join_detach == <<Push, State, Detach(0), State, Exit>>
mypthread_join_detach == <<Spawn(1, "mythread_seed_join_detach"), Join(1)>>
mythread_seed_detach == <<State, Return("null")>>
mypthread_detach == <<SpawnDetached(2, "mythread_seed_detach")>>

-----------------------------------------------------------------------------

Code ==
  [mythread_Buddy_selling |-> mythread_Buddy_selling,
   mythread_Boss_reconciliation |-> mythread_Boss_reconciliation,
   mythread_Buddy_selling_rw |-> mythread_Buddy_selling_rw,
   mythread_Boss_reconciliation_rw |-> mythread_Boss_reconciliation_rw,
   mythread_cond_01_seed |-> mythread_cond_01_seed,
   mythread_cond_02_seed |-> mythread_cond_02_seed,
   call_once |-> call_once, double_checked |-> double_checked,
   Counter_mutex |-> Counter_mutex, Counter_timed |-> Counter_timed,
   increment |-> increment, increment_atomic |-> increment_atomic,
   increment_optimal |-> increment_optimal, DoWork |-> DoWork,
   calculate_throws |-> calculate_throws, function1 |-> function1, function2 |-> function2,
   threadFunc |-> threadFunc, counter |-> counter, thread_one |-> thread_one,
   thread_multiParameter |-> thread_multiParameter, thread_one_move |-> thread_one_move,
   thread_none |-> thread_none, mypthread_seed_args |-> mypthread_seed_args,
   mypthread_seed_join_signal |-> mypthread_seed_join_signal,
   mythread_seed_join_detach |-> mythread_seed_join_detach,
   mythread_seed_detach |-> mythread_seed_detach]

\* The main functions: a crowd is started and joined.
Crowd(f) == SpawnAll(f) \o JoinAll
objects_with_mutex == Crowd("Counter_mutex")
objects_with_timed_mutex == Crowd("Counter_timed")
crowd_atomic == Crowd("increment_atomic")
crowd_optimal == Crowd("increment_optimal")
Mains ==
  [sell |-> mythread_sell \o <<Exit>>, sell_rw |-> mythread_sell_rw \o <<Exit>>,
   cond |-> mythread_cond \o <<Exit>>,
   locks |-> multiple_locks \o scoped_lock,
   call_once |-> Crowd("call_once"), double_checked |-> Crowd("double_checked"),
   guard |-> objects_with_mutex, timed |-> objects_with_timed_mutex,
   plain |-> Crowd("increment"), atomic |-> crowd_atomic, optimal |-> crowd_optimal,
   function |-> thread_function, objects |-> function_objects,
   lambda |-> thread_lambda, member |-> member_function,
   futures |-> promise_future, packaged_task |-> packaged_task, async |-> async,
   async_error |-> async_error, shared_future |-> shared_future,
   exceptions |-> doWorkInThread,
   cpp_thread |-> mythread_join \o thread_join_move \o thread_join_to_detach \o <<Exit>>,
   pthread |-> mypthread_join_args \o mypthread_join_signal \o mypthread_join_cancel
                 \o mypthread_join_detach \o mypthread_detach \o <<Exit>>]
=============================================================================
