------------------------------- MODULE Threads -------------------------------
(***************************************************************************)
(* The threads, locks, conditions, futures and signals that the programs of *)
(* ThreadScripts use, and the runs of these programs.                       *)
(***************************************************************************)
EXTENDS ThreadScripts

VARIABLES
  process,   \* what has become of the process
  thread,    \* what each thread runs, where, and what it holds
  memory,    \* the shared variables
  lock,      \* who holds each lock, and whether it still exists
  waiting,   \* the threads that wait for val_cond
  handler,   \* func_pth_signal is installed
  reported   \* the calls whose errors perr reported

vars == <<process, thread, memory, lock, waiting, handler, reported>>

Fresh(script, kind) ==
  [script |-> script, pc |-> 1, run |-> "runs", kind |-> kind, seen |-> [x \in Names |-> 0],
   rounds |-> 0, left |-> "none", cleanup |-> "none", pending |-> "none"]
Absent == [Fresh(<<>>, "joined") EXCEPT !.run = "absent"]

Quiet ==
  /\ memory = [x \in Names |-> IF x = "goods" THEN Goods ELSE IF x = "cash" THEN 200 ELSE 0]
  /\ lock = [l \in Locks |-> [writer |-> {}, readers |-> {}, exists |-> TRUE]]
  /\ waiting = {} /\ handler = FALSE /\ reported = {}
Init ==
  /\ Quiet
  /\ \E demo \in DOMAIN Mains :
       /\ process = [demo |-> demo, state |-> "runs"]
       /\ thread = [t \in Threads |-> IF t = Main THEN Fresh(Mains[demo], "joined") ELSE Absent]
NotRun ==
  /\ Quiet /\ process = [demo |-> "none", state |-> "done"] /\ thread = [t \in Threads |-> Absent]

-----------------------------------------------------------------------------

Here(t) == thread[t].script[thread[t].pc]
AtEnd(t) == thread[t].pc > Len(thread[t].script)
Running(t) == process.state = "runs" /\ thread[t].run = "runs" /\ t \notin waiting
Does(t, ops) == Running(t) /\ ~AtEnd(t) /\ Here(t).op \in ops

Holds(how, value) ==
  CASE how = "zero" -> value = 0 [] how = "nonzero" -> value # 0
    [] how = "between" -> value % Every # 0 [] how = "within" -> value <= Limit

Move(t, jump) == thread' = [thread EXCEPT ![t].pc = @ + jump]
Become(what) == process' = [process EXCEPT !.state = what]
See(t, x, jump) ==
  thread' = [thread EXCEPT ![t].pc = @ + jump, ![t].seen[x] = memory[x]]
\* The variables that most steps leave alone.
Rest == UNCHANGED <<process, waiting, handler, reported>>

-----------------------------------------------------------------------------
(* Memory and control *)

Control(t) ==
  /\ Does(t, {"add", "read", "store", "if", "loop", "again", "jump", "state", "point"})
  /\ memory' = [x \in Names |->
                  CASE x = Here(t).on /\ Here(t).op = "add" -> memory[x] + Here(t).n
                    [] x = Here(t).on /\ Here(t).op = "store" -> thread[t].seen[x] + 1
                    [] OTHER -> memory[x]]
  /\ CASE Here(t).op = "read" -> See(t, Here(t).on, 1)
       [] Here(t).op = "state" ->
            thread' = [thread EXCEPT ![t].pc = @ + 1,
                         ![t].seen["detached"] = IF thread[t].kind = "detached" THEN 1 ELSE 0]
       [] Here(t).op = "if" ->
            See(t, Here(t).on, IF Holds(Here(t).how, memory[Here(t).on]) THEN Here(t).n ELSE 1)
       [] Here(t).op = "loop" ->
            Move(t, IF Holds(Here(t).how, thread[t].seen[Here(t).on]) THEN Here(t).n ELSE 1)
       [] Here(t).op = "again" ->
            thread' = [thread EXCEPT ![t].rounds = @ + 1,
                         ![t].pc = @ + IF thread[t].rounds + 1 < Turns THEN Here(t).n ELSE 1]
       [] Here(t).op = "jump" -> Move(t, Here(t).n)
       [] OTHER -> Move(t, 1)
  /\ Rest /\ UNCHANGED lock

-----------------------------------------------------------------------------
(* Locks, conditions and futures *)

Free(l, how) == lock[l].writer = {} /\ (how = "read" \/ lock[l].readers = {})

Acquire(t) ==
  /\ Does(t, {"lock", "try"}) /\ Free(Here(t).on, Here(t).how)
  /\ lock' = IF Here(t).how = "read" THEN [lock EXCEPT ![Here(t).on].readers = @ \cup {t}]
             ELSE [lock EXCEPT ![Here(t).on].writer = {t}]
  /\ Move(t, 1) /\ Rest /\ UNCHANGED memory

TimedOut(t) ==
  /\ Does(t, {"try"}) /\ ~Free(Here(t).on, Here(t).how)
  /\ Move(t, Here(t).n) /\ Rest /\ UNCHANGED <<memory, lock>>

Without(l, t) == [lock EXCEPT ![l].writer = @ \ {t}, ![l].readers = @ \ {t}]
Release(t) ==
  /\ Does(t, {"unlock"}) /\ lock' = Without(Here(t).on, t)
  /\ Move(t, 1) /\ Rest /\ UNCHANGED memory

\* The destruction of a lock in use is refused.
DestroyLock(t) ==
  /\ Does(t, {"destroy"}) /\ Move(t, 1)
  /\ IF Free(Here(t).on, "write")
     THEN lock' = [lock EXCEPT ![Here(t).on].exists = FALSE] /\ UNCHANGED reported
     ELSE reported' = reported \cup {"destroy"} /\ UNCHANGED lock
  /\ UNCHANGED <<process, memory, waiting, handler>>

WaitCondition(t) ==
  /\ Does(t, {"wait"}) /\ waiting' = waiting \cup {t} /\ lock' = Without(Here(t).on, t)
  /\ Move(t, 1) /\ UNCHANGED <<process, memory, handler, reported>>

\* pthread_cond_signal, and a spurious wake-up
SignalCondition(t) ==
  /\ Does(t, {"signal"}) /\ Move(t, 1)
  /\ IF waiting = {} THEN UNCHANGED waiting ELSE \E w \in waiting : waiting' = waiting \ {w}
  /\ UNCHANGED <<process, memory, lock, handler, reported>>
WakeSpuriously ==
  /\ process.state = "runs" /\ \E w \in waiting : waiting' = waiting \ {w}
  /\ UNCHANGED <<process, thread, memory, lock, handler, reported>>

CallOnce(t) ==
  /\ Does(t, {"once"}) /\ memory[Here(t).on] # 1
  /\ memory' = [memory EXCEPT ![Here(t).on] = IF @ = 0 THEN 1 ELSE @]
  /\ Move(t, IF memory[Here(t).on] = 0 THEN 1 ELSE Here(t).n) /\ Rest /\ UNCHANGED lock

GetFuture(t) ==
  /\ Does(t, {"get"}) /\ memory[Here(t).on] # 0
  /\ See(t, Here(t).on, 1) /\ Rest /\ UNCHANGED <<memory, lock>>

-----------------------------------------------------------------------------
(* Threads *)

\* A thread starts, or an async function runs in its caller: in get.
Start(t) ==
  /\ Does(t, {"spawn", "async"})
  /\ \/ thread' = [thread EXCEPT ![t].pc = @ + 1, ![Here(t).n] =
                     Fresh(Code[Here(t).on], IF Here(t).op = "spawn" THEN Here(t).how ELSE "joinable")]
     \/ /\ Here(t).op = "async"
        /\ thread' = [thread EXCEPT ![t].pc = 1, ![t].script = Code[Here(t).on] \o Tail(@)]
  /\ Rest /\ UNCHANGED <<memory, lock>>

\* To join a thread that detached itself is undefined: join returns, or the
\* thread is gone and its descriptor is read.
JoinThread(t) ==
  /\ Does(t, {"join"})
  /\ LET i == Here(t).n IN
     \/ /\ thread[i].run = "ended" \/ thread[i].kind = "detached"
        /\ thread' = [thread EXCEPT ![t].pc = @ + 1,
                        ![i].kind = IF @ = "joinable" THEN "joined" ELSE @]
        /\ UNCHANGED process
     \/ /\ thread[i].run = "ended" /\ thread[i].kind = "detached"
        /\ Become("undefined") /\ UNCHANGED thread
  /\ UNCHANGED <<memory, lock, waiting, handler, reported>>

DetachThread(t) ==
  /\ Does(t, {"detach"})
  /\ thread' = [thread EXCEPT ![t].pc = @ + 1, ![IF Here(t).n = Main THEN t ELSE Here(t).n].kind = "detached"]
  /\ Rest /\ UNCHANGED <<memory, lock>>

EndsProcess(t) ==
  IF (t = Main /\ AtEnd(t)) \/ \A u \in Threads \ {t} : thread[u].run # "runs"
  THEN Become("done") ELSE UNCHANGED process
\* The thread ends; the process ends with main's return, or with its last thread.
End(t, left) ==
  /\ thread' = [thread EXCEPT ![t].run = "ended", ![t].left = left]
  /\ EndsProcess(t)
\* pthread_exit and a cancellation run the cleanup handler that is installed.
fun_clear(cleanup) == IF cleanup = "installed" THEN "ran" ELSE cleanup
ExitThread(t) ==
  /\ thread' = [thread EXCEPT ![t].run = "ended", ![t].left = "null", ![t].cleanup = fun_clear(@)]
  /\ EndsProcess(t)
Finish(t) ==
  /\ \/ Does(t, {"return"}) /\ End(t, Here(t).on)
     \/ Does(t, {"exit"}) /\ ExitThread(t)
     \/ Running(t) /\ AtEnd(t) /\ End(t, "null")
  /\ UNCHANGED <<memory, lock, waiting, handler, reported>>

-----------------------------------------------------------------------------
(* Signals and cancellation *)

Settings(t) ==
  /\ Does(t, {"handle", "push", "pop"})
  /\ handler' = (handler \/ Here(t).op = "handle")
  /\ thread' = [thread EXCEPT ![t].pc = @ + 1,
                  ![t].cleanup = CASE Here(t).op = "push" -> "installed"
                                   [] Here(t).op = "pop" -> "popped" [] OTHER -> @]
  /\ UNCHANGED <<process, memory, lock, waiting, reported>>

\* pthread_kill(pid, 0) and perr
ProbeThread(t) ==
  /\ Does(t, {"probe"})
  /\ IF thread[Here(t).n].run = "runs" THEN Move(t, 1) /\ UNCHANGED reported
     ELSE Move(t, 2) /\ reported' = reported \cup {"probe"}
  /\ UNCHANGED <<process, memory, lock, waiting, handler>>

\* pthread_kill(pid, SIGQUIT), pthread_cancel(pid)
Send(t) ==
  /\ Does(t, {"kill", "cancel"})
  /\ thread' = [thread EXCEPT ![t].pc = @ + 1, ![Here(t).n].pending = Here(t).op]
  /\ Rest /\ UNCHANGED <<memory, lock>>

\* func_pth_signal ends the thread; without a handler SIGQUIT ends the process.
Deliver(t) ==
  /\ process.state = "runs" /\ thread[t].run = "runs" /\ thread[t].pending = "kill"
  /\ IF handler THEN ExitThread(t) ELSE Become("killed") /\ UNCHANGED thread
  /\ UNCHANGED <<memory, lock, waiting, handler, reported>>

\* Only at a cancellation point
ActOnCancel(t) ==
  /\ Does(t, {"point"}) /\ thread[t].pending = "cancel" /\ ExitThread(t)
  /\ UNCHANGED <<memory, lock, waiting, handler, reported>>

\* *((int *)val_exit)
ReadValue(t) ==
  /\ Does(t, {"use_value"})
  /\ IF thread[Here(t).n].left = "value" THEN Move(t, 1) /\ UNCHANGED process
     ELSE Become("crashed") /\ UNCHANGED thread
  /\ UNCHANGED <<memory, lock, waiting, handler, reported>>

-----------------------------------------------------------------------------

Thread(t) ==
  \/ Control(t) \/ Acquire(t) \/ TimedOut(t) \/ Release(t) \/ DestroyLock(t) \/ WaitCondition(t)
  \/ SignalCondition(t) \/ CallOnce(t) \/ GetFuture(t) \/ Start(t) \/ JoinThread(t)
  \/ DetachThread(t) \/ Finish(t) \/ Settings(t) \/ ProbeThread(t) \/ Send(t) \/ Deliver(t)
  \/ ActOnCancel(t) \/ ReadValue(t)

Next == WakeSpuriously \/ \E t \in Threads : Thread(t)

\* Threads go on, and sleep between two turns: a lock is not kept from a
\* thread that asks for it again and again.
Fairness == \A t \in Threads : WF_vars(Thread(t)) /\ SF_vars(Acquire(t))

Spec == Init /\ [][Next]_vars /\ Fairness

-----------------------------------------------------------------------------
(* Properties *)

TypeOK ==
  /\ process.demo \in DOMAIN Mains \cup {"none"}
  /\ process.state \in {"runs", "done", "killed", "crashed", "undefined"}
  /\ \A t \in Threads :
       /\ thread[t].pc \in 1..Len(thread[t].script) + 1
       /\ thread[t].run \in {"absent", "runs", "ended"}
       /\ thread[t].kind \in {"joinable", "detached", "joined"}
       /\ thread[t].left \in {"none", "value", "null"} /\ thread[t].rounds \in 0..Turns
  /\ memory \in [Names -> Nat] /\ memory["goods"] <= Goods
  /\ \A l \in Locks : lock[l].writer \subseteq Threads /\ lock[l].readers \subseteq Threads
  /\ waiting \subseteq Threads /\ handler \in BOOLEAN /\ reported \subseteq {"destroy", "probe"}

\* Whenever the boss has done his accounts (thread_lock_mutex.cpp:262-278),
\* the cash he saw is the price of the goods he saw missing; the lock is
\* destroyed when nobody can use it any more.
BooksBalance ==
  /\ process.demo \in {"sell", "sell_rw"} /\ thread[2].pc \in 4..6 =>
       thread[2].seen["cash"] = 200 + 10 * (Goods - thread[2].seen["goods"])
  /\ ~lock["lock_VAL"].exists => memory["goods"] = 0 /\ thread[1].pc \notin 2..5
  /\ "destroy" \notin reported

\* One thread initialises, and nobody passes before it is done (03_call_once,
\* 06_double_checked_locking.cpp:21-29); the lines of two Counters never mix.
OnceBeforeUse ==
  /\ memory["resources"] <= 1 /\ memory["inside"] <= 1
  /\ \A t \in Threads :
       process.demo \in {"call_once", "double_checked"} /\ thread[t].run = "ended" /\ t # Main
         => thread[t].seen["resources"] = 1

\* What main finds when its threads are joined: every increment if they are
\* atomic, fewer if they are not, but two at least; the value of a future is
\* there when get returns; the variables of a joined thread are visible.
Expected == Workers * Turns
ResultsArrive ==
  /\ process.state = "done" =>
       /\ process.demo \in {"atomic", "optimal"} => memory["counter"] = Expected
       /\ process.demo = "plain" => memory["counter"] \in (IF Turns > 1 THEN 2 ELSE 1)..Expected
       /\ process.demo \in {"async_error", "exceptions"} => thread[Main].seen["error"] = 1
       /\ process.demo = "shared_future" => \A t \in {1, 2} : thread[t].seen["promise"] = 42
       /\ process.demo = "cpp_thread" => thread[Main].seen["num"] = 1
  /\ \A t \in Threads : thread[t].kind = "joined" => thread[t].run # "runs" \/ t = Main

\* Which way a program of pthread.cpp dies: SIGQUIT before the handler is
\* installed kills it (189, 231); a thread that the handler ended has no exit
\* value to print (184, 240); joining a thread that detached itself is
\* undefined (315, 339); nothing else ends it early.  However a thread ends,
\* its cleanup handler (fun_clear) has run or was removed.
HowItDies ==
  /\ process.state = "killed" => ~handler /\ thread[1].pending = "kill"
  /\ process.state = "crashed" => handler /\ thread[1].pending = "kill" /\ thread[1].left = "null"
  /\ process.state = "undefined" => thread[1].kind = "detached" /\ process.demo = "pthread"
  /\ \A t \in Threads : thread[t].run = "ended" => thread[t].cleanup # "installed"

\* Nobody waits for ever for a lock, a condition, a future or a thread: the
\* last value of num_global is not one the waiter sleeps at.
EveryProgramEnds == <>(process.state # "runs")
=============================================================================
