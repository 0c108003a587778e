------------------------------ MODULE Programs ------------------------------
(***************************************************************************)
(* The programs about processes and threads: threads with their locks,     *)
(* conditions and futures; signals (choice 17 of the menu of main.cpp, and *)
(* those of process_signal.cpp); processes with fork, exec, system and     *)
(* popen (choice 1, and those of process_create_fork_exec_system_popen     *)
(* .cpp).  Programs of different kinds share nothing; each is started from *)
(* the menu or a main function of its own.                                 *)
(***************************************************************************)
EXTENDS Integers, Sequences, FiniteSets

CONSTANTS
  Workers,    \* bound: threads of a crowd
  Turns,      \* bound: iterations of a thread's loop
  Goods,      \* goodsmax
  Limit,      \* last value of num_global that goes on
  Every,      \* the waiter waits at the multiples of this
  Queued,     \* bound: how often each signal is queued
  MaxSent,    \* bound: signals the user sends
  MaxLines,   \* bound: inputs the user types
  Codes,      \* exit codes of commands
  SignalNos,  \* numbers of the signals that end a command
  Dumping     \* those of them that may leave a core dump

ASSUME ThreadsAssumption ==
  /\ Workers \in Nat /\ Workers >= 2 /\ {Goods, Limit} \subseteq Nat
  /\ {Turns, Every} \subseteq Nat \ {0}
\* A code has eight bits; WTERMSIG is the low seven, and 127 there means stopped.
ASSUME CodesAssumption == Codes \subseteq 0..255 /\ SignalNos \subseteq 1..126 /\ Dumping \subseteq SignalNos
ASSUME SignalsAssumption == Queued \in Nat /\ MaxSent \in Nat /\ MaxLines \in Nat

VARIABLES process, thread, memory, lock, waiting, handler, reported
Thread == INSTANCE Threads
VARIABLES task, at, life, caught, mask, pending, sent, handled, running, typed, ignored
Signal == INSTANCE Signals
VARIABLES job, number, main, stream, results, forked, sockets
Proc == INSTANCE Processes

threadVars == <<process, thread, memory, lock, waiting, handler, reported>>
signalVars == <<task, at, life, caught, mask, pending, sent, handled, running, typed, ignored>>
procVars == <<job, number, main, stream, results, forked, sockets>>
vars == <<threadVars, signalVars, procVars>>

Init ==
  \/ Thread!Init /\ Signal!NotRun /\ Proc!NotRun
  \/ Thread!NotRun /\ Signal!Init /\ Proc!NotRun
  \/ Thread!NotRun /\ Signal!NotRun /\ Proc!Init

Next ==
  \/ Thread!Next /\ UNCHANGED <<signalVars, procVars>>
  \/ Signal!Next /\ UNCHANGED <<threadVars, procVars>>
  \/ Proc!Next /\ UNCHANGED <<threadVars, signalVars>>

Fairness == Thread!Fairness /\ Signal!Fairness /\ Proc!Fairness

Spec == Init /\ [][Next]_vars /\ Fairness

-----------------------------------------------------------------------------
(* Every variable of the three kinds of program has a value of its kind. *)
TypeOK == Thread!TypeOK /\ Signal!TypeOK /\ Proc!TypeOK

(* Threads: the boss's accounts balance (thread_lock_mutex.cpp:247-283),    *)
(* work is initialised once and before it is used (mutex/06), what joined    *)
(* threads, promises and atomics computed has arrived, and a program dies of *)
(* a signal or a missing exit value only for the order of its own calls      *)
(* (pthread.cpp:189, 231, 240).                                              *)
BooksBalance ==
  Thread!BooksBalance /\ Thread!OnceBeforeUse /\ Thread!ResultsArrive /\ Thread!HowItDies

(* Signals: while the receiver lives realtime signals are handled as often  *)
(* and in the order they were queued, a standard one at least once (process_ *)
(* signal.cpp:429-503, realtime_signal.cpp:368-374), and only a signal that  *)
(* comes before its handler kills.                                           *)
SignalsHandled == Signal!SignalsHandled /\ Signal!SignalsStop

(* Commands (process_create_fork_exec_system_popen.cpp:448-559): popen's    *)
(* list stops at the first that fails; the program then exits with 0 after  *)
(* a code, with the signal's number after a signal (plus 128 with a core    *)
(* dump), and with 255 when pclose failed; system's list goes on; a forked  *)
(* server leaves no connection open but the one whose fork failed (13-46).  *)
FailuresStopTheList == Proc!FailuresStopTheList /\ Proc!SystemRunsAll /\ Proc!ConnectionClosed

(* No program waits for ever for a lock, a condition, a future, a thread or *)
(* a child; process_signal ends once it has handled SIGINT.                 *)
EveryoneEnds ==
  /\ process.demo # "none" => Thread!EveryProgramEnds
  /\ Signal!SignalProgramsEnd
=============================================================================
